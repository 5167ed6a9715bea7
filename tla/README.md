# ConfigWire in TLA+

This directory models the parts of ConfigWire whose correctness depends on the
order in which things happen: the release engine and its stream, event ingest
and its cache, the retention purge and the statistics read beside it, the
superuser accounts, and the admin page, which keeps drafts of its own and is
answered late. TLC checks the
models on small instances; TLAPS proves central invariants for every value of
the constants.

    tlc -workers 2 -config MCReleases.cfg MCReleases
    tlapm ReleasesProofs.tla

`PROJECT.json` names, for every definition, the lines of the code it stands
for, the runs with their properties, and for every property a mutant: a
plausible bug, written as an operator beside the definition it replaces, under
which TLC finds the property violated.

## 1. The system

ConfigWire is one Go binary on PocketBase (SQLite, its data API, hooks,
superuser auth) with a static admin UI in `pb_public`. SDK clients fetch the
newest release of an environment with an SDK key, listen to a stream of
updates, and post events. Admins edit flags, rules and experiments through the
data API and publish, roll back or promote releases.

| component (code) | state | operations | hard behaviour | what makes it correct |
|---|---|---|---|---|
| release engine (`releases/handler.go`, hooks in `main.go`) | `releases` rows, one mutex a process | publish, rollback, promote; deletes | two requests, two processes, deletes and crashes between read and insert | versions 1..n without gap or repeat, append only; one base wins once; answers true |
| snapshot builder (`releases/snapshot.go`) | none; reads flags, rules, experiments | BuildSnapshot, ValidateSnapshot, etag | several reads without a transaction | what is served validates; nothing older than the previous release |
| environment resolution (`envresolve`) | none | slug (+ project) to environment | ambiguous slugs, deletes | one environment or an error |
| stream (`stream`) | subscriber lists, slots per key | connect, notify, leave | slow readers, bounded channels, connections that end while being sent to | order, only committed versions, no slot or subscription left behind |
| config fetch (`fetch`) | none; client keeps an etag | fetch, 304, evaluated fetch | releases between polls | never back, 304 means current, ends on the newest |
| ingest batcher (`ingest/batcher.go`) | channel, flusher buffer | post, flush, chunks, row fallback, stop | bounded channel, failing rows, shutdown, resend after 503 | never blocks, all or nothing, counted once, shutdown drains |
| flag id cache (`ingest/flagcache*.go`) | map with expiry | lookup, evict on hooks | read, eviction, store | wrong for one TTL at most, bounded |
| SDK keys (`ingest/ingest.go`, `keyenv.go`, `keys_admin.go`) | key rows, key cache, slow-path slots | authenticate, mint, revoke | check-then-mint, cache after revoke, saturation | revoked keys stop at once, cap per environment, saturation is never 401 |
| retention (`retention`) | windows in memory, one row | PUT, restart, edits of the row | read-merge-write-apply without a lock | rollups outlive raw rows |
| purge (`purge`) | `events`, `event_daily` | scrub, roll up, sweep; ticker and route | pages, two runs, crash between pages, settings changing | nothing lost early, nothing counted twice, old data goes |
| statistics (`stats`) | none; reads two collections | windowed totals, series | reads torn by a purge, day borders | counted once |
| log store (`logstore`, `logx`) | `server_logs`, settings | write filter, count, purge | as retention | window and level respected |
| limits (`limits`) | windows per key and address, settings row | allow, PUT | fixed windows, PUT as in retention | budget per second, memory equals row |
| accounts, sessions (`account`) | superusers, buckets | setup, delete, throttle | first setup twice, last superuser | one first account, never none |
| SSO (`sso`) | nonce cache | redeem | replay around expiry | a ticket is redeemed once |
| evaluation (`eval`, `identity`, `flagkey`) | none | Evaluate, Assign, bucket | bounds of basis points | first match, totals 10000, stable bucket |
| backups environment (`backups`) | none | which settings are locked | | environment wins over stored |
| record hooks (`main.go`, `migrations`) | two mutexes | slug, key and last-environment guards, cascades | check-then-save | uniqueness, no half delete |
| admin UI, drafts (`drafts.js`, `releases.js`, `flags.js`, dialogs) | drafts in memory and in localStorage, loaded lists | stage, coalesce, discard, apply, publish, roll back, promote | lost requests, lists reloaded during a run, 409, reload, environment switch | what is published is what was shown; no draft goes unconfirmed |
| admin UI, scope (`core.js`, `scope.js`, `router.js`) | selection, generation, address, lists | navigate, switch, create, rename, delete | late answers | a page at rest is of one piece |
| admin UI, session (`auth.js`, `account.js`) | belief to be signed in, mode | boot, log in and out, setup, accounts, ticket | cookie changed elsewhere, answers of the session before | one surface, the right one |
| admin UI, transfer (`transfer.js`) | a file, a snapshot, drafts | export, import, view | drafts already there, equal keys and names | export after import is the file |
| admin UI, editors (`rules.js`, `flags.js`, `experiments.js`, `json-editor.js`) | text and rows of one dialog | type, add, remove, save | two representations, rounding | only valid records are staged |
| admin UI, panels (`backups.js`, `limits.js`, `keys.js`, `logs.js`) | fields of a card, what was loaded | load, edit, check, save | background check, two cards over one object, lost answers | a card at rest shows what the server has |

How they meet: the release hook calls the hub while the handler holds the
release mutex; the stream and the fetch read the rows the engine writes; the
batcher writes the rows the purge consumes; the purge and the statistics share
`events`, `event_daily` and the retention windows; record hooks evict the key
and flag caches after commit. The admin page talks to the data API for records
and to the release routes for publishing; its modules share one state object
(`CW.state`): the selected project and environment, the loaded lists and the
drafts.

## 2. The modules

### Releases (with EnvResolve, ReleaseLog)

`Releases` models every handler of `releases/handler.go` as a process with a
program counter; a step is what happens between two accesses to shared state.
`Acquire` and `Answer` are `writeMu`, one mutex a process. The comment at
`handler.go:32-33` leaves several processes out of scope, `mapVersionConflict`
handles the conflict they cause, so the model has several processes on one
data file. The insert is a validation of the environment relation followed by
the write, without a transaction over both (PocketBase, external), so a row
can outlive an environment deleted in between; only a superuser can remove it.
The etag is an injective function of version and bytes. Two resolutions of
promote are one step, and experiments are read with rules. Bad rules (a rule or
an empty flag set) stand for everything ValidateSnapshot refuses.

`ReleaseLog` is the promise: for each environment a log that only grows by one
row or disappears with its environment. `Releases` implements it
(`ImplementsReleaseLog`) under the mapping of its rows to the log.

### StreamHub and ReleaseStream

`StreamHub` is `stream/hub.go` and the connection of `stream/stream.go`: slots,
subscriptions, the copy of the list, the non-blocking send into a channel of
`ChanCap` updates, every way a connection ends. `ReleaseStream` composes
`Releases`, the hub and a polling client: the release hook's fan-out is a part
of the insert, under the mutex. Connecting is not guarded by a live environment,
the check of the key lies before it. A fetch that fails (429, a failing read, a
corrupt row) is not modelled: the client polls again.

### IngestBatcher

Admission under `admitMu`, the channel, the flusher with its ticker, chunks
with the row-by-row fallback, Stop and drain. A client resends after 503 only.
Which rows a save refuses is fixed at Init. New posts end with Stop (the HTTP
server is shut down first, external); handlers already admitted may still
enqueue after the drain.

### FlagCache

A lookup is split at the database read: the cache get, the read, the put.
Hooks evict after the write committed; a failing read is cached as unknown.
Time does not pass between a lookup's read and its put.

### Retention, Purge, Stats

`Retention` is `retention.go` and the PUT of `api.go`: read and merge, write
the row, apply, as three steps; edits of the row by a superuser, which memory
does not follow until `Restart`. The first start's seed of the row succeeds. A
stored window above the plan's ceiling is pulled down to it, one out of every range
is replaced by the default, whatever the ceiling (section 5).

`Purge` counts time in ticks, `DayLen` a day. An event keeps its timestamp;
a daily row is kept as the bag of the events its counters count, so
`daily[e] = 2` says that the counters are one too high because of `e`. A run goes
through scrub, raw pages, the second read of the settings, and daily pages,
each page by the `(time, id)` cursor. Pages of raw events are read in one step
and committed in another, because rolling up a stale page is not idempotent;
deleting a row that is gone is no error (PocketBase, external). Scrub and sweep
do the same whoever touched the row, so their page is one step. Not modelled:
the dry run, the purge of the server log after it, events without a timestamp.

`Stats` is one query of `stats.go`: windows fixed once, then two reads. The days
a query names are clamped to the rollup window, the default of a query that names
none is not (section 5). The
answer is kept per event, so counting twice and not counting are visible. The
series of the answer splits the same counts by day and is not modelled.

### Accounts

`Accounts` is the server's side of `account/*.go`: the rows of `_superusers`,
`accountMu`, and the tokens that were handed out. A handler is a process whose
steps are its accesses to the database; setup and both ways of deleting (the
endpoint with its fast path, PocketBase itself) meet in the mutex, creates and
password changes do not take it. PocketBase signs a token with a key of the
row and draws a new one with each password; its own guard of the last superuser
refuses nothing the hook has not, so it is left out, as is the placeholder
account (`main.go:534` turns the installer off). A row that was deleted is not
brought back by a late save. Not modelled: throttle, setup token, cookie and
token age, SSO.

### The admin page: Drafts, FlagTables, PublishFlow

`Drafts` is the draft store, as operators from a browser to a browser: buckets
in memory, one saved bucket an environment, staging with its coalescing, the
net-zero suppression, temp ids, and the merged lists. `FlagTables` is what the
tables, folders and the list of changes show of it. `PublishFlow` is the page
over both: everything that can be staged, the apply run with one request a step
(refused, lost before or after the server acted), the release, the background
lists with their generations, rollback and promote, environment switches and
reloads. The map from temp ids to ids (`tempMap`), the order of kinds and the
sharing of entry objects between a run and the buckets are those of the code. A
list answer is the server's at the request or at the delivery. Flag values
and rule contents are two values, names are few; one tab, one project.

### The admin page: scope, session, transfer

`AdminScope` has the whole page as one record and every function of the code as
an operator from a page to a page; an action is a click or an answer. Requests
carry whether the scope generation is still theirs; only the loaders that look
at it drop stale answers. `AdminSession` adds the cookie the page cannot
read, and what other pages and the server do to it. `AdminTransfer` builds,
parses, validates, imports and compares snapshots over `Drafts`; texts are
records, so JSON syntax is a flag "good".

### The admin page: editors and panels

`RuleEditor` keeps a condition as text and as rows, as the dialog does;
`FlagForms` the default of a flag and the variants of an experiment, with
weights in thousandths of a percent, one digit finer than the code keeps, so
that rounding is visible, and with the cut of an experiment that has more variants than
the dialog has rows. `AdminBackups` is the guided bucket setup with its
background check, `BackupSchedule` the schedule and its helper dialog,
`AdminLimits` the two cards over the one limits object with addresses of a few
bits, entries that are no address, and a server that refuses those and rates above
its plan but cuts a list that is too long, `AdminKeys` the keys card and `AdminLogs` the log with its filters. In the
panels requests are served and answered in any order and may be lost. Most
panels have a constant `Patient`: TRUE says that the admin does not click again
before what the last click asked for is answered (each module says which
requests count); section 5 says what goes wrong without it.

A page shows one panel at a time and panels share only the selection of
`AdminScope`, so `AdminPanels` makes one module of them: `panel` says which
panel a behaviour is of, and the invariants are grouped by what they are about.
The server's `Accounts` is one more part of it, with variables of its own;
`AdminSession` sees its endpoints as single steps. `MCAdminPanels` is its
instance for TLC. `PanelsAssumption` has what the proofs need of the constants:
the mark for "nothing" is none of the values it stands beside, a flag has one of
the five types, conditions are lists.

## 3. The runs

| run | instance | shows |
|---|---|---|
| `releases` (MCReleases) | 2 environments of one project with one release each, 2 requests of any kind on bases and versions 1 and 2, 2 processes, 1 edit | contiguous versions, true answers, one winner a base, no stale republish, valid and verbatim snapshots, refinement of ReleaseLog |
| `release_stream` (MCReleaseStream) | 1 environment, 2 requests, 2 connections of 2 keys, channel of 1 | order, committed only, a gap only where the own channel was full |
| `release_liveness` | 2 requests, 1 edit, 1 polling client | requests end, the client catches up, never goes back, 304 is current |
| `stream_hub` (MCStreamHub) | 4 connections, 3 of one key with 2 slots | no slot or subscription leaks |
| `ingest_batcher` (MCIngestBatcher) | 2 batches of 2, channel 3, flush 3, chunk 2, 2 sends, 1 bad row | never blocks, all or nothing, counted once, drain, settles |
| `flag_cache` (MCFlagCache) | 2 processes that write, the cache of one followed, 2 lookups, 1 writer, 3 keys, 2 flags, cap 2, 2 ticks | stale for one TTL at most, bounded |
| `flag_cache_create` | 1 lookup, 1 writer | violated: see findings |
| `purge` (MCPurge) | ticker and route, 2 events, pages of 1, windows 2 and 3 days of 2 ticks, 7 ticks, 1 failure, 1 edit of the row | counted once without overlap, windows enforced in the end |
| `stats` (MCStats) | ticker, 2 events, windows 1 and 3 days of 2 ticks under a plan of 3, defaults 4, 1 change of settings (a PUT, or an edit of the row in or out of range), 1 failure, queries of 3 days and of the default 4 | windows stay valid, nothing lost early, totals neither above nor below |
| `stats_history` | 1 event, 1 run, 1 query | violated: see findings |
| `admin_drafts` (MCPublishFlow) | 1 group, flag, rule, experiment, 2 environments, 2 moves (a staged change, a lost request or answer, a switch, a reload, another admin's release), 3 releases an environment | what an undisturbed run leaves on the server is what the tables showed (`AppliedAsShown`), a draft is in the store until its request is confirmed (`KeptUntilConfirmed`), memory and store agree (`StoredAsShown`), the card opens for drafts and lists what it would publish (`ListedAsApplied`) |
| `admin_panels` (MCAdminPanels) | each panel on 2 or 3 records, 4 moves (scope: 2); experiments of up to 4 variants in 3 rows; allowlists of up to 2 entries, some no address, rates within and above a plan; accounts: 2 handlers, 2 addresses, 2 passwords, requests and boots begin up to 4 writes | a card at rest shows what the server has, and schedule and secret pass through it unchanged (`SettledPages`), the page is right about its session (`SessionSettles`), what it computes is right: scope, home cards, weights, admission, imported drafts (`NumbersTrue`), only what the server takes is staged or sent (`OnlyValid`); one first admin and never none again (`OneFirstAdmin`), no session outlives its password (`PasswordEndsSessions`) |

Why the bounds suffice: two requests give every conflict on a base and on the
index, and a third only repeats one of them; two processes are needed for the
index, one mutex each. With releases 1 seeded and bases up to 2 the second
request can follow the first: a publish over its release, a rollback to its copy,
a promote of it. A channel of one update fills with two releases. Three
slots of the batcher's channel against two batches of two make the second
batch the one that does not fit, and chunks of two make the fallback run with a
good and a bad row. Two events and pages of one row make every page border, and
time runs until an event has left each window. In `stats` one change of
settings is enough to change the windows under a run, and one failure is one
restart that reads an edited row: one whose rollups are shorter than its raw rows,
and one that gets a default above the ceiling. The default query there is longer
than the rollup window, as it is in the code for windows under a week. In `admin_drafts` two moves are two staged
changes that meet (create and delete, two updates, a group and its flag), or
one change and one loss, switch or reload during its run; applying, publishing,
discarding and loading are not counted, so a failed run can always be retried. The
exceptions of `KeptUntilConfirmed` need three moves, more than a run of all
states has time for; random behaviours with five moves (34 million states) show
no violation, and without the exceptions three moves show both of section 5. In
`admin_panels` four moves are two edits and two clicks, enough for an answer to
meet the edit after the one it belongs to; scope needs two (a switch and a
switch back, or a change and a click) because every move starts several loads.
Of accounts, handlers are used again and again, so two are two racing requests
after any history; four writes are two accounts, a changed password and a
delete or another account.

`CHECK_DEADLOCK FALSE` stands where everything may legitimately have stopped:
all connections gone, all requests answered, the clock at its bound.

Symmetry is used in runs without temporal properties only, on values no
definition orders. The admin runs check safety only: nothing in the page
retries, so nothing must eventually happen without another click.

### Fairness

Weak fairness of the steps of a handler that runs (a goroutine is scheduled),
of the client's polls (an SDK polls on a timer), of the batcher's flusher and
ticker, of the purge ticker's runs and the steps of every run. None for
requests to arrive, edits, deletes, crashes, posts, or the admin route. Failures and
restarts are bounded by a constant, so liveness says: when they stop, it comes
to pass.

## 4. Findings

`flag_cache_create`: a lookup that reads before a flag is created and stores
after the hook evicted the key leaves a negative entry for a flag that exists,
against `flagcache_hooks.go:7-13`. `StalenessBounded` shows it is wrong for one
TTL only.

`stats_history`: the purge cuts in the middle of a day, the statistics at the
midnight before; events of that day that have been rolled up are counted by
neither side until the horizon moves past the day, against `stats.go:201-202`.
`NeverOvercounts` and `StatsComplete` show that nothing is counted twice and that
this day is the only one missing.

Two more conditions in properties name behaviour a reader should know of.
`RolledUpOnce` excepts overlapping runs: the admin route during the ticker's run
counts a page twice (the code acknowledges this for two tickers,
`purge.go:697-699`). `NothingLost` excepts runs during which the windows
changed: raising rawDays between the raw cutoff and `currentRollupExtraDays`
sweeps rollups younger than rollupDays. Without the exceptions TLC finds both.

## 5. Known disagreements that no run checks

The admin page differs from what its comments say in places that the runs
exclude by a condition of the property or by `Patient`. Definitions that state
the promise stand in the modules with a comment; TLC refutes each within
seconds when it is named as an invariant of the admin runs' instances.

* `PublishFlow!DiscardIsFinal`: after an environment switch `draftClearAll`
  (`drafts.js:341`) empties memory without looking at the scope and saves it for
  the environment now selected: the drafts asked about stay in their bucket
  and come back, and those of the other environment are overwritten.
  `drafts.js:19-21` says that every public function restores on a scope change.
* `PublishFlow!DeletedGroupUngroups`: `flags.js:369` tells the admin "Its flags
  will be ungrouped." A draft that puts a flag into the group before the
  lists are read again names a group that is gone, and folders are drawn for
  known groups only: the flag is in no folder.
* `PublishFlow`, runs that are not calm: a switch of environment during an apply
  run makes the rest of the run save, and the release be made, for the new
  environment; a change staged while its step is in flight is discarded with
  the step; temp ids of flags created before a failed step are unknown to the
  retry (`tempMap` lives for one run), so a rule that still names one is refused.
* `PublishFlow!KeptUntilConfirmed` without its exceptions: `releases.js:657-700`
  keeps a draft until its own request is confirmed ("drafts kept", as the message
  counts them), but a list that arrives during the run prunes the drafts behind
  it. A rule create staged before the delete of an equal rule is dropped together
  with that delete while both requests go on; if the delete then fails, the server
  has the rule twice and no draft is left. And a list that was asked for before an
  earlier run, and comes late, makes a draft that goes back to the old value look
  like no change. The property excepts such pairs and updates that change nothing
  at the click (`run.moot`), and runs that begin while such a list is on its way
  (`UpToDate`).
* `Retention!ClampConfig` and the plan's ceiling: `retention.go:139-145` says that
  loading "forces each knob into MinDays..ceiling". The code replaces a stored window
  out of 1..MaxDays by the default and does not hold the default against the ceiling
  (149-152): with a plan of 7 days a row of 2000 becomes 30 days of raw events, and
  rollups are raised to that. `RollupsOutliveRaw` keeps the ceiling for every window
  but such a default and rollups that were raised to one.
* `Stats!ParseSince`: `stats.go:55-58` says that "stats history cannot reach past
  the daily-aggregate window". A query that names no window asks for 7 days whatever
  the rollups are kept (74-76), so with rollupDays under 7 its first days are gone
  and counted as none. `StatsComplete` owes an event of a day the rollup window
  still has.
* `FlagForms!WeightsShown`: `experiments.js:608` fills at most `MAX_VARIANT_ROWS` rows
  of a stored experiment; nothing on the server or in an import limits variants
  (`eval/experiment.go:24-38`). Opening one of more shows
  the first rows; saving drops the variants behind them without a word, and the last
  row is saved with their weight added, while it still shows its own. The property
  says this of such an experiment, and of every other that what is shown is saved.
* `AdminLimits!SendsTaken`: neither card looks at the plan's ceiling, nor whether an
  entry of the allowlist is an address (`limits.js:223`, 228-236, 279-286); the server
  refuses both (`limits.go:427-434`, 656-658) and its message is what the admin sees.
  A list of more than 32 entries is refused by its own card, but the rates card
  sends it, and the server keeps the first 32 and says 200 (`limits/api.go:140`,
  `limits.go:399-401`), against the check it then makes of the length (424-426).
* `FlagForms!DefaultOfType` is about the default the dialog opens with or switches
  to; one typed over it is sent as it stands.
* `AdminScope!ScopeSelected`: `core.js:261-265` says a slow response "can never
  paint over" another scope. `loadEnvs` does not look at the generation: a late
  list of the project that was left becomes the list of the one entered.
* `AdminTransfer!RemovalsShown`: `CHANGELOG.md:934-936` describes the draft view
  as "green added / red removed". A staged delete leaves the record out of both
  sides of the comparison (`isDeletedRecord`), so a deleted flag has no block;
  it is named in the list of staged drafts below.
* `AdminBackups!SaveOnlyChecked` without patience: `backups.js:508-512` and
  608-611 say that any edit needs a new check. The background check compares
  its form, the one behind the button does not: an edit while it is under
  way is shown as CONNECTED, with Save.
* `AdminSession!OneSurface` with a setup token: with `CONFIGWIRE_SETUP_TOKEN`
  set (`account/account.go:60-111`) the server refuses a setup without the token's
  header, which the page never sends. Its answer, a 403, brings up the login form
  beside the setup form. `SessionSettles` claims one surface without a token only.
* `RuleEditor!BuilderAgrees` and null: the rows show a custom attribute compared
  with null as an empty value and take it for a string when they are read back
  (`rules.js:370-373`, 385-386), so a condition that was typed as text changes
  when a row is touched. The property is about conditions the rows can show
  (`Showable`); that this is one they cannot was found by the proof, not by TLC,
  whose inputs had no such condition until then.
* `AdminSession!OneSurface` without patience: the answer of the setup status,
  asked for before a quick login, shows the login form beside the shell
  (`account.js:33-38` looks at the session before the request only).
* `AdminLimits`, `AdminLogs`, `AdminKeys` without patience: answers of the same
  card are applied in the order they come, so an older one can replace a newer,
  and a load that was under way overwrites fields typed meanwhile. Saving one
  card of the limits sends the unsaved edits of the other.

## 6. Proofs

`ReleasesProofs` (TLAPS) proves, for any environments, requests, processes,
bases and seed, with failing saves, deletes and crashes:

* `TypeCorrect`: the type invariant, inductive by itself.
* `MutualExclusion`: a handler between lock and answer holds the mutex of its
  process.
* `VersionsAreContiguous`: the rows of a live environment are numbered 1..n,
  one row each. The version a handler inserts is not always the next one (the
  process next door may have inserted since it read the maximum), so the
  inductive invariant adds what a handler knows: the version it will insert is
  at most one above the rows there are. The index then decides: the row is new
  and next, or the insert fails. Deletes take a whole environment or a row that
  is not of a live one, so no gap appears.

* `AnswersAreTrue` (`AnswersMatchLog`): a handler has no row before its insert
  and exactly the row of its task, version and snapshot after it; it refuses only
  on the way to the insert. A live environment loses no row.
* `OneWins` (`OneWinnerPerBase`): a handler *races* from the moment it found its
  base current. The invariant says that no handler races for a base with which
  another of its process has won: a winner's row is above the base, so the check
  of a later handler fails (`PublishWantsNext`, `PromoteWantsLater`), and while
  one wins the mutex keeps the others before their check. Two publishes of
  different processes want the same version, and the log has one row for it.

Its second part is about what the rows hold:

* `OnlyValidIsServed` (`ServedSnapshotsValid`): past validation the snapshot a
  handler carries is valid, although the configuration and the source row may go.
* `CopiesAreVerbatim` (`CopiesVerbatim`): between pick and insert the source row
  stays or its whole environment goes, and the etag takes in the version.
* `NewerIsNotOlder` (`NoStaleRepublish`): the order *rows, what a handler has
  built, live configuration*. A handler that read its halves before a row of
  another handler was written wants a version that is taken; its insert fails.

* `RefinesLog` (`ImplementsReleaseLog`): rows and versions of a live environment
  are in bijection, so as many rows as versions means that version n is element
  n of the mapped log, and an insert of the next version is an append. The
  invariant adds that every snapshot is assembled from generations that exist,
  which is what the log is made of. It needs a finite seed, as every database
  has.

`ReleaseStreamProofs` is about what SDK clients see of one process, for any
requests, connections, keys and channel capacity. Every step of `ReleaseStream`
is a step of `Releases` or leaves it alone (`StreamStepIsStep`), so all the
invariants above hold under it, and these rest on them:

* `ToldInOrder` (`UpdatesInOrder`): a handler that has chosen its version is
  ahead of everything that was told to a connection of its environment (`Ahead`),
  because what was told is in the log of a live environment, and the mutex lets
  nobody fan out until this handler does. The delicate case is an environment
  deleted between the validation of a row and its insert: that handler still
  inserts and notifies, and still is ahead, since it chose while the environment
  lived; no later one gets past the validation.
* `ToldWhatIsCommitted` (`UpdatesCommitted`): the sends left carry the row of the
  request that fans out (`Pending`), whose row is in (`WrittenAfter`), and a live
  environment loses no row.
* `MissesOnlyWhatOverflows` (`NoSilentGap`): while a fan-out is under way an open
  connection has the update queued, dropped or still to be sent (`Reached`). A
  connection that subscribes after the copy of the set is not sent the update,
  but the row was in before and so is within the version it read.
* `ConfirmsTheNewest` (`NotModifiedIsCurrent`) and `NeverGoesBack`
  (`ClientsMonotonic`, an action property): an etag a client holds is one of the
  version beside it, and that version stays in the log while the environment
  lives. That the newest release is no older needs the log without gaps: as many
  versions as rows is why there is a largest one at all.

Its last part is about the hub, for any finite set of connections, any keys and
environments and any cap, with restarts: `NothingLeaks` (`NoLeak`) and
`StreamsCapped` of the connections alone, and `NothingLeaksServing`, `NoLeak` of
the composition, where notifiers send from copies of the subscriber set while
connections come and go. `NoLeak` is inductive once the three functions have
their types: a step moves one connection, so the set of holders of its key gains
or loses exactly that connection when the counter of the key goes up or down; the
cap needs in addition that the counter is only raised below it.

`IngestBatcherProofs` works for any batches, batch lengths, capacity, chunk and
flush sizes, with failing chunks, rows that cannot be saved, a missing
collection, Stop and restarts:

* `NeverBlocks`: an admitted handler finds room in the channel. The invariant
  counts the reservation: channel length plus what the holder of `admitMu` still
  has to send fits the capacity, and nobody but the holder sends.
* `TypesHold` (`TypeOK`), `NothingCountedTwice` (`CountedOnce`), `WholeBatches`
  (`AllOrNothing`) and `StopLosesNothing` (`StopDrains`): all that is in memory
  is one sequence, `Queued`, from the rows to retry to the end of the channel. A
  push appends a new event to it; a step of the flush goroutine leaves it or
  takes a prefix off and accounts for each event of it as saved, lost or dropped
  (`Takes`). Then what is kept anywhere is exactly what was pushed
  (`KeptArePushed`), which is why a 503 left nothing behind and a resend repeats
  nothing, and what was queued at Stop is accounted for when nothing is queued.

`FlagCacheProofs`, for any names, flags, processes, TTL and capacity:

* `CacheIsBounded` (`CacheBounded`): a put makes room before it adds.
* `StaleForOneTTL` (`StalenessBounded`): every entry is dated. The read it was
  stored from was made one TTL before it expires, and what it says was right
  then or its name has been upset since; a lookup between read and put is in the
  same position with the time of now, because no tick separates the two.

`PurgeProofs`, for any events, day length, page size, runs, settings and queries:

* `WindowsAlwaysUsable` (`RollupsOutliveRaw`): a PUT installs only what it
  validated, and a row edited behind it is clamped when it is loaded; a window above
  the ceiling can only be a default that replaced one out of range.
* `OnceUnlessOverlapped` (`RolledUpOnce`): a run that is alone finds every event
  of the page it read still a raw row when it commits (`OneRun`), so the rows are
  gone and counted in one step.
* `NothingIsLost` (`NothingLost`, an action property): a run under which the
  windows did not change deletes by the cutoffs of its start.
* `NoDoubleCounting` (`NeverOvercounts`) and `NothingOwedIsMissed`
  (`StatsComplete`): the horizon is the start of a day and rows are read from it,
  days before it, so no event is in both reads. An owed event of a live day is
  too young for any run while the query lasts, which is why the query must be
  shorter than two ticks; one that was rolled up stays, because its day is within
  the rollup window (`OnTheWay`). Of what a query asks beyond that window
  (`OldestDay`) nothing is owed.

`AccountsProofs` proves `FirstAdminOnce` (`OneFirstAdmin`) and `SessionsEnd`
(`PasswordEndsSessions`), for any handlers, addresses, passwords and accounts of
the environment, with failing writes and restarts. The invariant says what a
handler may count on between its count and its write: it holds the mutex, so no
other delete or setup comes between; creates do not take the mutex, but a create
under way means that there is an account, and then no setup is. For sessions:
every key is drawn once, so a key read with one password is never the key of
another, and a token that a login or refresh signs late is good only if nothing
changed.

Its second part is the page's side, `SessionIsTrue` (`SessionSettles`), for any
accounts and number of moves. The page shares no lock with the server and the
cookie may be changed by another tab, so the invariant (`SesInv`) goes by where
the page stands: just loaded, a guest at one of the forms, signed in, or signed
out (`SesFresh`, `SesGuest`, `SesIn`, `SesOut`). For each it says which requests
may be under way, what their answers will say, and that what is shown and listed
is true or that one of these answers makes it so. It claims this of a page that
has lost no answer since it was loaded.

`AdminProofs` is about the cards and dialogs of the page, for any records, inputs
and number of moves, with a patient admin and answers in any order or lost. Each
panel has its invariant, and they have one form: *a card is true, or what is under
way will make it true*.

* `PagesSettle` (`SettledPages`). Keys (`KeyInv`): a change is under way and
  nothing beside it but lists of an environment that was left, which will be
  dropped; or the list is, and one that was served is the server's of now; or what
  is listed is. Log (`LogInv`): the list under way is of the filters and page that
  were asked for, or the settings are under way and the list follows, or what is
  shown is what was asked for; settings come back as they are stored. Limits
  (`LimInv`): one request at a time, one that saves only while its card is marked as
  edited (`LimMarked`: a refusal leaves the mark), and with none, and nothing typed,
  both cards are drawn from what the server has. Backups (`BkInv`): whatever of switch, list
  and settings is not as the server has it is being asked for, and a request that
  will put the Save button up is about fields that agree with what is stored
  (`BkFlight`, `BkChecked`). Schedule (`SchInv`): what is shown of a schedule is of
  the text, and a text built from the controls names the same moments again. Rule
  (`RuleInv`): a text rows can show has a row for each of its conditions.
* `OnlyValidIsSent` (`OnlyValid`) rests on the same invariants: what a save sends
  is what the last check, clamp or choice of operator left. What the page does not
  check is named in the property: `LimAsk` says that a refusal has one of the two
  reasons of section 5 (`LimUnchecked`). A typed default is not covered, nor an
  admin who edits while a check is under way.

Three things in the models came from these attempts. `SaveOnlyChecked` asked
that no secret be in the form of a saved bucket; TLC had not refuted it because
that takes five moves and the run has four, but it did not follow from `BkInv`: the
form may still hold a secret that the server has taken by now. It asks for no
secret or the server's. `Showable` of the rule editor leaves out null (section 5).
And the schedule's cases, which overlapped, are disjoint.

`PublishFlowProofs` is about the admin page, for any environments, records and
keys. For the first two theorems what the drafts say is opaque: of a bucket they
know the finite domain, so they hold for whatever is staged and whatever pruning
drops.

* `MemoryIsStored` (`StoredAsShown`): one lemma per operator of `Drafts`. Each of
  them either saves what it leaves in memory or reads what was saved, and the ones
  that take an environment's drafts into memory leave the browser in scope
  (`InScope`: read for the environment selected now).
* `CardIsTrue` (`ListedAsApplied`): the property looks at rest only. The invariant
  says what holds in between: a run is under way, or an answer is coming that
  draws the card anew whatever it says (a list of flags, or the releases of this
  generation), or the card is true (`CardInv`). An environment switch makes the
  card false and asks for the releases in the same step; a failed or stale release
  leaves it and asks for the flags.
* `DraftsKept` (`KeptUntilConfirmed`): a list that arrives during a run drops the
  drafts that change nothing over it, so the invariant has to say what every list
  there is, loaded or on its way, may drop (`RunInv`): an update whose change the
  server has, or one that was moot at the click (`IdleTrue`), and pairs that were
  pairs at the click (`PairsTrue`). What comes to be on the server comes from the
  request that is under way, except that the delete of a group takes flags out of it
  as an update would (`NotEarly`), and nothing undoes it during the run: entries of
  one record are one step (`Steps`). Sending a reference remapped makes no
  difference to what is on the server, because its relations are ids it gave out,
  never temp ids, and no record names a create before its answer (`IdsInv`,
  `MapInv`). Without the exceptions the invariant fails, which is how the
  disagreement of section 5 was found.
* `PublishedAsShown` (`AppliedAsShown`): the goal, what the tables showed at the
  click, is at every moment of the run what the records show with the steps that
  are left laid over them (`Remains`): each record of the goal is there, under its
  temp id's successor if the run created it, or comes with a step (`Comes`), and
  each record that is there is of the goal or goes with a step (`Goes`). Three
  things make it delicate. A step that is sent carries remapped references, and
  what was staged under a temp id is found under the server's (`Refers`). Deletes
  take records along for which there is no step: rules and experiments of a flag
  go with it, flags of a group leave it, those of the list the page had when it
  sent the delete included, which is why no list may show a flag in a group that
  it has left for another (`MembersTrue`). And a draft may name what the goal has
  not (`Lost`): a flag drafted into a group that is deleted is sent with that
  group and is ungrouped by its delete, a rule drafted onto a flag that is deleted
  is refused, so a run with such a step never gets to its release (`Refused`,
  `Found`). The order of the phases is used where it matters: groups before flags
  before what hangs on flags (`PhaseOrder`). At the end nothing is left, and a
  server whose references exist (`Hanging`) shows the goal and nothing besides.

The assumptions are the ASSUMEs of the modules; TLC evaluates them in every run.
Three of them say something of the code that is not a type: `OneProcess` and
`HandlersNotify` of `ReleaseStream` (a notification does not leave its process, and
only handlers of releases notify), and that the names of `FlagCache` differ from
the two marks it gives a flag without a name.

Every safety property a passing run checks is proved but one: `NumbersTrue`. Its
parts say what a computation gives for each of its inputs, over sequences of any
length (sums of weights, an import folded over flags and rules, a comparison of
two texts, ranges of addresses by bits) and would need induction over data, which
the provers do not have; the scope's part is in the same property because it too is
about what is derived, the lists and cards from the selection. The properties that
need fairness are beyond the prover (`ClientsCatchUp`, `EveryRequestEnds`,
`EveryBatchSettles`, `WindowsEnforced`).

## 7. Not modelled, and the plan

Done: releases, resolution, stream, fetch without evaluation, batcher, flag
cache, retention, purge, statistics, accounts, the admin page. Next, in this order:

1. The server side of keys (authentication through the key cache and the bounded
   slow path, mint and revoke under the cap), of limits and the log store
   (read-merge-write-apply as in `Retention`), of SSO redemption and of the
   throttles of login and redemption. The page's side of each is modelled.
2. Evaluate, Assign, ValidateExperiment and bucket resolution as operators
   against reference definitions; the evaluated fetch.
3. Record hooks of `main.go`: slug and key uniqueness, rules cascade, last
   environment.

Of the admin page are not modelled: `stats.js` (charts), `dialog.js` (one confirm
dialog at a time), `update.js` (one request), formatting, focus, menus, toasts,
and two tabs that share one localStorage. Out of reach or without state: HTTP,
rendering and wording, assets, migrations beyond the constraints used, scripts
and deployment, the internals of SQLite and PocketBase, which are taken as the
code uses them.
