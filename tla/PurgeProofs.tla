----------------------------- MODULE PurgeProofs -----------------------------
(***************************************************************************)
(* For any events, days, page size, runs, settings and queries: the purge  *)
(* loses nothing and rolls up nothing twice, the windows stay usable, and  *)
(* the statistics read beside a purge neither miss nor repeat an event.    *)
(*                                                                         *)
(* PurgeInv says of a run under which the windows did not change that its  *)
(* cutoff is what they say of its start, and of a run that is alone that   *)
(* the events of its page are still rows.  QueryInv adds where each event  *)
(* an answer owes is at each step of the query, and that the query's       *)
(* horizon is the start of a day, so the two reads share no event.         *)
(***************************************************************************)
EXTENDS Stats, TLAPS

-----------------------------------------------------------------------------
(* Days. *)
LEMMA DayContains ==
    ASSUME NEW t \in Int
    PROVE  /\ Day(t) \in Int /\ DayStart(Day(t)) \in Int
           /\ DayStart(Day(t)) <= t /\ t < DayStart(Day(t) + 1)
  BY PurgeAssumption, SMTT(30) DEF Day, DayStart

LEMMA DayStartMonotonic ==
    ASSUME NEW i \in Int, NEW j \in Int
    PROVE  /\ DayStart(i) \in Int
           /\ i < j => DayStart(i + 1) <= DayStart(j)
           /\ i <= j => DayStart(i) <= DayStart(j)
           /\ DayStart(i) < DayStart(j) => i < j
  <1>1. DayLen \in Nat /\ DayLen > 0
    BY PurgeAssumption
  <1>2. \A k \in Int, l \in Int : k <= l => DayStart(k) <= DayStart(l)
    BY <1>1, SMTT(30) DEF DayStart
  <1> QED
    BY <1>1, <1>2 DEF DayStart

\* An aligned time that is not after t is not after the start of t's day.
LEMMA AlignedBelow ==
    ASSUME NEW i \in Int, NEW t \in Int, DayStart(i) <= t
    PROVE  DayStart(i) <= DayStart(Day(t))
  <1>1. DayStart(i) < DayStart(Day(t) + 1)
    BY DayContains, DayStartMonotonic
  <1>2. i < Day(t) + 1
    BY <1>1, DayContains, DayStartMonotonic
  <1> QED
    BY <1>2, DayContains, DayStartMonotonic

-----------------------------------------------------------------------------
(* The windows.  A PUT installs nothing that was not validated, and what    *)
(* stands in the row is clamped whatever it is. *)
Windows == {c \in [raw : MinDays..MaxDays, rollup : MinDays..MaxDays] :
               /\ c.rollup >= c.raw
               /\ WithinPlan(c.raw) \/ c.raw = Defaults.raw
               /\ WithinPlan(c.rollup) \/ c.rollup \in {Defaults.rollup, c.raw}}

PutsValid ==
    /\ DOMAIN put = Putters
    /\ \A p \in Putters : put[p] \in {Idle} \union [pc : {"save", "apply"}, next : Windows]

WindowsInv == current \in Windows /\ PutsValid

LEMMA ClampIsWindow == ASSUME NEW c PROVE ClampConfig(c) \in Windows
  <1>1. \A v : \A d \in MinDays..MaxDays :
           /\ ClampDays(v, d) \in MinDays..MaxDays
           /\ WithinPlan(ClampDays(v, d)) \/ ClampDays(v, d) = d
    BY RetentionAssumption DEF ClampDays, WithinPlan
  <1>2. /\ ClampDays(c.raw, Defaults.raw) \in MinDays..MaxDays
        /\ ClampDays(c.rollup, Defaults.rollup) \in MinDays..MaxDays
        /\ WithinPlan(ClampDays(c.raw, Defaults.raw))
              \/ ClampDays(c.raw, Defaults.raw) = Defaults.raw
        /\ WithinPlan(ClampDays(c.rollup, Defaults.rollup))
              \/ ClampDays(c.rollup, Defaults.rollup) = Defaults.rollup
    BY <1>1, RetentionAssumption
  <1> QED
    BY <1>2, RetentionAssumption DEF ClampConfig, Windows

LEMMA WindowsInitially == RetentionInit => WindowsInv
  BY ClampIsWindow DEF RetentionInit, WindowsInv, PutsValid, Idle

LEMMA ConfigureKeepsWindows == WindowsInv /\ Configure => WindowsInv'
  <1> SUFFICES ASSUME WindowsInv, Configure PROVE WindowsInv'
    OBVIOUS
  <1>1. ASSUME NEW p \in Putters, PutRead(p) PROVE WindowsInv'
    <2>1. PICK next \in Windows : put' = [put EXCEPT ![p] = [pc |-> "save", next |-> next]]
      BY <1>1 DEF PutRead, ValidateConfig, Windows, WithinPlan
    <2> QED
      BY <1>1, <2>1 DEF PutRead, WindowsInv, PutsValid
  <1>2. ASSUME NEW p \in Putters, PutSave(p) PROVE WindowsInv'
    BY <1>2 DEF PutSave, WindowsInv, PutsValid, Idle
  <1>3. ASSUME NEW p \in Putters, PutSaveFails(p) PROVE WindowsInv'
    BY <1>3 DEF PutSaveFails, WindowsInv, PutsValid
  <1>4. ASSUME NEW p \in Putters, PutApply(p) PROVE WindowsInv'
    BY <1>4 DEF PutApply, WindowsInv, PutsValid, Idle
  <1>5. CASE RowEdit
    BY <1>5 DEF RowEdit, WindowsInv, PutsValid
  <1> QED
    BY <1>1, <1>2, <1>3, <1>4, <1>5 DEF Configure

LEMMA RestartKeepsWindows == WindowsInv /\ Restart => WindowsInv'
  BY ClampIsWindow DEF Restart, Loaded, WindowsInv, PutsValid, Idle

-----------------------------------------------------------------------------
(* Type correctness of the rows and the runs.  A page of raw events holds   *)
(* events as they were stored; a timestamp never changes. *)
RowTypes ==
    /\ now \in Nat
    /\ ts \in [Events -> Nat \union {Unborn}]
    /\ \A e \in Events : ts[e] <= now
    /\ raw \subseteq Events
    /\ daily \in [Events -> Nat]
    /\ \A e \in Events : e \in raw \/ daily[e] > 0 => ts[e] # Unborn

IsRun(run) ==
    run \in [pc : {"scrub", "raw", "window", "daily"}, started : Nat, torn : BOOLEAN,
             cutoff : Int, rollup : Int, cursor : {run.cursor}, page : {run.page}]

AsStored(i) == i[2] \in Events /\ ts[i[2]] # Unborn /\ i[1] = ts[i[2]]

\* Of a run under which the windows did not change: what it computed from
\* them is what they say now.
CutoffsCurrent(run) ==
    /\ run.pc \in {"scrub", "raw", "window"} => run.cutoff = RawCutoff(run.started)
    /\ run.pc = "window" => run.rollup = current.rollup
    /\ run.pc = "daily" => run.cutoff = run.started - current.rollup * DayLen

RunOK(run) ==
    /\ IsRun(run) /\ run.started <= now
    /\ \A i \in run.page : AsStored(i)
    /\ ~run.torn => CutoffsCurrent(run)

RunsInv == DOMAIN runs = Runs /\ \A r \in Runs : runs[r] = NoRun \/ RunOK(runs[r])

PurgeTypes == WindowsInv /\ RowTypes /\ RunsInv

LEMMA ActiveIsRun ==
    ASSUME PurgeTypes, NEW r \in Runs, runs[r].pc # "idle"
    PROVE  RunOK(runs[r])
  BY DEF PurgeTypes, RunsInv, NoRun

LEMMA WindowsAreNumbers ==
    ASSUME PurgeTypes
    PROVE  /\ DayLen \in Nat /\ DayLen > 0 /\ ScrubDays \in Nat
           /\ current.raw \in Nat /\ current.rollup \in Nat
           /\ current.rollup >= current.raw
  BY PurgeAssumption, RetentionAssumption DEF PurgeTypes, WindowsInv, Windows

LEMMA RawCutoffIsInt == ASSUME PurgeTypes, NEW t \in Int PROVE RawCutoff(t) \in Int
  <1>1. current.raw \in Int /\ DayLen \in Int
    BY WindowsAreNumbers
  <1> QED
    BY <1>1 DEF RawCutoff

LEMMA PageIsOfItems ==
    ASSUME NEW items, NEW cutoff, NEW cursor
    PROVE  Page(items, cutoff, cursor) \subseteq {i \in items : i[1] <= cutoff}
  BY DEF Page

LEMMA EventItemsAreStored ==
    ASSUME PurgeTypes, NEW i \in EventItems PROVE AsStored(i) /\ i[2] \in raw
  BY DEF PurgeTypes, RowTypes, EventItems, AsStored, Unborn

LEMMA NextPageIsOK ==
    ASSUME NEW run, RunOK(run), NEW cursor, NEW page, \A i \in page : AsStored(i)
    PROVE  RunOK([run EXCEPT !.cursor = cursor, !.page = page])
  BY DEF RunOK, IsRun, CutoffsCurrent

LEMMA AdvanceKeepsRuns ==
    ASSUME PurgeTypes, NEW r \in Runs, runs[r].pc # "idle", NEW page, NEW done,
           Advance(r, page, done), done = NoRun \/ RunOK(done),
           UNCHANGED <<retentionVars, now, ts>>
    PROVE  RunsInv'
  <1> DEFINE next == [runs[r] EXCEPT !.cursor = Last(page), !.page = {}]
  <1>1. RunOK(next)
    BY ActiveIsRun, NextPageIsOK
  <1>2. /\ DOMAIN runs' = Runs /\ runs'[r] \in {done, next}
        /\ \A o \in Runs \ {r} : runs'[o] = runs[o]
    BY DEF Advance, PurgeTypes, RunsInv
  <1>3. \A o \in Runs : runs'[o] = NoRun \/ RunOK(runs'[o])
    BY <1>1, <1>2 DEF PurgeTypes, RunsInv
  <1> QED
    BY <1>2, <1>3
       DEF RunsInv, RunOK, IsRun, AsStored, CutoffsCurrent, RawCutoff, retentionVars

LEMMA RunsInitially == PurgeInit => PurgeTypes
  <1> SUFFICES ASSUME PurgeInit PROVE PurgeTypes
    OBVIOUS
  <1>1. WindowsInv
    BY WindowsInitially DEF PurgeInit
  <1>2. RowTypes /\ RunsInv
    BY DEF PurgeInit, RowTypes, RunsInv, Unborn
  <1> QED
    BY <1>1, <1>2 DEF PurgeTypes

\* Windows, clock and timestamps unchanged, the runs keep what they have.
LEMMA SameRuns ==
    ASSUME PurgeTypes, UNCHANGED <<retentionVars, now, ts, runs>>
    PROVE  WindowsInv' /\ RunsInv'
  BY DEF PurgeTypes, WindowsInv, PutsValid, RunsInv, RunOK, IsRun, AsStored, CutoffsCurrent,
         RawCutoff, retentionVars

LEMMA SameWindows == PurgeTypes /\ UNCHANGED retentionVars => WindowsInv'
  BY DEF PurgeTypes, WindowsInv, PutsValid, retentionVars

LEMMA IngestKeepsTypes ==
    ASSUME PurgeTypes, NEW e \in Events, Ingest(e) PROVE PurgeTypes'
  <1>1. PICK t \in 0..now : ts' = [ts EXCEPT ![e] = t]
    BY DEF Ingest
  <1>2. \A x \in Events : ts[x] # Unborn => ts'[x] = ts[x]
    BY <1>1 DEF Ingest, PurgeTypes, RowTypes
  <1>3. RowTypes'
    BY <1>1 DEF Ingest, PurgeTypes, RowTypes, Unborn
  <1>4. RunsInv'
    BY <1>2 DEF Ingest, PurgeTypes, RunsInv, RunOK, IsRun, AsStored, CutoffsCurrent,
                RawCutoff, retentionVars
  <1> QED
    BY <1>3, <1>4, SameWindows DEF Ingest, PurgeTypes

LEMMA TickKeepsTypes == PurgeTypes /\ Tick => PurgeTypes'
  <1> SUFFICES ASSUME PurgeTypes, Tick PROVE PurgeTypes'
    OBVIOUS
  <1>1. RowTypes'
    <2>1. \A e \in Events : ts[e] \in Int
      BY DEF PurgeTypes, RowTypes, Unborn
    <2> QED
      BY <2>1 DEF Tick, rowVars, PurgeTypes, RowTypes
  <1>2. RunsInv'
    BY DEF Tick, rowVars, PurgeTypes, RowTypes, RunsInv, RunOK, IsRun, AsStored,
           CutoffsCurrent, RawCutoff, retentionVars
  <1> QED
    BY <1>1, <1>2, SameWindows DEF Tick, PurgeTypes

LEMMA StartKeepsTypes ==
    ASSUME PurgeTypes, NEW r \in Runs, Start(r) PROVE PurgeTypes'
  <1> DEFINE run == [pc |-> "scrub", started |-> now, torn |-> FALSE,
                     cutoff |-> RawCutoff(now), rollup |-> 0,
                     cursor |-> NoCursor, page |-> {}]
  <1>1. RunOK(run)
    <2>0. now \in Nat
      BY DEF PurgeTypes, RowTypes
    <2>1. RawCutoff(now) \in Int /\ now \in Nat
      BY <2>0, RawCutoffIsInt
    <2> QED
      BY <2>1 DEF RunOK, IsRun, CutoffsCurrent
  <1>2. runs' = [runs EXCEPT ![r] = run]
    BY DEF Start
  <1> HIDE DEF run
  <1>3. DOMAIN runs' = Runs /\ \A o \in Runs : runs'[o] = NoRun \/ RunOK(runs'[o])
    BY <1>1, <1>2 DEF PurgeTypes, RunsInv
  <1>4. RunsInv'
    BY <1>3 DEF Start, rowVars, RunsInv, RunOK, IsRun, AsStored, CutoffsCurrent, RawCutoff,
                retentionVars
  <1>5. RowTypes'
    BY DEF Start, rowVars, PurgeTypes, RowTypes
  <1> QED
    BY <1>4, <1>5, SameWindows DEF Start, PurgeTypes

LEMMA ScrubPageKeepsTypes ==
    ASSUME PurgeTypes, NEW r \in Runs, ScrubPage(r) PROVE PurgeTypes'
  <1>1. RunOK(runs[r])
    BY ActiveIsRun DEF ScrubPage
  <1> DEFINE done == [runs[r] EXCEPT !.pc = "raw", !.cursor = NoCursor,
                        !.cutoff = IF r \in Tickers THEN RawCutoff(runs[r].started) ELSE @]
  <1>2. RunOK(done)
    <2>1. RawCutoff(runs[r].started) \in Int /\ runs[r].pc = "scrub"
      BY <1>1, RawCutoffIsInt DEF RunOK, IsRun, ScrubPage
    <2> QED
      BY <1>1, <2>1 DEF RunOK, IsRun, CutoffsCurrent
  <1>3. PICK page : Advance(r, page, done)
    BY DEF ScrubPage
  <1> HIDE DEF done
  <1>4. RunsInv'
    BY <1>2, <1>3, AdvanceKeepsRuns DEF ScrubPage
  <1>5. RowTypes'
    BY DEF ScrubPage, PurgeTypes, RowTypes
  <1> QED
    BY <1>4, <1>5, SameWindows DEF ScrubPage, PurgeTypes

LEMMA RollupReadIsOK ==
    ASSUME PurgeTypes, NEW run, RunOK(run), run.pc = "raw" PROVE RunOK(RollupRead(run))
  <1>1. current.rollup \in Int
    BY WindowsAreNumbers
  <1> QED
    BY <1>1 DEF RollupRead, RunOK, IsRun, CutoffsCurrent

LEMMA ReadPageKeepsTypes ==
    ASSUME PurgeTypes, NEW r \in Runs, ReadPage(r) PROVE PurgeTypes'
  <1> DEFINE page == Page(EventItems, runs[r].cutoff, runs[r].cursor)
             next == IF page = {} THEN RollupRead(runs[r]) ELSE [runs[r] EXCEPT !.page = page]
  <1>1. RunOK(runs[r]) /\ runs[r].pc = "raw"
    BY ActiveIsRun DEF ReadPage
  <1>2. \A i \in page : AsStored(i)
    BY PageIsOfItems, EventItemsAreStored
  <1>3. runs' = [runs EXCEPT ![r] = next]
    BY DEF ReadPage
  <1> HIDE DEF page
  <1>4. RunOK(next)
    BY <1>1, <1>2, RollupReadIsOK DEF RunOK, IsRun, CutoffsCurrent
  <1> HIDE DEF next
  <1>5. DOMAIN runs' = Runs /\ \A o \in Runs : runs'[o] = NoRun \/ RunOK(runs'[o])
    BY <1>3, <1>4 DEF PurgeTypes, RunsInv
  <1>6. RunsInv'
    BY <1>5 DEF ReadPage, rowVars, RunsInv, RunOK, IsRun, AsStored, CutoffsCurrent, RawCutoff,
                retentionVars
  <1>7. RowTypes'
    BY DEF ReadPage, rowVars, PurgeTypes, RowTypes
  <1> QED
    BY <1>6, <1>7, SameWindows DEF ReadPage, PurgeTypes

\* The rows a page commit deletes are events of its page.
DoomedEvents(r) == {i[2] : i \in Doomed(runs[r].page, runs[r].cutoff)}

LEMMA CommitPageKeepsTypes ==
    ASSUME PurgeTypes, NEW r \in Runs, CommitPage(r) PROVE PurgeTypes'
  <1>1. RunOK(runs[r]) /\ runs[r].pc = "raw"
    BY ActiveIsRun DEF CommitPage
  <1>2. \A e \in DoomedEvents(r) : e \in Events /\ ts[e] # Unborn
    BY <1>1 DEF DoomedEvents, Doomed, RunOK, AsStored
  <1>3. RunsInv'
    BY <1>1, RollupReadIsOK, AdvanceKeepsRuns DEF CommitPage
  <1>4. /\ daily' = [e \in Events |-> daily[e] + IF e \in DoomedEvents(r) THEN 1 ELSE 0]
        /\ raw' = raw \ DoomedEvents(r)
        /\ UNCHANGED <<now, ts>>
    BY DEF CommitPage, DoomedEvents
  <1>5. RowTypes'
    <2>1. \A e \in Events : /\ daily'[e] \in Nat
                            /\ daily'[e] > 0 => daily[e] > 0 \/ e \in DoomedEvents(r)
      BY <1>4 DEF PurgeTypes, RowTypes
    <2>2. daily' \in [Events -> Nat]
      BY <1>4, <2>1
    <2> QED
      BY <1>2, <1>4, <2>1, <2>2 DEF PurgeTypes, RowTypes
  <1> QED
    BY <1>3, <1>5, SameWindows DEF CommitPage, PurgeTypes

LEMMA WindowIsOK ==
    ASSUME PurgeTypes, NEW run, RunOK(run), run.pc = "window"
    PROVE  LET extra == IF run.rollup > current.raw THEN run.rollup - current.raw ELSE 0
           IN  RunOK([run EXCEPT !.pc = "daily", !.cutoff = @ - extra * DayLen])
  <1> DEFINE extra == IF run.rollup > current.raw THEN run.rollup - current.raw ELSE 0
             cutoff == run.cutoff - extra * DayLen
  <1>1. /\ current.raw \in Int /\ current.rollup \in Int /\ current.rollup >= current.raw
        /\ DayLen \in Int /\ run.rollup \in Int /\ run.cutoff \in Int /\ run.started \in Int
    BY WindowsAreNumbers DEF RunOK, IsRun
  <1>2. cutoff \in Int
    BY <1>1
  <1>3. ~run.torn => cutoff = run.started - current.rollup * DayLen
    <2> SUFFICES ASSUME ~run.torn PROVE cutoff = run.started - current.rollup * DayLen
      OBVIOUS
    <2>1. /\ run.rollup = current.rollup
          /\ run.cutoff = run.started - current.raw * DayLen
      BY DEF RunOK, CutoffsCurrent, RawCutoff
    <2>2. extra = current.rollup - current.raw
      BY <1>1, <2>1
    <2>3. (current.rollup - current.raw) * DayLen
             = current.rollup * DayLen - current.raw * DayLen
      BY <1>1
    <2> QED
      BY <1>1, <2>1, <2>2, <2>3
  <1> HIDE DEF cutoff
  <1>4. RunOK([run EXCEPT !.pc = "daily", !.cutoff = cutoff])
    BY <1>2, <1>3 DEF RunOK, IsRun, CutoffsCurrent
  <1> QED
    BY <1>4 DEF cutoff

LEMMA WindowKeepsTypes ==
    ASSUME PurgeTypes, NEW r \in Runs, Window(r) PROVE PurgeTypes'
  <1> DEFINE extra == IF runs[r].rollup > current.raw
                      THEN runs[r].rollup - current.raw ELSE 0
             next == [runs[r] EXCEPT !.pc = "daily", !.cutoff = @ - extra * DayLen]
  <1>1. RunOK(runs[r]) /\ runs[r].pc = "window"
    BY ActiveIsRun DEF Window
  <1>2. RunOK(next)
    BY <1>1, WindowIsOK
  <1>3. runs' = [runs EXCEPT ![r] = next]
    BY DEF Window, PurgeTypes, RunsInv
  <1> HIDE DEF next
  <1>4. DOMAIN runs' = Runs /\ \A o \in Runs : runs'[o] = NoRun \/ RunOK(runs'[o])
    BY <1>2, <1>3 DEF PurgeTypes, RunsInv
  <1>5. RunsInv'
    BY <1>4 DEF Window, rowVars, RunsInv, RunOK, IsRun, AsStored, CutoffsCurrent, RawCutoff,
                retentionVars
  <1>6. RowTypes'
    BY DEF Window, rowVars, PurgeTypes, RowTypes
  <1> QED
    BY <1>5, <1>6, SameWindows DEF Window, PurgeTypes

LEMMA SweepPageKeepsTypes ==
    ASSUME PurgeTypes, NEW r \in Runs, SweepPage(r) PROVE PurgeTypes'
  <1>1. RunsInv'
    BY AdvanceKeepsRuns DEF SweepPage
  <1>2. RowTypes'
    <2>1. \A e \in Events : daily[e] \in Nat
      BY DEF PurgeTypes, RowTypes
    <2>2. daily' \in [Events -> Nat] /\ \A e \in Events : daily'[e] \in {0, daily[e]}
      BY <2>1 DEF SweepPage
    <2> QED
      BY <2>2 DEF SweepPage, PurgeTypes, RowTypes
  <1> QED
    BY <1>1, <1>2, SameWindows DEF SweepPage, PurgeTypes

LEMMA RunFailsKeepsTypes ==
    ASSUME PurgeTypes, NEW r \in Runs, RunFails(r) PROVE PurgeTypes'
  <1>1. DOMAIN runs' = Runs /\ \A o \in Runs : runs'[o] = NoRun \/ RunOK(runs'[o])
    BY DEF RunFails, PurgeTypes, RunsInv
  <1>2. RunsInv'
    BY <1>1 DEF RunFails, rowVars, RunsInv, RunOK, IsRun, AsStored, CutoffsCurrent, RawCutoff,
                retentionVars
  <1>3. RowTypes'
    BY DEF RunFails, rowVars, PurgeTypes, RowTypes
  <1> QED
    BY <1>2, <1>3, SameWindows DEF RunFails, PurgeTypes

LEMMA ReconfigureKeepsTypes == PurgeTypes /\ Reconfigure => PurgeTypes'
  <1> SUFFICES ASSUME PurgeTypes, Reconfigure PROVE PurgeTypes'
    OBVIOUS
  <1>1. WindowsInv'
    BY ConfigureKeepsWindows DEF Reconfigure, PurgeTypes
  <1>2. RowTypes'
    BY DEF Reconfigure, rowVars, PurgeTypes, RowTypes
  <1>3. ASSUME NEW r \in Runs PROVE (runs[r] = NoRun \/ RunOK(runs[r]))'
    <2>1. CASE ~Active(r)
      BY <2>1 DEF Reconfigure, PurgeTypes, RunsInv, Active, RunOK, IsRun
    <2>2. CASE Active(r) /\ current' = current
      <3>1. runs'[r] = runs[r]
        BY <2>2 DEF Reconfigure
      <3> QED
        BY <2>2, <3>1, ActiveIsRun
           DEF Active, Reconfigure, rowVars, RunOK, IsRun, AsStored, CutoffsCurrent, RawCutoff
    <2>3. CASE Active(r) /\ current' # current
      <3>1. runs'[r] = [runs[r] EXCEPT !.torn = TRUE] /\ RunOK(runs[r])
        BY <2>3, ActiveIsRun DEF Reconfigure, Active
      <3>2. runs'[r].torn /\ runs'[r].page = runs[r].page /\ IsRun(runs'[r])
            /\ runs'[r].started = runs[r].started
        BY <3>1 DEF RunOK, IsRun
      <3> QED
        BY <3>1, <3>2 DEF Reconfigure, rowVars, RunOK, IsRun, AsStored
    <2> QED
      BY <2>1, <2>2, <2>3
  <1> QED
    BY <1>1, <1>2, <1>3 DEF Reconfigure, PurgeTypes, RunsInv

LEMMA CrashKeepsTypes == PurgeTypes /\ Crash => PurgeTypes'
  <1> SUFFICES ASSUME PurgeTypes, Crash PROVE PurgeTypes'
    OBVIOUS
  <1>1. WindowsInv'
    BY RestartKeepsWindows DEF Crash, PurgeTypes
  <1>2. RowTypes' /\ RunsInv'
    BY DEF Crash, rowVars, PurgeTypes, RowTypes, RunsInv
  <1> QED
    BY <1>1, <1>2 DEF PurgeTypes

LEMMA PurgeNextKeepsTypes == PurgeTypes /\ PurgeNext => PurgeTypes'
  BY IngestKeepsTypes, TickKeepsTypes, StartKeepsTypes, ScrubPageKeepsTypes, ReadPageKeepsTypes,
     CommitPageKeepsTypes, WindowKeepsTypes, SweepPageKeepsTypes, RunFailsKeepsTypes,
     ReconfigureKeepsTypes, CrashKeepsTypes
     DEF PurgeNext, Step

LEMMA StutterKeepsTypes == PurgeTypes /\ UNCHANGED <<purgeVars, retentionVars>> => PurgeTypes'
  BY SameRuns DEF purgeVars, rowVars, PurgeTypes, RowTypes

-----------------------------------------------------------------------------
(* One run at a time: until two have overlapped at most one is under way,   *)
(* and the events of its page are still rows. *)
OneRun ==
    ~overlapped =>
        /\ \A r, o \in Runs : Active(r) /\ Active(o) => r = o
        /\ \A r \in Runs : Active(r) => \A i \in runs[r].page : i[2] \in raw
        /\ \A e \in Events : e \in raw => daily[e] = 0
        /\ \A e \in Events : daily[e] <= 1

PurgeInv == PurgeTypes /\ OneRun

LEMMA OneRunInitially == PurgeInit => OneRun
  BY DEF PurgeInit, OneRun, Active, NoRun

\* What becomes of a run other than the one that steps, and of its page.
LEMMA SameRunsStayOne ==
    ASSUME PurgeInv, UNCHANGED <<raw, daily, overlapped>>,
           \A r \in Runs : runs'[r] = NoRun \/ (Active(r) /\ runs'[r].page \subseteq runs[r].page)
    PROVE  OneRun'
  BY DEF PurgeInv, OneRun, Active, NoRun

LEMMA AdvancePages ==
    ASSUME PurgeInv, NEW r \in Runs, Active(r), NEW page, NEW done, Advance(r, page, done),
           done = NoRun \/ done.page \subseteq runs[r].page
    PROVE  /\ runs'[r] = NoRun \/ runs'[r].page \subseteq runs[r].page
           /\ \A o \in Runs \ {r} : runs'[o] = runs[o]
  <1>1. [runs[r] EXCEPT !.cursor = Last(page), !.page = {}].page = {}
    BY ActiveIsRun DEF PurgeInv, Active, RunOK, IsRun
  <1> QED
    BY <1>1 DEF Advance, PurgeInv, PurgeTypes, RunsInv

LEMMA NoRunIsIdle == \A r \in Runs : PurgeInv => (Active(r) <=> runs[r] # NoRun)
  BY DEF PurgeInv, PurgeTypes, RunsInv, RunOK, IsRun, Active, NoRun

LEMMA StepKeepsOneRun ==
    ASSUME PurgeInv, NEW r \in Runs, Step(r) PROVE OneRun'
  <1>0. Active(r) /\ RunOK(runs[r])
    BY ActiveIsRun DEF Step, ScrubPage, ReadPage, CommitPage, Window, SweepPage, Active, PurgeInv
  <1>1. CASE ScrubPage(r)
    <2>1. [runs[r] EXCEPT !.pc = "raw", !.cursor = NoCursor,
             !.cutoff = IF r \in Tickers THEN RawCutoff(runs[r].started) ELSE @].page
             = runs[r].page
      BY <1>0 DEF RunOK, IsRun
    <2>2. /\ runs'[r] = NoRun \/ runs'[r].page \subseteq runs[r].page
          /\ \A o \in Runs \ {r} : runs'[o] = runs[o]
      BY <1>0, <1>1, <2>1, AdvancePages DEF ScrubPage
    <2> QED
      BY <1>0, <1>1, <2>2, NoRunIsIdle, SameRunsStayOne DEF ScrubPage
  <1>2. CASE ReadPage(r)
    <2> DEFINE page == Page(EventItems, runs[r].cutoff, runs[r].cursor)
    <2>1. \A i \in page : i[2] \in raw
      BY PageIsOfItems, EventItemsAreStored DEF PurgeInv
    <2>2. runs'[r].page \in {{}, page} /\ \A o \in Runs \ {r} : runs'[o] = runs[o]
      BY <1>0, <1>2 DEF ReadPage, RollupRead, PurgeInv, PurgeTypes, RunsInv, RunOK, IsRun
    <2> HIDE DEF page
    <2>3. UNCHANGED <<raw, daily, overlapped>>
      BY <1>2 DEF ReadPage, rowVars
    <2> QED
      BY <1>0, <2>1, <2>2, <2>3 DEF PurgeInv, OneRun, Active
  <1>3. CASE CommitPage(r)
    <2>1. /\ runs'[r] = NoRun \/ runs'[r].page \subseteq {}
          /\ \A o \in Runs \ {r} : runs'[o] = runs[o]
      <3>1. RollupRead(runs[r]).page = {}
        BY <1>0 DEF RollupRead, RunOK, IsRun
      <3>2. [runs[r] EXCEPT !.cursor = Last(runs[r].page), !.page = {}].page = {}
        BY <1>0 DEF RunOK, IsRun
      <3> QED
        BY <1>3, <3>1, <3>2 DEF CommitPage, Advance, PurgeInv, PurgeTypes, RunsInv
    <2>2. /\ daily' = [e \in Events |-> daily[e] + IF e \in DoomedEvents(r) THEN 1 ELSE 0]
          /\ raw' = raw \ DoomedEvents(r) /\ overlapped' = overlapped
      BY <1>3 DEF CommitPage, DoomedEvents
    <2> SUFFICES ASSUME ~overlapped' PROVE OneRun'
      BY DEF OneRun
    <2>3. DoomedEvents(r) \subseteq raw
      BY <1>0, <2>2 DEF DoomedEvents, Doomed, PurgeInv, OneRun
    <2>4. \A e \in Events : daily'[e] = daily[e] + IF e \in DoomedEvents(r) THEN 1 ELSE 0
      BY <2>2
    <2>5. \A e \in Events : daily[e] \in Nat
      BY DEF PurgeInv, PurgeTypes, RowTypes
    <2>6. /\ \A e \in Events : e \in raw' => daily'[e] = 0
          /\ \A e \in Events : daily'[e] <= 1
      BY <2>2, <2>3, <2>4, <2>5 DEF PurgeInv, OneRun
    <2>7. \A o \in Runs : o # r => ~Active(o)
      BY <1>0, <2>2 DEF PurgeInv, OneRun
    <2>8. \A o \in Runs : o # r => ~Active(o)'
      BY <2>1, <2>7 DEF Active
    <2>9. \A o \in Runs : Active(o)' => o = r /\ runs'[o].page = {}
      BY <2>1, <2>8 DEF Active, NoRun
    <2> QED
      BY <2>6, <2>9 DEF OneRun
  <1>4. CASE Window(r)
    <2>1. runs'[r].page = runs[r].page /\ \A o \in Runs \ {r} : runs'[o] = runs[o]
      BY <1>0, <1>4 DEF Window, PurgeInv, PurgeTypes, RunsInv, RunOK, IsRun
    <2> QED
      BY <1>0, <1>4, <2>1, NoRunIsIdle, SameRunsStayOne DEF Window, rowVars
  <1>5. CASE SweepPage(r)
    <2>1. /\ runs'[r] = NoRun \/ runs'[r].page \subseteq runs[r].page
          /\ \A o \in Runs \ {r} : runs'[o] = runs[o]
      BY <1>0, <1>5, AdvancePages DEF SweepPage
    <2>2. \A e \in Events : daily'[e] \in {0, daily[e]}
      BY <1>5 DEF SweepPage
    <2>3. raw' = raw /\ overlapped' = overlapped
      BY <1>5 DEF SweepPage
    <2>4. \A e \in Events : daily[e] <= 1 => daily'[e] <= 1
      BY <2>2
    <2>5. \A o \in Runs : Active(o)' => Active(o) /\ runs'[o].page \subseteq runs[o].page
      BY <1>0, <2>1 DEF Active, NoRun
    <2> QED
      BY <2>2, <2>3, <2>4, <2>5 DEF PurgeInv, OneRun
  <1> QED
    BY <1>1, <1>2, <1>3, <1>4, <1>5 DEF Step

LEMMA PurgeNextKeepsOneRun == PurgeInv /\ PurgeNext => OneRun'
  <1> SUFFICES ASSUME PurgeInv, PurgeNext PROVE OneRun'
    OBVIOUS
  <1>1. ASSUME NEW e \in Events, Ingest(e) PROVE OneRun'
    <2>1. daily[e] = 0
      BY <1>1 DEF Ingest, PurgeInv, PurgeTypes, RowTypes
    <2> QED
      BY <1>1, <2>1 DEF Ingest, PurgeInv, OneRun, Active
  <1>2. CASE Tick
    BY <1>2 DEF Tick, rowVars, PurgeInv, OneRun, Active
  <1>3. ASSUME NEW r \in Runs, Start(r) PROVE OneRun'
    <2> SUFFICES ASSUME ~overlapped' PROVE OneRun'
      BY DEF OneRun
    <2>1. ~overlapped /\ \A o \in Runs : ~Active(o)
      BY <1>3 DEF Start
    <2>2. /\ UNCHANGED <<raw, daily>>
          /\ runs'[r].page = {} /\ \A o \in Runs \ {r} : runs'[o] = runs[o]
      BY <1>3 DEF Start, rowVars, PurgeInv, PurgeTypes, RunsInv
    <2>3. \A o \in Runs : Active(o)' => o = r
      BY <2>1, <2>2 DEF Active
    <2> QED
      BY <2>1, <2>2, <2>3 DEF PurgeInv, OneRun
  <1>4. ASSUME NEW r \in Runs, RunFails(r) PROVE OneRun'
    <2>1. \A o \in Runs : runs'[o] = NoRun \/ runs'[o] = runs[o]
      BY <1>4 DEF RunFails, PurgeInv, PurgeTypes, RunsInv
    <2> QED
      BY <1>4, <2>1, NoRunIsIdle, SameRunsStayOne DEF RunFails, rowVars
  <1>5. CASE Reconfigure
    <2>1. ASSUME NEW r \in Runs
          PROVE  runs'[r] = NoRun \/ (Active(r) /\ runs'[r].page \subseteq runs[r].page)
      BY <1>5, NoRunIsIdle, ActiveIsRun DEF Reconfigure, PurgeInv, RunOK, IsRun, Active
    <2> QED
      BY <1>5, <2>1, SameRunsStayOne DEF Reconfigure, rowVars
  <1>6. CASE Crash
    BY <1>6, SameRunsStayOne DEF Crash, rowVars
  <1> QED
    BY <1>1, <1>2, <1>3, <1>4, <1>5, <1>6, StepKeepsOneRun DEF PurgeNext

LEMMA PurgeInvInductive ==
    /\ PurgeInit => PurgeInv
    /\ PurgeInv /\ [PurgeNext]_<<purgeVars, retentionVars>> => PurgeInv'
  <1>1. PurgeInv /\ UNCHANGED <<purgeVars, retentionVars>> => OneRun'
    BY DEF PurgeInv, OneRun, Active, purgeVars, rowVars
  <1> QED
    BY <1>1, RunsInitially, OneRunInitially, PurgeNextKeepsTypes, StutterKeepsTypes,
       PurgeNextKeepsOneRun
       DEF PurgeInv

\* Every step of the statistics is a step of the purge or leaves it alone.
LEMMA StatsStepsOfPurge ==
    [StatsNext]_statsVars => [PurgeNext]_<<purgeVars, retentionVars>>
  BY DEF StatsNext, statsVars, Begin, LoadRows, LoadRollups, Read, Meanwhile

-----------------------------------------------------------------------------
(* For any events, runs, settings and page size: as long as two runs have   *)
(* not overlapped, no event is counted twice by its daily row, nor counted  *)
(* there and still a row (CommitPage rolls up and deletes in one            *)
(* transaction, and what it read is still there). *)
THEOREM OnceUnlessOverlapped == PurgeSpec => []RolledUpOnce
  <1>1. PurgeInv => RolledUpOnce
    <2> SUFFICES ASSUME PurgeInv, ~overlapped, NEW e \in Events
                 PROVE  daily[e] + (IF e \in raw THEN 1 ELSE 0) <= 1
      BY DEF RolledUpOnce
    <2>1. daily[e] \in Nat /\ daily[e] <= 1 /\ (e \in raw => daily[e] = 0)
      BY DEF PurgeInv, PurgeTypes, RowTypes, OneRun
    <2> QED
      BY <2>1
  <1> QED
    BY <1>1, PurgeInvInductive, PTL DEF PurgeSpec

(* Whatever PUTs, edits of the row, crashes and restarts: the windows in    *)
(* memory are in range, rollups outlive raw rows, and only a default of the *)
(* code that replaced a window out of range exceeds the plan ceiling, for   *)
(* any default, any content of the row and any ceiling. *)
THEOREM WindowsAlwaysUsable == StatsSpec => []RollupsOutliveRaw
  <1>1. PurgeInv => RollupsOutliveRaw
    <2> SUFFICES ASSUME PurgeInv PROVE RollupsOutliveRaw
      OBVIOUS
    <2>1. current \in Windows
      BY DEF PurgeInv, PurgeTypes, WindowsInv
    <2> QED
      BY <2>1, RetentionAssumption DEF Windows, RollupsOutliveRaw
  <1> QED
    BY <1>1, PurgeInvInductive, StatsStepsOfPurge, PTL DEF StatsSpec, StatsInit

-----------------------------------------------------------------------------
(* Nothing is lost. *)
LEMMA CutoffsAreInts ==
    ASSUME PurgeInv
    PROVE  /\ now \in Int
           /\ RawCutoff(now) \in Int
           /\ current.rollup * DayLen \in Int /\ current.raw * DayLen \in Int
  <1>1. current.raw \in Int /\ current.rollup \in Int /\ DayLen \in Int
    BY WindowsAreNumbers DEF PurgeInv
  <1>2. now \in Int
    BY DEF PurgeInv, PurgeTypes, RowTypes
  <1> QED
    BY <1>1, <1>2 DEF RawCutoff

LEMMA ActiveRunAtCutoff ==
    ASSUME PurgeInv, NEW r \in Runs, runs[r].pc = "daily", ~runs[r].torn
    PROVE  /\ runs[r].cutoff \in Int
           /\ runs[r].cutoff <= now - current.rollup * DayLen
  <1>1. RunOK(runs[r])
    BY ActiveIsRun DEF PurgeInv
  <1>2. runs[r].cutoff = runs[r].started - current.rollup * DayLen
    BY <1>1 DEF RunOK, CutoffsCurrent
  <1>3. /\ runs[r].started \in Int /\ runs[r].started <= now
        /\ current.rollup * DayLen \in Int /\ now \in Int
    BY <1>1, CutoffsAreInts DEF RunOK, IsRun
  <1> QED
    BY <1>2, <1>3

LEMMA BucketIsInt ==
    ASSUME PurgeInv, NEW e \in Events
    PROVE  /\ ts[e] \in Int /\ Bucket(e)[1] = DayStart(Day(ts[e]))
           /\ Bucket(e)[1] \in Int
  <1>1. ts[e] \in Int
    BY DEF PurgeInv, PurgeTypes, RowTypes, Unborn
  <1> QED
    BY <1>1, DayContains DEF Bucket

\* Only a sweep takes an event out of both collections.
LEMMA OnlySweepLoses ==
    ASSUME PurgeInv, PurgeNext, NEW e \in Events, Stored(e), ~Stored(e)'
    PROVE  \E r \in Runs : /\ SweepPage(r) /\ runs[r].pc = "daily"
                           /\ daily[e] > 0 /\ Bucket(e)[1] < runs[r].cutoff
  <1>0. \A x \in Events : daily[x] \in Nat
    BY DEF PurgeInv, PurgeTypes, RowTypes
  <1>1. ASSUME NEW r \in Runs, CommitPage(r) PROVE FALSE
    <2>1. /\ daily'[e] = daily[e] + IF e \in DoomedEvents(r) THEN 1 ELSE 0
          /\ raw' = raw \ DoomedEvents(r)
      BY <1>1 DEF CommitPage, DoomedEvents
    <2> QED
      BY <1>0, <2>1 DEF Stored
  <1>2. ASSUME NEW r \in Runs, SweepPage(r)
        PROVE  runs[r].pc = "daily" /\ daily[e] > 0 /\ Bucket(e)[1] < runs[r].cutoff
    <2> DEFINE page == Page(DailyItems, runs[r].cutoff, runs[r].cursor)
    <2>1. /\ runs[r].pc = "daily" /\ raw' = raw
          /\ daily'[e] = IF daily[e] > 0 /\ Bucket(e) \in Doomed(page, runs[r].cutoff)
                         THEN 0 ELSE daily[e]
      BY <1>2 DEF SweepPage
    <2> HIDE DEF page
    <2>2. daily[e] > 0 /\ Bucket(e) \in Doomed(page, runs[r].cutoff)
      BY <1>0, <2>1 DEF Stored
    <2> QED
      BY <2>1, <2>2 DEF Doomed
  <1>3. \A r \in Runs : ~(ScrubPage(r) \/ ReadPage(r) \/ Window(r) \/ Start(r) \/ RunFails(r))
    BY DEF ScrubPage, ReadPage, Window, Start, RunFails, rowVars, Stored
  <1>4. ~Tick /\ ~Reconfigure /\ ~Crash /\ \A x \in Events : ~Ingest(x)
    BY DEF Tick, Reconfigure, Crash, Ingest, rowVars, Stored
  <1> QED
    BY <1>1, <1>2, <1>3, <1>4 DEF PurgeNext, Step

(* For any events, runs, settings and page size, beside any queries: an     *)
(* event leaves both collections only when its day is past the rollup       *)
(* window, or in a run under which the windows changed. *)
THEOREM NothingIsLost == StatsSpec => NothingLost
  <1> DEFINE A == \A e \in Events :
                     Stored(e) /\ ~(Stored(e))' =>
                        Stale(e) \/ \E r \in Runs : Active(r) /\ runs[r].torn
  <1>1. PurgeInv /\ [PurgeNext]_<<purgeVars, retentionVars>> => [A]_<<purgeVars, retentionVars>>
    <2> SUFFICES ASSUME PurgeInv, PurgeNext, NEW e \in Events, Stored(e), ~Stored(e)',
                        \A r \in Runs : Active(r) => ~runs[r].torn
                 PROVE  Stale(e)
      BY ActiveIsRun DEF PurgeInv, RunOK, IsRun, Active
    <2>1. PICK r \in Runs : runs[r].pc = "daily" /\ Bucket(e)[1] < runs[r].cutoff
      BY OnlySweepLoses
    <2>2. runs[r].cutoff \in Int /\ runs[r].cutoff <= now - current.rollup * DayLen
      BY <2>1, ActiveRunAtCutoff DEF Active
    <2>3. Bucket(e)[1] \in Int /\ now - current.rollup * DayLen \in Int
      BY BucketIsInt, CutoffsAreInts
    <2> QED
      BY <2>1, <2>2, <2>3 DEF Stale
  <1> QED
    BY <1>1, PurgeInvInductive, StatsStepsOfPurge, PTL DEF StatsSpec, StatsInit, NothingLost

-----------------------------------------------------------------------------
(* The query.  Its horizon is the start of a day, and the rows it took are  *)
(* not older than that: no event of a daily row before the horizon is among *)
(* them. *)
IsQuery(q) ==
    q \in [pc : {"rows", "rollups", "answered"}, started : Nat, cutoffDay : Int,
           horizon : Int, eventCutoff : Int, rows : SUBSET Events, rolled : {q.rolled},
           owed : SUBSET Events, torn : BOOLEAN, counts : [Events -> Nat]]

QueryOK(q) ==
    /\ IsQuery(q) /\ q.started <= now /\ now <= q.started + 1
    /\ q.horizon <= q.eventCutoff
    /\ \E day \in Int : q.horizon = DayStart(day)
    /\ \A e \in q.rows : ts[e] # Unborn /\ ts[e] >= q.eventCutoff
    /\ q.pc = "answered" /\ ~overlapped => \A e \in Events : q.counts[e] <= 1

\* The day the rollup window began in when the query did.
OldestDay(q) == DayStart(Day(q.started - current.rollup * DayLen))

\* Where an event the answer owes is, until it is counted.
LiveOwed(q, e) == e \in raw /\ Bucket(e)[1] > q.horizon /\ ts[e] >= q.eventCutoff
RolledOwed(q, e) ==
    /\ daily[e] > 0 /\ q.cutoffDay < Bucket(e)[1] /\ Bucket(e)[1] < q.horizon
    /\ OldestDay(q) < Bucket(e)[1]

\* While the windows stay as they were when the query began, the runs work
\* with those too, and take from it nothing that it owes.
OnTheWay(q) ==
    ~q.torn =>
        /\ \A r \in Runs : Active(r) => ~runs[r].torn
        /\ q.horizon = HorizonFor(q.started)
        /\ \A e \in q.owed :
              /\ q.pc = "rows" => LiveOwed(q, e) \/ RolledOwed(q, e)
              /\ q.pc = "rollups" => e \in q.rows \/ RolledOwed(q, e)
              /\ q.pc = "answered" => q.counts[e] >= 1

QueryInv == query = NoQuery \/ (QueryOK(query) /\ OnTheWay(query))

LEMMA QueryUnderWay ==
    ASSUME QueryInv, query.pc # "idle" PROVE QueryOK(query) /\ OnTheWay(query)
  BY DEF QueryInv, NoQuery

LEMMA IdleIsNoQuery ==
    ASSUME QueryInv, query.pc = "idle" PROVE query = NoQuery
  BY DEF QueryInv, QueryOK, IsQuery

LEMMA WindowIsInt ==
    ASSUME PurgeInv, NEW d \in SinceDays, NEW t \in Int
    PROVE  t - ParseSince(d) * DayLen \in Int
  <1>1. DayLen \in Int /\ current.rollup \in Int
    BY WindowsAreNumbers DEF PurgeInv
  <1>2. ParseSince(d) \in Int
    BY <1>1, StatsAssumption DEF ParseSince
  <1> QED
    BY <1>1, <1>2

LEMMA DayMonotonic ==
    ASSUME NEW s \in Int, NEW t \in Int, s <= t
    PROVE  DayStart(Day(s)) <= DayStart(Day(t))
  BY DayContains, AlignedBelow

\* A time on a later day is a later time.
LEMMA LaterDay ==
    ASSUME NEW s \in Int, NEW t \in Int, DayStart(Day(s)) < DayStart(Day(t))
    PROVE  s < t
  <1>1. DayStart(Day(t)) <= t /\ DayStart(Day(s)) \in Int /\ DayStart(Day(t)) \in Int
    BY DayContains
  <1>2. t < s => DayStart(Day(t)) <= DayStart(Day(s))
    BY DayMonotonic
  <1> QED
    BY <1>1, <1>2, DayMonotonic

LEMMA BeginKeepsQuery ==
    ASSUME PurgeInv, QueryInv, Begin PROVE QueryInv'
  <1>1. PICK d \in SinceDays :
          LET cutoff    == now - ParseSince(d) * DayLen
              cutoffDay == DayStart(Day(cutoff))
              horizon   == HorizonFor(now)
          IN  query' = [pc |-> "rows", started |-> now, cutoffDay |-> cutoffDay,
                        horizon |-> horizon,
                        eventCutoff |-> EventCutoffFor(cutoff, horizon), rows |-> {},
                        rolled |-> {e \in Events : daily[e] > 0},
                        owed |-> Owed(cutoffDay),
                        torn |-> \E r \in Runs : Active(r) /\ runs[r].torn,
                        counts |-> [e \in Events |-> 0]]
    BY DEF Begin
  <1> DEFINE cutoff    == now - ParseSince(d) * DayLen
             cutoffDay == DayStart(Day(cutoff))
             horizon   == HorizonFor(now)
             torn      == \E r \in Runs : Active(r) /\ runs[r].torn
             q == [pc |-> "rows", started |-> now, cutoffDay |-> cutoffDay,
                   horizon |-> horizon,
                   eventCutoff |-> EventCutoffFor(cutoff, horizon), rows |-> {},
                   rolled |-> {e \in Events : daily[e] > 0},
                   owed |-> Owed(cutoffDay), torn |-> torn,
                   counts |-> [e \in Events |-> 0]]
  <1>2. /\ now \in Int /\ cutoff \in Int /\ RawCutoff(now) \in Int
        /\ current.rollup * DayLen \in Int
    BY CutoffsAreInts, WindowIsInt
  <1>3. horizon = DayStart(Day(RawCutoff(now))) /\ horizon \in Int /\ cutoffDay \in Int
        /\ Day(RawCutoff(now)) \in Int
    BY <1>2, DayContains DEF HorizonFor, RawCutoff
  <1>4. OldestDay(q) = DayStart(Day(now - current.rollup * DayLen))
        /\ OldestDay(q) \in Int
    BY <1>2, DayContains DEF OldestDay
  <1>5. EventCutoffFor(cutoff, horizon) \in {cutoff, horizon}
        /\ EventCutoffFor(cutoff, horizon) >= horizon
    BY <1>2, <1>3 DEF EventCutoffFor
  <1>6. ASSUME NEW e \in Owed(cutoffDay)
        PROVE  /\ e \in Events
               /\ LiveOwed(q, e) \/ RolledOwed(q, e)
    <2>1. /\ e \in Events /\ Bucket(e)[1] > cutoffDay
          /\ \/ Bucket(e)[1] > horizon /\ e \in raw
             \/ /\ OldestDay(q) < Bucket(e)[1] /\ Bucket(e)[1] < horizon
                /\ daily[e] > 0
      BY <1>3, <1>4 DEF Owed
    <2>2. ts[e] \in Int /\ Bucket(e)[1] = DayStart(Day(ts[e])) /\ Bucket(e)[1] \in Int
      BY <2>1, BucketIsInt
    <2>3. cutoff < ts[e]
      BY <1>2, <2>1, <2>2, LaterDay
    <2>4. Bucket(e)[1] <= ts[e]
      BY <2>2, DayContains
    <2>5. Bucket(e)[1] > horizon => ts[e] >= EventCutoffFor(cutoff, horizon)
      BY <1>2, <1>3, <1>5, <2>2, <2>3, <2>4
    <2> QED
      BY <2>1, <2>5 DEF LiveOwed, RolledOwed
  <1>7. now \in Nat
    BY DEF PurgeInv, PurgeTypes, RowTypes
  <1>8. IsQuery(q)
    <2>1. EventCutoffFor(cutoff, horizon) \in Int /\ Owed(cutoffDay) \subseteq Events
      BY <1>2, <1>3, <1>5, <1>6
    <2> HIDE DEF cutoff, cutoffDay, horizon
    <2> QED
      BY <1>3, <1>7, <2>1 DEF IsQuery
  <1>9. QueryOK(q)
    BY <1>2, <1>3, <1>5, <1>8 DEF QueryOK
  <1>10. OnTheWay(q)
    BY <1>3, <1>6 DEF OnTheWay
  <1>11. query' = q /\ UNCHANGED <<retentionVars, purgeVars>>
    BY <1>1 DEF Begin
  <1> HIDE DEF q
  <1> QED
    BY <1>9, <1>10, <1>11
       DEF QueryInv, QueryOK, IsQuery, OnTheWay, LiveOwed, RolledOwed, OldestDay, Bucket, HorizonFor,
           Active, retentionVars, purgeVars, rowVars

LEMMA LoadRowsKeepsQuery ==
    ASSUME PurgeInv, QueryInv, LoadRows PROVE QueryInv'
  <1> DEFINE rows == {e \in raw : ts[e] >= query.eventCutoff}
             q == [query EXCEPT !.pc = "rollups", !.rows = rows]
  <1>1. QueryOK(query) /\ OnTheWay(query) /\ query.pc = "rows"
    BY QueryUnderWay DEF LoadRows
  <1>2. rows \subseteq Events /\ \A e \in rows : ts[e] # Unborn /\ ts[e] >= query.eventCutoff
    BY DEF PurgeInv, PurgeTypes, RowTypes
  <1>3. QueryOK(q)
    <2> HIDE DEF rows
    <2> QED
      BY <1>1, <1>2 DEF QueryOK, IsQuery
  <1>4. OnTheWay(q)
    <2>1. /\ q.torn = query.torn /\ q.horizon = query.horizon /\ q.started = query.started
          /\ q.cutoffDay = query.cutoffDay /\ q.owed = query.owed
          /\ q.pc = "rollups" /\ q.rows = rows
      BY <1>1 DEF QueryOK, IsQuery
    <2>2. \A e \in query.owed : LiveOwed(query, e) => e \in rows
      BY DEF LiveOwed
    <2> HIDE DEF q, rows
    <2> QED
      BY <1>1, <2>1, <2>2 DEF OnTheWay, RolledOwed, OldestDay
  <1>5. query' = q /\ UNCHANGED <<retentionVars, purgeVars>>
    BY DEF LoadRows
  <1> HIDE DEF q
  <1> QED
    BY <1>3, <1>4, <1>5
       DEF QueryInv, QueryOK, IsQuery, OnTheWay, LiveOwed, RolledOwed, OldestDay, Bucket, HorizonFor,
           Active, retentionVars, purgeVars, rowVars

\* A row the query took and a daily row before its horizon are never of one event.
LEMMA RowsAreNotHistory ==
    ASSUME PurgeInv, NEW q, QueryOK(q), NEW e \in q.rows PROVE e \notin History(q)
  <1>1. PICK day \in Int : q.horizon = DayStart(day)
    BY DEF QueryOK
  <1>2. /\ e \in Events /\ q.horizon <= ts[e]
        /\ q.horizon \in Int
    <2>1. e \in Events
      BY DEF QueryOK, IsQuery
    <2> QED
      BY <2>1, BucketIsInt DEF QueryOK, IsQuery
  <1>3. /\ ts[e] \in Int /\ Bucket(e)[1] = DayStart(Day(ts[e])) /\ Bucket(e)[1] \in Int
    BY <1>2, BucketIsInt
  <1>4. q.horizon <= Bucket(e)[1]
    BY <1>1, <1>2, <1>3, AlignedBelow
  <1> QED
    BY <1>2, <1>3, <1>4 DEF History, QueryOK, IsQuery

LEMMA LoadRollupsKeepsQuery ==
    ASSUME PurgeInv, QueryInv, LoadRollups PROVE QueryInv'
  <1> DEFINE counts == Answer(query)
             q == [query EXCEPT !.pc = "answered", !.counts = counts]
  <1>1. QueryOK(query) /\ OnTheWay(query) /\ query.pc = "rollups"
    BY QueryUnderWay DEF LoadRollups
  <1>2. /\ DOMAIN counts = Events
        /\ counts = [e \in Events |-> counts[e]]
        /\ \A e \in Events :
              /\ daily[e] \in Nat
              /\ counts[e] = (IF e \in query.rows THEN 1 ELSE 0)
                             + (IF e \in History(query) THEN daily[e] ELSE 0)
              /\ counts[e] \in Nat
    <2>1. \A e \in Events : daily[e] \in Nat
      BY DEF PurgeInv, PurgeTypes, RowTypes
    <2> QED
      BY <2>1 DEF Answer
  <1>3. ~overlapped => \A e \in Events : counts[e] <= 1
    <2> SUFFICES ASSUME ~overlapped, NEW e \in Events PROVE counts[e] <= 1
      OBVIOUS
    <2>1. daily[e] <= 1
      BY DEF PurgeInv, OneRun
    <2>2. e \in query.rows => e \notin History(query)
      BY <1>1, RowsAreNotHistory
    <2> QED
      BY <1>2, <2>1, <2>2
  <1>4. \A e \in query.owed : ~query.torn => counts[e] >= 1
    <2> SUFFICES ASSUME NEW e \in query.owed, ~query.torn PROVE counts[e] >= 1
      OBVIOUS
    <2>1. e \in Events /\ (e \in query.rows \/ RolledOwed(query, e))
      BY <1>1 DEF QueryOK, IsQuery, OnTheWay
    <2>2. CASE e \in query.rows
      BY <1>2, <2>1, <2>2
    <2>3. CASE RolledOwed(query, e)
      <3>1. Bucket(e)[1] \in Int /\ query.horizon \in Int /\ query.cutoffDay \in Int
        BY <1>1, <2>1, BucketIsInt DEF QueryOK, IsQuery
      <3>2. e \in History(query) /\ daily[e] > 0
        BY <2>1, <2>3, <3>1 DEF RolledOwed, History
      <3> QED
        BY <1>2, <2>1, <3>2
    <2> QED
      BY <2>1, <2>2, <2>3
  <1>5. query' = q /\ UNCHANGED <<retentionVars, purgeVars>>
    BY DEF LoadRollups
  <1> HIDE DEF counts
  <1>6. QueryOK(q)
    <2>1. counts \in [Events -> Nat]
      BY <1>2
    <2> QED
      BY <1>1, <1>3, <2>1 DEF QueryOK, IsQuery
  <1>7. OnTheWay(q)
    <2>1. /\ q.torn = query.torn /\ q.horizon = query.horizon /\ q.started = query.started
          /\ q.cutoffDay = query.cutoffDay /\ q.owed = query.owed
          /\ q.pc = "answered" /\ q.counts = counts
      BY <1>1 DEF QueryOK, IsQuery
    <2> HIDE DEF q
    <2> QED
      BY <1>1, <1>4, <2>1 DEF OnTheWay
  <1> HIDE DEF q
  <1> QED
    BY <1>5, <1>6, <1>7
       DEF QueryInv, QueryOK, IsQuery, OnTheWay, LiveOwed, RolledOwed, OldestDay, Bucket, HorizonFor,
           Active, retentionVars, purgeVars, rowVars

-----------------------------------------------------------------------------
(* The purge beside the query. *)
LEMMA CutoffsDuringQuery ==
    ASSUME PurgeInv, QueryOK(query), OnTheWay(query), ~query.torn,
           NEW r \in Runs, Active(r)
    PROVE  /\ runs[r].cutoff \in Int /\ query.started \in Int
           /\ runs[r].pc = "raw" =>
                 runs[r].cutoff <= query.started + 1 - current.raw * DayLen
           /\ runs[r].pc = "daily" =>
                 runs[r].cutoff <= query.started + 1 - current.rollup * DayLen
  <1>1. RunOK(runs[r]) /\ ~runs[r].torn
    BY ActiveIsRun DEF PurgeInv, Active, OnTheWay
  <1>2. /\ runs[r].cutoff \in Int /\ runs[r].started \in Int /\ query.started \in Int
        /\ runs[r].started <= query.started + 1 /\ now \in Int
    BY <1>1, CutoffsAreInts DEF RunOK, IsRun, QueryOK, IsQuery
  <1>3. /\ runs[r].pc = "raw" => runs[r].cutoff = runs[r].started - current.raw * DayLen
        /\ runs[r].pc = "daily" => runs[r].cutoff = runs[r].started - current.rollup * DayLen
    BY <1>1 DEF RunOK, CutoffsCurrent, RawCutoff
  <1>4. current.raw * DayLen \in Int /\ current.rollup * DayLen \in Int
    BY CutoffsAreInts
  <1> QED
    BY <1>2, <1>3, <1>4

\* No commit deletes a row of a day after the horizon.
LEMMA CommitSparesLive ==
    ASSUME PurgeInv, QueryOK(query), OnTheWay(query), ~query.torn,
           NEW r \in Runs, CommitPage(r), NEW e \in Events, Bucket(e)[1] > query.horizon
    PROVE  e \notin DoomedEvents(r)
  <1> SUFFICES ASSUME e \in DoomedEvents(r) PROVE FALSE
    OBVIOUS
  <1>1. Active(r) /\ runs[r].pc = "raw"
    BY DEF CommitPage, Active
  <1>2. ts[e] < runs[r].cutoff
    BY <1>1, ActiveIsRun DEF DoomedEvents, Doomed, RunOK, AsStored, PurgeInv
  <1>3. /\ runs[r].cutoff \in Int /\ query.started \in Int
        /\ runs[r].cutoff <= query.started + 1 - current.raw * DayLen
        /\ current.raw * DayLen \in Int
    BY <1>1, CutoffsDuringQuery, CutoffsAreInts
  <1>4. ts[e] \in Int /\ Bucket(e)[1] = DayStart(Day(ts[e])) /\ Bucket(e)[1] \in Int
    BY BucketIsInt
  <1>5. ts[e] <= query.started - current.raw * DayLen
    BY <1>2, <1>3, <1>4
  <1>6. DayStart(Day(ts[e])) <= DayStart(Day(query.started - current.raw * DayLen))
    <2>1. query.started - current.raw * DayLen \in Int
      BY <1>3
    <2> QED
      BY <1>4, <1>5, <2>1, DayMonotonic
  <1>7. DayStart(Day(query.started - current.raw * DayLen)) = query.horizon
        /\ query.horizon \in Int
    BY DEF OnTheWay, HorizonFor, QueryOK, IsQuery
  <1> QED
    BY <1>4, <1>6, <1>7

\* No sweep deletes a daily row of a day after the one the rollup window began in.
LEMMA SweepSparesRolled ==
    ASSUME PurgeInv, QueryOK(query), OnTheWay(query), ~query.torn,
           NEW r \in Runs, SweepPage(r), NEW e \in Events, OldestDay(query) < Bucket(e)[1]
    PROVE  daily'[e] = daily[e]
  <1>1. Active(r) /\ runs[r].pc = "daily"
    BY DEF SweepPage, Active
  <1>2. /\ runs[r].cutoff \in Int /\ query.started \in Int
        /\ runs[r].cutoff <= query.started + 1 - current.rollup * DayLen
        /\ current.rollup * DayLen \in Int
    BY <1>1, CutoffsDuringQuery, CutoffsAreInts
  <1>3. ts[e] \in Int /\ Bucket(e)[1] = DayStart(Day(ts[e])) /\ Bucket(e)[1] \in Int
        /\ Day(ts[e]) \in Int
    BY BucketIsInt, DayContains
  <1>4. ~(Bucket(e)[1] < runs[r].cutoff)
    <2> SUFFICES ASSUME Bucket(e)[1] < runs[r].cutoff PROVE FALSE
      OBVIOUS
    <2> DEFINE t == query.started - current.rollup * DayLen
    <2>1. t \in Int /\ Bucket(e)[1] <= t
      BY <1>2, <1>3
    <2> HIDE DEF t
    <2>2. Bucket(e)[1] <= DayStart(Day(t))
      BY <1>3, <2>1, AlignedBelow
    <2>3. DayStart(Day(t)) = OldestDay(query) /\ DayStart(Day(t)) \in Int
      BY <2>1, DayContains DEF t, OldestDay
    <2> QED
      BY <1>3, <2>2, <2>3
  <1> DEFINE page == Page(DailyItems, runs[r].cutoff, runs[r].cursor)
  <1>5. daily'[e] = IF daily[e] > 0 /\ Bucket(e) \in Doomed(page, runs[r].cutoff)
                    THEN 0 ELSE daily[e]
    BY DEF SweepPage
  <1> HIDE DEF page
  <1> QED
    BY <1>4, <1>5 DEF Doomed

LEMMA StoredTimesStay ==
    ASSUME PurgeInv, PurgeNext
    PROVE  /\ \A e \in Events : ts[e] # Unborn => ts'[e] = ts[e]
           /\ now' >= now
           /\ ~overlapped' => ~overlapped
  <1>1. now \in Int /\ ts \in [Events -> Nat \union {Unborn}]
    BY DEF PurgeInv, PurgeTypes, RowTypes
  <1>2. ASSUME NEW e \in Events, Ingest(e) PROVE UNCHANGED <<now, overlapped>>
                                                 /\ \A x \in Events : ts[x] # Unborn => ts'[x] = ts[x]
    BY <1>1, <1>2 DEF Ingest
  <1>3. CASE Tick
    BY <1>1, <1>3 DEF Tick, rowVars
  <1>4. ASSUME NEW r \in Runs, Start(r) \/ Step(r) \/ RunFails(r)
        PROVE  UNCHANGED <<now, ts>> /\ (~overlapped' => ~overlapped)
    <2>1. CASE Start(r)
      BY <2>1 DEF Start, rowVars
    <2>2. CASE Step(r) \/ RunFails(r)
      BY <2>2 DEF Step, RunFails, ScrubPage, ReadPage, CommitPage, Window, SweepPage, rowVars
    <2> QED
      BY <1>4, <2>1, <2>2
  <1>5. Reconfigure \/ Crash => UNCHANGED <<now, ts, overlapped>>
    BY DEF Reconfigure, Crash, rowVars
  <1> QED
    BY <1>1, <1>2, <1>3, <1>4, <1>5 DEF PurgeNext

\* A run notices a change of the windows and nothing else.
LEMMA UntornStay ==
    ASSUME PurgeInv, PurgeNext, current' = current,
           \A r \in Runs : Active(r) => ~runs[r].torn
    PROVE  \A r \in Runs : Active(r)' => ~runs'[r].torn
  <1>1. ASSUME NEW r \in Runs, Step(r) PROVE \A o \in Runs : Active(o)' => ~runs'[o].torn
    <2>1. RunOK(runs[r]) /\ ~runs[r].torn
      BY <1>1, ActiveIsRun
         DEF Step, ScrubPage, ReadPage, CommitPage, Window, SweepPage, Active, PurgeInv
    <2>2. /\ runs'[r] = NoRun \/ runs'[r].torn = runs[r].torn
          /\ \A o \in Runs \ {r} : runs'[o] = runs[o]
      <3>1. ASSUME NEW page, NEW done, Advance(r, page, done),
                   done = NoRun \/ done.torn = runs[r].torn
            PROVE  /\ runs'[r] = NoRun \/ runs'[r].torn = runs[r].torn
                   /\ \A o \in Runs \ {r} : runs'[o] = runs[o]
        BY <2>1, <3>1 DEF Advance, PurgeInv, PurgeTypes, RunsInv, RunOK, IsRun
      <3>2. RollupRead(runs[r]).torn = runs[r].torn
        BY <2>1 DEF RollupRead, RunOK, IsRun
      <3>3. [runs[r] EXCEPT !.pc = "raw", !.cursor = NoCursor,
               !.cutoff = IF r \in Tickers THEN RawCutoff(runs[r].started) ELSE @].torn
               = runs[r].torn
        BY <2>1 DEF RunOK, IsRun
      <3>4. CASE ScrubPage(r)
        BY <3>1, <3>3, <3>4 DEF ScrubPage
      <3>5. CASE CommitPage(r)
        BY <3>1, <3>2, <3>5 DEF CommitPage
      <3>6. CASE SweepPage(r)
        BY <3>1, <3>6 DEF SweepPage
      <3>7. CASE ReadPage(r)
        BY <2>1, <3>2, <3>7 DEF ReadPage, PurgeInv, PurgeTypes, RunsInv, RunOK, IsRun
      <3>8. CASE Window(r)
        BY <2>1, <3>8 DEF Window, PurgeInv, PurgeTypes, RunsInv, RunOK, IsRun
      <3> QED
        BY <1>1, <3>4, <3>5, <3>6, <3>7, <3>8 DEF Step
    <2> QED
      BY <2>1, <2>2 DEF Active, NoRun
  <1>2. ASSUME NEW r \in Runs, Start(r) PROVE \A o \in Runs : Active(o)' => ~runs'[o].torn
    <2>1. ~runs'[r].torn /\ \A o \in Runs \ {r} : runs'[o] = runs[o]
      BY <1>2 DEF Start, PurgeInv, PurgeTypes, RunsInv
    <2> QED
      BY <2>1 DEF Active
  <1>3. ASSUME NEW r \in Runs, RunFails(r) PROVE \A o \in Runs : Active(o)' => ~runs'[o].torn
    BY <1>3 DEF RunFails, PurgeInv, PurgeTypes, RunsInv, Active, NoRun
  <1>4. CASE Reconfigure
    <2>1. \A o \in Runs : runs'[o] = runs[o]
      BY <1>4 DEF Reconfigure
    <2> QED
      BY <2>1 DEF Active
  <1>5. CASE Crash
    BY <1>5 DEF Crash, Active, NoRun
  <1>6. (Tick \/ \E e \in Events : Ingest(e)) => UNCHANGED runs
    BY DEF Tick, Ingest
  <1> QED
    BY <1>1, <1>2, <1>3, <1>4, <1>5, <1>6 DEF PurgeNext, Active

\* What an event owed to the query is stored in stays.
LEMMA OwedStay ==
    ASSUME PurgeInv, PurgeNext, QueryOK(query), OnTheWay(query), ~query.torn, NEW e \in Events
    PROVE  /\ e \in raw /\ Bucket(e)[1] > query.horizon => e \in raw'
           /\ daily[e] > 0 /\ OldestDay(query) < Bucket(e)[1] => daily'[e] > 0
  <1>1. \A x \in Events : daily[x] \in Nat
    BY DEF PurgeInv, PurgeTypes, RowTypes
  <1>2. ASSUME NEW r \in Runs, CommitPage(r)
        PROVE  /\ e \in raw /\ Bucket(e)[1] > query.horizon => e \in raw'
               /\ daily[e] > 0 => daily'[e] > 0
    <2>1. /\ daily'[e] = daily[e] + IF e \in DoomedEvents(r) THEN 1 ELSE 0
          /\ raw' = raw \ DoomedEvents(r)
      BY <1>2 DEF CommitPage, DoomedEvents
    <2> QED
      BY <1>1, <1>2, <2>1, CommitSparesLive
  <1>3. ASSUME NEW r \in Runs, SweepPage(r)
        PROVE  raw' = raw /\ (OldestDay(query) < Bucket(e)[1] => daily'[e] = daily[e])
    BY <1>3, SweepSparesRolled DEF SweepPage
  <1>4. ASSUME NEW r \in Runs, ScrubPage(r) \/ ReadPage(r) \/ Window(r) \/ Start(r) \/ RunFails(r)
        PROVE  UNCHANGED <<raw, daily>>
    BY <1>4 DEF ScrubPage, ReadPage, Window, Start, RunFails, rowVars
  <1>5. Tick \/ Reconfigure \/ Crash => UNCHANGED <<raw, daily>>
    BY DEF Tick, Reconfigure, Crash, rowVars
  <1>6. (\E x \in Events : Ingest(x)) => daily' = daily /\ raw \subseteq raw'
    BY DEF Ingest
  <1> QED
    BY <1>2, <1>3, <1>4, <1>5, <1>6 DEF PurgeNext, Step

LEMMA MeanwhileKeepsQuery ==
    ASSUME PurgeInv, QueryInv, Meanwhile PROVE QueryInv'
  <1>1. CASE query.pc = "idle"
    BY <1>1, IdleIsNoQuery DEF Meanwhile, QueryInv
  <1>2. CASE query.pc # "idle"
    <2>1. /\ QueryOK(query) /\ OnTheWay(query) /\ PurgeNext
          /\ now' <= query.started + 1 /\ query' = [query EXCEPT !.torn = @ \/ current' # current]
      BY <1>2, QueryUnderWay DEF Meanwhile
    <2>2. /\ IsQuery(query')
          /\ query'.pc = query.pc /\ query'.started = query.started /\ query'.cutoffDay = query.cutoffDay
          /\ query'.horizon = query.horizon /\ query'.eventCutoff = query.eventCutoff
          /\ query'.rows = query.rows /\ query'.owed = query.owed /\ query'.counts = query.counts
          /\ ~query'.torn => ~query.torn /\ current' = current
      <3>1. (query.torn \/ current' # current) \in BOOLEAN
        OBVIOUS
      <3> QED
        BY <2>1, <3>1 DEF QueryOK, IsQuery
    <2>3. /\ \A e \in Events : ts[e] # Unborn => ts'[e] = ts[e]
          /\ now' >= now /\ (~overlapped' => ~overlapped)
      BY <2>1, StoredTimesStay
    <2>4. now \in Int /\ now' \in Int
      BY <2>1, PurgeInvInductive, CutoffsAreInts, PurgeNextKeepsTypes
         DEF PurgeInv, PurgeTypes, RowTypes
    <2>5. QueryOK(query)'
      <3>1. \A e \in query'.rows : ts'[e] # Unborn /\ ts'[e] >= query'.eventCutoff
        BY <2>1, <2>2, <2>3 DEF QueryOK, IsQuery
      <3>2. query.started \in Int
        BY <2>1 DEF QueryOK, IsQuery
      <3>3. query'.started <= now' /\ now' <= query'.started + 1
        BY <2>1, <2>2, <2>3, <2>4, <3>2 DEF QueryOK
      <3> QED
        BY <2>1, <2>2, <2>3, <3>1, <3>3 DEF QueryOK
    <2>6. OnTheWay(query)'
      <3> SUFFICES ASSUME ~query'.torn PROVE OnTheWay(query)'
        BY <2>1, <2>2 DEF OnTheWay
      <3>1. ~query.torn /\ current' = current
        BY <2>2
      <3>2. \A r \in Runs : Active(r)' => ~runs'[r].torn
        BY <2>1, <3>1, UntornStay DEF OnTheWay
      <3>3. \A e \in Events : e \in raw \/ daily[e] > 0 => Bucket(e)' = Bucket(e) /\ ts'[e] = ts[e]
        BY <2>3 DEF Bucket, PurgeInv, PurgeTypes, RowTypes
      <3>4. \A e \in Events : /\ LiveOwed(query, e) => LiveOwed(query, e)'
                              /\ RolledOwed(query, e) => RolledOwed(query, e)'
        BY <2>1, <2>2, <3>1, <3>3, OwedStay DEF LiveOwed, RolledOwed, OldestDay
      <3>5. query'.owed \subseteq Events
        BY <2>2 DEF IsQuery
      <3> QED
        BY <2>1, <2>2, <3>1, <3>2, <3>4, <3>5 DEF OnTheWay, HorizonFor
    <2> QED
      BY <2>1, <2>5, <2>6 DEF QueryInv
  <1> QED
    BY <1>1, <1>2

StatsInv == PurgeInv /\ QueryInv

LEMMA StatsInvInductive ==
    /\ StatsInit => StatsInv
    /\ StatsInv /\ [StatsNext]_statsVars => StatsInv'
  <1>1. StatsInit => StatsInv
    BY PurgeInvInductive DEF StatsInit, StatsInv, QueryInv
  <1>2. StatsInv /\ Read => QueryInv'
    BY DEF Read, QueryInv, StatsInv
  <1>3. StatsInv /\ UNCHANGED statsVars => QueryInv'
    BY DEF StatsInv, QueryInv, QueryOK, IsQuery, OnTheWay, LiveOwed, RolledOwed, OldestDay, Bucket,
           HorizonFor, Active, statsVars, retentionVars, purgeVars, rowVars
  <1>4. StatsInv /\ StatsNext => QueryInv'
    BY <1>2, BeginKeepsQuery, LoadRowsKeepsQuery, LoadRollupsKeepsQuery, MeanwhileKeepsQuery
       DEF StatsInv, StatsNext
  <1> QED
    BY <1>1, <1>3, <1>4, PurgeInvInductive, StatsStepsOfPurge DEF StatsInv

(* For any events, settings, page size and window: an answer counts no      *)
(* event twice, although the purge may move it from the raw rows to the     *)
(* daily rows between the two reads, as long as no two runs overlapped: the *)
(* query fixes its horizon once and takes each event from one side of it. *)
THEOREM NoDoubleCounting == StatsSpec => []NeverOvercounts
  <1>1. StatsInv => NeverOvercounts
    BY QueryUnderWay DEF StatsInv, NeverOvercounts, Answered, QueryOK, NoQuery
  <1> QED
    BY <1>1, StatsInvInductive, PTL DEF StatsSpec

(* For any events, settings, page size and window, the default one of a     *)
(* query that names none and reaches past the rollups included: an answer   *)
(* misses none of the events it owes, which are those of the window asked   *)
(* for that the retention windows still hold, whatever pages the purge      *)
(* commits between the two reads, unless the windows changed under the      *)
(* query or under a run it met. *)
THEOREM NothingOwedIsMissed == StatsSpec => []StatsComplete
  <1>1. StatsInv => StatsComplete
    BY QueryUnderWay DEF StatsInv, StatsComplete, Answered, OnTheWay
  <1> QED
    BY <1>1, StatsInvInductive, PTL DEF StatsSpec
=============================================================================
