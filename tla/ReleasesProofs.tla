--------------------------- MODULE ReleasesProofs ---------------------------
(***************************************************************************)
(* Theorems about Releases for any number of environments, requests and    *)
(* server processes, with their proofs: versions, answers and conflicts    *)
(* first, then what the rows carry, and the collection as an               *)
(* implementation of the append-only log of ReleaseLog.                    *)
(***************************************************************************)
EXTENDS Releases, FunctionTheorems, FiniteSetTheorems, SequenceTheorems, TLAPS

(* A handler that has chosen the version it writes chose a positive one. *)
ChosenPCs == {"flags", "rules", "save", "insert"}
WantPositive == \A r \in Reqs : pc[r] \in ChosenPCs => want[r] \in Nat \ {0}

TypeInv == TypeOK /\ WantPositive

-----------------------------------------------------------------------------
(* MaxVersionForEnv returns a natural number. *)
LEMMA MaxVersionIsNat ==
    ASSUME TypeOK, NEW e \in Envs, NEW m \in Versions(e) \union {0}
    PROVE  m \in Nat
  BY DEF TypeOK, Versions, RowsOf

(* A request answered under the lock, or moved on, keeps every type. *)
LEMMA AnswerKeepsType ==
    ASSUME TypeInv, NEW r \in Reqs, task[r] \in Task,
           NEW code \in {200, 400, 404, 409, 500}, Answer(r, code)
    PROVE  TypeInv'
  <1>1. pc' \in [Reqs -> {"idle", "lock", "done"} \union HoldingPCs]
    BY DEF TypeInv, TypeOK, Answer
  <1>2. writeMu' \in [Procs -> Reqs \union {Nobody}]
    BY DEF TypeInv, TypeOK, Answer, Task
  <1>3. \A q \in Reqs : q # r => pc'[q] = pc[q]
    BY DEF TypeInv, TypeOK, Answer
  <1>4. pc'[r] = "done"
    BY DEF TypeInv, TypeOK, Answer
  <1>5. UNCHANGED <<task, built, want, releases, environments, config>>
    BY DEF Answer, local
  <1>6. \A q \in Reqs : pc'[q] \notin {"idle", "done"} => task'[q] \in Task
    BY <1>3, <1>4, <1>5 DEF TypeInv, TypeOK
  <1>7. status' \in [Reqs -> {0, 200, 400, 404, 409, 500}]
    BY DEF TypeInv, TypeOK, Answer
  <1>8. TypeOK'
    BY <1>1, <1>2, <1>5, <1>6, <1>7 DEF TypeInv, TypeOK
  <1>9. WantPositive'
    BY <1>3, <1>4, <1>5 DEF TypeInv, WantPositive, ChosenPCs
  <1> QED
    BY <1>8, <1>9 DEF TypeInv

LEMMA GotoKeepsType ==
    ASSUME TypeInv, NEW r \in Reqs, task[r] \in Task, NEW next \in HoldingPCs,
           Goto(r, next), task' = task,
           built' \in [Reqs -> Snapshot], want' \in [Reqs -> Nat],
           next \in ChosenPCs => want'[r] # 0,
           \A q \in Reqs \ {r} : want'[q] = want[q]
    PROVE  TypeInv'
  <1>1. pc' \in [Reqs -> {"idle", "lock", "done"} \union HoldingPCs]
    BY DEF TypeInv, TypeOK, Goto
  <1>2. \A q \in Reqs : q # r => pc'[q] = pc[q]
    BY DEF TypeInv, TypeOK, Goto
  <1>3. pc'[r] = next
    BY DEF TypeInv, TypeOK, Goto
  <1>4. UNCHANGED <<status, writeMu, releases, environments, config>>
    BY DEF Goto
  <1>5. \A q \in Reqs : pc'[q] \notin {"idle", "done"} => task'[q] \in Task
    BY <1>2, <1>3 DEF TypeInv, TypeOK
  <1>6. TypeOK'
    BY <1>1, <1>4, <1>5 DEF TypeInv, TypeOK
  <1>7. WantPositive'
    BY <1>2, <1>3, <1>6 DEF TypeInv, WantPositive, TypeOK
  <1> QED
    BY <1>6, <1>7 DEF TypeInv

-----------------------------------------------------------------------------
(* Type correctness: every variable keeps its type in every reachable      *)
(* state, a handler that passed resolution always knows its task, and the  *)
(* version about to be written is positive.                                *)
LEMMA TypeInitially == Init => TypeInv
  BY SeedAssumption, BootAssumption
  DEF Init, TypeInv, TypeOK, WantPositive, ChosenPCs, HoldingPCs, Snapshot, Empty

LEMMA ArriveKeepsType ==
    ASSUME TypeInv, NEW r \in Reqs, Arrive(r)
    PROVE  TypeInv'
  <1>1. ASSUME NEW t \in Task, pc[r] = "idle", Accept(r, t)
        PROVE  TypeInv'
    <2>1. \A q \in Reqs : pc'[q] = IF q = r THEN "lock" ELSE pc[q]
      BY <1>1 DEF Accept, Goto, TypeInv, TypeOK
    <2>2. \A q \in Reqs : task'[q] = IF q = r THEN t ELSE task[q]
      BY <1>1 DEF Accept, TypeInv, TypeOK
    <2>3. /\ pc' \in [Reqs -> {"idle", "lock", "done"} \union HoldingPCs]
          /\ task' \in [Reqs -> Task \union {NoTask}]
      BY <1>1 DEF Accept, Goto, TypeInv, TypeOK
    <2>4. UNCHANGED <<built, want, status, writeMu, releases, environments, config>>
      BY <1>1 DEF Accept, Goto
    <2>5. TypeOK'
      BY <2>1, <2>2, <2>3, <2>4, <1>1 DEF TypeInv, TypeOK
    <2>6. WantPositive'
      BY <2>1, <2>4 DEF TypeInv, WantPositive, ChosenPCs
    <2> QED
      BY <2>5, <2>6 DEF TypeInv
  <1>2. ASSUME NEW code \in {200, 400, 404}, Refuse(r, code)
        PROVE  TypeInv'
    <2>1. /\ pc' = [pc EXCEPT ![r] = "done"]
          /\ status' = [status EXCEPT ![r] = code]
          /\ UNCHANGED <<task, built, want, writeMu, releases, environments, config>>
      BY <1>2 DEF Refuse, local
    <2>2. TypeOK'
      BY <2>1 DEF TypeInv, TypeOK
    <2>3. WantPositive'
      BY <2>1 DEF TypeInv, TypeOK, WantPositive, ChosenPCs
    <2> QED
      BY <2>2, <2>3 DEF TypeInv
  <1>3. CASE ArriveUnresolved(r)
    BY <1>2, <1>3 DEF ArriveUnresolved, ResolveStatus
  <1>4. CASE ArrivePublish(r)
    <2>1. PICK p \in Procs, e \in environments, base \in Bases :
            Accept(r, [kind |-> "publish", proc |-> p, env |-> e,
                       src |-> e, ver |-> 0, base |-> base])
      BY <1>4 DEF ArrivePublish
    <2>2. [kind |-> "publish", proc |-> p, env |-> e,
           src |-> e, ver |-> 0, base |-> base] \in Task
      BY BootAssumption DEF Task, TypeInv, TypeOK
    <2> QED
      BY <1>1, <1>4, <2>1, <2>2 DEF ArrivePublish
  <1>5. CASE ArriveRollback(r)
    <2>1. PICK p \in Procs, e \in environments, v \in Bases :
            Accept(r, [kind |-> "rollback", proc |-> p, env |-> e,
                       src |-> e, ver |-> v, base |-> 0])
      BY <1>5 DEF ArriveRollback
    <2>2. [kind |-> "rollback", proc |-> p, env |-> e,
           src |-> e, ver |-> v, base |-> 0] \in Task
      BY BootAssumption DEF Task, TypeInv, TypeOK
    <2> QED
      BY <1>1, <1>5, <2>1, <2>2 DEF ArriveRollback
  <1>6. CASE ArrivePromote(r)
    <2>1. PICK p \in Procs, e \in environments, src \in environments,
               v \in Bases, base \in Bases :
            IF v < 1 THEN Refuse(r, 400)
            ELSE Accept(r, [kind |-> "promote", proc |-> p, env |-> e,
                            src |-> src, ver |-> v, base |-> base])
      BY <1>6 DEF ArrivePromote
    <2>2. [kind |-> "promote", proc |-> p, env |-> e,
           src |-> src, ver |-> v, base |-> base] \in Task
      BY BootAssumption DEF Task, TypeInv, TypeOK
    <2> QED
      BY <1>1, <1>2, <1>6, <2>1, <2>2 DEF ArrivePromote
  <1> QED
    BY <1>3, <1>4, <1>5, <1>6 DEF Arrive

LEMMA AcquireKeepsType ==
    ASSUME TypeInv, NEW r \in Reqs, Acquire(r)
    PROVE  TypeInv'
  <1>1. task[r] \in Task
    BY DEF TypeInv, TypeOK, Acquire
  <1>2. /\ pc' = [pc EXCEPT ![r] = IF task[r].kind = "publish" THEN "check" ELSE "pick"]
        /\ writeMu' = [writeMu EXCEPT ![task[r].proc] = r]
        /\ UNCHANGED <<task, built, want, status, releases, environments, config>>
    BY DEF Acquire, local
  <1>3. TypeOK'
    BY <1>1, <1>2 DEF TypeInv, TypeOK, HoldingPCs, Task
  <1>4. WantPositive'
    BY <1>2 DEF TypeInv, TypeOK, WantPositive, ChosenPCs
  <1> QED
    BY <1>3, <1>4 DEF TypeInv

LEMMA HandleKeepsType ==
    ASSUME TypeInv, NEW r \in Reqs, Handle(r)
    PROVE  TypeInv'
  <1> USE DEF HoldingPCs, ChosenPCs
  <1>0. ASSUME pc[r] \in HoldingPCs PROVE task[r] \in Task
    BY <1>0 DEF TypeInv, TypeOK
  <1>1. CASE Acquire(r)
    BY <1>1, AcquireKeepsType
  <1>2. CASE PublishCheckBase(r)
    <2>1. PICK m \in Versions(task[r].env) \union {0} :
            IF CheckBaseVersion(task[r].base, m)
            THEN /\ want' = [want EXCEPT ![r] = NextVersion(m)]
                 /\ Goto(r, "flags")
                 /\ UNCHANGED <<task, built>>
            ELSE Answer(r, 409)
      BY <1>2 DEF PublishCheckBase
    <2>2. task[r] \in Task
      BY <1>0, <1>2 DEF PublishCheckBase
    <2>3. m \in Nat
      BY <2>2, MaxVersionIsNat DEF Task, TypeInv
    <2>4. CASE CheckBaseVersion(task[r].base, m)
      BY <2>1, <2>2, <2>3, <2>4, GotoKeepsType DEF NextVersion, TypeInv, TypeOK
    <2>5. CASE ~CheckBaseVersion(task[r].base, m)
      BY <2>1, <2>2, <2>5, AnswerKeepsType
    <2> QED
      BY <2>4, <2>5
  <1>3. CASE BuildFlags(r)
    <2>1. task[r] \in Task
      BY <1>0, <1>3 DEF BuildFlags
    <2>2. config[ProjectOf[task[r].env]] \in Snapshot
      BY <2>1 DEF TypeInv, TypeOK, Projects, Task
    <2>3. built' \in [Reqs -> Snapshot]
      BY <1>3, <2>2 DEF BuildFlags, TypeInv, TypeOK, Snapshot
    <2> QED
      BY <1>3, <2>1, <2>3, GotoKeepsType DEF BuildFlags, TypeInv, TypeOK, WantPositive
  <1>4. CASE BuildRules(r)
    <2>1. task[r] \in Task
      BY <1>0, <1>4 DEF BuildRules
    <2> DEFINE s == [built[r] EXCEPT !.rules = config[ProjectOf[task[r].env]].rules]
    <2>2. s \in Snapshot
      BY <2>1 DEF TypeInv, TypeOK, Projects, Task, Snapshot
    <2>3. CASE ValidSnapshot(s)
      <3>1. built' \in [Reqs -> Snapshot]
        BY <1>4, <2>2, <2>3 DEF BuildRules, TypeInv, TypeOK
      <3> QED
        BY <1>4, <2>1, <2>3, <3>1, GotoKeepsType
        DEF BuildRules, TypeInv, TypeOK, WantPositive
    <2>4. CASE ~ValidSnapshot(s)
      BY <1>4, <2>1, <2>4, AnswerKeepsType DEF BuildRules
    <2> QED
      BY <2>3, <2>4
  <1>5. ASSUME NEW x \in releases, NEW next \in {"max", "destBase"},
               CopySource(r, x, next), task[r] \in Task
        PROVE  TypeInv'
    <2>1. built' \in [Reqs -> Snapshot]
      BY <1>5 DEF CopySource, TypeInv, TypeOK
    <2> QED
      BY <1>5, <2>1, GotoKeepsType DEF CopySource, TypeInv, TypeOK
  <1>6. CASE RollbackPick(r)
    <2>1. task[r] \in Task
      BY <1>0, <1>6 DEF RollbackPick
    <2> QED
      BY <1>5, <1>6, <2>1, AnswerKeepsType DEF RollbackPick, Picked, RowsOf
  <1>7. CASE PromotePick(r)
    <2>1. task[r] \in Task
      BY <1>0, <1>7 DEF PromotePick
    <2> QED
      BY <1>5, <1>7, <2>1, AnswerKeepsType DEF PromotePick, Picked, RowsOf
  <1>8. CASE PromoteCheckBase(r)
    <2>1. task[r] \in Task
      BY <1>0, <1>8 DEF PromoteCheckBase
    <2>2. \/ \E code \in {400, 409} : Answer(r, code)
          \/ Goto(r, "max") /\ UNCHANGED local
      BY <1>8 DEF PromoteCheckBase
    <2> QED
      BY <2>1, <2>2, AnswerKeepsType, GotoKeepsType DEF local, TypeInv, TypeOK
  <1>9. CASE ReadMax(r)
    <2>1. task[r] \in Task
      BY <1>0, <1>9 DEF ReadMax
    <2>2. PICK m \in Versions(task[r].env) \union {0} :
            want' = [want EXCEPT ![r] = NextVersion(m)]
      BY <1>9 DEF ReadMax
    <2>3. m \in Nat
      BY <2>1, MaxVersionIsNat DEF Task, TypeInv
    <2> QED
      BY <1>9, <2>1, <2>2, <2>3, GotoKeepsType DEF ReadMax, NextVersion, TypeInv, TypeOK
  <1>10. CASE SaveValidate(r)
    BY <1>0, <1>10, GotoKeepsType DEF SaveValidate, local, TypeInv, TypeOK, WantPositive
  <1>11. CASE Insert(r)
    <2>1. task[r] \in Task /\ want[r] \in Nat \ {0}
      BY <1>0, <1>11 DEF Insert, TypeInv, WantPositive
    <2>2. /\ releases' = releases \union {ReleaseRow(task[r].env, want[r], built[r], r)}
          /\ pc' = [pc EXCEPT ![r] = "notify"]
          /\ UNCHANGED <<task, built, want, status, writeMu, environments, config>>
      BY <1>11 DEF Insert, local
    <2>3. TypeOK'
      BY <2>1, <2>2 DEF TypeInv, TypeOK, ReleaseRow, Task
    <2>4. WantPositive'
      BY <2>2 DEF TypeInv, TypeOK, WantPositive
    <2> QED
      BY <2>3, <2>4 DEF TypeInv
  <1>12. CASE SaveFails(r)
    BY <1>0, <1>12, GotoKeepsType DEF SaveFails, local, TypeInv, TypeOK
  <1>13. CASE MapVersionConflict(r)
    <2>1. \E code \in {400, 409, 500} : Answer(r, code)
      BY <1>13 DEF MapVersionConflict, PassOn
    <2> QED
      BY <1>0, <1>13, <2>1, AnswerKeepsType DEF MapVersionConflict
  <1>14. CASE Respond(r)
    BY <1>0, <1>14, AnswerKeepsType DEF Respond
  <1>15. CASE ReadFails(r)
    BY <1>0, <1>15, AnswerKeepsType DEF ReadFails, PassOn
  <1> QED
    BY <1>1, <1>2, <1>3, <1>4, <1>6, <1>7, <1>8, <1>9, <1>10, <1>11, <1>12,
       <1>13, <1>14, <1>15 DEF Handle

LEMMA NotifyKeepsType ==
    ASSUME TypeInv, NEW r \in Reqs, Notify(r)
    PROVE  TypeInv'
  <1>1. pc[r] \in HoldingPCs
    BY DEF Notify, NotifyStart, NotifyEnd, HoldingPCs
  <1>2. task[r] \in Task
    BY <1>1 DEF TypeInv, TypeOK, HoldingPCs
  <1> QED
    BY <1>2, GotoKeepsType
    DEF Notify, NotifyStart, NotifyEnd, local, HoldingPCs, ChosenPCs, TypeInv, TypeOK

LEMMA CrashKeepsType ==
    ASSUME TypeInv, NEW p \in Procs, Crash(p)
    PROVE  TypeInv'
  <1>1. TypeOK'
    BY DEF TypeInv, TypeOK, Crash, local
  <1>2. WantPositive'
    BY DEF TypeInv, TypeOK, Crash, local, WantPositive, ChosenPCs
  <1> QED
    BY <1>1, <1>2 DEF TypeInv

LEMMA EnvironmentKeepsType ==
    ASSUME TypeInv, Environment
    PROVE  TypeInv'
  <1>1. ASSUME environments' \subseteq environments, releases' \subseteq releases,
               config' \in [Projects -> Snapshot],
               UNCHANGED <<writeMu, pc, status, task, built, want>>
        PROVE  TypeInv'
    BY <1>1 DEF TypeInv, TypeOK, WantPositive
  <1>2. ASSUME NEW p \in Projects, NEW half \in {"flags", "rules"}, Edit(p, half)
        PROVE  TypeInv'
    <2>1. config' \in [Projects -> Snapshot]
      BY <1>2 DEF Edit, TypeInv, TypeOK, Snapshot
    <2> QED
      BY <1>1, <1>2, <2>1 DEF Edit, local
  <1>3. ASSUME NEW e \in Envs, DeleteEnv(e)
        PROVE  TypeInv'
    BY <1>1, <1>3 DEF DeleteEnv, Remove, local, TypeInv, TypeOK
  <1>4. ASSUME NEW p \in Projects, DeleteProject(p)
        PROVE  TypeInv'
    <2>1. config' \in [Projects -> Snapshot]
      BY <1>4 DEF DeleteProject, TypeInv, TypeOK, Empty, Snapshot
    <2> QED
      BY <1>1, <1>4, <2>1 DEF DeleteProject, Remove, local
  <1>5. ASSUME NEW x \in releases, DirectDelete(x)
        PROVE  TypeInv'
    BY <1>1, <1>5 DEF DirectDelete, local, TypeInv, TypeOK
  <1> QED
    BY <1>2, <1>3, <1>4, <1>5 DEF Environment

LEMMA StepKeepsType == TypeInv /\ [Next]_vars => TypeInv'
  <1>1. ASSUME TypeInv, UNCHANGED vars
        PROVE  TypeInv'
    BY <1>1 DEF vars, TypeInv, TypeOK, WantPositive
  <1> QED
    BY <1>1, ArriveKeepsType, HandleKeepsType, NotifyKeepsType, CrashKeepsType,
       EnvironmentKeepsType DEF Next, AllAnswered

THEOREM TypeCorrect == Spec => []TypeOK
  <1>1. TypeInv => TypeOK
    BY DEF TypeInv
  <1> QED
    BY <1>1, TypeInitially, StepKeepsType, PTL DEF Spec

-----------------------------------------------------------------------------
(* writeMu is a mutex: at most one handler of each process is past the     *)
(* lock, whatever crashes and however requests interleave.                 *)
LockInv == TypeInv /\ LockHeld

(* A step that moves one request inside the lock, or takes it out, keeps   *)
(* the others where they are and off the lock it frees.                    *)
LEMMA StepInside ==
    ASSUME LockInv, NEW r \in Reqs, pc[r] \in HoldingPCs, task[r] \in Task,
           task' = task, \A q \in Reqs \ {r} : pc'[q] = pc[q],
           \/ UNCHANGED writeMu
           \/ pc'[r] = "done" /\ writeMu' = [writeMu EXCEPT ![task[r].proc] = Nobody]
    PROVE  LockHeld'
  <1> SUFFICES ASSUME NEW q \in Reqs, pc'[q] \in HoldingPCs
               PROVE  writeMu'[task[q].proc] = q
    BY DEF LockHeld
  <1>1. writeMu[task[r].proc] = r /\ task[r].proc \in Procs
    BY DEF LockInv, LockHeld, Task
  <1>2. CASE q = r
    BY <1>1, <1>2 DEF HoldingPCs
  <1>3. CASE q # r
    <2>1. writeMu[task[q].proc] = q
      BY <1>3 DEF LockInv, LockHeld
    <2>2. task[q].proc # task[r].proc
      BY <1>1, <1>3, <2>1
    <2>3. task[q].proc \in Procs
      BY <1>3 DEF LockInv, TypeInv, TypeOK, HoldingPCs, Task
    <2> QED
      BY <2>1, <2>2, <2>3 DEF LockInv, TypeInv, TypeOK
  <1> QED
    BY <1>2, <1>3

LEMMA StepKeepsLock == LockInv /\ [Next]_vars => LockHeld'
  <1> SUFFICES ASSUME LockInv, [Next]_vars
               PROVE  LockHeld'
    OBVIOUS
  <1>1. ASSUME NEW r \in Reqs, Arrive(r)
        PROVE  LockHeld'
    <2> DEFINE Outside == /\ \A q \in Reqs \ {r} : pc'[q] = pc[q] /\ task'[q] = task[q]
                          /\ pc'[r] \in {"lock", "done"}
                          /\ writeMu' = writeMu
    <2>1. ASSUME NEW code, Refuse(r, code)
          PROVE  Outside
      BY <2>1 DEF Refuse, local, LockInv, TypeInv, TypeOK
    <2>2. ASSUME NEW t, Accept(r, t)
          PROVE  Outside
      BY <2>2 DEF Accept, Goto, LockInv, TypeInv, TypeOK
    <2>3. Outside
      <3> HIDE DEF Outside
      <3>1. CASE ArriveUnresolved(r)
        BY <2>1, <3>1 DEF ArriveUnresolved
      <3>2. CASE ArrivePublish(r)
        BY <2>2, <3>2 DEF ArrivePublish
      <3>3. CASE ArriveRollback(r)
        BY <2>2, <3>3 DEF ArriveRollback
      <3>4. CASE ArrivePromote(r)
        BY <2>1, <2>2, <3>4 DEF ArrivePromote
      <3> QED
        BY <1>1, <3>1, <3>2, <3>3, <3>4 DEF Arrive
    <2> QED
      BY <2>3 DEF LockInv, LockHeld, HoldingPCs
  <1>2. ASSUME NEW r \in Reqs, Acquire(r)
        PROVE  LockHeld'
    <2>1. task[r] \in Task
      BY <1>2 DEF Acquire, LockInv, TypeInv, TypeOK
    <2>2. /\ writeMu[task[r].proc] = Nobody
          /\ writeMu' = [writeMu EXCEPT ![task[r].proc] = r]
          /\ \A q \in Reqs \ {r} : pc'[q] = pc[q]
          /\ task' = task
      BY <1>2 DEF Acquire, local, LockInv, TypeInv, TypeOK
    <2>3. task[r].proc \in Procs
      BY <2>1 DEF Task
    <2> SUFFICES ASSUME NEW q \in Reqs, pc'[q] \in HoldingPCs
                 PROVE  writeMu'[task[q].proc] = q
      BY <2>2 DEF LockHeld
    <2>4. CASE q = r
      BY <2>2, <2>3, <2>4 DEF LockInv, TypeInv, TypeOK
    <2>5. CASE q # r
      BY <2>2, <2>3, <2>5, BootAssumption DEF LockInv, LockHeld, TypeInv, TypeOK
    <2> QED
      BY <2>4, <2>5
  <1>3. ASSUME NEW r \in Reqs, pc[r] \in HoldingPCs, task' = task,
               \A q \in Reqs \ {r} : pc'[q] = pc[q],
               \/ UNCHANGED writeMu
               \/ pc'[r] = "done" /\ writeMu' = [writeMu EXCEPT ![task[r].proc] = Nobody]
        PROVE  LockHeld'
    BY <1>3, StepInside DEF LockInv, TypeInv, TypeOK, HoldingPCs
  <1>4. ASSUME NEW r \in Reqs, NEW code, pc[r] \in HoldingPCs, Answer(r, code)
        PROVE  LockHeld'
    <2>1. /\ task' = task
          /\ \A q \in Reqs \ {r} : pc'[q] = pc[q]
          /\ pc'[r] = "done"
          /\ writeMu' = [writeMu EXCEPT ![task[r].proc] = Nobody]
      BY <1>4 DEF Answer, local, LockInv, TypeInv, TypeOK
    <2> QED
      BY <1>3, <1>4, <2>1
  <1>5. ASSUME NEW r \in Reqs, NEW next, pc[r] \in HoldingPCs, Goto(r, next), task' = task
        PROVE  LockHeld'
    BY <1>3, <1>5 DEF Goto, LockInv, TypeInv, TypeOK
  <1>6. ASSUME NEW r \in Reqs, Handle(r) \/ Notify(r), ~Acquire(r)
        PROVE  LockHeld'
    <2> USE DEF HoldingPCs
    <2>1. CASE Insert(r)
      BY <1>3, <2>1 DEF Insert, local, LockInv, TypeInv, TypeOK
    <2>2. CASE PublishCheckBase(r) \/ BuildFlags(r) \/ BuildRules(r)
      BY <1>4, <1>5, <2>2 DEF PublishCheckBase, BuildFlags, BuildRules
    <2>3. CASE RollbackPick(r) \/ PromotePick(r)
      BY <1>4, <1>5, <2>3 DEF RollbackPick, PromotePick, CopySource
    <2>4. CASE PromoteCheckBase(r) \/ ReadMax(r)
      BY <1>4, <1>5, <2>4 DEF PromoteCheckBase, ReadMax, local
    <2>5. CASE SaveValidate(r) \/ SaveFails(r) \/ Respond(r)
      BY <1>4, <1>5, <2>5 DEF SaveValidate, SaveFails, Respond, local
    <2>7. CASE MapVersionConflict(r) \/ ReadFails(r)
      BY <1>4, <2>7 DEF MapVersionConflict, ReadFails, PassOn
    <2>6. CASE Notify(r)
      BY <1>5, <2>6 DEF Notify, NotifyStart, NotifyEnd, local
    <2> QED
      BY <1>6, <2>1, <2>2, <2>3, <2>4, <2>5, <2>6, <2>7 DEF Handle
  <1>7. ASSUME NEW p \in Procs, Crash(p)
        PROVE  LockHeld'
    <2> SUFFICES ASSUME NEW q \in Reqs, pc'[q] \in HoldingPCs
                 PROVE  writeMu'[task'[q].proc] = q
      BY DEF LockHeld
    <2>1. q \notin InFlight(p) /\ pc[q] \in HoldingPCs /\ task' = task
      BY <1>7 DEF Crash, local, HoldingPCs
    <2>2. task[q].proc # p
      BY <2>1 DEF InFlight, HoldingPCs
    <2> QED
      BY <1>7, <2>1, <2>2 DEF Crash, LockInv, LockHeld, TypeInv, TypeOK
  <1>8. CASE Environment \/ UNCHANGED vars
    <2>1. UNCHANGED <<pc, task, writeMu>>
      BY <1>8 DEF Environment, Edit, DeleteEnv, DeleteProject, Remove, DirectDelete,
                  local, vars
    <2> QED
      BY <2>1 DEF LockInv, LockHeld
  <1> QED
    BY <1>1, <1>2, <1>6, <1>7, <1>8 DEF Next, AllAnswered, Handle

THEOREM MutualExclusion == Spec => []LockHeld
  <1>1. Init => LockInv
    BY TypeInitially DEF LockInv, LockHeld, Init, HoldingPCs
  <1>2. LockInv /\ [Next]_vars => LockInv'
    BY StepKeepsType, StepKeepsLock DEF LockInv
  <1>3. LockInv => LockHeld
    BY DEF LockInv
  <1> QED
    BY <1>1, <1>2, <1>3, PTL DEF Spec

-----------------------------------------------------------------------------
(* The version log.  The UNIQUE index keeps versions apart; that they leave*)
(* no gap needs more: every version below the one a handler is about to    *)
(* write exists already, because it chose the one after the largest and a  *)
(* live environment never loses a row.                                     *)
WantReached ==
    \A r \in Reqs : pc[r] \in ChosenPCs /\ task[r].env \in environments =>
        \A v \in 1..(want[r] - 1) : v \in Versions(task[r].env)

Contiguous == VersionsContiguous /\ WantReached
LogInv == TypeInv /\ Contiguous

(* Steps that neither write rows nor choose a version. *)
LEMMA QuietStep ==
    ASSUME LogInv, UNCHANGED <<releases, environments>>,
           \A q \in Reqs : pc'[q] \in ChosenPCs =>
               pc[q] \in ChosenPCs /\ task'[q] = task[q] /\ want'[q] = want[q]
    PROVE  Contiguous'
  BY DEF LogInv, Contiguous, VersionsContiguous, VersionsUnique, VersionsGapFree,
         WantReached, Versions, RowsOf

(* Steps that choose the version after the largest one. *)
LEMMA ChoosingStep ==
    ASSUME LogInv, NEW r \in Reqs, task[r] \in Task, NEW m,
           IsMaxVersion(task[r].env, m),
           want' = [want EXCEPT ![r] = NextVersion(m)],
           UNCHANGED <<releases, environments, task>>,
           \A q \in Reqs \ {r} : pc'[q] = pc[q]
    PROVE  Contiguous'
  <1>1. m \in Nat
    BY MaxVersionIsNat DEF IsMaxVersion, LogInv, TypeInv, Task
  <1>2. VersionsContiguous'
    BY DEF LogInv, Contiguous, VersionsContiguous, VersionsUnique, VersionsGapFree,
           Versions, RowsOf
  <1>3. \A e : Versions(e)' = Versions(e)
    BY DEF Versions, RowsOf
  <1> SUFFICES ASSUME NEW q \in Reqs, pc'[q] \in ChosenPCs, task[q].env \in environments,
                      NEW v \in 1..(want'[q] - 1)
               PROVE  v \in Versions(task[q].env)
    BY <1>2, <1>3 DEF Contiguous, WantReached
  <1>4. CASE q = r
    <2>1. want'[r] - 1 = m
      BY <1>1 DEF LogInv, TypeInv, TypeOK, NextVersion
    <2>2. v \in 1..m
      BY <1>4, <2>1
    <2>3. m \in Versions(task[r].env)
      BY <1>1, <2>2 DEF IsMaxVersion
    <2> QED
      BY <1>4, <2>2, <2>3
      DEF LogInv, Contiguous, VersionsContiguous, VersionsGapFree, Versions, RowsOf
  <1>5. CASE q # r
    BY <1>5 DEF LogInv, Contiguous, WantReached, TypeInv, TypeOK
  <1> QED
    BY <1>4, <1>5

LEMMA InsertKeepsLog ==
    ASSUME LogInv, NEW r \in Reqs, Insert(r)
    PROVE  Contiguous'
  <1>1. /\ pc[r] = "insert"
        /\ want[r] \notin Versions(task[r].env)
        /\ releases' = releases \union {ReleaseRow(task[r].env, want[r], built[r], r)}
        /\ pc' = [pc EXCEPT ![r] = "notify"]
        /\ UNCHANGED <<task, want, environments>>
    BY DEF Insert, local
  <1>2. want[r] \in Nat \ {0}
    BY <1>1 DEF LogInv, TypeInv, WantPositive, ChosenPCs
  <1>3. \A e : Versions(e) \subseteq Versions(e)'
    BY <1>1 DEF Versions, RowsOf
  <1>4. VersionsUnique'
    BY <1>1 DEF LogInv, Contiguous, VersionsContiguous, VersionsUnique, ReleaseRow,
                Versions, RowsOf
  <1>5. VersionsGapFree'
    <2> SUFFICES ASSUME NEW x \in releases', x.env \in environments, NEW v \in 1..x.version
                 PROVE  v \in Versions(x.env)'
      BY <1>1 DEF VersionsGapFree
    <2>1. CASE x \in releases
      BY <1>3, <2>1 DEF LogInv, Contiguous, VersionsContiguous, VersionsGapFree
    <2>2. CASE x = ReleaseRow(task[r].env, want[r], built[r], r)
      <3>1. x.env = task[r].env /\ x.version = want[r]
        BY <2>2 DEF ReleaseRow
      <3>2. want[r] \in Versions(task[r].env)'
        BY <1>1, <2>2, <3>1 DEF Versions, RowsOf
      <3>3. v \in 1..(want[r] - 1) \/ v = want[r]
        BY <1>2, <3>1
      <3> QED
        BY <1>1, <1>3, <3>1, <3>2, <3>3 DEF LogInv, Contiguous, WantReached, ChosenPCs
    <2> QED
      BY <1>1, <2>1, <2>2
  <1>6. WantReached'
    BY <1>1, <1>3 DEF LogInv, Contiguous, WantReached, TypeInv, TypeOK, ChosenPCs
  <1> QED
    BY <1>4, <1>5, <1>6 DEF Contiguous, VersionsContiguous

(* Deleting environments, or rows whose environment is gone, takes no row  *)
(* from an environment that stays.                                         *)
LEMMA RemovalKeepsLog ==
    ASSUME LogInv, environments' \subseteq environments, releases' \subseteq releases,
           \A x \in releases : x.env \in environments' => x \in releases',
           UNCHANGED <<pc, task, want>>
    PROVE  Contiguous'
  <1>1. \A e \in environments' : Versions(e)' = Versions(e)
    BY DEF Versions, RowsOf
  <1>2. VersionsUnique'
    BY DEF LogInv, Contiguous, VersionsContiguous, VersionsUnique
  <1>3. VersionsGapFree'
    BY <1>1 DEF LogInv, Contiguous, VersionsContiguous, VersionsGapFree
  <1>4. WantReached'
    BY <1>1 DEF LogInv, Contiguous, WantReached
  <1> QED
    BY <1>2, <1>3, <1>4 DEF Contiguous, VersionsContiguous

LEMMA HandleKeepsLog ==
    ASSUME LogInv, NEW r \in Reqs, Handle(r) \/ Notify(r)
    PROVE  Contiguous'
  <1> USE DEF ChosenPCs
  <1>0. ASSUME pc[r] \in HoldingPCs PROVE task[r] \in Task
    BY <1>0 DEF LogInv, TypeInv, TypeOK, HoldingPCs
  <1>1. ASSUME NEW code, Answer(r, code)
        PROVE  Contiguous'
    <2>1. /\ \A q \in Reqs : pc'[q] = IF q = r THEN "done" ELSE pc[q]
          /\ UNCHANGED <<task, want, releases, environments>>
      BY <1>1 DEF Answer, local, LogInv, TypeInv, TypeOK
    <2> QED
      BY <2>1, QuietStep
  <1>2. ASSUME NEW next, Goto(r, next), UNCHANGED <<task, want>>,
               next \notin ChosenPCs \/ pc[r] \in ChosenPCs
        PROVE  Contiguous'
    <2>1. /\ \A q \in Reqs : pc'[q] = IF q = r THEN next ELSE pc[q]
          /\ UNCHANGED <<task, want, releases, environments>>
      BY <1>2 DEF Goto, LogInv, TypeInv, TypeOK
    <2> QED
      BY <1>2, <2>1, QuietStep
  <1>3. ASSUME NEW next, NEW m, Goto(r, next), task' = task, task[r] \in Task,
               IsMaxVersion(task[r].env, m), want' = [want EXCEPT ![r] = NextVersion(m)]
        PROVE  Contiguous'
    <2>1. /\ \A q \in Reqs \ {r} : pc'[q] = pc[q]
          /\ UNCHANGED <<task, releases, environments>>
      BY <1>3 DEF Goto, LogInv, TypeInv, TypeOK
    <2> QED
      BY <1>3, <2>1, ChoosingStep
  <1>4. CASE Acquire(r)
    <2>1. /\ \A q \in Reqs : pc'[q] = IF q = r THEN pc'[r] ELSE pc[q]
          /\ pc'[r] \in {"check", "pick"}
          /\ UNCHANGED <<task, want, releases, environments>>
      BY <1>4 DEF Acquire, local, LogInv, TypeInv, TypeOK
    <2> QED
      BY <2>1, QuietStep
  <1>5. CASE PublishCheckBase(r)
    <2>1. task[r] \in Task
      BY <1>0, <1>5 DEF PublishCheckBase, HoldingPCs
    <2> QED
      BY <1>1, <1>3, <1>5, <2>1 DEF PublishCheckBase
  <1>6. CASE BuildFlags(r) \/ BuildRules(r)
    BY <1>1, <1>2, <1>6 DEF BuildFlags, BuildRules
  <1>7. CASE RollbackPick(r) \/ PromotePick(r)
    BY <1>1, <1>2, <1>7 DEF RollbackPick, PromotePick, CopySource
  <1>8. CASE PromoteCheckBase(r)
    BY <1>1, <1>2, <1>8 DEF PromoteCheckBase, local
  <1>9. CASE ReadMax(r)
    <2>1. task[r] \in Task
      BY <1>0, <1>9 DEF ReadMax, HoldingPCs
    <2> QED
      BY <1>3, <1>9, <2>1 DEF ReadMax
  <1>10. CASE SaveValidate(r) \/ SaveFails(r)
    BY <1>2, <1>10 DEF SaveValidate, SaveFails, local
  <1>11. CASE Insert(r)
    BY <1>11, InsertKeepsLog
  <1>12. CASE MapVersionConflict(r) \/ ReadFails(r) \/ Respond(r)
    BY <1>1, <1>12 DEF MapVersionConflict, ReadFails, PassOn, Respond
  <1>13. CASE Notify(r)
    BY <1>2, <1>13 DEF Notify, NotifyStart, NotifyEnd, local
  <1> QED
    BY <1>4, <1>5, <1>6, <1>7, <1>8, <1>9, <1>10, <1>11, <1>12, <1>13 DEF Handle

LEMMA StepKeepsLog == LogInv /\ [Next]_vars => Contiguous'
  <1> SUFFICES ASSUME LogInv, [Next]_vars
               PROVE  Contiguous'
    OBVIOUS
  <1>1. ASSUME NEW r \in Reqs, Arrive(r)
        PROVE  Contiguous'
    <2> DEFINE Outside == /\ \A q \in Reqs \ {r} : pc'[q] = pc[q] /\ task'[q] = task[q]
                          /\ pc'[r] \in {"lock", "done"}
                          /\ UNCHANGED <<want, releases, environments>>
    <2>1. ASSUME NEW code, Refuse(r, code)
          PROVE  Outside
      BY <2>1 DEF Refuse, local, LogInv, TypeInv, TypeOK
    <2>2. ASSUME NEW t, Accept(r, t)
          PROVE  Outside
      BY <2>2 DEF Accept, Goto, LogInv, TypeInv, TypeOK
    <2>3. Outside
      <3> HIDE DEF Outside
      <3> QED
        BY <1>1, <2>1, <2>2
        DEF Arrive, ArriveUnresolved, ArrivePublish, ArriveRollback, ArrivePromote
    <2> QED
      BY <2>3, QuietStep DEF ChosenPCs
  <1>2. ASSUME NEW p \in Procs, Crash(p)
        PROVE  Contiguous'
    BY <1>2, QuietStep DEF Crash, local, ChosenPCs
  <1>3. CASE Environment
    <2>1. ASSUME NEW gone, Remove(gone)
          PROVE  Contiguous'
      BY <2>1, RemovalKeepsLog DEF Remove, local
    <2>2. ASSUME NEW x, DirectDelete(x)
          PROVE  Contiguous'
      BY <2>2, RemovalKeepsLog DEF DirectDelete, local
    <2>3. ASSUME NEW p, NEW half, Edit(p, half)
          PROVE  Contiguous'
      BY <2>3, QuietStep DEF Edit, local
    <2> QED
      BY <1>3, <2>1, <2>2, <2>3 DEF Environment, DeleteEnv, DeleteProject
  <1>4. CASE UNCHANGED vars
    BY <1>4, QuietStep DEF vars
  <1> QED
    BY <1>1, <1>2, <1>3, <1>4, HandleKeepsLog DEF Next, AllAnswered

LEMMA LogInitially == Init => Contiguous
  BY SeedAssumption
  DEF Init, Contiguous, VersionsContiguous, VersionsUnique, VersionsGapFree,
      WantReached, ChosenPCs, Versions, RowsOf

(* Whatever processes, requests, deletes and crashes do, the versions of a *)
(* live environment are 1..n with one row each.                            *)
THEOREM VersionsAreContiguous == Spec => []VersionsContiguous
  <1>1. Init => LogInv
    BY TypeInitially, LogInitially DEF LogInv
  <1>2. LogInv /\ [Next]_vars => LogInv'
    BY StepKeepsType, StepKeepsLog DEF LogInv
  <1>3. LogInv => VersionsContiguous
    BY DEF LogInv, Contiguous
  <1> QED
    BY <1>1, <1>2, <1>3, PTL DEF Spec

-----------------------------------------------------------------------------
(* What the answers of publish, rollback and promote say about the         *)
(* collection.  It rests on the mutex and on the log of versions.          *)

(* Where the row of a handler has been inserted, and not answered yet. *)
WrittenPCs == {"notify", "notifying", "respond"}
Mine(r) == {x \in releases : x.author = r}

(* A handler has no row before it inserts one and exactly that one after,  *)
(* and it refuses only while it has none.                                  *)
Unanswered == \A r \in Reqs : pc[r] # "done" => status[r] = 0
UnwrittenBefore == \A r \in Reqs : pc[r] \notin WrittenPCs \union {"done"} => Mine(r) = {}
WrittenAfter ==
    \A r \in Reqs :
        (pc[r] \in WrittenPCs \/ status[r] = 200) /\ task[r].env \in environments =>
            Mine(r) = {ReleaseRow(task[r].env, want[r], built[r], r)}
RefusedUnwritten ==
    \A r \in Reqs : status[r] \in {400, 404, 409, 500} => Mine(r) = {}

Answers == Unanswered /\ UnwrittenBefore /\ WrittenAfter /\ RefusedUnwritten
AnswersInv == TypeInv /\ Answers

(* A step of one request leaves what the others know. *)
OthersKeep(r) ==
    \A q \in Reqs \ {r} :
        /\ pc'[q] = pc[q] /\ status'[q] = status[q]
        /\ task'[q] = task[q] /\ built'[q] = built[q] /\ want'[q] = want[q]

-----------------------------------------------------------------------------
LEMMA AnswerEffect ==
    ASSUME TypeInv, NEW r \in Reqs, NEW code, Answer(r, code)
    PROVE  /\ OthersKeep(r)
           /\ pc'[r] = "done" /\ status'[r] = code
           /\ UNCHANGED <<task, built, want, releases, environments>>
  BY DEF TypeInv, TypeOK, Answer, local, OthersKeep

LEMMA GotoEffect ==
    ASSUME TypeInv, NEW r \in Reqs, NEW next, Goto(r, next),
           \A q \in Reqs \ {r} :
               task'[q] = task[q] /\ built'[q] = built[q] /\ want'[q] = want[q]
    PROVE  /\ OthersKeep(r)
           /\ pc'[r] = next /\ status'[r] = status[r]
           /\ UNCHANGED <<releases, environments>>
  BY DEF TypeInv, TypeOK, Goto, OthersKeep

LEMMA ArriveEffect ==
    ASSUME TypeInv, NEW r \in Reqs, Arrive(r)
    PROVE  /\ OthersKeep(r) /\ pc[r] = "idle"
           /\ \/ pc'[r] = "lock" /\ status'[r] = status[r]
              \/ pc'[r] = "done" /\ status'[r] \in {400, 404} /\ UNCHANGED task
           /\ UNCHANGED <<built, want, releases, environments>>
  <1> DEFINE Effect == /\ OthersKeep(r)
                       /\ \/ pc'[r] = "lock" /\ status'[r] = status[r]
                          \/ pc'[r] = "done" /\ status'[r] \in {400, 404} /\ UNCHANGED task
                       /\ UNCHANGED <<built, want, releases, environments>>
  <1>1. ASSUME NEW code \in {400, 404}, Refuse(r, code)
        PROVE  Effect
    BY <1>1 DEF Refuse, local, TypeInv, TypeOK, OthersKeep
  <1>2. ASSUME NEW t, Accept(r, t)
        PROVE  Effect
    BY <1>2 DEF Accept, Goto, TypeInv, TypeOK, OthersKeep
  <1>3. Effect
    <2> HIDE DEF Effect
    <2>1. CASE ArriveUnresolved(r)
      BY <1>1, <2>1 DEF ArriveUnresolved, ResolveStatus
    <2>2. CASE ArrivePublish(r) \/ ArriveRollback(r)
      BY <1>2, <2>2 DEF ArrivePublish, ArriveRollback
    <2>3. CASE ArrivePromote(r)
      BY <1>1, <1>2, <2>3 DEF ArrivePromote
    <2> QED
      BY <2>1, <2>2, <2>3 DEF Arrive
  <1>4. pc[r] = "idle"
    BY DEF Arrive, ArriveUnresolved, ArrivePublish, ArriveRollback, ArrivePromote
  <1> QED
    BY <1>3, <1>4

(* Environments are never created here and a live one loses no row.        *)
LEMMA EnvironmentEffect ==
    ASSUME Environment
    PROVE  /\ UNCHANGED <<pc, status, task, built, want>>
           /\ environments' \subseteq environments
           /\ releases' \subseteq releases
           /\ \A x \in releases : x.env \in environments' => x \in releases'
  <1>1. ASSUME NEW gone, Remove(gone)
        PROVE  /\ UNCHANGED <<pc, status, task, built, want>>
               /\ environments' \subseteq environments
               /\ releases' \subseteq releases
               /\ \A x \in releases : x.env \in environments' => x \in releases'
    BY <1>1 DEF Remove, local
  <1>2. CASE \E p \in Projects : Edit(p, "flags") \/ Edit(p, "rules")
    BY <1>2 DEF Edit, local
  <1>3. CASE \E x \in releases : DirectDelete(x)
    BY <1>3 DEF DirectDelete, local
  <1> QED
    BY <1>1, <1>2, <1>3 DEF Environment, DeleteEnv, DeleteProject

-----------------------------------------------------------------------------
(* A step before the insert, and a refusal. *)
LEMMA UnwrittenStep ==
    ASSUME AnswersInv, NEW r \in Reqs, OthersKeep(r),
           pc[r] \notin WrittenPCs \union {"done"},
           pc'[r] \notin WrittenPCs, status'[r] # 200,
           pc'[r] # "done" => status'[r] = status[r],
           UNCHANGED <<releases, environments>>
    PROVE  Answers'
  BY DEF AnswersInv, Answers, Unanswered, UnwrittenBefore, WrittenAfter,
         RefusedUnwritten, Mine, OthersKeep

(* A step after the insert, and the answer 200. *)
LEMMA WrittenStep ==
    ASSUME AnswersInv, NEW r \in Reqs, OthersKeep(r), pc[r] \in WrittenPCs,
           \/ pc'[r] \in WrittenPCs /\ status'[r] = status[r]
           \/ pc'[r] = "done" /\ status'[r] = 200,
           UNCHANGED <<task, built, want, releases, environments>>
    PROVE  Answers'
  <1>1. pc[r] # "done" /\ status[r] = 0
    BY DEF WrittenPCs, AnswersInv, Answers, Unanswered
  <1> QED
    BY <1>1 DEF AnswersInv, Answers, Unanswered, UnwrittenBefore, WrittenAfter,
                RefusedUnwritten, Mine, OthersKeep

LEMMA InsertKeepsAnswers ==
    ASSUME AnswersInv, NEW r \in Reqs, Insert(r)
    PROVE  Answers'
  <1> DEFINE row == ReleaseRow(task[r].env, want[r], built[r], r)
  <1>1. /\ pc[r] = "insert" /\ pc'[r] = "notify"
        /\ \A q \in Reqs \ {r} : pc'[q] = pc[q]
        /\ releases' = releases \union {row}
        /\ UNCHANGED <<task, built, want, status, environments>>
    BY DEF Insert, local, AnswersInv, TypeInv, TypeOK
  <1>2. row.author = r
    BY DEF ReleaseRow
  <1>3. Mine(r) = {} /\ status[r] = 0
    BY <1>1 DEF AnswersInv, Answers, Unanswered, UnwrittenBefore, WrittenPCs
  <1>4. Mine(r)' = {row}
    BY <1>1, <1>2, <1>3 DEF Mine
  <1>5. \A q \in Reqs \ {r} : Mine(q)' = Mine(q)
    BY <1>1, <1>2 DEF Mine
  <1> HIDE DEF row
  <1>6. Unanswered' /\ UnwrittenBefore' /\ RefusedUnwritten'
    BY <1>1, <1>3, <1>5 DEF AnswersInv, Answers, Unanswered, UnwrittenBefore,
                            RefusedUnwritten, WrittenPCs
  <1>7. WrittenAfter'
    BY <1>1, <1>4, <1>5 DEF AnswersInv, Answers, WrittenAfter, row
  <1> QED
    BY <1>6, <1>7 DEF Answers

LEMMA HandleKeepsAnswers ==
    ASSUME AnswersInv, NEW r \in Reqs, Handle(r) \/ Notify(r)
    PROVE  Answers'
  <1> USE DEF WrittenPCs
  <1>0. TypeInv
    BY DEF AnswersInv
  <1>1. ASSUME NEW code \in {400, 404, 409, 500}, Answer(r, code),
               pc[r] \notin WrittenPCs \union {"done"}
        PROVE  Answers'
    BY <1>0, <1>1, AnswerEffect, UnwrittenStep
  <1>2. ASSUME NEW next, Goto(r, next), next \notin WrittenPCs \union {"done"},
               pc[r] \notin WrittenPCs \union {"done"},
               \A q \in Reqs \ {r} :
                   task'[q] = task[q] /\ built'[q] = built[q] /\ want'[q] = want[q]
        PROVE  Answers'
    <2>1. status[r] # 200
      BY <1>2 DEF AnswersInv, Answers, Unanswered
    <2> QED
      BY <1>0, <1>2, <2>1, GotoEffect, UnwrittenStep
  <1>3. CASE Acquire(r)
    <2>1. /\ OthersKeep(r) /\ status' = status
          /\ pc[r] = "lock" /\ pc'[r] \in {"check", "pick"}
          /\ UNCHANGED <<releases, environments>>
      BY <1>3 DEF Acquire, local, OthersKeep, AnswersInv, TypeInv, TypeOK
    <2>2. status[r] # 200
      BY <2>1 DEF AnswersInv, Answers, Unanswered
    <2> QED
      BY <2>1, <2>2, UnwrittenStep
  <1>4. CASE PublishCheckBase(r)
    BY <1>1, <1>2, <1>4 DEF PublishCheckBase, AnswersInv, TypeInv, TypeOK
  <1>5. CASE BuildFlags(r) \/ BuildRules(r)
    BY <1>1, <1>2, <1>5 DEF BuildFlags, BuildRules, AnswersInv, TypeInv, TypeOK
  <1>6. CASE RollbackPick(r) \/ PromotePick(r)
    BY <1>1, <1>2, <1>6 DEF RollbackPick, PromotePick, CopySource, AnswersInv, TypeInv, TypeOK
  <1>7. CASE PromoteCheckBase(r) \/ ReadMax(r)
    BY <1>1, <1>2, <1>7 DEF PromoteCheckBase, ReadMax, local, AnswersInv, TypeInv, TypeOK
  <1>8. CASE SaveValidate(r) \/ SaveFails(r)
    BY <1>2, <1>8 DEF SaveValidate, SaveFails, local
  <1>9. CASE MapVersionConflict(r) \/ ReadFails(r)
    BY <1>1, <1>9 DEF MapVersionConflict, ReadFails, PassOn
  <1>10. CASE Respond(r)
    BY <1>0, <1>10, AnswerEffect, WrittenStep DEF Respond
  <1>11. CASE Notify(r)
    BY <1>0, <1>11, GotoEffect, WrittenStep DEF Notify, NotifyStart, NotifyEnd, local
  <1> QED
    BY <1>3, <1>4, <1>5, <1>6, <1>7, <1>8, <1>9, <1>10, <1>11, InsertKeepsAnswers
    DEF Handle

LEMMA StepKeepsAnswers == AnswersInv /\ [Next]_vars => Answers'
  <1> SUFFICES ASSUME AnswersInv, [Next]_vars
               PROVE  Answers'
    OBVIOUS
  <1>1. ASSUME NEW r \in Reqs, Arrive(r)
        PROVE  Answers'
    <2>1. TypeInv
      BY DEF AnswersInv
    <2>2. pc[r] = "idle" /\ status[r] = 0
      BY <1>1, <2>1, ArriveEffect DEF AnswersInv, Answers, Unanswered
    <2> QED
      BY <1>1, <2>1, <2>2, ArriveEffect, UnwrittenStep DEF WrittenPCs
  <1>2. ASSUME NEW p \in Procs, Crash(p)
        PROVE  Answers'
    <2>1. /\ \A q \in Reqs : pc'[q] \in {pc[q], "done"}
          /\ UNCHANGED <<status, task, built, want, releases, environments>>
      BY <1>2 DEF Crash, local
    <2> QED
      BY <2>1 DEF AnswersInv, Answers, Unanswered, UnwrittenBefore, WrittenAfter,
                  RefusedUnwritten, Mine, WrittenPCs
  <1>3. CASE Environment
    <2>1. \A r \in Reqs : Mine(r)' \subseteq Mine(r)
      BY <1>3, EnvironmentEffect DEF Mine
    <2>2. ASSUME NEW r \in Reqs, pc[r] \in WrittenPCs \/ status[r] = 200,
                 task[r].env \in environments'
          PROVE  Mine(r)' = Mine(r)
      <3>1. Mine(r) = {ReleaseRow(task[r].env, want[r], built[r], r)}
        BY <1>3, <2>2, EnvironmentEffect DEF AnswersInv, Answers, WrittenAfter
      <3>2. \A x \in Mine(r) : x \in releases'
        BY <1>3, <2>2, <3>1, EnvironmentEffect DEF ReleaseRow, Mine
      <3> QED
        BY <2>1, <3>2 DEF Mine
    <2>3. UNCHANGED <<pc, status, task, built, want>> /\ environments' \subseteq environments
      BY <1>3, EnvironmentEffect
    <2>4. Unanswered' /\ UnwrittenBefore' /\ RefusedUnwritten'
      BY <2>1, <2>3 DEF AnswersInv, Answers, Unanswered, UnwrittenBefore, RefusedUnwritten
    <2>5. WrittenAfter'
      BY <2>2, <2>3 DEF AnswersInv, Answers, WrittenAfter
    <2> QED
      BY <2>4, <2>5 DEF Answers
  <1>4. CASE UNCHANGED vars
    BY <1>4 DEF vars, AnswersInv, Answers, Unanswered, UnwrittenBefore, WrittenAfter,
                RefusedUnwritten, Mine
  <1> QED
    BY <1>1, <1>2, <1>3, <1>4, HandleKeepsAnswers DEF Next, AllAnswered

LEMMA AnswersInitially == Init => Answers
  BY SeedAssumption
  DEF Init, Answers, Unanswered, UnwrittenBefore, WrittenAfter, RefusedUnwritten,
      Mine, WrittenPCs

(* A 200 names a row that is in the collection as answered while its       *)
(* environment lives, and a refusal has written nothing (handler.go:116),  *)
(* whatever other handlers, processes, deletes and crashes do.             *)
THEOREM AnswersAreTrue == Spec => []AnswersMatchLog
  <1>1. Init => AnswersInv
    BY TypeInitially, AnswersInitially DEF AnswersInv
  <1>2. AnswersInv /\ [Next]_vars => AnswersInv'
    BY StepKeepsType, StepKeepsAnswers DEF AnswersInv
  <1>3. AnswersInv => AnswersMatchLog
    BY DEF AnswersInv, Answers, AnswersMatchLog, WrittenAfter, RefusedUnwritten, Mine
  <1> QED
    BY <1>1, <1>2, <1>3, PTL DEF Spec

-----------------------------------------------------------------------------
(* One winner per base.  A handler that found its base current races; a    *)
(* request that has won with the same base in the same process rules that  *)
(* out, because its row is already above the base; and the mutex lets no   *)
(* other win while it races.  Two publishes of different processes want    *)
(* the same version, and the index gives it to one.                        *)
PublishPCs == {"check", "flags", "rules"}
CopyPCs == {"pick", "destBase", "max"}
SavePCs == {"save", "insert"} \union WrittenPCs
RacingPCs == {"flags", "rules", "max"} \union SavePCs

Racing(r) ==
    task[r].kind \in {"publish", "promote"} /\ (pc[r] \in RacingPCs \/ status[r] = 200)

KindFits ==
    \A r \in Reqs :
        /\ pc[r] \in PublishPCs => task[r].kind = "publish"
        /\ pc[r] \in CopyPCs => task[r].kind # "publish"
PublishWantsNext ==
    \A r \in Reqs :
        task[r].kind = "publish" /\ Racing(r) => want[r] = task[r].base + 1
PromoteWantsLater ==
    \A r \in Reqs :
        task[r].kind = "promote" /\ task[r].env \in environments =>
            /\ pc[r] = "max" => task[r].base \in Versions(task[r].env) \union {0}
            /\ pc[r] \in SavePCs \/ status[r] = 200 => want[r] > task[r].base
SameRace(r, s) ==
    /\ task[r].env = task[s].env /\ task[r].env \in environments
    /\ task[r].base = task[s].base /\ task[r].proc = task[s].proc
WinnersApart ==
    \A r, s \in Reqs : Based(r) /\ Racing(s) /\ SameRace(r, s) => r = s

Winners == KindFits /\ PublishWantsNext /\ PromoteWantsLater /\ WinnersApart
SafeInv == TypeInv /\ LockHeld /\ Contiguous /\ Answers
WinnersInv == SafeInv /\ Winners

(* Steps by which nobody enters a race, wins one, or chooses a version. *)
LEMMA CalmStep ==
    ASSUME WinnersInv, environments' \subseteq environments,
           \A e \in environments' : Versions(e) \subseteq Versions(e)',
           KindFits',
           \A q \in Reqs :
               /\ Racing(q)' => Racing(q) /\ task'[q] = task[q] /\ want'[q] = want[q]
               /\ task'[q].kind = "promote" /\ pc'[q] = "max" => pc[q] = "max"
               /\ task'[q].kind = "promote" /\ pc'[q] \in SavePCs => pc[q] \in SavePCs
               /\ status'[q] = 200 => status[q] = 200
    PROVE  Winners'
  <1>1. PublishWantsNext'
    BY DEF WinnersInv, Winners, PublishWantsNext
  <1>2. PromoteWantsLater'
    <2> SUFFICES ASSUME NEW q \in Reqs, task'[q].kind = "promote",
                        task'[q].env \in environments',
                        pc'[q] = "max" \/ pc'[q] \in SavePCs \/ status'[q] = 200
                 PROVE  /\ pc'[q] = "max" => task'[q].base \in Versions(task[q].env)' \union {0}
                        /\ pc'[q] \in SavePCs \/ status'[q] = 200 => want'[q] > task'[q].base
      BY DEF PromoteWantsLater
    <2>1. Racing(q)'
      BY DEF Racing, RacingPCs
    <2>2. task'[q] = task[q] /\ want'[q] = want[q] /\ task[q].env \in environments
      BY <2>1
    <2>3. Versions(task[q].env) \subseteq Versions(task[q].env)'
      BY <2>2
    <2> QED
      BY <2>2, <2>3 DEF WinnersInv, Winners, PromoteWantsLater
  <1>3. WinnersApart'
    <2> SUFFICES ASSUME NEW r \in Reqs, NEW s \in Reqs, Based(r)', Racing(s)',
                        SameRace(r, s)'
                 PROVE  r = s
      BY DEF WinnersApart
    <2>1. Racing(r)'
      BY DEF Based, Racing
    <2>2. Based(r) /\ Racing(s) /\ SameRace(r, s)
      BY <2>1 DEF Based, SameRace
    <2> QED
      BY <2>2 DEF WinnersInv, Winners, WinnersApart
  <1> QED
    BY <1>1, <1>2, <1>3 DEF Winners

(* The row of a winner is above its base. *)
LEMMA WinnerAboveBase ==
    ASSUME WinnersInv, NEW r \in Reqs, Based(r), task[r].env \in environments,
           NEW m, IsMaxVersion(task[r].env, m)
    PROVE  m # task[r].base
  <1>1. Mine(r) = {ReleaseRow(task[r].env, want[r], built[r], r)}
    BY DEF WinnersInv, SafeInv, Answers, WrittenAfter, Based
  <1>2. want[r] \in Versions(task[r].env)
    <2>1. ReleaseRow(task[r].env, want[r], built[r], r) \in releases
      BY <1>1 DEF Mine
    <2>2. /\ ReleaseRow(task[r].env, want[r], built[r], r).env = task[r].env
          /\ ReleaseRow(task[r].env, want[r], built[r], r).version = want[r]
      BY DEF ReleaseRow
    <2> QED
      BY <2>1, <2>2 DEF Versions, RowsOf
  <1>3. pc[r] = "done" /\ task[r].kind \in {"publish", "promote"}
    BY DEF Based, WinnersInv, SafeInv, Answers, Unanswered
  <1>4. task[r] \in Task /\ want[r] \in Nat
    BY <1>3 DEF WinnersInv, SafeInv, TypeInv, TypeOK, NoTask
  <1>5. want[r] > task[r].base
    BY <1>3, <1>4 DEF WinnersInv, Winners, PublishWantsNext, PromoteWantsLater, Racing,
                      Based, Task
  <1>6. m \in Nat
    BY <1>4, MaxVersionIsNat DEF IsMaxVersion, WinnersInv, SafeInv, TypeInv, Task
  <1>7. task[r].base \in Nat
    BY <1>4 DEF Task
  <1>8. want[r] <= m
    BY <1>2 DEF IsMaxVersion
  <1> QED
    BY <1>4, <1>5, <1>6, <1>7, <1>8

(* Entering the race: the base is the largest version, so nobody has won   *)
(* with it.                                                                *)
LEMMA EnterRace ==
    ASSUME WinnersInv, NEW r \in Reqs, OthersKeep(r), task[r] \in Task, NEW m,
           IsMaxVersion(task[r].env, m), task[r].base = m, status[r] = 0,
           UNCHANGED <<task, status, releases, environments>>,
           \/ pc[r] = "check" /\ pc'[r] = "flags" /\ want'[r] = m + 1
           \/ pc[r] = "destBase" /\ pc'[r] = "max" /\ want'[r] = want[r]
    PROVE  Winners'
  <1> USE DEF PublishPCs, CopyPCs, SavePCs, WrittenPCs
  <1>1. KindFits'
    BY DEF WinnersInv, Winners, KindFits, OthersKeep
  <1>2. PublishWantsNext'
    <2> SUFFICES ASSUME NEW q \in Reqs, task[q].kind = "publish", Racing(q)'
                 PROVE  want'[q] = task[q].base + 1
      BY DEF PublishWantsNext
    <2>1. CASE q = r
      BY <2>1 DEF WinnersInv, Winners, KindFits
    <2>2. CASE q # r
      BY <2>2 DEF WinnersInv, Winners, PublishWantsNext, Racing, OthersKeep
    <2> QED
      BY <2>1, <2>2
  <1>3. PromoteWantsLater'
    <2>1. \A e : Versions(e)' = Versions(e)
      BY DEF Versions, RowsOf
    <2>2. m \in Versions(task[r].env) \union {0}
      BY DEF IsMaxVersion
    <2> SUFFICES ASSUME NEW q \in Reqs, task[q].kind = "promote", task[q].env \in environments
                 PROVE  /\ pc'[q] = "max" => task[q].base \in Versions(task[q].env) \union {0}
                        /\ pc'[q] \in SavePCs \/ status[q] = 200 => want'[q] > task[q].base
      BY <2>1 DEF PromoteWantsLater
    <2>3. CASE q = r
      BY <2>2, <2>3
    <2>4. CASE q # r
      BY <2>4 DEF WinnersInv, Winners, PromoteWantsLater, OthersKeep
    <2> QED
      BY <2>3, <2>4
  <1>4. WinnersApart'
    <2> SUFFICES ASSUME NEW q \in Reqs, NEW s \in Reqs, Based(q), Racing(s)', SameRace(q, s)
                 PROVE  q = s
      BY DEF WinnersApart, Based, SameRace
    <2>1. CASE s = r
      <3>1. task[q].env \in environments /\ task[q].env = task[r].env /\ task[q].base = m
        BY <2>1 DEF SameRace
      <3> QED
        BY <3>1, WinnerAboveBase
    <2>2. CASE s # r
      BY <2>2 DEF WinnersInv, Winners, WinnersApart, Racing, OthersKeep
    <2> QED
      BY <2>1, <2>2
  <1> QED
    BY <1>1, <1>2, <1>3, <1>4 DEF Winners

(* A copy reads the largest version again: while its environment lives it  *)
(* has not fallen below the base.                                          *)
LEMMA ReadMaxKeepsWinners ==
    ASSUME WinnersInv, NEW r \in Reqs, ReadMax(r)
    PROVE  Winners'
  <1> USE DEF PublishPCs, CopyPCs, SavePCs, RacingPCs, WrittenPCs
  <1>1. PICK m : IsMaxVersion(task[r].env, m) /\ want' = [want EXCEPT ![r] = NextVersion(m)]
    BY DEF ReadMax
  <1>2. /\ pc[r] = "max" /\ pc'[r] = "save" /\ want'[r] = m + 1
        /\ OthersKeep(r)
        /\ UNCHANGED <<task, status, releases, environments>>
    BY <1>1 DEF ReadMax, Goto, NextVersion, OthersKeep, WinnersInv, SafeInv, TypeInv, TypeOK
  <1>3. task[r].kind # "publish" /\ task[r] \in Task /\ status[r] # 200
    BY <1>2 DEF WinnersInv, Winners, KindFits, SafeInv, TypeInv, TypeOK, Answers, Unanswered
  <1>4. KindFits'
    BY <1>2 DEF WinnersInv, Winners, KindFits, OthersKeep
  <1>5. PublishWantsNext'
    BY <1>2, <1>3 DEF WinnersInv, Winners, PublishWantsNext, Racing, OthersKeep
  <1>6. PromoteWantsLater'
    <2>1. \A e : Versions(e)' = Versions(e)
      BY <1>2 DEF Versions, RowsOf
    <2> SUFFICES ASSUME NEW q \in Reqs, task[q].kind = "promote", task[q].env \in environments
                 PROVE  /\ pc'[q] = "max" => task[q].base \in Versions(task[q].env) \union {0}
                        /\ pc'[q] \in SavePCs \/ status[q] = 200 => want'[q] > task[q].base
      BY <1>2, <2>1 DEF PromoteWantsLater
    <2>2. CASE q = r
      <3>1. task[r].base \in Versions(task[r].env) \union {0}
        BY <1>2, <2>2 DEF WinnersInv, Winners, PromoteWantsLater
      <3>2. m \in Nat /\ task[r].base \in Nat
        BY <1>1, <1>3, MaxVersionIsNat DEF IsMaxVersion, WinnersInv, SafeInv, TypeInv, Task
      <3>3. task[r].base <= m
        BY <1>1, <3>1, <3>2 DEF IsMaxVersion
      <3> QED
        BY <1>2, <2>2, <3>2, <3>3
    <2>3. CASE q # r
      BY <1>2, <2>3 DEF WinnersInv, Winners, PromoteWantsLater, OthersKeep
    <2> QED
      BY <2>2, <2>3
  <1>7. WinnersApart'
    BY <1>2 DEF WinnersInv, Winners, WinnersApart, Racing, Based, SameRace, OthersKeep
  <1> QED
    BY <1>4, <1>5, <1>6, <1>7 DEF Winners

(* Winning: whoever races in the same process would hold the same mutex.   *)
LEMMA RespondKeepsWinners ==
    ASSUME WinnersInv, NEW r \in Reqs, Respond(r)
    PROVE  Winners'
  <1> USE DEF PublishPCs, CopyPCs, SavePCs, RacingPCs, WrittenPCs
  <1>1. /\ pc[r] = "respond" /\ pc'[r] = "done" /\ status'[r] = 200
        /\ OthersKeep(r)
        /\ UNCHANGED <<task, want, releases, environments>>
    BY AnswerEffect DEF Respond, WinnersInv, SafeInv
  <1>2. KindFits'
    BY <1>1 DEF WinnersInv, Winners, KindFits, OthersKeep
  <1>3. \A q \in Reqs : Racing(q)' = Racing(q)
    BY <1>1 DEF Racing, OthersKeep
  <1>4. PublishWantsNext'
    BY <1>1, <1>3 DEF WinnersInv, Winners, PublishWantsNext
  <1>5. PromoteWantsLater'
    <2>1. \A e : Versions(e)' = Versions(e)
      BY <1>1 DEF Versions, RowsOf
    <2> QED
      BY <1>1, <2>1 DEF WinnersInv, Winners, PromoteWantsLater, OthersKeep
  <1>6. ASSUME NEW s \in Reqs, Racing(r), Racing(s), SameRace(r, s)
        PROVE  r = s
    <2>1. CASE status[s] = 200
      BY <1>6, <2>1 DEF WinnersInv, Winners, WinnersApart, Racing, Based, SameRace
    <2>2. CASE pc[s] \in RacingPCs
      <3>1. writeMu[task[s].proc] = s /\ writeMu[task[r].proc] = r
        BY <1>1, <2>2 DEF WinnersInv, SafeInv, LockHeld, HoldingPCs
      <3> QED
        BY <1>6, <3>1 DEF SameRace
    <2> QED
      BY <1>6, <2>1, <2>2 DEF Racing
  <1>7. WinnersApart'
    <2> SUFFICES ASSUME NEW q \in Reqs, NEW s \in Reqs, Based(q)', Racing(s)', SameRace(q, s)
                 PROVE  q = s
      BY <1>1 DEF WinnersApart, SameRace
    <2>1. CASE q = r
      <3>1. Racing(r)
        BY <1>1, <2>1 DEF Based, Racing
      <3> QED
        BY <1>3, <1>6, <2>1, <3>1
    <2>2. CASE q # r
      <3>1. Based(q)
        BY <1>1, <2>2 DEF Based, OthersKeep
      <3> QED
        BY <1>3, <3>1 DEF WinnersInv, Winners, WinnersApart
    <2> QED
      BY <2>1, <2>2
  <1> QED
    BY <1>2, <1>4, <1>5, <1>7 DEF Winners

(* A step of one request that keeps it in the race it is in, or out.       *)
LEMMA CalmMove ==
    ASSUME WinnersInv, NEW r \in Reqs, OthersKeep(r), KindFits',
           UNCHANGED environments,
           \A e : Versions(e) \subseteq Versions(e)',
           \/ /\ pc'[r] \in RacingPCs => pc[r] \in RacingPCs \/ task[r].kind = "rollback"
              /\ task'[r] = task[r] /\ want'[r] = want[r]
              /\ task[r].kind = "promote" /\ pc'[r] = "max" => pc[r] = "max"
              /\ task[r].kind = "promote" /\ pc'[r] \in SavePCs => pc[r] \in SavePCs
           \/ pc'[r] \notin RacingPCs /\ status[r] # 200,
           status'[r] = 200 => status[r] = 200
    PROVE  Winners'
  <1>1. ASSUME NEW q \in Reqs
        PROVE  /\ Racing(q)' => Racing(q) /\ task'[q] = task[q] /\ want'[q] = want[q]
               /\ task'[q].kind = "promote" /\ pc'[q] = "max" => pc[q] = "max"
               /\ task'[q].kind = "promote" /\ pc'[q] \in SavePCs => pc[q] \in SavePCs
               /\ status'[q] = 200 => status[q] = 200
    <2>1. CASE q = r
      BY <2>1 DEF Racing, RacingPCs
    <2>2. CASE q # r
      BY <2>2 DEF Racing, OthersKeep
    <2> QED
      BY <2>1, <2>2
  <1> QED
    BY <1>1, CalmStep

LEMMA HandleKeepsWinners ==
    ASSUME WinnersInv, NEW r \in Reqs, Handle(r) \/ Notify(r)
    PROVE  Winners'
  <1> USE DEF PublishPCs, CopyPCs, SavePCs, RacingPCs, WrittenPCs
  <1>0. TypeInv
    BY DEF WinnersInv, SafeInv
  <1>1. pc[r] # "done" /\ status[r] = 0 /\ task[r] \in Task
    BY DEF Handle, Acquire, PublishCheckBase, BuildFlags, BuildRules, RollbackPick,
           PromotePick, PromoteCheckBase, ReadMax, SaveValidate, Insert, SaveFails,
           MapVersionConflict, ReadFails, Respond, Notify, NotifyStart, NotifyEnd,
           WinnersInv, SafeInv, TypeInv, TypeOK, Answers, Unanswered
  <1>2. ASSUME UNCHANGED releases
        PROVE  \A e : Versions(e) \subseteq Versions(e)'
    BY <1>2 DEF Versions, RowsOf
  <1>3. ASSUME NEW code \in {400, 404, 409, 500}, Answer(r, code)
        PROVE  Winners'
    <2>1. /\ OthersKeep(r) /\ pc'[r] = "done" /\ status'[r] = code
          /\ UNCHANGED <<task, built, want, releases, environments>>
      BY <1>0, <1>3, AnswerEffect
    <2>2. KindFits'
      BY <2>1 DEF WinnersInv, Winners, KindFits, OthersKeep
    <2> QED
      BY <1>1, <1>2, <2>1, <2>2, CalmMove
  <1>4. ASSUME NEW next, Goto(r, next), UNCHANGED <<task, want>>,
               \A q \in Reqs \ {r} : built'[q] = built[q],
               next \in PublishPCs => task[r].kind = "publish",
               next \in CopyPCs => task[r].kind # "publish",
               next \in RacingPCs => pc[r] \in RacingPCs \/ task[r].kind = "rollback",
               task[r].kind = "promote" /\ next = "max" => pc[r] = "max",
               task[r].kind = "promote" /\ next \in SavePCs => pc[r] \in SavePCs
        PROVE  Winners'
    <2>1. /\ OthersKeep(r) /\ pc'[r] = next /\ status'[r] = status[r]
          /\ UNCHANGED <<releases, environments>>
      BY <1>0, <1>4, GotoEffect
    <2>2. KindFits'
      BY <1>4, <2>1 DEF WinnersInv, Winners, KindFits, OthersKeep
    <2> QED
      BY <1>2, <1>4, <2>1, <2>2, CalmMove
  <1>5. CASE Acquire(r)
    <2>1. /\ OthersKeep(r) /\ status' = status
          /\ pc'[r] = IF task[r].kind = "publish" THEN "check" ELSE "pick"
          /\ UNCHANGED <<task, want, releases, environments>>
      BY <1>0, <1>5 DEF Acquire, local, OthersKeep, TypeInv, TypeOK
    <2>2. KindFits'
      BY <2>1 DEF WinnersInv, Winners, KindFits, OthersKeep
    <2> QED
      BY <1>1, <1>2, <2>1, <2>2, CalmMove
  <1>6. CASE PublishCheckBase(r)
    <2>1. PICK m \in Versions(task[r].env) \union {0} :
            /\ IsMaxVersion(task[r].env, m)
            /\ IF CheckBaseVersion(task[r].base, m)
               THEN /\ want' = [want EXCEPT ![r] = NextVersion(m)]
                    /\ Goto(r, "flags")
                    /\ UNCHANGED <<task, built>>
               ELSE Answer(r, 409)
      BY <1>6 DEF PublishCheckBase
    <2>2. CASE CheckBaseVersion(task[r].base, m)
      <3>1. /\ OthersKeep(r) /\ pc[r] = "check" /\ pc'[r] = "flags" /\ want'[r] = m + 1
            /\ task[r].base = m
            /\ UNCHANGED <<task, status, releases, environments>>
        BY <1>0, <1>6, <2>1, <2>2
        DEF PublishCheckBase, Goto, OthersKeep, NextVersion, CheckBaseVersion, TypeInv, TypeOK
      <3> QED
        BY <1>1, <2>1, <3>1, EnterRace
    <2>3. CASE ~CheckBaseVersion(task[r].base, m)
      BY <1>3, <2>1, <2>3
    <2> QED
      BY <2>2, <2>3
  <1>7. CASE BuildFlags(r) \/ BuildRules(r)
    <2>1. task[r].kind = "publish"
      BY <1>7 DEF BuildFlags, BuildRules, WinnersInv, Winners, KindFits
    <2> QED
      BY <1>0, <1>3, <1>4, <1>7, <2>1 DEF BuildFlags, BuildRules, TypeInv, TypeOK
  <1>8. CASE RollbackPick(r) \/ PromotePick(r)
    BY <1>0, <1>3, <1>4, <1>8 DEF RollbackPick, PromotePick, CopySource, TypeInv, TypeOK
  <1>9. CASE PromoteCheckBase(r)
    <2>1. PICK m : /\ IsMaxVersion(task[r].env, m)
                   /\ \/ \E code \in {400, 409} : Answer(r, code)
                      \/ task[r].base = m /\ Goto(r, "max") /\ UNCHANGED local
      BY <1>9 DEF PromoteCheckBase, CheckBaseVersion
    <2>2. CASE \E code \in {400, 409} : Answer(r, code)
      BY <1>3, <2>2
    <2>3. CASE task[r].base = m /\ Goto(r, "max") /\ UNCHANGED local
      <3>1. /\ OthersKeep(r) /\ pc[r] = "destBase" /\ pc'[r] = "max" /\ want'[r] = want[r]
            /\ UNCHANGED <<task, status, releases, environments>>
        BY <1>0, <1>9, <2>3 DEF PromoteCheckBase, Goto, local, OthersKeep, TypeInv, TypeOK
      <3> QED
        BY <1>1, <2>1, <2>3, <3>1, EnterRace
    <2> QED
      BY <2>1, <2>2, <2>3
  <1>10. CASE SaveValidate(r) \/ SaveFails(r)
    BY <1>4, <1>10 DEF SaveValidate, SaveFails, local
  <1>11. CASE Insert(r)
    <2>1. /\ OthersKeep(r) /\ pc[r] = "insert" /\ pc'[r] = "notify" /\ status' = status
          /\ releases \subseteq releases'
          /\ UNCHANGED <<task, want, environments>>
      BY <1>0, <1>11 DEF Insert, local, OthersKeep, TypeInv, TypeOK
    <2>2. \A e : Versions(e) \subseteq Versions(e)'
      BY <2>1 DEF Versions, RowsOf
    <2>3. KindFits'
      BY <2>1 DEF WinnersInv, Winners, KindFits, OthersKeep
    <2> QED
      BY <2>1, <2>2, <2>3, CalmMove
  <1>12. CASE MapVersionConflict(r) \/ ReadFails(r)
    BY <1>3, <1>12 DEF MapVersionConflict, ReadFails, PassOn
  <1>13. CASE Notify(r)
    BY <1>4, <1>13 DEF Notify, NotifyStart, NotifyEnd, local
  <1> QED
    BY <1>5, <1>6, <1>7, <1>8, <1>9, <1>10, <1>11, <1>12, <1>13,
       ReadMaxKeepsWinners, RespondKeepsWinners DEF Handle

LEMMA StepKeepsWinners == WinnersInv /\ [Next]_vars => Winners'
  <1> SUFFICES ASSUME WinnersInv, [Next]_vars
               PROVE  Winners'
    OBVIOUS
  <1> USE DEF PublishPCs, CopyPCs, SavePCs, RacingPCs, WrittenPCs
  <1>1. ASSUME NEW r \in Reqs, Arrive(r)
        PROVE  Winners'
    <2>1. /\ OthersKeep(r) /\ pc[r] = "idle" /\ pc'[r] \in {"lock", "done"}
          /\ status'[r] = 200 => status[r] = 200
          /\ UNCHANGED <<built, want, releases, environments>>
      BY <1>1, ArriveEffect DEF WinnersInv, SafeInv
    <2>2. status[r] = 0
      BY <2>1 DEF WinnersInv, SafeInv, Answers, Unanswered
    <2>3. KindFits'
      BY <2>1 DEF WinnersInv, Winners, KindFits, OthersKeep
    <2>4. \A e : Versions(e) \subseteq Versions(e)'
      BY <2>1 DEF Versions, RowsOf
    <2> QED
      BY <2>1, <2>2, <2>3, <2>4, CalmMove
  <1>2. ASSUME NEW p \in Procs, Crash(p)
        PROVE  Winners'
    <2>1. /\ \A q \in Reqs : pc'[q] \in {pc[q], "done"}
          /\ UNCHANGED <<status, task, want, releases, environments>>
      BY <1>2 DEF Crash, local
    <2>2. KindFits'
      BY <2>1 DEF WinnersInv, Winners, KindFits
    <2>3. \A e : Versions(e) \subseteq Versions(e)'
      BY <2>1 DEF Versions, RowsOf
    <2> QED
      BY <2>1, <2>2, <2>3, CalmStep DEF Racing
  <1>3. CASE Environment \/ UNCHANGED vars
    <2>1. /\ UNCHANGED <<pc, status, task, want>>
          /\ environments' \subseteq environments
          /\ \A x \in releases : x.env \in environments' => x \in releases'
      BY <1>3, EnvironmentEffect DEF vars
    <2>2. \A e \in environments' : Versions(e) \subseteq Versions(e)'
      BY <2>1 DEF Versions, RowsOf
    <2>3. KindFits'
      BY <2>1 DEF WinnersInv, Winners, KindFits
    <2> QED
      BY <2>1, <2>2, <2>3, CalmStep DEF Racing
  <1> QED
    BY <1>1, <1>2, <1>3, HandleKeepsWinners DEF Next, AllAnswered

LEMMA WinnersInitially == Init => WinnersInv
  <1>1. Init => LockHeld
    BY DEF Init, LockHeld, HoldingPCs
  <1>2. Init => Winners
    BY DEF Init, Winners, KindFits, PublishWantsNext, PromoteWantsLater, WinnersApart,
           Racing, Based, PublishPCs, CopyPCs, SavePCs, RacingPCs, WrittenPCs, NoTask
  <1> QED
    BY <1>1, <1>2, TypeInitially, LogInitially, AnswersInitially DEF WinnersInv, SafeInv

LEMMA StepKeepsWinnersInv == WinnersInv /\ [Next]_vars => WinnersInv'
  <1>1. SafeInv /\ [Next]_vars => SafeInv'
    BY StepKeepsType, StepKeepsLock, StepKeepsLog, StepKeepsAnswers
    DEF SafeInv, LockInv, LogInv, AnswersInv
  <1> QED
    BY <1>1, StepKeepsWinners DEF WinnersInv

(* Of the publishes sent with one base version of a live environment one   *)
(* wins, in whatever processes they run; of publishes and promotes, one    *)
(* within each process.                                                    *)
THEOREM OneWins == Spec => []OneWinnerPerBase
  <1>1. WinnersInv => OneWinnerPerBase
    <2> SUFFICES ASSUME WinnersInv, NEW r \in Reqs, NEW s \in Reqs, Based(r), Based(s),
                        task[r].env = task[s].env, task[r].env \in environments,
                        task[r].base = task[s].base,
                        \/ task[r].proc = task[s].proc
                        \/ task[r].kind = "publish" /\ task[s].kind = "publish"
                 PROVE  r = s
      BY DEF OneWinnerPerBase
    <2>1. CASE task[r].proc = task[s].proc
      BY <2>1 DEF WinnersInv, Winners, WinnersApart, SameRace, Racing, Based
    <2>2. CASE task[r].kind = "publish" /\ task[s].kind = "publish"
      <3>1. want[r] = want[s]
        BY <2>2 DEF WinnersInv, Winners, PublishWantsNext, Racing, Based
      <3> DEFINE row(q) == ReleaseRow(task[q].env, want[q], built[q], q)
      <3>2. row(r) \in releases /\ row(s) \in releases
        BY DEF WinnersInv, SafeInv, Answers, WrittenAfter, Based, Mine
      <3>3. /\ row(r).env = row(s).env /\ row(r).version = row(s).version
            /\ row(r).author = r /\ row(s).author = s
        BY <3>1 DEF ReleaseRow
      <3> HIDE DEF row
      <3>4. row(r) = row(s)
        BY <3>2, <3>3 DEF WinnersInv, SafeInv, Contiguous, VersionsContiguous, VersionsUnique
      <3> QED
        BY <3>3, <3>4
    <2> QED
      BY <2>1, <2>2
  <1> QED
    BY <1>1, WinnersInitially, StepKeepsWinnersInv, PTL DEF Spec

-----------------------------------------------------------------------------
(* No bad snapshot is written: what a handler holds from the validation to *)
(* the insert is valid, whichever of the three routes it took.             *)
ValidatedPCs == {"max", "save", "insert"}
BuiltValid == \A r \in Reqs : pc[r] \in ValidatedPCs => ValidSnapshot(built[r])

ValidInv == TypeInv /\ BuiltValid /\ ServedSnapshotsValid

(* Steps that write no row and hand over only what has been validated. *)
LEMMA ValidStep ==
    ASSUME ValidInv, releases' \subseteq releases,
           \A q \in Reqs : pc'[q] \in ValidatedPCs =>
               \/ pc[q] \in ValidatedPCs /\ built'[q] = built[q]
               \/ ValidSnapshot(built'[q])
    PROVE  BuiltValid' /\ ServedSnapshotsValid'
  BY DEF ValidInv, BuiltValid, ServedSnapshotsValid, ValidSnapshot

LEMMA HandleKeepsValid ==
    ASSUME ValidInv, NEW r \in Reqs, Handle(r) \/ Notify(r)
    PROVE  BuiltValid' /\ ServedSnapshotsValid'
  <1> USE DEF ValidatedPCs
  <1>0. TypeInv
    BY DEF ValidInv
  <1>1. ASSUME NEW code, Answer(r, code)
        PROVE  BuiltValid' /\ ServedSnapshotsValid'
    BY <1>0, <1>1, AnswerEffect, ValidStep DEF OthersKeep
  <1>2. ASSUME NEW next, Goto(r, next),
               \A q \in Reqs \ {r} : built'[q] = built[q],
               \/ next \notin ValidatedPCs
               \/ pc[r] \in ValidatedPCs /\ built'[r] = built[r]
               \/ ValidSnapshot(built'[r])
        PROVE  BuiltValid' /\ ServedSnapshotsValid'
    <2>1. /\ \A q \in Reqs \ {r} : pc'[q] = pc[q]
          /\ pc'[r] = next /\ UNCHANGED releases
      BY <1>0, <1>2 DEF Goto, TypeInv, TypeOK
    <2> QED
      BY <1>2, <2>1, ValidStep
  <1>3. CASE Acquire(r)
    <2>1. /\ \A q \in Reqs \ {r} : pc'[q] = pc[q]
          /\ pc'[r] \in {"check", "pick"} /\ UNCHANGED <<built, releases>>
      BY <1>0, <1>3 DEF Acquire, local, TypeInv, TypeOK
    <2> QED
      BY <2>1, ValidStep
  <1>4. CASE PublishCheckBase(r) \/ BuildFlags(r)
    BY <1>0, <1>1, <1>2, <1>4 DEF PublishCheckBase, BuildFlags, TypeInv, TypeOK
  <1>5. CASE BuildRules(r)
    <2> DEFINE s == [built[r] EXCEPT !.rules = config[ProjectOf[task[r].env]].rules]
    <2>1. \/ \E code : Answer(r, code)
          \/ ValidSnapshot(s) /\ built' = [built EXCEPT ![r] = s] /\ Goto(r, "save")
      BY <1>5 DEF BuildRules
    <2> HIDE DEF s
    <2> QED
      BY <1>0, <1>1, <1>2, <2>1 DEF TypeInv, TypeOK
  <1>6. CASE RollbackPick(r)
    <2>1. \/ \E code : Answer(r, code)
          \/ \E x \in releases : ValidSnapshot(x.snapshot) /\ CopySource(r, x, "max")
      BY <1>6 DEF RollbackPick, Picked, RowsOf
    <2> QED
      BY <1>0, <1>1, <1>2, <2>1 DEF CopySource, TypeInv, TypeOK
  <1>7. CASE PromotePick(r)
    BY <1>0, <1>1, <1>2, <1>7 DEF PromotePick, CopySource, TypeInv, TypeOK
  <1>8. CASE PromoteCheckBase(r)
    <2>1. \/ \E code : Answer(r, code)
          \/ ValidSnapshot(built[r]) /\ Goto(r, "max") /\ UNCHANGED local
      BY <1>8 DEF PromoteCheckBase
    <2> QED
      BY <1>1, <1>2, <2>1 DEF local
  <1>9. CASE ReadMax(r) \/ SaveValidate(r) \/ SaveFails(r)
    BY <1>2, <1>9 DEF ReadMax, SaveValidate, SaveFails, local
  <1>10. CASE Insert(r)
    <2>1. /\ pc[r] = "insert"
          /\ releases' = releases \union {ReleaseRow(task[r].env, want[r], built[r], r)}
          /\ built' = built
          /\ \A q \in Reqs : pc'[q] = IF q = r THEN "notify" ELSE pc[q]
      BY <1>0, <1>10 DEF Insert, local, TypeInv, TypeOK
    <2>2. ValidSnapshot(built[r])
      BY <2>1 DEF ValidInv, BuiltValid
    <2>3. ServedSnapshotsValid'
      BY <2>1, <2>2 DEF ValidInv, ServedSnapshotsValid, ValidSnapshot, ReleaseRow
    <2>4. BuiltValid'
      BY <2>1 DEF ValidInv, BuiltValid, ValidSnapshot
    <2> QED
      BY <2>3, <2>4
  <1>11. CASE MapVersionConflict(r) \/ ReadFails(r) \/ Respond(r)
    BY <1>1, <1>11 DEF MapVersionConflict, ReadFails, PassOn, Respond
  <1>12. CASE Notify(r)
    BY <1>2, <1>12 DEF Notify, NotifyStart, NotifyEnd, local
  <1> QED
    BY <1>3, <1>4, <1>5, <1>6, <1>7, <1>8, <1>9, <1>10, <1>11, <1>12 DEF Handle

LEMMA StepKeepsValid == ValidInv /\ [Next]_vars => BuiltValid' /\ ServedSnapshotsValid'
  <1> SUFFICES ASSUME ValidInv, [Next]_vars
               PROVE  BuiltValid' /\ ServedSnapshotsValid'
    OBVIOUS
  <1>1. ASSUME NEW r \in Reqs, Arrive(r)
        PROVE  BuiltValid' /\ ServedSnapshotsValid'
    BY <1>1, ArriveEffect, ValidStep DEF ValidInv, OthersKeep, ValidatedPCs
  <1>2. ASSUME NEW p \in Procs, Crash(p)
        PROVE  BuiltValid' /\ ServedSnapshotsValid'
    BY <1>2, ValidStep DEF Crash, local, ValidatedPCs
  <1>3. CASE Environment
    BY <1>3, EnvironmentEffect, ValidStep
  <1>4. CASE UNCHANGED vars
    BY <1>4, ValidStep DEF vars
  <1> QED
    BY <1>1, <1>2, <1>3, <1>4, HandleKeepsValid DEF Next, AllAnswered

(* No route writes a snapshot that fails validation, also when it copies a *)
(* row that an older server wrote without checking (handler.go:306-315).   *)
THEOREM OnlyValidIsServed == Spec => []ServedSnapshotsValid
  <1>1. Init => ValidInv
    BY TypeInitially DEF Init, ValidInv, BuiltValid, ServedSnapshotsValid, ValidatedPCs
  <1>2. ValidInv /\ [Next]_vars => ValidInv'
    BY StepKeepsType, StepKeepsValid DEF ValidInv
  <1>3. ValidInv => ServedSnapshotsValid
    BY DEF ValidInv
  <1> QED
    BY <1>1, <1>2, <1>3, PTL DEF Spec

-----------------------------------------------------------------------------
(* Copies.  A handler holds the bytes of the row it picked, and that row   *)
(* stays as long as its environment.                                       *)
HasSource(r, s) ==
    task[r].src \in environments =>
        \E y \in Picked(task[r].src, task[r].ver) : y.snapshot = s

CopiesHeld ==
    \A r \in Reqs :
        task[r].kind # "publish" /\ pc[r] \in {"destBase", "max", "save", "insert"} =>
            HasSource(r, built[r])
RowsHaveSource ==
    \A x \in releases : x.author \in Reqs /\ ~Published(x) => HasSource(x.author, x.snapshot)

RollbackSource ==
    \A r \in Reqs : task[r].kind = "rollback" => task[r].src = task[r].env

CopyInv == WinnersInv /\ CopiesHeld /\ RowsHaveSource /\ RollbackSource

(* Steps that pick no row and write none. *)
LEMMA CopyStep ==
    ASSUME CopyInv, environments' \subseteq environments, releases' \subseteq releases,
           \A x \in releases : x.env \in environments' => x \in releases',
           \A x \in releases' : x.author \in Reqs => task'[x.author] = task[x.author],
           \A q \in Reqs :
               task'[q].kind # "publish" /\ pc'[q] \in {"destBase", "max", "save", "insert"} =>
                   /\ pc[q] \in {"destBase", "max", "save", "insert"}
                   /\ task'[q] = task[q] /\ built'[q] = built[q]
    PROVE  CopiesHeld' /\ RowsHaveSource'
  <1>1. ASSUME NEW q \in Reqs, NEW s, task'[q] = task[q], HasSource(q, s)
        PROVE  HasSource(q, s)'
    <2> SUFFICES ASSUME task[q].src \in environments'
                 PROVE  \E y \in releases' :
                            y.env = task[q].src /\ y.version = task[q].ver /\ y.snapshot = s
      BY <1>1 DEF HasSource, Picked, RowsOf
    <2> QED
      BY <1>1 DEF HasSource, Picked, RowsOf
  <1>2. CopiesHeld'
    <2> SUFFICES ASSUME NEW q \in Reqs, task'[q].kind # "publish",
                        pc'[q] \in {"destBase", "max", "save", "insert"}
                 PROVE  HasSource(q, built[q])'
      BY DEF CopiesHeld
    <2>1. task'[q] = task[q] /\ built'[q] = built[q] /\ HasSource(q, built[q])
      BY DEF CopyInv, CopiesHeld
    <2> QED
      BY <1>1, <2>1 DEF HasSource
  <1>3. RowsHaveSource'
    BY <1>1 DEF CopyInv, RowsHaveSource, Published
  <1> QED
    BY <1>2, <1>3

LEMMA PickKeepsCopies ==
    ASSUME CopyInv, NEW r \in Reqs, NEW x \in Picked(task[r].src, task[r].ver),
           NEW next, CopySource(r, x, next)
    PROVE  CopiesHeld' /\ RowsHaveSource'
  <1>1. /\ OthersKeep(r) /\ pc'[r] = next /\ built'[r] = x.snapshot
        /\ UNCHANGED <<task, releases, environments>>
    BY DEF CopySource, Goto, OthersKeep, CopyInv, WinnersInv, SafeInv, TypeInv, TypeOK
  <1>2. HasSource(r, x.snapshot)
    BY DEF HasSource
  <1>3. \A q \in Reqs : \A s : HasSource(q, s)' = HasSource(q, s)
    BY <1>1 DEF HasSource, Picked, RowsOf
  <1>4. CopiesHeld'
    <2> SUFFICES ASSUME NEW q \in Reqs, task[q].kind # "publish",
                        pc'[q] \in {"destBase", "max", "save", "insert"}
                 PROVE  HasSource(q, built'[q])
      BY <1>1 DEF CopiesHeld, HasSource, Picked, RowsOf
    <2>1. CASE q = r
      BY <1>1, <1>2, <2>1
    <2>2. CASE q # r
      BY <1>1, <2>2 DEF CopyInv, CopiesHeld, OthersKeep
    <2> QED
      BY <2>1, <2>2
  <1>5. RowsHaveSource'
    BY <1>1, <1>3 DEF CopyInv, RowsHaveSource, Published
  <1> QED
    BY <1>4, <1>5

LEMMA InsertKeepsCopies ==
    ASSUME CopyInv, NEW r \in Reqs, Insert(r)
    PROVE  CopiesHeld' /\ RowsHaveSource'
  <1> DEFINE row == ReleaseRow(task[r].env, want[r], built[r], r)
  <1>1. /\ OthersKeep(r) /\ pc[r] = "insert" /\ pc'[r] = "notify"
        /\ releases' = releases \union {row}
        /\ UNCHANGED <<task, built, environments>>
    BY DEF Insert, local, OthersKeep, CopyInv, WinnersInv, SafeInv, TypeInv, TypeOK
  <1>2. row.author = r /\ row.snapshot = built[r]
    BY DEF ReleaseRow
  <1> HIDE DEF row
  <1>3. \A q \in Reqs : \A s : HasSource(q, s) => HasSource(q, s)'
    BY <1>1 DEF HasSource, Picked, RowsOf
  <1>4. CopiesHeld'
    BY <1>1, <1>3 DEF CopyInv, CopiesHeld, OthersKeep, HasSource
  <1>5. task[r].kind # "publish" => HasSource(r, built[r])
    BY <1>1 DEF CopyInv, CopiesHeld
  <1>6. RowsHaveSource'
    BY <1>1, <1>2, <1>3, <1>5 DEF CopyInv, RowsHaveSource, Published
  <1> QED
    BY <1>4, <1>6

LEMMA HandleKeepsCopies ==
    ASSUME CopyInv, NEW r \in Reqs, Handle(r) \/ Notify(r)
    PROVE  CopiesHeld' /\ RowsHaveSource'
  <1> DEFINE Held == {"destBase", "max", "save", "insert"}
  <1>0. TypeInv
    BY DEF CopyInv, WinnersInv, SafeInv
  <1>1. ASSUME OthersKeep(r), UNCHANGED <<task, releases, environments>>,
               task[r].kind # "publish" /\ pc'[r] \in Held => pc[r] \in Held /\ built'[r] = built[r]
        PROVE  CopiesHeld' /\ RowsHaveSource'
    BY <1>1, CopyStep DEF OthersKeep
  <1>2. ASSUME NEW code, Answer(r, code)
        PROVE  CopiesHeld' /\ RowsHaveSource'
    BY <1>0, <1>1, <1>2, AnswerEffect
  <1>3. ASSUME NEW next, Goto(r, next), task' = task,
               \A q \in Reqs \ {r} : built'[q] = built[q] /\ want'[q] = want[q],
               task[r].kind # "publish" /\ next \in Held => pc[r] \in Held /\ built'[r] = built[r]
        PROVE  CopiesHeld' /\ RowsHaveSource'
    BY <1>0, <1>1, <1>3, GotoEffect
  <1>4. CASE Acquire(r)
    BY <1>0, <1>1, <1>4 DEF Acquire, local, OthersKeep, TypeInv, TypeOK
  <1>5. CASE PublishCheckBase(r)
    BY <1>0, <1>2, <1>3, <1>5 DEF PublishCheckBase, TypeInv, TypeOK
  <1>6. CASE BuildFlags(r) \/ BuildRules(r)
    <2>1. task[r].kind = "publish"
      BY <1>6 DEF BuildFlags, BuildRules, CopyInv, WinnersInv, Winners, KindFits, PublishPCs
    <2> QED
      BY <1>0, <1>2, <1>3, <1>6, <2>1 DEF BuildFlags, BuildRules, TypeInv, TypeOK
  <1>7. CASE RollbackPick(r)
    <2>1. Picked(task[r].env, task[r].ver) = Picked(task[r].src, task[r].ver)
      BY <1>7 DEF RollbackPick, CopyInv, RollbackSource
    <2> QED
      BY <1>2, <1>7, <2>1, PickKeepsCopies DEF RollbackPick
  <1>8. CASE PromotePick(r)
    BY <1>2, <1>8, PickKeepsCopies DEF PromotePick
  <1>9. CASE PromoteCheckBase(r)
    BY <1>2, <1>3, <1>9 DEF PromoteCheckBase, local
  <1>10. CASE ReadMax(r)
    BY <1>0, <1>3, <1>10 DEF ReadMax, TypeInv, TypeOK
  <1>11. CASE SaveValidate(r) \/ SaveFails(r)
    BY <1>3, <1>11 DEF SaveValidate, SaveFails, local
  <1>12. CASE MapVersionConflict(r) \/ ReadFails(r) \/ Respond(r)
    BY <1>2, <1>12 DEF MapVersionConflict, ReadFails, PassOn, Respond
  <1>13. CASE Notify(r)
    BY <1>3, <1>13 DEF Notify, NotifyStart, NotifyEnd, local
  <1> QED
    BY <1>4, <1>5, <1>6, <1>7, <1>8, <1>9, <1>10, <1>11, <1>12, <1>13,
       InsertKeepsCopies DEF Handle

(* Only a request that arrives gets a task. *)
LEMMA TaskKept ==
    ASSUME [Next]_vars, ~ \E r \in Reqs : Arrive(r)
    PROVE  UNCHANGED task
  <1>1. ASSUME NEW r \in Reqs, Handle(r) \/ Notify(r)
        PROVE  UNCHANGED task
    <2>1. CASE Acquire(r) \/ PublishCheckBase(r) \/ BuildFlags(r) \/ BuildRules(r)
      BY <2>1 DEF Acquire, PublishCheckBase, BuildFlags, BuildRules, Answer, local
    <2>2. CASE RollbackPick(r) \/ PromotePick(r) \/ PromoteCheckBase(r) \/ ReadMax(r)
      BY <2>2 DEF RollbackPick, PromotePick, PromoteCheckBase, ReadMax, CopySource,
                  Answer, local
    <2>3. CASE SaveValidate(r) \/ Insert(r) \/ SaveFails(r) \/ Respond(r) \/ Notify(r)
      BY <2>3 DEF SaveValidate, Insert, SaveFails, Respond, Notify, NotifyStart, NotifyEnd,
                  Answer, local
    <2>4. CASE MapVersionConflict(r) \/ ReadFails(r)
      BY <2>4 DEF MapVersionConflict, ReadFails, PassOn, Answer, local
    <2> QED
      BY <1>1, <2>1, <2>2, <2>3, <2>4 DEF Handle
  <1>2. CASE \E p \in Procs : Crash(p)
    BY <1>2 DEF Crash, local
  <1>3. CASE Environment \/ UNCHANGED vars
    BY <1>3, EnvironmentEffect DEF vars
  <1> QED
    BY <1>1, <1>2, <1>3 DEF Next, AllAnswered

LEMMA StepKeepsCopies ==
    CopyInv /\ [Next]_vars => CopiesHeld' /\ RowsHaveSource' /\ RollbackSource'
  <1> SUFFICES ASSUME CopyInv, [Next]_vars
               PROVE  CopiesHeld' /\ RowsHaveSource' /\ RollbackSource'
    OBVIOUS
  <1>0. TypeInv
    BY DEF CopyInv, WinnersInv, SafeInv
  <1>1. ASSUME NEW r \in Reqs, Arrive(r)
        PROVE  CopiesHeld' /\ RowsHaveSource'
    <2>1. /\ OthersKeep(r) /\ pc[r] = "idle" /\ pc'[r] \in {"lock", "done"}
          /\ UNCHANGED <<built, releases, environments>>
      BY <1>0, <1>1, ArriveEffect
    <2>2. Mine(r) = {}
      BY <2>1 DEF WrittenPCs, CopyInv, WinnersInv, SafeInv, Answers, UnwrittenBefore
    <2>3. \A x \in releases : x.author \in Reqs => task'[x.author] = task[x.author]
      BY <2>1, <2>2 DEF Mine, OthersKeep
    <2> QED
      BY <2>1, <2>3, CopyStep DEF OthersKeep
  <1>2. ASSUME NEW p \in Procs, Crash(p)
        PROVE  CopiesHeld' /\ RowsHaveSource'
    BY <1>2, CopyStep DEF Crash, local
  <1>3. ASSUME Environment \/ UNCHANGED vars
        PROVE  CopiesHeld' /\ RowsHaveSource'
    <2>1. /\ UNCHANGED <<pc, task, built>>
          /\ environments' \subseteq environments /\ releases' \subseteq releases
          /\ \A x \in releases : x.env \in environments' => x \in releases'
      BY <1>3, EnvironmentEffect DEF vars
    <2> QED
      BY <2>1, CopyStep
  <1>4. RollbackSource'
    <2>1. CASE \E r \in Reqs : Arrive(r)
      <3> PICK r \in Reqs : Arrive(r)
        BY <2>1
      <3>1. CASE UNCHANGED task
        BY <3>1 DEF CopyInv, RollbackSource
      <3>2. CASE \E t : Accept(r, t) /\ (t.kind = "rollback" => t.src = t.env)
        BY <1>0, <3>2 DEF Accept, CopyInv, RollbackSource, TypeInv, TypeOK
      <3>3. CASE ArriveUnresolved(r)
        BY <3>1, <3>3 DEF ArriveUnresolved, Refuse, local
      <3>4. CASE ArrivePublish(r)
        BY <3>2, <3>4 DEF ArrivePublish
      <3>5. CASE ArriveRollback(r)
        BY <3>2, <3>5 DEF ArriveRollback
      <3>6. CASE ArrivePromote(r)
        BY <3>1, <3>2, <3>6 DEF ArrivePromote, Refuse, local
      <3> QED
        BY <3>3, <3>4, <3>5, <3>6 DEF Arrive
    <2>2. CASE ~ \E r \in Reqs : Arrive(r)
      <3>1. UNCHANGED task
        BY <2>2, TaskKept
      <3> QED
        BY <3>1 DEF CopyInv, RollbackSource
    <2> QED
      BY <2>1, <2>2
  <1> QED
    BY <1>1, <1>2, <1>3, <1>4, HandleKeepsCopies DEF Next, AllAnswered

(* A rollback or promote row holds the bytes of its source row, while the  *)
(* environment that was copied from lives, under an etag of its own:       *)
(* promoteToNewRow and rollbackToNewRow copy, they do not rebuild.         *)
THEOREM CopiesAreVerbatim == Spec => []CopiesVerbatim
  <1>1. Init => CopyInv
    BY WinnersInitially, SeedAssumption
    DEF Init, CopyInv, CopiesHeld, RowsHaveSource, RollbackSource, NoTask
  <1>2. CopyInv /\ [Next]_vars => CopyInv'
    BY StepKeepsWinnersInv, StepKeepsCopies DEF CopyInv
  <1>3. CopyInv => CopiesVerbatim
    <2> SUFFICES ASSUME CopyInv, NEW x \in releases, x.author \in Reqs, ~Published(x)
                 PROVE  /\ task[x.author].src \in environments =>
                             \E y \in Picked(task[x.author].src, task[x.author].ver) :
                                 y.snapshot = x.snapshot
                        /\ \A y \in RowsOf(x.env) \ {x} : y.etag # x.etag
      BY DEF CopiesVerbatim
    <2>1. HasSource(x.author, x.snapshot)
      BY DEF CopyInv, RowsHaveSource
    <2>2. ASSUME NEW y \in releases, y.env = x.env, y.etag = x.etag
          PROVE  y = x
      <3>1. y.version = x.version
        <4>1. \A z \in releases : z.etag = <<z.version, z.snapshot>>
          BY DEF CopyInv, WinnersInv, SafeInv, TypeInv, TypeOK, ReleaseRow, EtagFor
        <4>2. <<y.version, y.snapshot>> = <<x.version, x.snapshot>>
          BY <2>2, <4>1
        <4> QED
          BY <4>2
      <3> QED
        BY <2>2, <3>1 DEF CopyInv, WinnersInv, SafeInv, Contiguous, VersionsContiguous,
                          VersionsUnique
    <2> QED
      BY <2>1, <2>2 DEF HasSource, RowsOf
  <1> QED
    BY <1>1, <1>2, <1>3, PTL DEF Spec

-----------------------------------------------------------------------------
(* A newer publish is not older.  While an environment lives, the          *)
(* generations of its project only grow; a publish reads each half after   *)
(* it chose its version, when every row with a lower version was there; so *)
(* each half it holds is between those rows and the live configuration.    *)
FlagsReadPCs == {"rules", "save", "insert"}
RulesReadPCs == {"save", "insert"}

ConfigOf(e) == config[ProjectOf[e]]
NotNewer(s, t) == s.flags <= t.flags /\ s.rules <= t.rules

RowsBehindConfig ==
    \A x \in releases :
        x.env \in environments /\ Published(x) => NotNewer(x.snapshot, ConfigOf(x.env))

Publishing(r) ==
    /\ task[r].kind = "publish" /\ task[r].env \in environments
    /\ pc[r] \in FlagsReadPCs

BuiltBehindConfig ==
    \A r \in Reqs : Publishing(r) =>
        /\ built[r].flags <= ConfigOf(task[r].env).flags
        /\ pc[r] \in RulesReadPCs => built[r].rules <= ConfigOf(task[r].env).rules

RowsBehindBuilt ==
    \A r \in Reqs : \A x \in releases :
        Publishing(r) /\ x.env = task[r].env /\ Published(x) /\ x.version < want[r] =>
            /\ x.snapshot.flags <= built[r].flags
            /\ pc[r] \in RulesReadPCs => x.snapshot.rules <= built[r].rules

Fresh == RowsBehindConfig /\ BuiltBehindConfig /\ RowsBehindBuilt /\ NoStaleRepublish
FreshInv == WinnersInv /\ Fresh

(* All generations are numbers. *)
LEMMA GenerationsAreNat ==
    ASSUME TypeOK
    PROVE  /\ \A e \in Envs : ConfigOf(e).flags \in Nat /\ ConfigOf(e).rules \in Nat
           /\ \A x \in releases : x.snapshot.flags \in Nat /\ x.snapshot.rules \in Nat
           /\ \A r \in Reqs : built[r].flags \in Nat /\ built[r].rules \in Nat
  BY DEF TypeOK, Snapshot, Projects, ConfigOf

(* Steps that read no half and write no row, while generations grow. *)
LEMMA FreshStep ==
    ASSUME FreshInv, TypeOK', environments' \subseteq environments, releases' \subseteq releases,
           \A e \in environments' : NotNewer(ConfigOf(e), ConfigOf(e)'),
           \A x \in releases' : Published(x)' => Published(x),
           \A q \in Reqs : task'[q].kind = "publish" /\ pc'[q] \in FlagsReadPCs =>
               /\ pc[q] \in FlagsReadPCs
               /\ pc'[q] \in RulesReadPCs => pc[q] \in RulesReadPCs
               /\ task'[q] = task[q] /\ built'[q] = built[q] /\ want'[q] = want[q]
    PROVE  Fresh'
  <1> USE DEF NotNewer
  <1>0. TypeOK /\ environments \subseteq Envs
    BY DEF FreshInv, WinnersInv, SafeInv, TypeInv, TypeOK
  <1>1. RowsBehindConfig'
    <2> SUFFICES ASSUME NEW x \in releases', x.env \in environments', Published(x)'
                 PROVE  NotNewer(x.snapshot, ConfigOf(x.env)')
      BY DEF RowsBehindConfig
    <2>1. NotNewer(x.snapshot, ConfigOf(x.env)) /\ NotNewer(ConfigOf(x.env), ConfigOf(x.env)')
      BY DEF FreshInv, Fresh, RowsBehindConfig
    <2>2. /\ x.snapshot.flags \in Nat /\ x.snapshot.rules \in Nat
          /\ ConfigOf(x.env).flags \in Nat /\ ConfigOf(x.env).rules \in Nat
      BY <1>0, GenerationsAreNat
    <2>3. ConfigOf(x.env)'.flags \in Nat /\ ConfigOf(x.env)'.rules \in Nat
      BY <1>0 DEF TypeOK, Snapshot, Projects, ConfigOf
    <2> QED
      BY <2>1, <2>2, <2>3
  <1>2. \A q \in Reqs : Publishing(q)' =>
          /\ Publishing(q) /\ task'[q] = task[q] /\ built'[q] = built[q] /\ want'[q] = want[q]
          /\ pc'[q] \in RulesReadPCs => pc[q] \in RulesReadPCs
    BY DEF Publishing
  <1>3. BuiltBehindConfig'
    <2> SUFFICES ASSUME NEW q \in Reqs, Publishing(q)'
                 PROVE  /\ built'[q].flags <= ConfigOf(task[q].env)'.flags
                        /\ pc'[q] \in RulesReadPCs => built'[q].rules <= ConfigOf(task[q].env)'.rules
      BY DEF BuiltBehindConfig
    <2>1. task[q].env \in environments' /\ Publishing(q) /\ built'[q] = built[q]
      BY <1>2 DEF Publishing
    <2>2. NotNewer(ConfigOf(task[q].env), ConfigOf(task[q].env)')
      BY <1>2, <2>1 DEF ConfigOf
    <2>3. /\ built[q].flags \in Nat /\ built[q].rules \in Nat
          /\ ConfigOf(task[q].env).flags \in Nat /\ ConfigOf(task[q].env).rules \in Nat
      BY <1>0, <2>1, GenerationsAreNat
    <2>4. ConfigOf(task[q].env)'.flags \in Nat /\ ConfigOf(task[q].env)'.rules \in Nat
      <3>1. task'[q].env \in Envs
        BY <1>0, <1>2, <2>1
      <3>2. \A e \in Envs : config'[ProjectOf[e]] \in Snapshot
        BY DEF TypeOK, Projects
      <3>3. config'[ProjectOf[task'[q].env]] \in Snapshot
        BY <3>1, <3>2
      <3> QED
        BY <3>3 DEF Snapshot, ConfigOf
    <2> QED
      BY <1>2, <2>1, <2>2, <2>3, <2>4 DEF FreshInv, Fresh, BuiltBehindConfig
  <1>4. RowsBehindBuilt'
    BY <1>2 DEF FreshInv, Fresh, RowsBehindBuilt
  <1>5. NoStaleRepublish'
    BY DEF FreshInv, Fresh, NoStaleRepublish
  <1> QED
    BY <1>1, <1>3, <1>4, <1>5 DEF Fresh

LEMMA BuildFlagsKeepsFresh ==
    ASSUME FreshInv, NEW r \in Reqs, BuildFlags(r)
    PROVE  Fresh'
  <1> USE DEF NotNewer
  <1>0. TypeInv /\ TypeOK
    BY DEF FreshInv, WinnersInv, SafeInv, TypeInv
  <1>1. /\ OthersKeep(r) /\ pc[r] = "flags" /\ pc'[r] = "rules"
        /\ built'[r].flags = ConfigOf(task[r].env).flags
        /\ UNCHANGED <<task, want, releases, environments, config>>
    BY <1>0 DEF BuildFlags, Goto, OthersKeep, ConfigOf, TypeInv, TypeOK, Snapshot
  <1>2. RowsBehindConfig' /\ NoStaleRepublish'
    BY <1>1 DEF FreshInv, Fresh, RowsBehindConfig, NoStaleRepublish, Published, ConfigOf
  <1>3. BuiltBehindConfig'
    <2> SUFFICES ASSUME NEW q \in Reqs, Publishing(q)'
                 PROVE  /\ built'[q].flags <= ConfigOf(task[q].env).flags
                        /\ pc'[q] \in RulesReadPCs => built'[q].rules <= ConfigOf(task[q].env).rules
      BY <1>1 DEF BuiltBehindConfig, ConfigOf
    <2>1. CASE q = r
      <3>1. ConfigOf(task[r].env).flags \in Nat
        BY <1>0, <1>1, <2>1, GenerationsAreNat DEF Publishing, TypeOK
      <3> QED
        BY <1>1, <2>1, <3>1 DEF RulesReadPCs
    <2>2. CASE q # r
      BY <1>1, <2>2 DEF FreshInv, Fresh, BuiltBehindConfig, Publishing, OthersKeep
    <2> QED
      BY <2>1, <2>2
  <1>4. RowsBehindBuilt'
    <2> SUFFICES ASSUME NEW q \in Reqs, NEW x \in releases, Publishing(q)',
                        x.env = task[q].env, Published(x), x.version < want[q]
                 PROVE  /\ x.snapshot.flags <= built'[q].flags
                        /\ pc'[q] \in RulesReadPCs => x.snapshot.rules <= built'[q].rules
      BY <1>1 DEF RowsBehindBuilt, Published
    <2>1. CASE q = r
      <3>1. NotNewer(x.snapshot, ConfigOf(task[r].env))
        BY <1>1, <2>1 DEF FreshInv, Fresh, RowsBehindConfig, Publishing
      <3> QED
        BY <1>1, <2>1, <3>1 DEF RulesReadPCs
    <2>2. CASE q # r
      BY <1>1, <2>2 DEF FreshInv, Fresh, RowsBehindBuilt, Publishing, OthersKeep
    <2> QED
      BY <2>1, <2>2
  <1> QED
    BY <1>2, <1>3, <1>4 DEF Fresh

LEMMA BuildRulesKeepsFresh ==
    ASSUME FreshInv, NEW r \in Reqs, BuildRules(r), pc'[r] = "save"
    PROVE  Fresh'
  <1> USE DEF NotNewer, FlagsReadPCs
  <1>0. TypeInv /\ TypeOK
    BY DEF FreshInv, WinnersInv, SafeInv, TypeInv
  <1>1. /\ OthersKeep(r) /\ pc[r] = "rules"
        /\ built'[r].flags = built[r].flags
        /\ built'[r].rules = ConfigOf(task[r].env).rules
        /\ UNCHANGED <<task, want, releases, environments, config>>
    <2>1. ~ \E code : Answer(r, code)
      BY <1>0, AnswerEffect
    <2>2. /\ pc[r] = "rules"
          /\ built' = [built EXCEPT ![r] =
                          [built[r] EXCEPT !.rules = config[ProjectOf[task[r].env]].rules]]
          /\ Goto(r, "save") /\ UNCHANGED <<task, want>>
      BY <2>1 DEF BuildRules
    <2> QED
      BY <1>0, <2>2 DEF Goto, OthersKeep, ConfigOf, TypeInv, TypeOK, Snapshot
  <1>2. RowsBehindConfig' /\ NoStaleRepublish'
    BY <1>1 DEF FreshInv, Fresh, RowsBehindConfig, NoStaleRepublish, Published, ConfigOf
  <1>3. BuiltBehindConfig'
    <2> SUFFICES ASSUME NEW q \in Reqs, Publishing(q)'
                 PROVE  /\ built'[q].flags <= ConfigOf(task[q].env).flags
                        /\ pc'[q] \in RulesReadPCs => built'[q].rules <= ConfigOf(task[q].env).rules
      BY <1>1 DEF BuiltBehindConfig, ConfigOf
    <2>1. CASE q = r
      <3>1. ConfigOf(task[r].env).rules \in Nat
        BY <1>0, <1>1, <2>1, GenerationsAreNat DEF Publishing, TypeOK
      <3>2. built[r].flags <= ConfigOf(task[r].env).flags
        BY <1>1, <2>1 DEF FreshInv, Fresh, BuiltBehindConfig, Publishing
      <3> QED
        BY <1>1, <2>1, <3>1, <3>2
    <2>2. CASE q # r
      BY <1>1, <2>2 DEF FreshInv, Fresh, BuiltBehindConfig, Publishing, OthersKeep
    <2> QED
      BY <2>1, <2>2
  <1>4. RowsBehindBuilt'
    <2> SUFFICES ASSUME NEW q \in Reqs, NEW x \in releases, Publishing(q)',
                        x.env = task[q].env, Published(x), x.version < want[q]
                 PROVE  /\ x.snapshot.flags <= built'[q].flags
                        /\ pc'[q] \in RulesReadPCs => x.snapshot.rules <= built'[q].rules
      BY <1>1 DEF RowsBehindBuilt, Published
    <2>1. CASE q = r
      <3>1. NotNewer(x.snapshot, ConfigOf(task[r].env))
        BY <1>1, <2>1 DEF FreshInv, Fresh, RowsBehindConfig, Publishing
      <3>2. x.snapshot.flags <= built[r].flags
        BY <1>1, <2>1 DEF FreshInv, Fresh, RowsBehindBuilt, Publishing
      <3> QED
        BY <1>1, <2>1, <3>1, <3>2
    <2>2. CASE q # r
      BY <1>1, <2>2 DEF FreshInv, Fresh, RowsBehindBuilt, Publishing, OthersKeep
    <2> QED
      BY <2>1, <2>2
  <1> QED
    BY <1>2, <1>3, <1>4 DEF Fresh

(* The row that is inserted lies above every row there is: what it is      *)
(* compared with was there when its version was chosen.                    *)
LEMMA InsertKeepsFresh ==
    ASSUME FreshInv, NEW r \in Reqs, Insert(r)
    PROVE  Fresh'
  <1> USE DEF NotNewer, FlagsReadPCs, RulesReadPCs
  <1>0. TypeInv /\ TypeOK
    BY DEF FreshInv, WinnersInv, SafeInv, TypeInv
  <1> DEFINE row == ReleaseRow(task[r].env, want[r], built[r], r)
  <1>1. /\ OthersKeep(r) /\ pc[r] = "insert" /\ pc'[r] = "notify"
        /\ want[r] \notin Versions(task[r].env)
        /\ releases' = releases \union {row}
        /\ UNCHANGED <<task, built, want, environments, config>>
    BY <1>0 DEF Insert, local, OthersKeep, TypeInv, TypeOK
  <1>2. /\ row.env = task[r].env /\ row.version = want[r]
        /\ row.snapshot = built[r] /\ row.author = r
    BY DEF ReleaseRow
  <1> HIDE DEF row
  <1>3. want[r] \in Nat \ {0} /\ \A q \in Reqs : want[q] \in Nat
    BY <1>0, <1>1 DEF TypeInv, TypeOK, WantPositive, ChosenPCs
  <1>4. ASSUME task[r].env \in environments, task[r].kind = "publish"
        PROVE  Publishing(r)
    BY <1>1, <1>4 DEF Publishing
  <1>5. RowsBehindConfig'
    <2> SUFFICES ASSUME NEW x \in releases', x.env \in environments, Published(x)
                 PROVE  NotNewer(x.snapshot, ConfigOf(x.env))
      BY <1>1 DEF RowsBehindConfig, Published, ConfigOf
    <2>1. CASE x \in releases
      BY <2>1 DEF FreshInv, Fresh, RowsBehindConfig
    <2>2. CASE x = row
      BY <1>1, <1>2, <1>4, <2>2 DEF FreshInv, Fresh, BuiltBehindConfig, Published
    <2> QED
      BY <1>1, <2>1, <2>2
  <1>6. BuiltBehindConfig'
    BY <1>1 DEF FreshInv, Fresh, BuiltBehindConfig, Publishing, OthersKeep, ConfigOf
  <1>7. RowsBehindBuilt'
    <2> SUFFICES ASSUME NEW q \in Reqs, NEW x \in releases', Publishing(q)',
                        x.env = task[q].env, Published(x), x.version < want[q]
                 PROVE  /\ x.snapshot.flags <= built[q].flags
                        /\ pc'[q] \in RulesReadPCs => x.snapshot.rules <= built[q].rules
      BY <1>1 DEF RowsBehindBuilt, Published
    <2>1. q # r /\ Publishing(q) /\ pc'[q] = pc[q]
      BY <1>1 DEF Publishing, OthersKeep
    <2>2. x # row
      <3>1. pc[q] \in ChosenPCs /\ task[q].env \in environments
        BY <2>1 DEF Publishing, ChosenPCs
      <3>2. \A v \in 1..(want[q] - 1) : v \in Versions(task[q].env)
        BY <3>1 DEF FreshInv, WinnersInv, SafeInv, Contiguous, WantReached
      <3> QED
        BY <1>1, <1>2, <1>3, <3>2
    <2> QED
      BY <1>1, <2>1, <2>2 DEF FreshInv, Fresh, RowsBehindBuilt
  <1>8. NoStaleRepublish'
    <2> SUFFICES ASSUME NEW x \in releases', NEW y \in releases', x.env = y.env,
                        x.env \in environments, Published(x), Published(y),
                        x.version < y.version
                 PROVE  NotNewer(x.snapshot, y.snapshot)
      BY <1>1 DEF NoStaleRepublish, Published
    <2>1. CASE x \in releases /\ y \in releases
      BY <2>1 DEF FreshInv, Fresh, NoStaleRepublish
    <2>2. CASE x \in releases /\ y = row
      BY <1>1, <1>2, <1>4, <2>2 DEF FreshInv, Fresh, RowsBehindBuilt, Published
    <2>3. ASSUME x = row, y \in releases
          PROVE  FALSE
      <3>1. want[r] \in 1..y.version
        BY <1>0, <1>2, <1>3, <2>3 DEF TypeOK
      <3>2. want[r] \in Versions(y.env)
        BY <1>2, <2>3, <3>1
        DEF FreshInv, WinnersInv, SafeInv, Contiguous, VersionsContiguous, VersionsGapFree
      <3> QED
        BY <1>1, <1>2, <2>3, <3>2
    <2>4. CASE x = row /\ y = row
      BY <1>2, <1>3, <2>4
    <2> QED
      BY <1>1, <2>1, <2>2, <2>3, <2>4
  <1> QED
    BY <1>5, <1>6, <1>7, <1>8 DEF Fresh

(* Edits only raise a generation; a deleted project, which starts again,   *)
(* has no live environment.                                                *)
LEMMA EnvironmentKeepsFresh ==
    ASSUME FreshInv, TypeOK', Environment
    PROVE  Fresh'
  <1> USE DEF NotNewer
  <1>0. TypeOK /\ environments \subseteq Envs
    BY DEF FreshInv, WinnersInv, SafeInv, TypeInv, TypeOK
  <1>1. /\ UNCHANGED <<pc, status, task, built, want>>
        /\ environments' \subseteq environments /\ releases' \subseteq releases
    BY EnvironmentEffect
  <1>2. ASSUME NEW e \in environments'
        PROVE  NotNewer(ConfigOf(e), ConfigOf(e)')
    <2>0. e \in Envs /\ ProjectOf[e] \in Projects /\ ConfigOf(e) \in Snapshot
      BY <1>0, <1>1 DEF TypeOK, Projects, ConfigOf
    <2>1. ConfigOf(e)' = config'[ProjectOf[e]]
      BY DEF ConfigOf
    <2>2. CASE UNCHANGED config
      BY <2>0, <2>1, <2>2 DEF ConfigOf, Snapshot
    <2>3. ASSUME NEW p \in Projects, NEW half \in {"flags", "rules"}, Edit(p, half)
          PROVE  NotNewer(ConfigOf(e), ConfigOf(e)')
      <3>1. CASE half = "flags"
        BY <1>0, <2>0, <2>1, <2>3, <3>1 DEF Edit, ConfigOf, Snapshot, TypeOK
      <3>2. CASE half = "rules"
        BY <1>0, <2>0, <2>1, <2>3, <3>2 DEF Edit, ConfigOf, Snapshot, TypeOK
      <3> QED
        BY <3>1, <3>2
    <2>4. ASSUME NEW p \in Projects, DeleteProject(p)
          PROVE  NotNewer(ConfigOf(e), ConfigOf(e)')
      <3>1. ProjectOf[e] # p
        BY <1>2, <2>4 DEF DeleteProject, Remove
      <3>2. config'[ProjectOf[e]] = config[ProjectOf[e]]
        BY <1>0, <2>0, <2>4, <3>1 DEF DeleteProject, TypeOK
      <3> QED
        BY <2>0, <2>1, <3>2 DEF ConfigOf, Snapshot
    <2> QED
      BY <2>2, <2>3, <2>4 DEF Environment, DeleteEnv, DirectDelete
  <1> QED
    BY <1>1, <1>2, FreshStep DEF Published

LEMMA StepKeepsFresh == FreshInv /\ [Next]_vars => Fresh'
  <1> SUFFICES ASSUME FreshInv, [Next]_vars
               PROVE  Fresh'
    OBVIOUS
  <1> USE DEF FlagsReadPCs, RulesReadPCs
  <1>0. TypeInv /\ TypeOK /\ TypeOK'
    BY StepKeepsType DEF FreshInv, WinnersInv, SafeInv, TypeInv
  <1>1. ASSUME UNCHANGED <<releases, environments, config>>,
               \A x \in releases : Published(x)' => Published(x),
               \A q \in Reqs : task'[q].kind = "publish" /\ pc'[q] \in FlagsReadPCs =>
                   /\ pc[q] \in FlagsReadPCs
                   /\ pc'[q] \in RulesReadPCs => pc[q] \in RulesReadPCs
                   /\ task'[q] = task[q] /\ built'[q] = built[q] /\ want'[q] = want[q]
        PROVE  Fresh'
    <2>1. \A e \in environments' : NotNewer(ConfigOf(e), ConfigOf(e)')
      BY <1>0, <1>1, GenerationsAreNat DEF NotNewer, ConfigOf, TypeOK
    <2> QED
      BY <1>0, <1>1, <2>1, FreshStep
  <1>2. ASSUME NEW r \in Reqs, Arrive(r)
        PROVE  Fresh'
    <2>1. /\ OthersKeep(r) /\ pc[r] = "idle" /\ pc'[r] \in {"lock", "done"}
          /\ UNCHANGED <<built, want, releases, environments>>
      BY <1>0, <1>2, ArriveEffect
    <2>2. UNCHANGED config
      BY <1>2 DEF Arrive, ArriveUnresolved, ArrivePublish, ArriveRollback, ArrivePromote,
                  Accept, Goto, Refuse
    <2>3. Mine(r) = {}
      BY <2>1 DEF WrittenPCs, FreshInv, WinnersInv, SafeInv, Answers, UnwrittenBefore
    <2>4. \A x \in releases : Published(x)' => Published(x)
      BY <2>1, <2>3 DEF Mine, OthersKeep, Published
    <2> QED
      BY <1>1, <2>1, <2>2, <2>4 DEF OthersKeep
  <1>3. ASSUME NEW r \in Reqs, Handle(r) \/ Notify(r)
        PROVE  Fresh'
    <2>1. ASSUME NEW code, Answer(r, code)
          PROVE  Fresh'
      <3>1. UNCHANGED config
        BY <2>1 DEF Answer
      <3> QED
        BY <1>0, <1>1, <2>1, <3>1, AnswerEffect DEF OthersKeep, Published
    <2>2. ASSUME NEW next, Goto(r, next), task' = task,
                 \A q \in Reqs \ {r} : built'[q] = built[q] /\ want'[q] = want[q],
                 task[r].kind = "publish" /\ next \in FlagsReadPCs =>
                     /\ pc[r] \in FlagsReadPCs
                     /\ next \in RulesReadPCs => pc[r] \in RulesReadPCs
                     /\ built'[r] = built[r] /\ want'[r] = want[r]
          PROVE  Fresh'
      <3>1. UNCHANGED config
        BY <2>2 DEF Goto
      <3> QED
        BY <1>0, <1>1, <2>2, <3>1, GotoEffect DEF OthersKeep, Published
    <2>3. CASE Acquire(r)
      <3>1. /\ OthersKeep(r) /\ pc'[r] \in {"check", "pick"}
            /\ UNCHANGED <<task, built, want, releases, environments, config>>
        BY <1>0, <2>3 DEF Acquire, local, OthersKeep, TypeInv, TypeOK
      <3> QED
        BY <1>1, <3>1 DEF OthersKeep, Published
    <2>4. CASE PublishCheckBase(r)
      BY <1>0, <2>1, <2>2, <2>4 DEF PublishCheckBase, TypeInv, TypeOK
    <2>5. CASE BuildRules(r)
      <3>1. (\E code : Answer(r, code)) \/ Goto(r, "save")
        BY <2>5 DEF BuildRules
      <3>2. Goto(r, "save") => pc'[r] = "save"
        BY <1>0 DEF Goto, TypeInv, TypeOK
      <3> QED
        BY <2>1, <2>5, <3>1, <3>2, BuildRulesKeepsFresh
    <2>6. CASE RollbackPick(r) \/ PromotePick(r)
      BY <1>0, <2>1, <2>2, <2>6 DEF RollbackPick, PromotePick, CopySource, TypeInv, TypeOK
    <2>7. CASE PromoteCheckBase(r)
      BY <2>1, <2>2, <2>7 DEF PromoteCheckBase, local
    <2>8. CASE ReadMax(r)
      <3>1. task[r].kind # "publish"
        BY <2>8 DEF ReadMax, FreshInv, WinnersInv, Winners, KindFits, CopyPCs
      <3> QED
        BY <1>0, <2>2, <2>8, <3>1 DEF ReadMax, TypeInv, TypeOK
    <2>9. CASE SaveValidate(r) \/ SaveFails(r)
      BY <2>2, <2>9 DEF SaveValidate, SaveFails, local
    <2>10. CASE MapVersionConflict(r) \/ ReadFails(r) \/ Respond(r)
      BY <2>1, <2>10 DEF MapVersionConflict, ReadFails, PassOn, Respond
    <2>11. CASE Notify(r)
      BY <2>2, <2>11 DEF Notify, NotifyStart, NotifyEnd, local
    <2> QED
      BY <1>3, <2>3, <2>4, <2>5, <2>6, <2>7, <2>8, <2>9, <2>10, <2>11,
         BuildFlagsKeepsFresh, InsertKeepsFresh DEF Handle
  <1>4. ASSUME NEW p \in Procs, Crash(p)
        PROVE  Fresh'
    BY <1>1, <1>4 DEF Crash, local, Published
  <1>5. CASE UNCHANGED vars
    BY <1>1, <1>5 DEF vars, Published
  <1> QED
    BY <1>0, <1>2, <1>3, <1>4, <1>5, EnvironmentKeepsFresh DEF Next, AllAnswered

(* A newer publish never carries an older configuration, although flags    *)
(* and rules are read by two queries and edited meanwhile: the version is  *)
(* chosen before the first is read (handler.go, postPublish).              *)
THEOREM NewerIsNotOlder == Spec => []NoStaleRepublish
  <1>1. Init => FreshInv
    BY WinnersInitially, SeedAssumption
    DEF Init, FreshInv, Fresh, RowsBehindConfig, BuiltBehindConfig, RowsBehindBuilt,
        NoStaleRepublish, Published, Publishing, FlagsReadPCs
  <1>2. FreshInv /\ [Next]_vars => FreshInv'
    BY StepKeepsWinnersInv, StepKeepsFresh DEF FreshInv
  <1>3. FreshInv => NoStaleRepublish
    BY DEF FreshInv, Fresh
  <1> QED
    BY <1>1, <1>2, <1>3, PTL DEF Spec

-----------------------------------------------------------------------------
(* The collection implements the per-environment append-only log of        *)
(* ReleaseLog, with the refinement mapping Log of Releases.                *)

(* Every snapshot is assembled from generations that exist. *)
Assembled == [flags : Generations, rules : Generations]

ConfigBounded ==
    \A p \in Projects : config[p].flags \in Generations /\ config[p].rules \in Generations
RowsBounded == \A x \in releases : x.snapshot \in LogSnapshots
BuiltBounded ==
    \A r \in Reqs :
        /\ task[r].kind = "publish" =>
             /\ pc[r] \in {"rules", "save", "insert"} => built[r].flags \in Generations
             /\ pc[r] \in {"save", "insert"} => built[r].rules \in Generations
        /\ task[r].kind # "publish" /\ pc[r] \in {"destBase", "max", "save", "insert"}
             => built[r] \in LogSnapshots

Bounded == ConfigBounded /\ RowsBounded /\ BuiltBounded /\ IsFiniteSet(releases)
RefInv == WinnersInv /\ Bounded

-----------------------------------------------------------------------------
(* Steps that write no row, edit nothing and hand over what is bounded. *)
LEMMA BoundedStep ==
    ASSUME RefInv, UNCHANGED <<releases, config>>, NEW r \in Reqs, OthersKeep(r),
           /\ task'[r].kind = "publish" =>
                /\ pc'[r] \in {"rules", "save", "insert"} => built'[r].flags \in Generations
                /\ pc'[r] \in {"save", "insert"} => built'[r].rules \in Generations
           /\ task'[r].kind # "publish" /\ pc'[r] \in {"destBase", "max", "save", "insert"}
                => built'[r] \in LogSnapshots
    PROVE  Bounded'
  <1>1. LogSnapshots' = LogSnapshots
    BY DEF LogSnapshots, Generations
  <1>2. ConfigBounded' /\ RowsBounded'
    BY <1>1 DEF RefInv, Bounded, ConfigBounded, RowsBounded
  <1>3. BuiltBounded'
    <2> SUFFICES ASSUME NEW q \in Reqs
                 PROVE  /\ task'[q].kind = "publish" =>
                             /\ pc'[q] \in {"rules", "save", "insert"} => built'[q].flags \in Generations
                             /\ pc'[q] \in {"save", "insert"} => built'[q].rules \in Generations
                        /\ task'[q].kind # "publish" /\ pc'[q] \in {"destBase", "max", "save", "insert"}
                             => built'[q] \in LogSnapshots
      BY <1>1 DEF BuiltBounded
    <2>1. CASE q = r
      BY <2>1
    <2>2. CASE q # r
      BY <2>2 DEF RefInv, Bounded, BuiltBounded, OthersKeep
    <2> QED
      BY <2>1, <2>2
  <1> QED
    BY <1>2, <1>3 DEF Bounded, RefInv

LEMMA HandleKeepsBounded ==
    ASSUME RefInv, NEW r \in Reqs, Handle(r) \/ Notify(r)
    PROVE  Bounded'
  <1>0. TypeInv /\ TypeOK
    BY DEF RefInv, WinnersInv, SafeInv, TypeInv
  <1>1. ASSUME NEW code, Answer(r, code)
        PROVE  Bounded'
    <2>1. UNCHANGED config
      BY <1>1 DEF Answer
    <2> QED
      BY <1>0, <1>1, <2>1, AnswerEffect, BoundedStep
  <1>2. ASSUME NEW next, Goto(r, next), task' = task,
               \A q \in Reqs \ {r} : built'[q] = built[q] /\ want'[q] = want[q],
               task[r].kind = "publish" =>
                 /\ next \in {"rules", "save", "insert"} => built'[r].flags \in Generations
                 /\ next \in {"save", "insert"} => built'[r].rules \in Generations,
               task[r].kind # "publish" /\ next \in {"destBase", "max", "save", "insert"}
                 => built'[r] \in LogSnapshots
        PROVE  Bounded'
    <2>1. UNCHANGED config
      BY <1>2 DEF Goto
    <2> QED
      BY <1>0, <1>2, <2>1, GotoEffect, BoundedStep
  <1>3. CASE Acquire(r)
    <2>1. /\ OthersKeep(r) /\ pc'[r] \in {"check", "pick"}
          /\ UNCHANGED <<releases, config>>
      BY <1>0, <1>3 DEF Acquire, local, OthersKeep, TypeInv, TypeOK
    <2> QED
      BY <2>1, BoundedStep
  <1>4. CASE PublishCheckBase(r)
    <2>1. task[r].kind = "publish"
      BY <1>4 DEF PublishCheckBase, RefInv, WinnersInv, Winners, KindFits, PublishPCs
    <2> QED
      BY <1>0, <1>1, <1>2, <1>4, <2>1 DEF PublishCheckBase, TypeInv, TypeOK
  <1>5. CASE BuildFlags(r) \/ BuildRules(r)
    <2>1. task[r].kind = "publish"
      BY <1>5 DEF BuildFlags, BuildRules, RefInv, WinnersInv, Winners, KindFits, PublishPCs
    <2>2. /\ config[ProjectOf[task[r].env]].flags \in Generations
          /\ config[ProjectOf[task[r].env]].rules \in Generations
      <3>1. task[r] \in Task
        BY <1>0, <1>5 DEF BuildFlags, BuildRules, TypeOK
      <3>2. ProjectOf[task[r].env] \in Projects
        BY <3>1 DEF Task, Projects
      <3> QED
        BY <3>2 DEF RefInv, Bounded, ConfigBounded
    <2>3. CASE BuildFlags(r)
      <3>1. built'[r].flags \in Generations
        BY <1>0, <2>2, <2>3 DEF BuildFlags, TypeOK, Snapshot
      <3> QED
        BY <1>0, <1>2, <2>1, <2>3, <3>1 DEF BuildFlags, TypeOK
    <2>4. CASE BuildRules(r)
      <3>1. \/ \E code : Answer(r, code)
            \/ /\ built' = [built EXCEPT ![r] =
                              [built[r] EXCEPT !.rules = config[ProjectOf[task[r].env]].rules]]
               /\ Goto(r, "save") /\ UNCHANGED <<task, want>>
        BY <2>4 DEF BuildRules
      <3>2. built[r].flags \in Generations
        BY <2>1, <2>4 DEF BuildRules, RefInv, Bounded, BuiltBounded
      <3>3. ASSUME built' = [built EXCEPT ![r] =
                               [built[r] EXCEPT !.rules = config[ProjectOf[task[r].env]].rules]]
            PROVE  built'[r].flags \in Generations /\ built'[r].rules \in Generations
        BY <1>0, <2>2, <3>2, <3>3 DEF TypeOK, Snapshot
      <3> QED
        BY <1>0, <1>1, <1>2, <2>1, <3>1, <3>3 DEF TypeOK
    <2> QED
      BY <1>5, <2>3, <2>4
  <1>6. CASE RollbackPick(r) \/ PromotePick(r)
    <2>1. \/ \E code : Answer(r, code)
          \/ \E x \in releases : \E next : CopySource(r, x, next)
      BY <1>6 DEF RollbackPick, PromotePick, Picked, RowsOf
    <2>2. task[r].kind # "publish"
      BY <1>6 DEF RollbackPick, PromotePick
    <2>3. ASSUME NEW x \in releases, NEW next, CopySource(r, x, next)
          PROVE  Bounded'
      BY <1>0, <1>2, <2>2, <2>3 DEF CopySource, TypeOK, RefInv, Bounded, RowsBounded
    <2> QED
      BY <1>1, <2>1, <2>3
  <1>7. CASE PromoteCheckBase(r)
    <2>1. \/ \E code : Answer(r, code)
          \/ pc[r] = "destBase" /\ Goto(r, "max") /\ UNCHANGED local
      BY <1>7 DEF PromoteCheckBase
    <2> QED
      BY <1>1, <1>2, <2>1 DEF local, RefInv, Bounded, BuiltBounded
  <1>8. CASE ReadMax(r)
    <2>1. task[r].kind # "publish"
      BY <1>8 DEF ReadMax, RefInv, WinnersInv, Winners, KindFits, CopyPCs
    <2> QED
      BY <1>0, <1>2, <1>8, <2>1 DEF ReadMax, TypeOK, RefInv, Bounded, BuiltBounded
  <1>9. CASE SaveValidate(r) \/ SaveFails(r)
    BY <1>2, <1>9 DEF SaveValidate, SaveFails, local, RefInv, Bounded, BuiltBounded
  <1>10. CASE Insert(r)
    <2> DEFINE row == ReleaseRow(task[r].env, want[r], built[r], r)
    <2>1. /\ OthersKeep(r) /\ pc[r] = "insert" /\ pc'[r] = "notify"
          /\ releases' = releases \union {row}
          /\ UNCHANGED <<task, built, config>>
      BY <1>0, <1>10 DEF Insert, local, OthersKeep, TypeOK
    <2>2. row.snapshot = built[r]
      BY DEF ReleaseRow
    <2>3. built[r] \in LogSnapshots
      <3>1. built[r] \in Snapshot
        BY <1>0 DEF TypeOK
      <3>2. task[r].kind = "publish" => built[r] \in Assembled
        BY <2>1, <3>1 DEF RefInv, Bounded, BuiltBounded, Snapshot, Assembled
      <3>3. task[r].kind # "publish" => built[r] \in LogSnapshots
        BY <2>1 DEF RefInv, Bounded, BuiltBounded
      <3> QED
        BY <3>2, <3>3 DEF LogSnapshots, Assembled
    <2> HIDE DEF row
    <2>4. RowsBounded'
      BY <2>1, <2>2, <2>3 DEF RefInv, Bounded, RowsBounded
    <2>5. ConfigBounded' /\ BuiltBounded'
      BY <2>1 DEF RefInv, Bounded, ConfigBounded, BuiltBounded, OthersKeep
    <2>6. IsFiniteSet(releases')
      BY <2>1, FS_AddElement DEF RefInv, Bounded
    <2> QED
      BY <2>4, <2>5, <2>6 DEF Bounded
  <1>11. CASE MapVersionConflict(r) \/ ReadFails(r) \/ Respond(r)
    BY <1>1, <1>11 DEF MapVersionConflict, ReadFails, PassOn, Respond
  <1>12. CASE Notify(r)
    BY <1>2, <1>12 DEF Notify, NotifyStart, NotifyEnd, local
  <1> QED
    BY <1>3, <1>4, <1>5, <1>6, <1>7, <1>8, <1>9, <1>10, <1>11, <1>12 DEF Handle

LEMMA EnvironmentKeepsBounded ==
    ASSUME RefInv, Environment
    PROVE  Bounded'
  <1>0. TypeOK
    BY DEF RefInv, WinnersInv, SafeInv, TypeInv
  <1>1. /\ UNCHANGED <<pc, task, built>>
        /\ releases' \subseteq releases
    BY EnvironmentEffect
  <1>2. ConfigBounded'
    <2> SUFFICES ASSUME NEW q \in Projects
                 PROVE  config'[q].flags \in Generations /\ config'[q].rules \in Generations
      BY DEF ConfigBounded
    <2>1. /\ config[q].flags \in Generations /\ config[q].rules \in Generations
          /\ config[q] \in Snapshot
      BY <1>0 DEF RefInv, Bounded, ConfigBounded, TypeOK
    <2>2. CASE UNCHANGED config
      BY <2>1, <2>2
    <2>3. ASSUME NEW p \in Projects, NEW half \in {"flags", "rules"}, Edit(p, half)
          PROVE  config'[q].flags \in Generations /\ config'[q].rules \in Generations
      <3>1. config[p] \in Snapshot /\ config[p][half] < MaxEdits
        BY <1>0, <2>3 DEF Edit, TypeOK
      <3>2. config[p][half] + 1 \in 0..MaxEdits
        BY <3>1, BootAssumption DEF Snapshot
      <3>3. config[p][half] + 1 \in Generations
        BY <3>2 DEF Generations
      <3>4. CASE half = "flags"
        BY <1>0, <2>1, <2>3, <3>3, <3>4 DEF Edit, TypeOK, Snapshot
      <3>5. CASE half = "rules"
        BY <1>0, <2>1, <2>3, <3>3, <3>5 DEF Edit, TypeOK, Snapshot
      <3> QED
        BY <3>4, <3>5
    <2>4. ASSUME NEW p \in Projects, DeleteProject(p)
          PROVE  config'[q].flags \in Generations /\ config'[q].rules \in Generations
      <3>1. 0 \in Generations
        BY BootAssumption DEF Generations
      <3> QED
        BY <1>0, <2>1, <2>4, <3>1 DEF DeleteProject, Empty, TypeOK
    <2> QED
      BY <2>2, <2>3, <2>4 DEF Environment, DeleteEnv, DirectDelete
  <1>3. RowsBounded' /\ BuiltBounded' /\ IsFiniteSet(releases')
    BY <1>1, FS_Subset DEF RefInv, Bounded, RowsBounded, BuiltBounded
  <1> QED
    BY <1>2, <1>3 DEF Bounded

LEMMA StepKeepsRefInv == RefInv /\ [Next]_vars => RefInv'
  <1> SUFFICES ASSUME RefInv, [Next]_vars
               PROVE  Bounded'
    BY StepKeepsWinnersInv DEF RefInv
  <1>1. ASSUME NEW r \in Reqs, Arrive(r)
        PROVE  Bounded'
    <2>1. /\ OthersKeep(r) /\ pc'[r] \in {"lock", "done"} /\ UNCHANGED releases
      BY <1>1, ArriveEffect DEF RefInv, WinnersInv, SafeInv
    <2>2. UNCHANGED config
      BY <1>1 DEF Arrive, ArriveUnresolved, ArrivePublish, ArriveRollback, ArrivePromote,
                  Accept, Goto, Refuse
    <2> QED
      BY <2>1, <2>2, BoundedStep
  <1>2. ASSUME NEW p \in Procs, Crash(p)
        PROVE  Bounded'
    <2>1. /\ \A q \in Reqs : pc'[q] \in {pc[q], "done"}
          /\ UNCHANGED <<task, built, releases, config>>
      BY <1>2 DEF Crash, local
    <2> QED
      BY <2>1 DEF RefInv, Bounded, ConfigBounded, RowsBounded, BuiltBounded
  <1>3. CASE UNCHANGED vars
    BY <1>3 DEF vars, RefInv, Bounded, ConfigBounded, RowsBounded, BuiltBounded
  <1> QED
    BY <1>1, <1>2, <1>3, HandleKeepsBounded, EnvironmentKeepsBounded DEF Next, AllAnswered

-----------------------------------------------------------------------------
(* The versions of a live environment are counted by its rows: as many     *)
(* rows as versions, and every version from one up to that number.         *)
LEMMA VersionsCounted ==
    ASSUME RefInv, NEW e \in environments
    PROVE  /\ IsFiniteSet(RowsOf(e)) /\ Cardinality(RowsOf(e)) \in Nat
           /\ Versions(e) = 1..Cardinality(RowsOf(e))
  <1> DEFINE n == Cardinality(RowsOf(e))
             number == [x \in RowsOf(e) |-> x.version]
  <1>0. TypeOK /\ Contiguous
    BY DEF RefInv, WinnersInv, SafeInv, TypeInv
  <1>1. IsFiniteSet(RowsOf(e)) /\ n \in Nat
    BY FS_Subset, FS_CardinalityType DEF RefInv, Bounded, RowsOf
  <1>2. number \in Bijection(RowsOf(e), Versions(e))
    BY <1>0, Fun_IsBij DEF Contiguous, VersionsContiguous, VersionsUnique, RowsOf, Versions
  <1>3. IsFiniteSet(Versions(e)) /\ Cardinality(Versions(e)) = n
    BY <1>1, <1>2, FS_Bijection DEF ExistsBijection
  <1>4. ASSUME NEW v \in Versions(e)
        PROVE  v \in 1..n
    <2>1. v \in Nat \ {0} /\ 1..v \subseteq Versions(e)
      BY <1>0, <1>4 DEF TypeOK, Contiguous, VersionsContiguous, VersionsGapFree, RowsOf, Versions
    <2>2. Cardinality(1..v) = v
      BY <2>1, FS_Interval
    <2>3. Cardinality(1..v) <= n
      BY <1>3, <2>1, FS_Subset
    <2> QED
      BY <1>1, <2>1, <2>2, <2>3
  <1>5. IsFiniteSet(1..n) /\ Cardinality(1..n) = n
    BY <1>1, FS_Interval
  <1>6. Versions(e) = 1..n
    <2>1. Versions(e) \in SUBSET (1..n)
      BY <1>4
    <2> QED
      BY <1>3, <1>5, <2>1, FS_Subset
  <1> QED
    BY <1>1, <1>6

LEMMA SomeRowIsOne ==
    ASSUME NEW rows, rows # {}
    PROVE  SomeRow(rows) \in rows
  BY Zenon DEF SomeRow

(* The log of one environment, as the mapping shows it. *)
LogOf(e) == [v \in 1..Cardinality(RowsOf(e)) |-> Logged(e, v)]

LEMMA LogIsTyped ==
    ASSUME RefInv, NEW e \in environments
    PROVE  LogOf(e) \in Seq(LogSnapshots) /\ Len(LogOf(e)) = Cardinality(RowsOf(e))
  <1>1. /\ Cardinality(RowsOf(e)) \in Nat
        /\ Versions(e) = 1..Cardinality(RowsOf(e))
    BY VersionsCounted
  <1>2. ASSUME NEW v \in 1..Cardinality(RowsOf(e))
        PROVE  Logged(e, v) \in LogSnapshots
    <2>1. Picked(e, v) # {}
      BY <1>1, <1>2 DEF Versions, Picked
    <2>2. SomeRow(Picked(e, v)) \in releases
      BY <2>1, SomeRowIsOne DEF Picked, RowsOf
    <2> QED
      BY <2>1, <2>2 DEF Logged, RefInv, Bounded, RowsBounded
  <1>3. LogOf(e) \in [1..Cardinality(RowsOf(e)) -> LogSnapshots]
    BY <1>2 DEF LogOf
  <1> QED
    BY <1>1, <1>3, SeqDef, LenProperties

(* An environment whose rows stay keeps its log. *)
LEMMA SameRowsSameLog ==
    ASSUME NEW e, RowsOf(e)' = RowsOf(e)
    PROVE  LogOf(e)' = LogOf(e)
  <1>1. ASSUME NEW v
        PROVE  Logged(e, v)' = Logged(e, v)
    <2>1. Picked(e, v)' = Picked(e, v)
      BY DEF Picked
    <2>2. SomeRow(Picked(e, v))' = SomeRow(Picked(e, v))
      BY <2>1 DEF SomeRow
    <2> QED
      BY <2>1, <2>2 DEF Logged, Gap
  <1> QED
    BY <1>1 DEF LogOf

(* An insert into a live environment appends the snapshot to its log.      *)
LEMMA InsertAppends ==
    ASSUME RefInv, NEW r \in Reqs, Insert(r),
           NEW e \in environments, e = task[r].env
    PROVE  LogOf(e)' = Append(LogOf(e), built[r])
  <1>1. PICK row : /\ releases' = releases \union {row} /\ pc[r] = "insert"
                   /\ row = ReleaseRow(e, want[r], built[r], r)
                   /\ want[r] \notin Versions(e)
    BY DEF Insert
  <1>2. row.env = e /\ row.version = want[r] /\ row.snapshot = built[r]
    BY <1>1 DEF ReleaseRow
  <1>3. PICK n \in Nat : /\ n = Cardinality(RowsOf(e)) /\ IsFiniteSet(RowsOf(e))
                         /\ Versions(e) = 1..n
    BY VersionsCounted
  <1>4. want[r] = n + 1
    <2>1. want[r] \in Nat \ {0} /\ \A v \in 1..(want[r] - 1) : v \in Versions(e)
      BY <1>1 DEF RefInv, WinnersInv, SafeInv, TypeInv, WantPositive, Contiguous,
                  WantReached, ChosenPCs
    <2>2. want[r] > n
      BY <1>1, <1>3, <2>1
    <2>3. want[r] - 1 <= n
      BY <1>3, <2>1
    <2> QED
      BY <1>3, <2>1, <2>2, <2>3
  <1>5. row \notin RowsOf(e)
    BY <1>1, <1>2 DEF Versions
  <1>6. RowsOf(e)' = RowsOf(e) \union {row}
    BY <1>1, <1>2 DEF RowsOf
  <1>7. Cardinality(RowsOf(e)') = n + 1
    BY <1>3, <1>5, <1>6, FS_AddElement
  <1>8. ASSUME NEW v \in 1..n
        PROVE  Logged(e, v)' = Logged(e, v)
    <2>1. v # want[r]
      BY <1>3, <1>4, <1>8
    <2>2. Picked(e, v)' = Picked(e, v)
      BY <1>1, <1>2, <1>6, <2>1 DEF Picked
    <2>3. SomeRow(Picked(e, v))' = SomeRow(Picked(e, v))
      BY <2>2 DEF SomeRow
    <2> QED
      BY <2>2, <2>3 DEF Logged, Gap
  <1>9. Logged(e, n + 1)' = built[r]
    <2>1. \A x \in RowsOf(e) : x.version # want[r]
      BY <1>1 DEF Versions
    <2>2. {x \in RowsOf(e)' : x.version = want[r]} = {row}
      BY <1>2, <1>6, <2>1
    <2>3. SomeRow({row}) = row
      BY SomeRowIsOne
    <2>4. Picked(e, n + 1)' = {row}
      BY <1>1, <1>4, <2>2 DEF Picked
    <2> QED
      BY <1>2, <2>3, <2>4 DEF Logged, SomeRow
  <1>10. LogOf(e) \in Seq(LogSnapshots) /\ Len(LogOf(e)) = n
    BY <1>3, LogIsTyped
  <1>11. LogOf(e)' = [v \in 1..(n + 1) |-> Logged(e, v)']
    BY <1>7 DEF LogOf
  <1>12. Append(LogOf(e), built[r]) =
           [v \in 1..(n + 1) |-> IF v = n + 1 THEN built[r] ELSE LogOf(e)[v]]
    BY <1>10
  <1>13. \A v \in 1..n : LogOf(e)[v] = Logged(e, v)
    BY <1>3 DEF LogOf
  <1>14. \A v \in 1..(n + 1) :
           Logged(e, v)' = IF v = n + 1 THEN built[r] ELSE LogOf(e)[v]
    <2> SUFFICES ASSUME NEW v \in 1..(n + 1)
                 PROVE  Logged(e, v)' = IF v = n + 1 THEN built[r] ELSE LogOf(e)[v]
      OBVIOUS
    <2>1. CASE v = n + 1
      BY <1>9, <2>1
    <2>2. CASE v # n + 1
      <3>1. v \in 1..n
        BY <1>3, <2>2
      <3> QED
        BY <1>8, <1>13, <2>2, <3>1
    <2> QED
      BY <2>1, <2>2
  <1> QED
    BY <1>11, <1>12, <1>14

-----------------------------------------------------------------------------
(* The mapped log is a function of the live environments. *)
LEMMA LogShape ==
    /\ Log = [e \in environments |-> Log[e]]
    /\ Log' = [e \in environments' |-> Log'[e]]
    /\ DOMAIN Log = environments
  BY DEF Log

LEMMA LogAt ==
    ASSUME NEW e
    PROVE  /\ e \in environments => Log[e] = LogOf(e)
           /\ e \in environments' => Log'[e] = LogOf(e)'
  BY DEF Log, LogOf

(* A step that leaves the rows of every environment it keeps. *)
LEMMA LogKept ==
    ASSUME environments' \subseteq environments,
           \A x \in releases : x.env \in environments' => x \in releases',
           \A x \in releases' : x.env \in environments' => x \in releases
    PROVE  Log' = [e \in environments' |-> Log[e]]
  <1>1. ASSUME NEW e \in environments'
        PROVE  Log'[e] = Log[e]
    <2>1. RowsOf(e)' = RowsOf(e)
      BY <1>1 DEF RowsOf
    <2> QED
      BY <1>1, <2>1, LogAt, SameRowsSameLog
  <1> QED
    BY <1>1, LogShape

LEMMA InsertRefines ==
    ASSUME RefInv, NEW r \in Reqs, Insert(r)
    PROVE  [Abstract!Next]_Log
  <1>0. TypeOK
    BY DEF RefInv, WinnersInv, SafeInv, TypeInv
  <1>1. /\ pc[r] = "insert" /\ task[r] \in Task /\ environments' = environments
        /\ releases' = releases \union {ReleaseRow(task[r].env, want[r], built[r], r)}
    BY <1>0 DEF Insert, TypeOK
  <1>2. ReleaseRow(task[r].env, want[r], built[r], r).env = task[r].env
    BY DEF ReleaseRow
  <1>3. PICK e \in Envs : e = task[r].env
    BY <1>1 DEF Task
  <1>4. CASE e \notin environments
    <2>1. Log' = [d \in environments' |-> Log[d]]
      BY <1>1, <1>2, <1>3, <1>4, LogKept
    <2> QED
      BY <1>1, <2>1, LogShape
  <1>5. CASE e \in environments
    <2>1. built[r] \in LogSnapshots
      <3>1. built[r] \in Snapshot
        BY <1>0 DEF TypeOK
      <3>2. task[r].kind = "publish" => built[r] \in Assembled
        BY <1>1, <3>1 DEF RefInv, Bounded, BuiltBounded, Snapshot, Assembled
      <3>3. task[r].kind # "publish" => built[r] \in LogSnapshots
        BY <1>1 DEF RefInv, Bounded, BuiltBounded
      <3> QED
        BY <3>2, <3>3 DEF LogSnapshots, Assembled
    <2>2. Log'[e] = Append(Log[e], built[r])
      BY <1>1, <1>3, <1>5, InsertAppends, LogAt
    <2>3. ASSUME NEW d \in environments, d # e
          PROVE  Log'[d] = Log[d]
      <3>1. RowsOf(d)' = RowsOf(d)
        BY <1>1, <1>2, <1>3, <2>3 DEF RowsOf
      <3> QED
        BY <1>1, <2>3, <3>1, LogAt, SameRowsSameLog
    <2>4. Log' = [Log EXCEPT ![e] = Append(@, built[r])]
      BY <1>1, <1>5, <2>2, <2>3, LogShape
    <2>5. Abstract!Release(e)
      BY <1>5, <2>1, <2>4, LogShape DEF Abstract!Release
    <2> QED
      BY <1>3, <2>5 DEF Abstract!Next
  <1> QED
    BY <1>4, <1>5

LEMMA RemoveRefines ==
    ASSUME RefInv, NEW gone \in SUBSET Envs, gone # {}, Remove(gone)
    PROVE  [Abstract!Next]_Log
  <1>1. /\ environments' = environments \ gone
        /\ releases' = {x \in releases : x.env \notin gone}
    BY DEF Remove
  <1>2. Log' = [e \in environments' |-> Log[e]]
    BY <1>1, LogKept
  <1>3. Abstract!Drop(gone)
    BY <1>1, <1>2, LogShape DEF Abstract!Drop
  <1> QED
    BY <1>3 DEF Abstract!Next

LEMMA StepRefines == RefInv /\ [Next]_vars => [Abstract!Next]_Log
  <1> SUFFICES ASSUME RefInv, [Next]_vars
               PROVE  [Abstract!Next]_Log
    OBVIOUS
  <1>1. environments \subseteq Envs
    BY DEF RefInv, WinnersInv, SafeInv, TypeInv, TypeOK
  <1>2. ASSUME environments' = environments,
               \A x \in releases : x.env \in environments => x \in releases',
               releases' \subseteq releases
        PROVE  [Abstract!Next]_Log
    <2>1. Log' = [e \in environments' |-> Log[e]]
      BY <1>2, LogKept
    <2> QED
      BY <1>2, <2>1, LogShape
  <1>3. CASE UNCHANGED <<releases, environments>>
    BY <1>2, <1>3
  <1>4. ASSUME NEW r \in Reqs, Arrive(r) \/ Handle(r) \/ Notify(r)
        PROVE  Insert(r) \/ UNCHANGED <<releases, environments>>
    <2>1. ASSUME NEW code, Answer(r, code) \/ Refuse(r, code)
          PROVE  UNCHANGED <<releases, environments>>
      BY <2>1 DEF Answer, Refuse
    <2>2. ASSUME NEW next, Goto(r, next)
          PROVE  UNCHANGED <<releases, environments>>
      BY <2>2 DEF Goto
    <2>3. CASE Arrive(r)
      BY <2>1, <2>2, <2>3
      DEF Arrive, ArriveUnresolved, ArrivePublish, ArriveRollback, ArrivePromote, Accept
    <2>4. CASE Notify(r) \/ Acquire(r)
      BY <2>2, <2>4 DEF Notify, NotifyStart, NotifyEnd, Acquire
    <2>5. CASE PublishCheckBase(r) \/ BuildFlags(r) \/ BuildRules(r)
      BY <2>1, <2>2, <2>5 DEF PublishCheckBase, BuildFlags, BuildRules
    <2>6. CASE RollbackPick(r) \/ PromotePick(r)
      BY <2>1, <2>2, <2>6 DEF RollbackPick, PromotePick, CopySource
    <2>7. CASE PromoteCheckBase(r) \/ ReadMax(r) \/ SaveValidate(r) \/ SaveFails(r)
      BY <2>1, <2>2, <2>7 DEF PromoteCheckBase, ReadMax, SaveValidate, SaveFails
    <2>8. CASE MapVersionConflict(r) \/ ReadFails(r) \/ Respond(r)
      BY <2>1, <2>8 DEF MapVersionConflict, ReadFails, PassOn, Respond
    <2> QED
      BY <1>4, <2>3, <2>4, <2>5, <2>6, <2>7, <2>8 DEF Handle
  <1>5. CASE \E p \in Procs : Crash(p)
    BY <1>3, <1>5 DEF Crash
  <1>6. CASE Environment
    <2>1. CASE \E p \in Projects : Edit(p, "flags") \/ Edit(p, "rules")
      BY <1>3, <2>1 DEF Edit
    <2>2. CASE \E x \in releases : DirectDelete(x)
      BY <1>2, <2>2 DEF DirectDelete
    <2>3. ASSUME NEW e \in Envs, DeleteEnv(e)
          PROVE  [Abstract!Next]_Log
      BY <2>3, RemoveRefines DEF DeleteEnv
    <2>4. ASSUME NEW p \in Projects, DeleteProject(p)
          PROVE  [Abstract!Next]_Log
      <3> DEFINE gone == {e \in environments : ProjectOf[e] = p}
      <3>1. gone \in SUBSET Envs /\ gone # {} /\ Remove(gone)
        BY <1>1, <2>4 DEF DeleteProject
      <3> HIDE DEF gone
      <3> QED
        BY <3>1, RemoveRefines
    <2> QED
      BY <1>6, <2>1, <2>2, <2>3, <2>4 DEF Environment
  <1>7. CASE UNCHANGED vars
    BY <1>3, <1>7 DEF vars
  <1> QED
    BY <1>3, <1>4, <1>5, <1>6, <1>7, InsertRefines DEF Next, AllAnswered

-----------------------------------------------------------------------------
LEMMA RefInitially == Init => RefInv
  <1> SUFFICES ASSUME Init
               PROVE  Bounded
    BY WinnersInitially DEF RefInv
  <1>1. ConfigBounded
    BY BootAssumption DEF Init, ConfigBounded, Generations
  <1>2. RowsBounded
    BY DEF Init, RowsBounded, LogSnapshots
  <1>3. BuiltBounded
    BY DEF Init, BuiltBounded
  <1>4. IsFiniteSet(releases)
    BY SeedAssumption DEF Init
  <1> QED
    BY <1>1, <1>2, <1>3, <1>4 DEF Bounded

LEMMA LogTyped == RefInv => Abstract!TypeOK
  <1> SUFFICES ASSUME RefInv
               PROVE  Abstract!TypeOK
    OBVIOUS
  <1>1. \A e \in environments : Log[e] \in Seq(LogSnapshots)
    BY LogIsTyped, LogAt
  <1>2. environments \subseteq Envs
    BY DEF RefInv, WinnersInv, SafeInv, TypeInv, TypeOK
  <1> QED
    BY <1>1, <1>2, LogShape DEF Abstract!TypeOK

(* Publish, rollback and promote implement the append-only log: every step *)
(* of any handler, delete or crash appends one release to one environment, *)
(* drops whole environments, or changes no log at all.                     *)
THEOREM RefinesLog == Spec => ImplementsReleaseLog
  <1>1. Init => Abstract!TypeOK
    BY RefInitially, LogTyped
  <1> QED
    BY <1>1, RefInitially, StepKeepsRefInv, StepRefines, PTL
    DEF Spec, ImplementsReleaseLog, Abstract!Spec
=============================================================================
