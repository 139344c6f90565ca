---------------------------- MODULE PluginProofs ----------------------------
(***************************************************************************)
(* An unclean shutdown is never forgotten: UncleanRemembered of Plugin,    *)
(* for any number of activations, failures and losses of power, with the   *)
(* window "waiting" open or shut.                                          *)
(*                                                                         *)
(* It is not inductive.  A success is reported by a process that has found *)
(* or synced the marker some steps before, so the marker has to be durable *)
(* from then on (MarkerKept), which needs that nobody else is about to     *)
(* sync it and to remove it again (OneSyncs).  The teardown removes the    *)
(* marker of a shutdown that is not paid for yet: the debt must have been  *)
(* recorded by then, and it has been wherever there is a unit to tear down *)
(* or anything past the first step of the slow path (DebtKept).            *)
(*                                                                         *)
(* A correcting check runs only after an unclean shutdown:                 *)
(* CheckOnlyAfterUnclean, with the window "waiting" shut.  A process on    *)
(* the slow path has the lock and finds no pool (SlowAlone), the pool is   *)
(* up as soon as one is past it (PoolUp); a marker when nothing is owed    *)
(* means that the pool is up or coming down (MarkerOwed), so that nobody   *)
(* on the slow path takes it for one of a crash; a debt when nothing is    *)
(* owed, that the check has started and is about to be paid (DebtOwed).    *)
(***************************************************************************)
EXTENDS Plugin, TLAPS

Types ==
  /\ files \in Files
  /\ found \in SUBSET Files
  /\ files \in found
  /\ pc \in [Procs -> {"idle", "waiting"} \cup Slow \cup Bookkeeping]
  /\ bad \in SUBSET Procs
  /\ vouched \in BOOLEAN
  /\ owed \in {"no", "may", "must"}

(* The process has the marker for its own.                                  *)
Holds(p) == pc[p] \in {"unit", "correct", "unlink", "done"} /\ p \notin bad

NobodySyncs == \A p \in Procs : pc[p] # "sync"

OneSyncs ==
  \A p \in Procs : pc[p] = "sync" =>
     files.marker /\ \A q \in Procs \ {p} : pc[q] # "sync"

Durable == files.marker /\ NobodySyncs => \A f \in found : f.marker

MarkerKept == vouched \/ (\E p \in Procs : Holds(p)) => files.marker /\ NobodySyncs

PastRecord(p) == pc[p] \notin {"idle", "waiting", "record"}

DebtKept ==
  owed = "must" =>
     /\ \A f \in found : f.marker \/ f.debt
     /\ unit \/ pool \/ down # "no" \/ (\E p \in Procs : PastRecord(p)) => files.debt

PaidFirst == \A p \in Procs : pc[p] = "unlink" => owed = "no"

TornDown ==
  /\ down # "no" => Idle
  /\ down = "marker" => ~vouched

PluginInv ==
  /\ Types
  /\ OneSyncs
  /\ Durable
  /\ MarkerKept
  /\ DebtKept
  /\ PaidFirst
  /\ TornDown

-----------------------------------------------------------------------------

(* The plugin's invariant holds at first.                                   *)
LEMMA PluginInvInit == Init => PluginInv
<1> SUFFICES ASSUME Init PROVE PluginInv
  OBVIOUS
<1>1. \A p \in Procs : pc[p] = "idle"
  BY DEF Init
<1>2. Types
  <2>1. files = [marker |-> FALSE, debt |-> FALSE] /\ found = {files}
    BY DEF Init
  <2>2. files \in Files
    BY <2>1 DEF Files
  <2>3. pc \in [Procs -> {"idle", "waiting"} \cup Slow \cup Bookkeeping]
    BY DEF Init
  <2> QED
    BY <2>1, <2>2, <2>3 DEF Init, Types
<1>3. OneSyncs /\ MarkerKept /\ PaidFirst
  BY <1>1 DEF Init, OneSyncs, MarkerKept, Holds, PaidFirst
<1>4. Durable /\ DebtKept /\ TornDown
  BY DEF Init, Durable, DebtKept, TornDown
<1> QED
  BY <1>2, <1>3, <1>4 DEF PluginInv

(* The steps of a process that only move it: from a step with the marker to *)
(* another, or to one that is not.                                          *)
LEMMA MoveKeeps ==
  ASSUME PluginInv, NEW p \in Procs, NEW step,
         step \in ({"idle", "waiting"} \cup Slow \cup Bookkeeping) \ {"sync", "unlink"},
         Go(p, step), pc[p] # "sync", down = "no",
         UNCHANGED <<files, found, down, vouched, owed>>,
         bad' \in SUBSET Procs, \A q \in Procs \ {p} : q \in bad' <=> q \in bad,
         Holds(p)' => files.marker /\ NobodySyncs',
         owed = "must" /\ (unit' \/ pool' \/ PastRecord(p)') => files.debt
  PROVE  PluginInv'
<1>1. \A q \in Procs \ {p} : pc'[q] = pc[q]
  BY DEF PluginInv, Types, Go
<1>2. pc'[p] = step
  BY DEF PluginInv, Types, Go
<1>3. Types'
  BY DEF PluginInv, Types, Go, Slow, Bookkeeping
<1>4. OneSyncs'
  BY <1>1, <1>2 DEF PluginInv, OneSyncs
<1>5. MarkerKept'
  BY <1>1, <1>2 DEF PluginInv, MarkerKept, Holds, NobodySyncs
<1>6. Durable'
  BY <1>1 DEF PluginInv, Durable, NobodySyncs
<1>7. DebtKept'
  BY <1>1, <1>2 DEF PluginInv, DebtKept, PastRecord
<1>8. PaidFirst'
  BY <1>1, <1>2 DEF PluginInv, PaidFirst
<1>9. TornDown'
  BY DEF PluginInv, TornDown
<1> QED
  BY <1>3, <1>4, <1>5, <1>6, <1>7, <1>8, <1>9 DEF PluginInv

(* Where a step of the slow path or of the bookkeeping is, the debt is      *)
(* recorded and no teardown runs.                                           *)
LEMMA StepFacts ==
  ASSUME PluginInv, NEW p \in Procs, pc[p] # "idle"
  PROVE  /\ down = "no"
         /\ owed = "must" /\ PastRecord(p) => files.debt
  BY DEF PluginInv, TornDown, Idle, DebtKept

(* Activate, and the steps of the slow path but the first one.              *)
LEMMA SlowKeeps ==
  ASSUME PluginInv, NEW p \in Procs,
         \/ Activate(p) \/ Lock(p) \/ LockTimesOut(p)
         \/ StartedAlready(p) \/ RefusedUntouched(p) \/ Import(p)
         \/ StartArray(p) \/ MountMembers(p) \/ MountPool(p)
  PROVE  PluginInv'
<1> USE DEF Go, Goes, Die, Slow, Bookkeeping, books, stack, node, seen
<1>0. Types
  BY DEF PluginInv
<1>1. CASE Activate(p)
  <2>1. bad' \in SUBSET Procs /\ \A q \in Procs \ {p} : q \in bad' <=> q \in bad
    BY <1>0, <1>1 DEF Activate, Types
  <2>2. PICK step \in {"marker", "waiting"} : Go(p, step) /\ (step = "marker" => pool)
    BY <1>1 DEF Activate, Up
  <2>3. ~Holds(p)' /\ (PastRecord(p)' => pool)
    BY <1>0, <2>2 DEF Holds, PastRecord, Types
  <2>4. owed = "must" /\ (unit \/ pool) => files.debt
    BY DEF PluginInv, DebtKept
  <2> QED
    BY <1>1, <2>1, <2>2, <2>3, <2>4, MoveKeeps DEF Activate
<1>2. CASE Lock(p) \/ LockTimesOut(p)
  <2>1. PICK step \in {"idle", "record"} : Go(p, step)
    BY <1>2 DEF Lock, LockTimesOut
  <2>2. ~Holds(p)' /\ ~PastRecord(p)'
    BY <1>0, <2>1 DEF Holds, PastRecord, Types
  <2>3. owed = "must" /\ (unit \/ pool) => files.debt
    BY DEF PluginInv, DebtKept
  <2>4. pc[p] = "waiting" /\ bad \in SUBSET Procs
    BY <1>0, <1>2 DEF Lock, LockTimesOut, Types
  <2>5. down = "no"
    BY <2>4, StepFacts
  <2>6. UNCHANGED <<files, found, unit, pool, down, vouched, owed, bad>>
    BY <1>2 DEF Lock, LockTimesOut
  <2> QED
    BY <2>1, <2>2, <2>3, <2>4, <2>5, <2>6, MoveKeeps
<1>3. CASE \/ StartedAlready(p) \/ RefusedUntouched(p) \/ Import(p)
           \/ StartArray(p) \/ MountMembers(p) \/ MountPool(p)
  <2>1. pc[p] \in {"import", "start", "members", "pool"}
    BY <1>3 DEF StartedAlready, RefusedUntouched, Import, StartArray, MountMembers, MountPool
  <2>2. PICK step \in {"idle", "members", "start", "pool", "marker"} : Go(p, step)
    BY <1>3 DEF StartedAlready, RefusedUntouched, Import, StartArray, MountMembers, MountPool
  <2>3. ~Holds(p)'
    BY <1>0, <2>2 DEF Holds, Types
  <2>4. down = "no" /\ (owed = "must" => files.debt)
    BY <2>1, StepFacts DEF PastRecord
  <2>5. UNCHANGED <<files, found, down, vouched, owed, bad>>
    BY <1>3 DEF StartedAlready, RefusedUntouched, Import, StartArray, MountMembers, MountPool
  <2> QED
    BY <1>0, <2>1, <2>2, <2>3, <2>4, <2>5, MoveKeeps DEF Types
<1> QED
  BY <1>1, <1>2, <1>3

(* The debt is recorded, or was before, or there is nothing to record.      *)
LEMMA RecordKeeps ==
  ASSUME PluginInv, NEW p \in Procs, RecordDebt(p)
  PROVE  PluginInv'
<1> USE DEF Go, Goes, Die, Slow, Bookkeeping, books, stack, node, seen
<1>0. Types
  BY DEF PluginInv
<1>1. pc[p] = "record" /\ down = "no"
  BY StepFacts DEF RecordDebt
<1>2. UNCHANGED <<pool, unit, down, vouched, owed, bad>>
  BY DEF RecordDebt
<1>3. PICK step \in {"idle", "import"} : Go(p, step)
  BY DEF RecordDebt
<1>4. \A q \in Procs \ {p} : pc'[q] = pc[q]
  BY <1>0, <1>3 DEF Types
<1>5. pc'[p] = step
  BY <1>0, <1>3 DEF Types
<1>6. \/ UNCHANGED <<files, found>>
      \/ files.marker /\ Change([files EXCEPT !.debt = TRUE])
  BY DEF RecordDebt
<1>7. step = "import" /\ UNCHANGED <<files, found>> => ~files.marker \/ files.debt
  BY <1>0, <1>5, <1>3 DEF RecordDebt, Types, Change, Files
<1>8. CASE UNCHANGED <<files, found>>
  <2>1. ~Holds(p)'
    BY <1>5 DEF Holds
  <2>2. owed = "must" /\ (unit \/ pool) => files.debt
    BY DEF PluginInv, DebtKept
  <2>3. owed = "must" /\ step = "import" => files.debt
    BY <1>0, <1>7, <1>8 DEF PluginInv, DebtKept, Types
  <2>4. PastRecord(p)' => step = "import"
    BY <1>5 DEF PastRecord
  <2> QED
    BY <1>0, <1>1, <1>2, <1>3, <1>8, <2>1, <2>2, <2>3, <2>4, MoveKeeps DEF Types
<1>9. CASE files.marker /\ Change([files EXCEPT !.debt = TRUE])
  <2>1. files' \in Files /\ files'.marker = files.marker /\ files'.debt
    BY <1>0, <1>9 DEF Change, Types, Files
  <2>2. found' = found \cup {files'}
    BY <1>9 DEF Change
  <2>3. Types'
    BY <1>0, <1>2, <1>3, <2>1, <2>2 DEF Types
  <2>4. OneSyncs'
    BY <1>4, <1>5, <2>1 DEF PluginInv, OneSyncs
  <2>5. Durable'
    BY <1>1, <1>4, <2>1, <2>2 DEF PluginInv, Durable, NobodySyncs
  <2>6. MarkerKept'
    BY <1>2, <1>4, <1>5, <2>1 DEF PluginInv, MarkerKept, Holds, NobodySyncs
  <2>7. DebtKept'
    BY <1>2, <2>1, <2>2 DEF PluginInv, DebtKept
  <2>8. PaidFirst'
    BY <1>2, <1>4, <1>5 DEF PluginInv, PaidFirst
  <2>9. TornDown'
    BY <1>1, <1>2 DEF TornDown
  <2> QED
    BY <2>3, <2>4, <2>5, <2>6, <2>7, <2>8, <2>9 DEF PluginInv
<1> QED
  BY <1>6, <1>8, <1>9

(* A process goes on with a marker that is synced, makes one or syncs it.   *)
LEMMA MarkerKeeps ==
  ASSUME PluginInv, NEW p \in Procs, "creating" \notin Windows,
         Marked(p) \/ CreateMarker(p) \/ SyncMarker(p)
  PROVE  PluginInv'
<1> USE DEF Go, Goes, Slow, Bookkeeping, books, stack, node, seen
<1>0. Types
  BY DEF PluginInv
<1>1. pc[p] \in {"marker", "sync"}
  BY DEF Marked, CreateMarker, SyncMarker
<1>2. down = "no" /\ (owed = "must" => files.debt)
  BY <1>1, StepFacts DEF PastRecord
<1>3. UNCHANGED <<pool, unit, down, vouched, owed>>
  BY DEF Marked, CreateMarker, SyncMarker
<1>4. PICK step \in {"sync", "unit"} : Go(p, step)
  BY DEF Marked, CreateMarker, SyncMarker
<1>5. \A q \in Procs \ {p} : pc'[q] = pc[q]
  BY <1>0, <1>4 DEF Types
<1>6. pc'[p] = step
  BY <1>0, <1>4 DEF Types
<1>7. bad' \in SUBSET Procs /\ \A q \in Procs \ {p} : q \in bad' <=> q \in bad
  BY <1>0 DEF Marked, CreateMarker, SyncMarker, Types
<1>8. PaidFirst' /\ TornDown'
  BY <1>2, <1>3, <1>5, <1>6 DEF PluginInv, PaidFirst, TornDown
<1>9. CASE Marked(p)
  <2>1. files.marker /\ NobodySyncs /\ Go(p, "unit")
    BY <1>9 DEF Marked, NobodySyncs
  <2>2. NobodySyncs'
    BY <2>1, <1>0 DEF NobodySyncs, Types
  <2> QED
    BY <1>1, <1>2, <1>3, <1>7, <1>9, <2>1, <2>2, MoveKeeps DEF Marked, NobodySyncs
<1>10. CASE CreateMarker(p) /\ Change([files EXCEPT !.marker = TRUE]) /\ Go(p, "sync")
  <2>1. files' \in Files /\ files'.marker /\ files'.debt = files.debt
    BY <1>0, <1>10 DEF Change, Types, Files
  <2>2. found' = found \cup {files'}
    BY <1>10 DEF Change
  <2>3. pc'[p] = "sync" /\ ~files.marker
    BY <1>0, <1>10 DEF Types, CreateMarker
  <2>4. Types'
    BY <1>0, <1>3, <1>4, <1>7, <2>1, <2>2 DEF Types
  <2>5. OneSyncs'
    BY <1>5, <2>1, <2>3 DEF PluginInv, OneSyncs
  <2>6. Durable'
    BY <2>3 DEF Durable, NobodySyncs
  <2>7. MarkerKept'
    BY <1>3, <1>5, <1>7, <2>3 DEF PluginInv, MarkerKept, Holds
  <2>8. DebtKept'
    BY <1>2, <1>3, <2>1, <2>2 DEF PluginInv, DebtKept
  <2> QED
    BY <1>8, <2>4, <2>5, <2>6, <2>7, <2>8 DEF PluginInv
<1>11. CASE CreateMarker(p) /\ Go(p, "unit") /\ p \in bad' /\ UNCHANGED <<files, found>>
  BY <1>1, <1>2, <1>3, <1>7, <1>11, MoveKeeps DEF CreateMarker, Holds
<1>12. CASE SyncMarker(p) /\ Synced /\ UNCHANGED <<files, bad>>
  <2>1. files.marker /\ found' = {files} /\ pc'[p] = "unit"
    BY <1>0, <1>12 DEF PluginInv, OneSyncs, SyncMarker, Synced, Types
  <2>2. NobodySyncs'
    BY <1>5, <1>12, <2>1 DEF PluginInv, OneSyncs, SyncMarker, NobodySyncs
  <2>3. Types'
    BY <1>0, <1>3, <1>4, <1>12, <2>1 DEF Types
  <2>4. OneSyncs' /\ Durable' /\ MarkerKept'
    BY <1>12, <2>1, <2>2 DEF OneSyncs, Durable, MarkerKept, NobodySyncs
  <2>5. DebtKept'
    BY <1>2, <1>3, <1>12, <2>1 DEF DebtKept
  <2> QED
    BY <1>8, <2>3, <2>4, <2>5 DEF PluginInv
<1>13. CASE SyncMarker(p) /\ Change([files EXCEPT !.marker = FALSE]) /\ p \in bad'
  <2>1. files' \in Files /\ ~files'.marker /\ files'.debt = files.debt
    BY <1>0, <1>13 DEF Change, Types, Files
  <2>2. found' = found \cup {files'}
    BY <1>13 DEF Change
  <2>3. pc[p] = "sync" /\ pc'[p] = "unit"
    BY <1>0, <1>13 DEF Types, SyncMarker
  <2>4. NobodySyncs' /\ ~NobodySyncs
    BY <1>5, <2>3 DEF PluginInv, OneSyncs, NobodySyncs
  <2>5. Types'
    BY <1>0, <1>3, <1>4, <1>7, <2>1, <2>2 DEF Types
  <2>6. OneSyncs' /\ Durable'
    BY <2>1, <2>4 DEF OneSyncs, Durable, NobodySyncs
  <2>7. MarkerKept'
    BY <1>3, <1>5, <1>7, <1>13, <2>4 DEF PluginInv, MarkerKept, Holds
  <2>8. DebtKept'
    BY <1>2, <1>3, <2>1, <2>2 DEF PluginInv, DebtKept
  <2> QED
    BY <1>8, <2>5, <2>6, <2>7, <2>8 DEF PluginInv
<1>14. \/ Marked(p)
       \/ CreateMarker(p) /\ Change([files EXCEPT !.marker = TRUE]) /\ Go(p, "sync")
       \/ CreateMarker(p) /\ Go(p, "unit") /\ p \in bad' /\ UNCHANGED <<files, found>>
       \/ SyncMarker(p) /\ Synced /\ UNCHANGED <<files, bad>>
       \/ SyncMarker(p) /\ Change([files EXCEPT !.marker = FALSE]) /\ p \in bad'
  BY DEF CreateMarker, SyncMarker
<1> QED
  BY <1>9, <1>10, <1>11, <1>12, <1>13, <1>14

(* The rest of the bookkeeping: the marker of the process stays.            *)
LEMMA BooksKeep ==
  ASSUME PluginInv, NEW p \in Procs,
         RegisterUnit(p) \/ Correct(p) \/ ClearDebt(p) \/ Finish(p)
  PROVE  PluginInv'
<1> USE DEF Go, Goes, Slow, Bookkeeping, books, stack, node, seen
<1>0. Types
  BY DEF PluginInv
<1>1. pc[p] \in {"unit", "correct", "unlink", "done"}
  BY DEF RegisterUnit, Correct, ClearDebt, Finish
<1>2. down = "no" /\ (owed = "must" => files.debt)
  BY <1>1, StepFacts DEF PastRecord
<1>3. Holds(p) => files.marker /\ NobodySyncs
  BY DEF PluginInv, MarkerKept
<1>4. bad' \in SUBSET Procs /\ (\A q \in Procs \ {p} : q \in bad' <=> q \in bad)
      /\ (p \in bad => p \in bad')
  BY <1>0 DEF RegisterUnit, Correct, ClearDebt, Finish, Types
<1>5. p \notin bad' => Holds(p)
  BY <1>1, <1>4 DEF Holds
<1>6. PICK step \in {"correct", "unlink", "done", "idle"} : Go(p, step)
  BY DEF RegisterUnit, Correct, ClearDebt, Finish
<1>7. pc'[p] = step /\ \A q \in Procs \ {p} : pc'[q] = pc[q]
  BY <1>0, <1>6 DEF Types
<1>8. NobodySyncs' <=> NobodySyncs
  BY <1>1, <1>7 DEF NobodySyncs
<1>9. CASE RegisterUnit(p)
  <2>1. Go(p, "correct") /\ UNCHANGED <<files, found, down, vouched, owed>>
    BY <1>9 DEF RegisterUnit
  <2>2. Holds(p)' => files.marker /\ NobodySyncs'
    BY <1>3, <1>5, <1>8 DEF Holds
  <2> QED
    BY <1>1, <1>2, <1>4, <2>1, <2>2, MoveKeeps
<1>10. CASE Correct(p) /\ Go(p, "done") /\ UNCHANGED owed
  <2>1. UNCHANGED <<files, found, down, vouched, owed>>
    BY <1>10 DEF Correct
  <2>2. Holds(p)' => files.marker /\ NobodySyncs'
    BY <1>3, <1>5, <1>8 DEF Holds
  <2> QED
    BY <1>1, <1>2, <1>4, <1>10, <2>1, <2>2, MoveKeeps
<1>11. CASE Correct(p) /\ owed' = "no" /\ (Go(p, "unlink") \/ Go(p, "done"))
  <2>1. UNCHANGED <<files, found, down, vouched>>
    BY <1>11 DEF Correct
  <2>2. Types'
    BY <1>0, <1>4, <1>6, <1>11, <2>1 DEF Types
  <2>3. OneSyncs' /\ Durable'
    BY <1>1, <1>7, <1>8, <1>11, <2>1 DEF PluginInv, OneSyncs, Durable
  <2>4. MarkerKept'
    BY <1>3, <1>4, <1>5, <1>7, <1>8, <1>11, <2>1 DEF PluginInv, MarkerKept, Holds
  <2>5. DebtKept' /\ PaidFirst'
    BY <1>11 DEF DebtKept, PaidFirst
  <2>6. TornDown'
    BY <1>2, <2>1 DEF TornDown
  <2> QED
    BY <2>2, <2>3, <2>4, <2>5, <2>6 DEF PluginInv
<1>12. CASE ClearDebt(p)
  <2>1. files' \in Files /\ files'.marker = files.marker
    BY <1>0, <1>12 DEF ClearDebt, Change, Types, Files
  <2>2. found' = found \cup {files'}
    BY <1>0, <1>12 DEF ClearDebt, Change, Types
  <2>3. UNCHANGED <<down, vouched, owed, bad>> /\ owed = "no"
    BY <1>12 DEF ClearDebt, PluginInv, PaidFirst
  <2>4. Types'
    BY <1>0, <1>6, <2>1, <2>2, <2>3 DEF Types
  <2>5. OneSyncs' /\ Durable'
    BY <1>1, <1>7, <1>8, <2>1, <2>2 DEF PluginInv, OneSyncs, Durable
  <2>6. MarkerKept'
    BY <1>3, <1>5, <1>7, <1>8, <2>1, <2>3 DEF PluginInv, MarkerKept, Holds
  <2>7. DebtKept' /\ PaidFirst'
    BY <2>3 DEF DebtKept, PaidFirst
  <2>8. TornDown'
    BY <1>2, <2>3 DEF TornDown
  <2> QED
    BY <2>4, <2>5, <2>6, <2>7, <2>8 DEF PluginInv
<1>13. CASE Finish(p)
  <2>1. UNCHANGED <<files, found, unit, pool, down, owed, bad>> /\ Go(p, "idle")
    BY <1>13 DEF Finish
  <2>2. vouched' => vouched \/ Holds(p)
    BY <1>13 DEF Finish, Holds
  <2>3. Types'
    BY <1>0, <1>6, <1>13, <2>1 DEF Types, Finish
  <2>4. OneSyncs' /\ Durable'
    BY <1>1, <1>7, <1>8, <2>1 DEF PluginInv, OneSyncs, Durable
  <2>5. MarkerKept'
    BY <1>0, <1>7, <1>8, <2>1, <2>2 DEF PluginInv, MarkerKept, Holds, Types
  <2>6. DebtKept'
    BY <1>2, <2>1 DEF PluginInv, DebtKept
  <2>7. PaidFirst'
    BY <1>0, <1>7, <2>1 DEF PluginInv, PaidFirst, Types
  <2>8. TornDown'
    BY <1>2, <2>1 DEF TornDown
  <2> QED
    BY <2>3, <2>4, <2>5, <2>6, <2>7, <2>8 DEF PluginInv
<1>14. Correct(p) => \/ Go(p, "done") /\ UNCHANGED owed
                     \/ owed' = "no" /\ (Go(p, "unlink") \/ Go(p, "done"))
  BY DEF Correct
<1> QED
  BY <1>9, <1>10, <1>11, <1>12, <1>13, <1>14

(* The teardown: nobody activates, and a unit there is to tear down was     *)
(* registered after the debt was recorded.                                  *)
LEMMA TeardownKeeps ==
  ASSUME PluginInv, Teardown
  PROVE  PluginInv'
<1>0. Types
  BY DEF PluginInv
<1>1. Idle /\ Idle' /\ UNCHANGED <<pc, bad>>
  BY DEF Teardown, TeardownPools, TeardownMembers, TeardownArray, RemoveMarker, PluginInv,
     TornDown, Idle
<1>2. owed = "must" => files.debt
  BY DEF Teardown, TeardownPools, TeardownMembers, TeardownArray, RemoveMarker, PluginInv,
     DebtKept
<1>3. NobodySyncs /\ NobodySyncs' /\ \A q \in Procs : ~Holds(q)'
  BY <1>1 DEF NobodySyncs, Idle, Holds
<1>4. OneSyncs' /\ PaidFirst'
  BY <1>1 DEF OneSyncs, PaidFirst, Idle
<1>5. CASE TeardownPools \/ TeardownMembers \/ TeardownArray
  <2>1. UNCHANGED <<files, found>>
    BY <1>5 DEF TeardownPools, TeardownMembers, TeardownArray
  <2>2. /\ vouched' \in BOOLEAN /\ (vouched' => vouched)
        /\ owed' \in {"no", "may", "must"} /\ (owed' = "must" => owed = "must")
        /\ down' = "marker" => ~vouched'
    <3>1. CASE TeardownPools
      BY <1>0, <3>1 DEF TeardownPools, GiveUp, Types
    <3>2. CASE TeardownMembers
      BY <1>0, <3>2 DEF TeardownMembers, GiveUp, Types
    <3>3. CASE TeardownArray
      <4>1. down' = "no" \/ vouched' = FALSE
        BY <3>3 DEF TeardownArray, GiveUp
      <4>2. vouched' = FALSE \/ vouched' = vouched
        BY <3>3 DEF TeardownArray
      <4>3. owed' \in {owed, "may"} /\ (owed' = "may" => owed # "must")
        BY <1>0, <3>3 DEF TeardownArray, GiveUp, Types
      <4>4. vouched' \in BOOLEAN /\ (vouched' => vouched)
        <5>1. vouched \in BOOLEAN
          BY <1>0 DEF Types
        <5>2. CASE vouched' = FALSE
          BY <5>2
        <5>3. CASE vouched' = vouched
          BY <5>1, <5>3
        <5> QED
          BY <4>2, <5>2, <5>3
      <4>5. down' = "marker" => ~vouched'
        BY <4>1
      <4>6. owed' \in {"no", "may", "must"} /\ (owed' = "must" => owed = "must")
        BY <1>0, <4>3 DEF Types
      <4> QED
        BY <4>4, <4>5, <4>6
    <3> QED
      BY <1>5, <3>1, <3>2, <3>3
  <2>3. Types'
    BY <1>0, <1>1, <2>1, <2>2 DEF Types
  <2>4. Durable'
    BY <1>3, <2>1 DEF PluginInv, Durable
  <2>5. MarkerKept'
    BY <1>3, <2>1, <2>2 DEF PluginInv, MarkerKept
  <2>6. DebtKept'
    BY <1>2, <2>1, <2>2 DEF PluginInv, DebtKept
  <2>7. TornDown'
    BY <1>1, <2>2 DEF TornDown
  <2> QED
    BY <1>4, <2>3, <2>4, <2>5, <2>6, <2>7 DEF PluginInv
<1>6. CASE RemoveMarker
  <2>1. files' \in Files /\ ~files'.marker /\ files'.debt = files.debt
    BY <1>0, <1>6 DEF RemoveMarker, Change, Types, Files
  <2>2. found' = found \cup {files'}
    BY <1>6 DEF RemoveMarker, Change
  <2>3. vouched' = FALSE /\ down' = "no"
    BY <1>0, <1>6 DEF RemoveMarker, PluginInv, TornDown, Types
  <2>4. owed' \in {"no", "may", "must"} /\ (owed' = "must" => owed = "must")
    BY <1>0, <1>6 DEF RemoveMarker, Types
  <2>5. Types'
    BY <1>0, <1>1, <2>1, <2>2, <2>3, <2>4 DEF Types
  <2>6. Durable' /\ MarkerKept' /\ TornDown'
    BY <1>3, <2>1, <2>3 DEF Durable, MarkerKept, TornDown
  <2>7. DebtKept'
    BY <1>2, <2>1, <2>2, <2>4 DEF PluginInv, DebtKept
  <2> QED
    BY <1>4, <2>5, <2>6, <2>7 DEF PluginInv
<1> QED
  BY <1>5, <1>6 DEF Teardown

(* What leaves the files, the processes and the promises alone.             *)
LEMMA OthersKeep ==
  ASSUME PluginInv,
         \/ HandStart \/ Repair \/ RefusalExpires \/ CheckEnds \/ WriteBack
         \/ UNCHANGED vars
  PROVE  PluginInv'
<1> USE DEF stack, books, node, seen
<1>1. UNCHANGED <<files, unit, pool, pc, bad, down, vouched, owed>>
  BY DEF HandStart, Started, Repair, RefusalExpires, CheckEnds, WriteBack, vars
<1>2. found' = found \/ found' = {files}
  BY DEF HandStart, Repair, RefusalExpires, CheckEnds, WriteBack, vars
<1>3. Types'
  BY <1>1, <1>2 DEF PluginInv, Types
<1>4. files \in found /\ found' \subseteq found
  BY <1>2 DEF PluginInv, Types
<1>5. OneSyncs' /\ PaidFirst' /\ TornDown' /\ MarkerKept'
  BY <1>1 DEF PluginInv, OneSyncs, PaidFirst, TornDown, Idle, MarkerKept, Holds, NobodySyncs
<1>6. Durable'
  BY <1>1, <1>4 DEF PluginInv, Durable, NobodySyncs
<1>7. DebtKept'
  BY <1>1, <1>4 DEF PluginInv, DebtKept, PastRecord
<1> QED
  BY <1>3, <1>5, <1>6, <1>7 DEF PluginInv

(* A boot finds one of the states the files may have been left in.          *)
LEMMA BootKeeps ==
  ASSUME PluginInv, "enabled" \notin Windows, Reboot \/ PowerLoss
  PROVE  PluginInv'
<1>0. Types
  BY DEF PluginInv
<1>1. PICK f \in found : Boot(f)
  BY <1>0 DEF Reboot, PowerLoss, Types
<1>2. /\ files' = f /\ found' = {f} /\ down' = "no" /\ vouched' = FALSE
      /\ pool' = FALSE /\ unit' = FALSE /\ bad' = {} /\ pc' = [p \in Procs |-> "idle"]
  BY <1>1 DEF Boot
<1>3. \A p \in Procs : pc'[p] = "idle"
  BY <1>2
<1>4. owed' \in {"no", "may", "must"} /\ (owed' = "must" => vouched \/ owed = "must")
  BY <1>0 DEF Reboot, PowerLoss, Types
<1>5. vouched => f.marker
  BY <1>1 DEF PluginInv, MarkerKept, Durable
<1>6. owed = "must" => f.marker \/ f.debt
  BY <1>1 DEF PluginInv, DebtKept
<1>7. Types'
  <2>1. pc' \in [Procs -> {"idle", "waiting"} \cup Slow \cup Bookkeeping]
    BY <1>2
  <2> QED
    BY <1>0, <1>1, <1>2, <1>4, <2>1 DEF Types
<1>8. OneSyncs' /\ MarkerKept' /\ PaidFirst'
  BY <1>2, <1>3 DEF OneSyncs, MarkerKept, Holds, PaidFirst
<1>9. Durable' /\ TornDown'
  BY <1>2 DEF Durable, TornDown
<1>10. DebtKept'
  BY <1>2, <1>3, <1>4, <1>5, <1>6 DEF DebtKept, PastRecord
<1> QED
  BY <1>7, <1>8, <1>9, <1>10 DEF PluginInv

(* An unclean shutdown is never forgotten, whatever activations, failures   *)
(* and losses of power there are, when no process takes a marker for its    *)
(* own that another one is about to sync and no unit is active from boot.   *)
(* Checks whose commands fail after they were started make no difference.   *)
THEOREM PluginUncleanRemembered ==
  ASSUME "creating" \notin Windows, "enabled" \notin Windows
  PROVE  Spec => []UncleanRemembered
<1>1. Init => PluginInv
  BY PluginInvInit
<1>2. PluginInv /\ [Next]_vars => PluginInv'
  <2> SUFFICES ASSUME PluginInv, [Next]_vars PROVE PluginInv'
    OBVIOUS
  <2>1. CASE \E p \in Procs : Activate(p) \/ Step(p)
    BY <2>1, SlowKeeps, RecordKeeps, MarkerKeeps, BooksKeep DEF Step
  <2>2. CASE Teardown
    BY <2>2, TeardownKeeps
  <2>3. CASE HandStart \/ Repair \/ RefusalExpires \/ CheckEnds \/ WriteBack \/ UNCHANGED vars
    BY <2>3, OthersKeep
  <2>4. CASE Reboot \/ PowerLoss
    BY <2>4, BootKeeps
  <2> QED
    BY <2>1, <2>2, <2>3, <2>4 DEF Next
<1>3. PluginInv => UncleanRemembered
  BY DEF PluginInv, MarkerKept, Durable, DebtKept, UncleanRemembered
<1> QED
  BY <1>1, <1>2, <1>3, PTL DEF Spec

-----------------------------------------------------------------------------
(* CheckOnlyAfterUnclean, an action property.  What a check is started for  *)
(* is a debt, and a debt is recorded for a marker that is found under the   *)
(* lock: so a marker must not be met there that is not of an unclean        *)
(* shutdown.  Markers are made while the pool is mounted (MarkerOwed), and  *)
(* the slow path runs while it is not (SlowAlone), which the window         *)
(* "waiting" would break.  A debt that is paid is removed before the check  *)
(* that pays it ends (DebtOwed), so it starts no second one.                *)

(* A process holds the lock on the slow path, and finds no pool mounted.    *)
SlowAlone == \A p \in Procs : pc[p] \in Slow => lock = p /\ ~pool

(* The pool is mounted on an array that runs, and the bookkeeping is done   *)
(* with the pool mounted.                                                   *)
PoolUp ==
  /\ pool => mdState = "STARTED"
  /\ down # "no" => ~pool /\ Idle
  /\ \A p \in Procs : /\ pc[p] \in Bookkeeping => pool
                      /\ pc[p] \in {"members", "pool"} => mdState = "STARTED"

MarkerOwed == files.marker /\ owed = "no" => pool \/ down # "no"

DebtOwed == files.debt /\ owed = "no" => checking /\ \E p \in Procs : pc[p] = "unlink"

CheckInv ==
  /\ Types /\ pool \in BOOLEAN /\ checking \in BOOLEAN /\ lock \in Procs \cup {None}
  /\ SlowAlone /\ PoolUp /\ MarkerOwed /\ DebtOwed

(* What is known of a check holds at first.                                 *)
LEMMA CheckInit == Init => CheckInv
<1> SUFFICES ASSUME Init PROVE CheckInv
  OBVIOUS
<1>1. Types
  BY PluginInvInit DEF PluginInv
<1>2. \A p \in Procs : pc[p] = "idle"
  BY DEF Init
<1>3. ~files.marker /\ ~files.debt
  <2>1. files = [marker |-> FALSE, debt |-> FALSE]
    BY DEF Init
  <2> QED
    BY <2>1
<1>4. SlowAlone /\ PoolUp
  BY <1>2 DEF Init, SlowAlone, PoolUp, Slow, Bookkeeping
<1>5. MarkerOwed /\ DebtOwed
  BY <1>3 DEF MarkerOwed, DebtOwed
<1> QED
  BY <1>1, <1>4, <1>5 DEF Init, CheckInv

(* What the steps of a process do to files, array and lock.                 *)
LEMMA CheckStep ==
  ASSUME CheckInv, "waiting" \notin Windows, "unanswered" \notin Windows, NEW p \in Procs, Activate(p) \/ Step(p)
  PROVE  CheckInv'
<1> DEFINE Steps == {"idle", "waiting"} \cup Slow \cup Bookkeeping
<1> USE DEF Go, Goes, Die, books, stack, node, seen
<1>1. /\ files \in Files /\ found \in SUBSET Files /\ files \in found
      /\ pc \in [Procs -> Steps] /\ bad \in SUBSET Procs /\ vouched \in BOOLEAN
      /\ owed \in {"no", "may", "must"} /\ pool \in BOOLEAN /\ checking \in BOOLEAN
      /\ lock \in Procs \cup {None}
  BY DEF CheckInv, Types
<1>2. down = "no" /\ down' = down /\ \E step \in Steps : Go(p, step)
  <2>1. CASE Activate(p)
    BY <2>1 DEF Activate, Bookkeeping
  <2>2. CASE Lock(p) \/ LockTimesOut(p) \/ RecordDebt(p) \/ StartedAlready(p)
    <3>1. pc[p] # "idle" /\ down' = down /\ \E step \in {"idle", "record", "import", "members"} : Go(p, step)
      BY <2>2 DEF Lock, LockTimesOut, RecordDebt, StartedAlready
    <3> QED
      BY <3>1 DEF CheckInv, PoolUp, Idle, Slow
  <2>3. CASE RefusedUntouched(p) \/ Import(p) \/ StartArray(p) \/ MountMembers(p) \/ MountPool(p)
    <3>1. pc[p] # "idle" /\ down' = down
          /\ \E step \in {"idle", "start", "members", "pool", "marker"} : Go(p, step)
      BY <2>3 DEF RefusedUntouched, Import, StartArray, MountMembers, MountPool
    <3> QED
      BY <3>1 DEF CheckInv, PoolUp, Idle, Slow, Bookkeeping
  <2>4. CASE Marked(p) \/ CreateMarker(p) \/ SyncMarker(p) \/ RegisterUnit(p)
    <3>1. pc[p] # "idle" /\ down' = down /\ \E step \in {"unit", "sync", "correct"} : Go(p, step)
      BY <2>4 DEF Marked, CreateMarker, SyncMarker, RegisterUnit
    <3> QED
      BY <3>1 DEF CheckInv, PoolUp, Idle, Bookkeeping
  <2>5. CASE Correct(p) \/ ClearDebt(p) \/ Finish(p)
    <3>1. pc[p] # "idle" /\ down' = down /\ \E step \in {"unlink", "done", "idle"} : Go(p, step)
      BY <2>5 DEF Correct, ClearDebt, Finish
    <3> QED
      BY <3>1 DEF CheckInv, PoolUp, Idle, Bookkeeping
  <2> QED
    BY <2>1, <2>2, <2>3, <2>4, <2>5 DEF Step
<1>3. PICK step \in Steps : Go(p, step)
  BY <1>2
<1>4. pc' \in [Procs -> Steps] /\ pc'[p] = step /\ \A q \in Procs \ {p} : pc'[q] = pc[q]
  BY <1>1, <1>3
<1> HIDE DEF Go
(* How a step moves, takes the lock or gives it back, and mounts.           *)
<1>5. ASSUME pool' = pool \/ (pool' = TRUE /\ pc[p] = "pool"),
             mdState' = mdState \/ mdState' = "STARTED" \/ (pc[p] = "import" /\ mdState # "STARTED"),
             step \in Slow =>
               \/ pc[p] \in Slow /\ lock' = lock /\ pool' = pool
               \/ lock = None /\ lock' = p /\ ~Up /\ pool' = pool,
             step \notin Slow => lock' = lock \/ (lock' = None /\ (lock = p \/ pc[p] \in Slow)),
             step \in Bookkeeping => pool',
             step \in {"members", "pool"} => mdState' = "STARTED"
      PROVE  SlowAlone' /\ PoolUp' /\ (pool => pool') /\ pool' \in BOOLEAN
  <2>1. ASSUME NEW q \in Procs, q # p, pc[q] \in Slow PROVE lock' = q /\ ~pool'
    <3>1. lock = q /\ ~pool
      BY <2>1 DEF CheckInv, SlowAlone
    <3>2. pc[p] \notin Slow /\ lock # p /\ lock # None
      BY <2>1, <3>1, NoneAssumption DEF CheckInv, SlowAlone
    <3> QED
      BY <1>5, <3>1, <3>2 DEF Slow
  <2>2. SlowAlone'
    <3>1. step \in Slow => lock' = p /\ ~pool'
      BY <1>1, <1>5 DEF CheckInv, SlowAlone, PoolUp, Up
    <3> QED
      BY <1>4, <2>1, <3>1 DEF SlowAlone
  <2>3. pc[p] \in {"import", "pool"} => ~pool
    BY DEF CheckInv, SlowAlone, Slow
  <2>4. ASSUME NEW q \in Procs, q # p, pc[q] \in Slow \cup Bookkeeping, pc[p] = "import"
        PROVE  FALSE
    BY <2>3, <2>4 DEF CheckInv, SlowAlone, PoolUp, Slow, Bookkeeping
  <2>5. PoolUp'
    <3>1. pool' => mdState' = "STARTED"
      BY <1>5, <2>3 DEF CheckInv, PoolUp
    <3>2. ASSUME NEW q \in Procs
          PROVE  /\ pc'[q] \in Bookkeeping => pool'
                 /\ pc'[q] \in {"members", "pool"} => mdState' = "STARTED"
      <4>1. CASE q = p
        BY <1>4, <1>5, <4>1
      <4>2. CASE q # p
        <5>1. pc'[q] = pc[q]
          BY <1>4, <4>2
        <5>2. pc[q] \in Bookkeeping => pool'
          BY <1>5 DEF CheckInv, PoolUp
        <5>3. pc[q] \in {"members", "pool"} => mdState' = "STARTED"
          BY <1>5, <2>4, <4>2 DEF CheckInv, PoolUp, Slow
        <5> QED
          BY <5>1, <5>2, <5>3
      <4> QED
        BY <4>1, <4>2
    <3> QED
      BY <1>2, <3>1, <3>2 DEF PoolUp
  <2>6. CASE pool' = pool
    BY <1>1, <2>2, <2>5, <2>6
  <2>7. CASE pool' = TRUE
    BY <2>2, <2>5, <2>7
  <2> QED
    BY <1>5, <2>6, <2>7
(* The steps that leave files and check alone.                              *)
<1>6. ASSUME UNCHANGED <<files, found, owed, checking>>, pc[p] # "unlink",
             vouched' \in BOOLEAN, bad' \in SUBSET Procs, lock' \in Procs \cup {None},
             SlowAlone' /\ PoolUp' /\ (pool => pool') /\ pool' \in BOOLEAN
      PROVE  CheckInv'
  <2>1. MarkerOwed'
    BY <1>2, <1>6 DEF CheckInv, MarkerOwed
  <2>2. DebtOwed'
    BY <1>4, <1>6 DEF CheckInv, DebtOwed
  <2>3. Types' /\ checking' \in BOOLEAN
    BY <1>1, <1>4, <1>6 DEF Types
  <2> QED
    BY <1>6, <2>1, <2>2, <2>3 DEF CheckInv
<1>7. CASE Activate(p)
  <2>1. step \in {"marker", "waiting"} /\ (step = "marker" => pool')
    BY <1>1, <1>3, <1>4, <1>7 DEF Activate, Up, Go
  <2>2. UNCHANGED <<files, found, owed, checking, vouched, lock, pool, mdState>> /\ bad' \in SUBSET Procs
        /\ pc[p] = "idle"
    BY <1>1, <1>7 DEF Activate
  <2>3. step \notin Slow /\ "waiting" \notin Bookkeeping
    BY <2>1 DEF Slow, Bookkeeping
  <2>4. SlowAlone' /\ PoolUp' /\ (pool => pool') /\ pool' \in BOOLEAN
    BY <1>5, <2>1, <2>2, <2>3 DEF Slow
  <2> QED
    BY <1>1, <1>6, <2>2, <2>4
<1>8. CASE Lock(p) \/ LockTimesOut(p)
  <2>1. UNCHANGED <<files, found, owed, checking, vouched, bad, pool, mdState>> /\ pc[p] = "waiting"
    BY <1>8 DEF Lock, LockTimesOut
  <2>2. \/ step = "record" /\ lock = None /\ lock' = p /\ ~Up
        \/ step = "idle" /\ lock' = lock
    BY <1>1, <1>3, <1>4, <1>8 DEF Lock, LockTimesOut, MayLock, Go
  <2>3. "idle" \notin Slow /\ step \notin Bookkeeping \cup {"members", "pool"}
    BY <2>2 DEF Slow, Bookkeeping
  <2>4. SlowAlone' /\ PoolUp' /\ (pool => pool') /\ pool' \in BOOLEAN
    BY <1>5, <2>1, <2>2, <2>3
  <2> QED
    BY <1>1, <1>6, <2>1, <2>2, <2>4
<1>9. CASE StartedAlready(p) \/ RefusedUntouched(p) \/ Import(p) \/ StartArray(p)
  <2>1. UNCHANGED <<files, found, owed, checking, vouched, bad, pool>>
        /\ pc[p] \in {"import", "start"}
    BY <1>9 DEF StartedAlready, RefusedUntouched, Import, StartArray, Started
  <2>2. /\ \/ step \in {"start", "members"} /\ lock' = lock
           \/ step = "idle" /\ lock' = None
        /\ step = "members" => mdState' = "STARTED"
    BY <1>1, <1>3, <1>4, <1>9 DEF StartedAlready, RefusedUntouched, Import, StartArray, Started, Go
  <2>3. mdState' = mdState \/ mdState' = "STARTED" \/ (pc[p] = "import" /\ mdState # "STARTED")
    BY <1>9 DEF StartedAlready, RefusedUntouched, Import, StartArray, Started
  <2>4. pc[p] \in Slow /\ "idle" \notin Slow /\ step \notin Bookkeeping /\ step # "pool"
    BY <2>1, <2>2 DEF Slow, Bookkeeping
  <2>5. SlowAlone' /\ PoolUp' /\ (pool => pool') /\ pool' \in BOOLEAN
    BY <1>5, <2>1, <2>2, <2>3, <2>4
  <2> QED
    BY <1>1, <1>6, <2>1, <2>2, <2>5
<1>10. CASE MountMembers(p) \/ MountPool(p)
  <2>1. UNCHANGED <<files, found, owed, checking, vouched, bad, mdState>>
        /\ pc[p] \in {"members", "pool"} /\ mdState = "STARTED"
    BY <1>10 DEF MountMembers, MountPool, CheckInv, PoolUp
  <2>2. \/ step = "pool" /\ lock' = lock /\ pool' = pool
        \/ step = "marker" /\ lock' = lock /\ pool' = TRUE /\ pc[p] = "pool"
        \/ step = "idle" /\ lock' = None /\ pool' = pool
    BY <1>1, <1>3, <1>4, <1>10 DEF MountMembers, MountPool, Go
  <2>3. pc[p] \in Slow /\ {"idle", "marker"} \cap Slow = {} /\ {"pool", "idle"} \cap Bookkeeping = {}
    BY <2>1 DEF Slow, Bookkeeping
  <2>4. SlowAlone' /\ PoolUp' /\ (pool => pool') /\ pool' \in BOOLEAN
    BY <1>5, <2>1, <2>2, <2>3
  <2> QED
    BY <1>1, <1>6, <2>1, <2>2, <2>4
(* The bookkeeping: the pool is mounted, the slow path is not taken again.  *)
<1>11. ASSUME pc[p] \in Bookkeeping, step \notin Slow, UNCHANGED <<pool, mdState>>,
              lock' = lock \/ (lock' = None /\ lock = p)
       PROVE  pool /\ SlowAlone' /\ PoolUp' /\ (pool => pool') /\ pool' \in BOOLEAN
  <2>1. pool
    BY <1>11 DEF CheckInv, PoolUp
  <2>2. step \notin {"members", "pool"}
    BY <1>11 DEF Slow
  <2> QED
    BY <1>5, <1>11, <2>1, <2>2
<1>12. CASE Marked(p) \/ RegisterUnit(p) \/ Finish(p)
  <2>1. UNCHANGED <<files, found, owed, checking, pool, mdState>> /\ bad' \in SUBSET Procs
    BY <1>1, <1>12 DEF Marked, RegisterUnit, Finish
  <2>2. pc[p] \in Bookkeeping /\ pc[p] # "unlink" /\ vouched' \in BOOLEAN
    BY <1>1, <1>12, Zenon DEF Marked, RegisterUnit, Finish, Bookkeeping
  <2>3. step \in {"unit", "correct", "idle"} /\ (lock' = lock \/ (lock' = None /\ lock = p))
    BY <1>1, <1>3, <1>4, <1>12 DEF Marked, RegisterUnit, Finish, Go
  <2>4. step \notin Slow
    BY <2>3 DEF Slow
  <2>5. SlowAlone' /\ PoolUp' /\ (pool => pool') /\ pool' \in BOOLEAN
    BY <1>11, <2>1, <2>2, <2>3, <2>4
  <2> QED
    BY <1>1, <1>6, <2>1, <2>2, <2>3, <2>5
<1>13. CASE RecordDebt(p)
  <2>1. UNCHANGED <<owed, checking, vouched, bad, pool, mdState>> /\ pc[p] = "record"
    BY <1>13 DEF RecordDebt
  <2>2. (step = "import" /\ lock' = lock) \/ (step = "idle" /\ lock' = None)
    <3>1. Goes(p, "import") \/ Die(p)
      BY <1>13, Zenon DEF RecordDebt
    <3>2. (Go(p, "import") /\ lock' = lock) \/ (Go(p, "idle") /\ lock' = None)
      BY <3>1
    <3> QED
      BY <1>1, <1>4, <3>2 DEF Go
  <2>3. pc[p] \in Slow /\ "idle" \notin Slow /\ step \notin Bookkeeping \cup {"members", "pool"}
    BY <2>1, <2>2 DEF Slow, Bookkeeping
  <2>4. SlowAlone' /\ PoolUp' /\ (pool => pool') /\ pool' \in BOOLEAN
    BY <1>5, <2>1, <2>2, <2>3
  <2>5. \/ UNCHANGED <<files, found>>
        \/ files.marker /\ files' = [files EXCEPT !.debt = TRUE] /\ found' = found \cup {files'}
    BY <1>13 DEF RecordDebt, Change
  <2>6. CASE UNCHANGED <<files, found>>
    BY <1>1, <1>6, <2>1, <2>2, <2>4, <2>6
  <2>7. CASE files.marker /\ files' = [files EXCEPT !.debt = TRUE] /\ found' = found \cup {files'}
    <3>1. owed # "no"
      BY <1>2, <2>3, <2>7 DEF CheckInv, SlowAlone, MarkerOwed
    <3>2. files' \in Files
      BY <1>1, <2>7 DEF Files
    <3>3. Types' /\ checking' \in BOOLEAN /\ lock' \in Procs \cup {None}
      BY <1>1, <1>4, <2>1, <2>2, <2>7, <3>2 DEF Types
    <3>4. MarkerOwed' /\ DebtOwed'
      BY <2>1, <3>1 DEF MarkerOwed, DebtOwed
    <3> QED
      BY <2>4, <3>3, <3>4 DEF CheckInv
  <2> QED
    BY <2>5, <2>6, <2>7
<1>14. CASE CreateMarker(p) \/ SyncMarker(p) \/ ClearDebt(p)
  <2>1. /\ UNCHANGED <<owed, checking, vouched, pool, mdState, lock>> /\ bad' \in SUBSET Procs
        /\ pc[p] \in {"marker", "sync", "unlink"}
    BY <1>1, <1>14 DEF CreateMarker, SyncMarker, ClearDebt
  <2>2. step \in {"sync", "unit", "done"}
    BY <1>1, <1>3, <1>4, <1>14 DEF CreateMarker, SyncMarker, ClearDebt, Go
  <2>3. pc[p] \in Bookkeeping /\ step \notin Slow
    BY <2>1, <2>2 DEF Slow, Bookkeeping
  <2>4. pool /\ SlowAlone' /\ PoolUp' /\ pool' \in BOOLEAN
    BY <1>11, <2>1, <2>3
  <2>5. /\ files' \in Files /\ found' \in SUBSET Files /\ files' \in found'
        /\ files'.debt => (files.debt /\ pc[p] # "unlink")
    <3>1. CASE CreateMarker(p)
      BY <1>1, <3>1 DEF CreateMarker, Change, Files
    <3>2. CASE SyncMarker(p)
      BY <1>1, <3>2 DEF SyncMarker, Synced, Change, Files
    <3>3. CASE ClearDebt(p)
      BY <1>1, <3>3 DEF ClearDebt, Change, Files
    <3> QED
      BY <1>14, <3>1, <3>2, <3>3
  <2>6. MarkerOwed'
    BY <2>1, <2>4 DEF MarkerOwed
  <2>7. DebtOwed'
    BY <1>4, <2>1, <2>5 DEF CheckInv, DebtOwed
  <2>8. Types'
    BY <1>1, <1>4, <2>1, <2>5 DEF Types
  <2> QED
    BY <1>1, <2>1, <2>4, <2>6, <2>7, <2>8 DEF CheckInv
<1>15. CASE Correct(p)
  <2>1. UNCHANGED <<files, found, vouched, pool, mdState, lock>> /\ bad' \in SUBSET Procs
        /\ pc[p] = "correct"
    BY <1>1, <1>15 DEF Correct
  <2>2. step \in {"done", "unlink"}
    BY <1>1, <1>3, <1>4, <1>15 DEF Correct, Go
  <2>3. pc[p] \in Bookkeeping /\ step \notin Slow
    BY <2>1, <2>2 DEF Slow, Bookkeeping
  <2>4. pool /\ SlowAlone' /\ PoolUp' /\ (pool => pool') /\ pool' \in BOOLEAN
    BY <1>11, <2>1, <2>3
  <2>5. \/ UNCHANGED <<owed, checking>>
        \/ checking' = TRUE /\ owed' = "no" /\ step = "unlink"
    BY <1>1, <1>3, <1>4, <1>15 DEF Correct, Go
  <2>6. CASE UNCHANGED <<owed, checking>>
    BY <1>1, <1>6, <2>1, <2>4, <2>6
  <2>7. CASE checking' = TRUE /\ owed' = "no" /\ step = "unlink"
    <3>1. MarkerOwed'
      BY <2>4 DEF MarkerOwed
    <3>2. DebtOwed'
      BY <1>4, <2>7 DEF DebtOwed
    <3>3. Types' /\ checking' \in BOOLEAN
      BY <1>1, <1>4, <2>1, <2>7 DEF Types
    <3> QED
      BY <1>1, <2>1, <2>4, <3>1, <3>2, <3>3 DEF CheckInv
  <2> QED
    BY <2>5, <2>6, <2>7
<1> QED
  BY <1>7, <1>8, <1>9, <1>10, <1>12, <1>13, <1>14, <1>15 DEF Step

(* The teardown keeps marker and debt, or calls the shutdown unclean.       *)
LEMMA CheckTeardown ==
  ASSUME CheckInv, Teardown
  PROVE  CheckInv'
<1> USE DEF books, stack, node, seen
<1>1. Types /\ pool \in BOOLEAN /\ checking \in BOOLEAN /\ lock \in Procs \cup {None}
  BY DEF CheckInv
<1>2. Idle /\ UNCHANGED <<pc, bad, lock>>
  BY DEF Teardown, TeardownPools, TeardownMembers, TeardownArray, RemoveMarker, CheckInv, PoolUp
<1>3. Idle' /\ \A p \in Procs : pc[p] = "idle" /\ pc'[p] = "idle"
  BY <1>2 DEF Idle
<1>4. files.debt => owed # "no"
  BY <1>3 DEF CheckInv, DebtOwed
<1>5. SlowAlone'
  BY <1>3 DEF SlowAlone, Slow
<1>6. owed' \in {"no", "may", "must"} /\ (owed' = "no" => owed = "no" \/ RemoveMarker)
  <2>1. CASE TeardownPools
    BY <1>1, <2>1 DEF TeardownPools, GiveUp, Types
  <2>2. CASE TeardownMembers
    BY <1>1, <2>2 DEF TeardownMembers, GiveUp, Types
  <2>3. CASE TeardownArray
    <3>1. owed' = owed \/ owed' = IF owed = "no" THEN "may" ELSE owed
      BY <2>3 DEF TeardownArray, GiveUp
    <3> QED
      BY <1>1, <3>1 DEF Types
  <2>4. CASE RemoveMarker
    BY <1>1, <2>4 DEF RemoveMarker, Types
  <2> QED
    BY <2>1, <2>2, <2>3, <2>4 DEF Teardown
<1>7. pool' \in BOOLEAN /\ checking' \in BOOLEAN /\ vouched' \in BOOLEAN
  <2>1. pool' \in {pool, FALSE} /\ checking' \in {checking, FALSE} /\ vouched' \in {vouched, FALSE}
    BY Zenon DEF Teardown, TeardownPools, TeardownMembers, TeardownArray, RemoveMarker
  <2> QED
    BY <1>1, <2>1 DEF Types
<1>8. ASSUME pool' => mdState' = "STARTED", down' # "no" => ~pool'
      PROVE  PoolUp'
  <2>1. \A p \in Procs : pc'[p] \notin Bookkeeping \cup {"members", "pool"}
    BY <1>3 DEF Bookkeeping
  <2> QED
    BY <1>3, <1>8, <2>1 DEF PoolUp
<1>9. CASE RemoveMarker
  <2>1. /\ files' = [files EXCEPT !.marker = FALSE] /\ found' = found \cup {files'}
        /\ down = "marker" /\ pool' = pool
    BY <1>9 DEF RemoveMarker, Change
  <2>2. files' \in Files /\ ~files'.marker /\ files'.debt = files.debt
    BY <1>1, <2>1 DEF Types, Files
  <2>3. Types'
    BY <1>1, <1>2, <1>6, <1>7, <2>1, <2>2 DEF Types
  <2>4. owed' = "no" => owed = "no" \/ ~files.debt
    BY <1>9 DEF RemoveMarker
  <2>5. MarkerOwed' /\ DebtOwed'
    BY <1>4, <2>2, <2>4 DEF MarkerOwed, DebtOwed
  <2>6. PoolUp'
    <3>1. ~pool
      BY <2>1 DEF CheckInv, PoolUp
    <3> QED
      BY <1>8, <2>1, <3>1
  <2> QED
    BY <1>1, <1>2, <1>5, <1>7, <2>3, <2>5, <2>6 DEF CheckInv
<1>10. CASE TeardownPools \/ TeardownMembers \/ TeardownArray
  <2>1. UNCHANGED <<files, found>> /\ (owed' = "no" => owed = "no" /\ down' # "no")
    <3>1. UNCHANGED <<files, found>>
      BY <1>10 DEF TeardownPools, TeardownMembers, TeardownArray
    <3>2. (down' # "no" /\ owed' = owed) \/ owed' = (IF owed = "no" THEN "may" ELSE owed)
      BY <1>10, Zenon DEF TeardownPools, TeardownMembers, TeardownArray, GiveUp
    <3> QED
      BY <3>1, <3>2
  <2>2. Types'
    BY <1>1, <1>2, <1>6, <1>7, <2>1 DEF Types
  <2>3. MarkerOwed' /\ DebtOwed'
    BY <1>4, <2>1 DEF MarkerOwed, DebtOwed
  <2>4. PoolUp'
    <3>1. CASE TeardownPools
      <4>1. mdState' = mdState
        BY <3>1 DEF TeardownPools
      <4>2. pool' = FALSE \/ (pool' = pool /\ down' = "no")
        BY <3>1, Zenon DEF TeardownPools, GiveUp
      <4>3. CASE pool' = FALSE
        BY <1>8, <4>3
      <4>4. CASE pool' = pool /\ down' = "no"
        BY <1>1, <1>8, <4>1, <4>4 DEF CheckInv, PoolUp
      <4> QED
        BY <4>2, <4>3, <4>4
    <3>2. CASE TeardownMembers \/ TeardownArray
      <4>1. pool' = pool /\ ~pool
        BY <3>2 DEF TeardownMembers, TeardownArray, CheckInv, PoolUp
      <4> QED
        BY <1>8, <4>1
    <3> QED
      BY <1>10, <3>1, <3>2
  <2> QED
    BY <1>1, <1>2, <1>5, <1>7, <2>2, <2>3, <2>4 DEF CheckInv
<1> QED
  BY <1>9, <1>10 DEF Teardown

(* Steps that are no part of a check keep it.                               *)
LEMMA CheckOthers ==
  ASSUME CheckInv,
         \/ HandStart \/ Repair \/ RefusalExpires \/ CheckEnds \/ WriteBack
         \/ UNCHANGED vars
  PROVE  CheckInv'
<1> USE DEF books, stack, node, seen
<1>1. Types /\ pool \in BOOLEAN /\ checking \in BOOLEAN /\ lock \in Procs \cup {None}
  BY DEF CheckInv
<1>2. UNCHANGED <<files, pool, pc, bad, down, vouched, owed, lock>>
  BY DEF HandStart, Started, Repair, RefusalExpires, CheckEnds, WriteBack, vars
<1>3. found' = found \/ found' = {files}
  BY DEF HandStart, Repair, RefusalExpires, CheckEnds, WriteBack, vars
<1>4. mdState' = mdState \/ mdState' = "STARTED" \/ mdState # "STARTED"
  BY DEF HandStart, Started, Repair, RefusalExpires, CheckEnds, WriteBack, vars
<1>5. checking' = checking \/ (checking' = FALSE /\ \A p \in Procs : pc[p] # "unlink")
  BY DEF HandStart, Repair, RefusalExpires, CheckEnds, WriteBack, vars
<1>6. Types' /\ checking' \in BOOLEAN
  BY <1>1, <1>2, <1>3, <1>5 DEF Types
<1>7. SlowAlone' /\ MarkerOwed'
  BY <1>2 DEF CheckInv, SlowAlone, MarkerOwed
<1>8. PoolUp'
  BY <1>2, <1>4 DEF CheckInv, PoolUp, Idle
<1>9. DebtOwed'
  <2>1. CASE checking' = checking
    BY <1>2, <2>1 DEF CheckInv, DebtOwed
  <2>2. CASE \A p \in Procs : pc[p] # "unlink"
    BY <1>2, <2>2 DEF CheckInv, DebtOwed
  <2> QED
    BY <1>5, <2>1, <2>2
<1> QED
  BY <1>1, <1>2, <1>6, <1>7, <1>8, <1>9 DEF CheckInv

(* A loss of power is unclean; a reboot follows a complete teardown, or one *)
(* that was called unclean.                                                 *)
LEMMA CheckBoot ==
  ASSUME CheckInv, Reboot \/ PowerLoss
  PROVE  CheckInv'
<1>1. Types /\ pool \in BOOLEAN /\ checking \in BOOLEAN
  BY DEF CheckInv
<1>2. PICK f \in found : Boot(f) /\ (Reboot => f = files)
  BY <1>1 DEF Reboot, PowerLoss, Types
<1>3. /\ files' = f /\ found' = {f} /\ down' = "no" /\ vouched' = FALSE /\ pool' = FALSE
      /\ bad' = {} /\ lock' = None /\ checking' = FALSE /\ pc' = [p \in Procs |-> "idle"]
  BY <1>2, Zenon DEF Boot
<1>4. \A p \in Procs : pc'[p] = "idle"
  BY <1>3
<1>5. owed' \in {"no", "may", "must"}
  BY <1>1 DEF Reboot, PowerLoss, Types
<1>6. Types'
  <2>1. pc' \in [Procs -> {"idle", "waiting"} \cup Slow \cup Bookkeeping]
    BY <1>3
  <2> QED
    BY <1>1, <1>2, <1>3, <1>5, <2>1 DEF Types
<1>7. owed' = "no" => ~files'.marker /\ ~files'.debt
  <2>1. CASE PowerLoss
    BY <2>1 DEF PowerLoss
  <2>2. CASE Reboot
    <3>1. Idle /\ down = "no" /\ mdState # "STARTED" /\ owed' = owed /\ files' = files
      BY <1>2, <1>3, <2>2, Zenon DEF Reboot
    <3>2. owed = "no" => ~files.marker
      BY <3>1 DEF CheckInv, MarkerOwed, PoolUp
    <3>3. owed = "no" => ~files.debt
      BY <3>1 DEF CheckInv, DebtOwed, Idle
    <3> QED
      BY <3>1, <3>2, <3>3
  <2> QED
    BY <2>1, <2>2
<1>8. SlowAlone' /\ PoolUp'
  BY <1>3, <1>4 DEF SlowAlone, PoolUp, Slow, Bookkeeping
<1>9. MarkerOwed' /\ DebtOwed'
  BY <1>7 DEF MarkerOwed, DebtOwed
<1> QED
  BY <1>3, <1>6, <1>8, <1>9 DEF CheckInv

(* Only _ensure_correction() starts a check, and only for a debt.           *)
LEMMA CheckStarted ==
  ASSUME CheckInv, [Next]_vars, checking', ~checking
  PROVE  owed # "no"
<1> USE DEF books, stack, node, seen
<1>1. PICK p \in Procs : Correct(p)
  <2>1. ASSUME NEW p \in Procs, Activate(p) \/ Step(p) PROVE Correct(p)
    <3>1. \/ Correct(p)
          \/ Activate(p) \/ Lock(p) \/ LockTimesOut(p) \/ RecordDebt(p) \/ StartedAlready(p)
          \/ RefusedUntouched(p) \/ Import(p) \/ StartArray(p) \/ MountMembers(p)
          \/ MountPool(p) \/ Marked(p) \/ CreateMarker(p) \/ SyncMarker(p) \/ RegisterUnit(p)
          \/ ClearDebt(p) \/ Finish(p)
      BY <2>1 DEF Step
    <3>2. CASE Activate(p) \/ Lock(p) \/ LockTimesOut(p) \/ RecordDebt(p) \/ StartedAlready(p)
               \/ RefusedUntouched(p) \/ Import(p) \/ StartArray(p)
      BY <3>2 DEF Activate, Lock, LockTimesOut, RecordDebt, StartedAlready, RefusedUntouched,
         Import, StartArray
    <3>3. CASE MountMembers(p) \/ MountPool(p) \/ Marked(p) \/ CreateMarker(p) \/ SyncMarker(p)
               \/ RegisterUnit(p) \/ ClearDebt(p) \/ Finish(p)
      BY <3>3 DEF MountMembers, MountPool, Marked, CreateMarker, SyncMarker, RegisterUnit,
         ClearDebt, Finish
    <3> QED
      BY <3>1, <3>2, <3>3
  <2>2. ~Teardown
    BY DEF Teardown, TeardownPools, TeardownMembers, TeardownArray, RemoveMarker
  <2>3. ~HandStart /\ ~Repair /\ ~RefusalExpires /\ ~CheckEnds /\ ~WriteBack
    BY DEF HandStart, Repair, RefusalExpires, CheckEnds, WriteBack
  <2>4. ~Reboot /\ ~PowerLoss /\ ~(UNCHANGED vars)
    BY DEF Reboot, PowerLoss, Boot, vars
  <2> QED
    BY <2>1, <2>2, <2>3, <2>4 DEF Next
<1>2. files.debt
  BY <1>1, Zenon DEF Correct
<1> QED
  BY <1>2 DEF CheckInv, DebtOwed

(* A correcting check is started only after an unclean shutdown or an       *)
(* incomplete teardown, and only one for each: for any number of            *)
(* activations, when none gets the lock after another has brought the       *)
(* storage up, no command of a check that was started fails, and its debt   *)
(* can be removed.  The windows "creating" and "enabled" may be open.       *)
THEOREM PluginCheckOnlyAfterUnclean ==
  ASSUME "waiting" \notin Windows, "unanswered" \notin Windows
  PROVE  Spec => CheckOnlyAfterUnclean
<1>1. Init => CheckInv
  BY CheckInit
<1>2. CheckInv /\ [Next]_vars => CheckInv'
  BY CheckStep, CheckTeardown, CheckOthers, CheckBoot DEF Next
<1>3. CheckInv /\ [Next]_vars => [checking' /\ ~checking => owed # "no"]_vars
  BY CheckStarted
<1> QED
  BY <1>1, <1>2, <1>3, PTL DEF Spec, CheckOnlyAfterUnclean

=============================================================================
