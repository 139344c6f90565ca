---------------------------- MODULE StripeCache ----------------------------
(***************************************************************************)
(* The stripe cache of md_nonraid/6.18/unraid.c: the stripe_heads, their   *)
(* lists and reference counts, the requests that wait for them and the     *)
(* unraidd threads, one per data disk and one for syncs.                   *)
(*                                                                         *)
(* handle_stripe() is reduced to what it does to the cache: it submits I/O *)
(* on the columns, one reference each, or it completes the request of the  *)
(* stripe; module Stripe has the rest.  A requester is a bio, which walks  *)
(* its range of stripes in unraid_make_request(), or the recovery thread,  *)
(* which does the same in md_do_sync().                                    *)
(*                                                                         *)
(* The lists are sets: a stripe is in at most one, by its only list node   *)
(* (lru), and the order of a list is left open.                            *)
(***************************************************************************)
EXTENDS Integers, FiniteSets

CONSTANTS
  Stripes,      \* all the stripe_heads that may ever be allocated
  Sectors,      \* stripe numbers, a set of naturals
  NData,        \* data disks; unit u > 0 is the disk of slot u, unit 0 the sync
  Bios, Sync,   \* the requesters
  UnitOf,       \* the unit of each requester
  First, Last,  \* the stripes it covers, First[r] .. Last[r]
  NoBlock,      \* bios that do not wait for a stripe (read-ahead, md_restrict & 2)
  MaxRounds,    \* bound: rounds of I/O before a request completes
  MaxIO,        \* bound: I/Os of a round
  InitStripes,  \* md_num_stripes when the array starts
  StripeCounts, \* values set as md_num_stripes later
  QueueLimits, SyncLimits, \* values of md_queue_limit and md_sync_limit
  None          \* no stripe, no requester, no sector

Units == 0 .. NData
Requesters == Bios \cup {Sync}

ASSUME CacheAssumption ==
  /\ NData \in Nat \ {0} /\ Sectors \subseteq Nat
  /\ None \notin Stripes \cup Requesters \cup Sectors
  /\ UnitOf \in [Requesters -> Units] /\ UnitOf[Sync] = 0
  /\ First \in [Requesters -> Nat] /\ Last \in [Requesters -> Nat]
  /\ \A r \in Requesters : First[r] <= Last[r] /\ First[r] .. Last[r] \subseteq Sectors
  /\ NoBlock \subseteq Bios
  /\ MaxRounds \in Nat /\ MaxIO \in Nat \ {0}

ASSUME LimitsAssumption ==
  /\ Sync \notin Bios /\ \A b \in Bios : UnitOf[b] # 0
  /\ IsFiniteSet(Stripes) /\ InitStripes \in 1 .. Cardinality(Stripes)
  /\ StripeCounts \subseteq 1 .. Cardinality(Stripes)
  /\ QueueLimits \subseteq 1 .. 100 /\ SyncLimits \subseteq 0 .. 100

VARIABLES
  pool,         \* the stripes allocated
  sector,       \* sh->sector, None: not hashed
  handle,       \* STRIPE_HANDLE
  count,        \* sh->count
  unit,         \* sh->unit
  lru,          \* the list it is on: inactive, the handle list of its unit, or none
  req,          \* the requester whose bio, or sync, is attached
  work,         \* rounds of I/O still to come for it
  io,           \* I/Os in flight on its columns
  active_stripes, num_stripes, queue_limit, sync_limit,
  rpc, next, hold, \* the requesters: where they are, the next sector, the stripe held
  remaining,    \* bio_inc_remaining(), bio_endio(); recovery_active for Sync
  asleep,       \* who waits on wait_for_stripe
  tpc, wake, tsh, left, \* the unraidd threads: where they are, THREAD_WAKEUP, the stripe
                        \* they handle, the I/Os they have still to submit
  admin         \* "set md_num_stripes": the size to reach, None when idle

stripeVars == <<pool, sector, handle, count, unit, lru, req, work, io>>
requesterVars == <<rpc, next, hold>>
threadVars == <<tpc, wake, tsh, left>>
limits == <<num_stripes, queue_limit, sync_limit>>
vars == <<pool, sector, handle, count, unit, lru, req, work, io, active_stripes,
          num_stripes, queue_limit, sync_limit, rpc, next, hold, remaining, asleep,
          tpc, wake, tsh, left, admin>>

Waiters == Requesters \cup {"admin"}
Inactive == {s \in pool : lru[s] = "inactive"}

---------------------------------------------------------------------------
(* stripe_limit(): how many stripes unit u may have in use. *)
BusyUnits(u) == Cardinality({v \in Units : v = u \/ active_stripes[v] > 0})

stripe_limit(u) ==
  LET active == BusyUnits(u)
      percent == IF u = 0 /\ active > 1 THEN sync_limit ELSE queue_limit
  IN  (num_stripes * percent + (active * 100) \div 2) \div (active * 100)

(* What _get_active_stripe() returns: the cached stripe when nothing else   *)
(* uses it, a free one when the sector is not cached, or none.              *)
Cached(sec) == {s \in pool : sector[s] = sec}

\* Mutant: a free stripe is taken without looking for a cached one.
Available_NoLookup(u, sec) == IF active_stripes[u] >= stripe_limit(u) THEN {} ELSE Inactive

\* Mutant: a cached stripe is shared while others use it.
Available_Shared(u, sec) ==
  IF active_stripes[u] >= stripe_limit(u) THEN {}
  ELSE IF Cached(sec) # {} THEN {s \in Cached(sec) : ~ handle[s]}
  ELSE Inactive

\* Mutant: a cached stripe may still be on the handle list.
Available_OnHandleList(u, sec) ==
  IF active_stripes[u] >= stripe_limit(u) THEN {}
  ELSE IF Cached(sec) # {} THEN {s \in Cached(sec) : count[s] = 0}
  ELSE Inactive

Available(u, sec) ==
  IF active_stripes[u] >= stripe_limit(u) THEN {}
  ELSE IF Cached(sec) # {} THEN {s \in Cached(sec) : count[s] = 0 /\ ~ handle[s]}
  ELSE Inactive

---------------------------------------------------------------------------
(* A requester gets the stripe of its next sector, with a reference ...     *)
GetStripe(r) ==
  /\ rpc[r] = "get" /\ r \notin asleep
  /\ \E s \in Available(UnitOf[r], next[r]) :
       /\ sector' = [sector EXCEPT ![s] = next[r]]
       /\ lru' = [lru EXCEPT ![s] = "none"]
       /\ unit' = [unit EXCEPT ![s] = UnitOf[r]]
       /\ count' = [count EXCEPT ![s] = @ + 1]
       /\ hold' = [hold EXCEPT ![r] = s] /\ rpc' = [rpc EXCEPT ![r] = "hold"]
  /\ active_stripes' = [active_stripes EXCEPT ![UnitOf[r]] = @ + 1]
  /\ UNCHANGED <<pool, handle, req, work, io, limits, next, remaining, asleep,
                 threadVars, admin>>

(* ... or sleeps until it is woken, or, not allowed to wait, gives up: the  *)
(* bio ends (with an error) when what it is already attached to has ended.  *)
NoStripe(r) ==
  /\ rpc[r] = "get" /\ r \notin asleep
  /\ Available(UnitOf[r], next[r]) = {}
  /\ IF r \in NoBlock
     THEN rpc' = [rpc EXCEPT ![r] = "end"] /\ asleep' = asleep
     ELSE asleep' = asleep \cup {r} /\ rpc' = rpc
  /\ UNCHANGED <<stripeVars, active_stripes, limits, next, hold, remaining, threadVars,
                 admin>>

\* Mutant: the stripe stops being active whatever list it goes to.
release_stripe_AnyList(s, hd) ==
  /\ count' = [count EXCEPT ![s] = @ - 1]
  /\ handle' = hd
  /\ lru' = IF count[s] # 1 THEN lru
            ELSE [lru EXCEPT ![s] = IF hd[s] THEN "handle" ELSE "inactive"]
  /\ wake' = IF count[s] = 1 /\ hd[s] THEN [wake EXCEPT ![unit[s]] = TRUE] ELSE wake
  /\ active_stripes' = IF count[s] = 1 THEN [active_stripes EXCEPT ![unit[s]] = @ - 1]
                       ELSE active_stripes
  /\ asleep' = IF count[s] = 1 /\ ~ hd[s] THEN {} ELSE asleep

\* Mutant: the requests waiting for a stripe are not woken.
release_stripe_NoWake(s, hd) ==
  /\ count' = [count EXCEPT ![s] = @ - 1]
  /\ handle' = hd
  /\ lru' = IF count[s] # 1 THEN lru
            ELSE [lru EXCEPT ![s] = IF hd[s] THEN "handle" ELSE "inactive"]
  /\ wake' = IF count[s] = 1 /\ hd[s] THEN [wake EXCEPT ![unit[s]] = TRUE] ELSE wake
  /\ active_stripes' = IF count[s] = 1 /\ ~ hd[s]
                       THEN [active_stripes EXCEPT ![unit[s]] = @ - 1]
                       ELSE active_stripes
  /\ asleep' = asleep

\* Mutant: the one that shrinks the cache is not woken.
release_stripe_WakesRequests(s, hd) ==
  /\ count' = [count EXCEPT ![s] = @ - 1]
  /\ handle' = hd
  /\ lru' = IF count[s] # 1 THEN lru
            ELSE [lru EXCEPT ![s] = IF hd[s] THEN "handle" ELSE "inactive"]
  /\ wake' = IF count[s] = 1 /\ hd[s] THEN [wake EXCEPT ![unit[s]] = TRUE] ELSE wake
  /\ active_stripes' = IF count[s] = 1 /\ ~ hd[s]
                       THEN [active_stripes EXCEPT ![unit[s]] = @ - 1]
                       ELSE active_stripes
  /\ asleep' = IF count[s] = 1 /\ ~ hd[s] THEN asleep \cap {"admin"} ELSE asleep

(* _release_stripe(): hd are the handle bits as the caller leaves them.     *)
release_stripe(s, hd) ==
  /\ count' = [count EXCEPT ![s] = @ - 1]
  /\ handle' = hd
  /\ lru' = IF count[s] # 1 THEN lru
            ELSE [lru EXCEPT ![s] = IF hd[s] THEN "handle" ELSE "inactive"]
  /\ wake' = IF count[s] = 1 /\ hd[s] THEN [wake EXCEPT ![unit[s]] = TRUE] ELSE wake
  /\ active_stripes' = IF count[s] = 1 /\ ~ hd[s]
                       THEN [active_stripes EXCEPT ![unit[s]] = @ - 1]
                       ELSE active_stripes
  /\ asleep' = IF count[s] = 1 /\ ~ hd[s] THEN {} ELSE asleep

(* add_stripe_bio(), or the flags unraid_sync() sets; the stripe is         *)
(* released and the requester goes on with its next sector.                 *)
Attach(r) ==
  /\ rpc[r] = "hold"
  /\ LET s == hold[r]
     IN  /\ req' = [req EXCEPT ![s] = r]
         /\ work' \in {[work EXCEPT ![s] = n] : n \in 0 .. MaxRounds}
         /\ release_stripe(s, [handle EXCEPT ![s] = TRUE])
  /\ remaining' = [remaining EXCEPT ![r] = @ + 1]
  /\ hold' = [hold EXCEPT ![r] = None]
  /\ IF next[r] = Last[r]
     THEN rpc' = [rpc EXCEPT ![r] = "end"] /\ next' = next
     ELSE rpc' = [rpc EXCEPT ![r] = "get"] /\ next' = [next EXCEPT ![r] = @ + 1]
  /\ UNCHANGED <<pool, sector, unit, io, limits, tpc, tsh, left, admin>>

(* The bio_endio() of unraid_make_request(); the end of the sync loop.      *)
EndRequester(r) ==
  /\ rpc[r] = "end"
  /\ rpc' = [rpc EXCEPT ![r] = "done"]
  /\ remaining' = [remaining EXCEPT ![r] = @ - 1]
  /\ UNCHANGED <<stripeVars, active_stripes, limits, next, hold, asleep, threadVars,
                 admin>>

(* A bio arrives, or a sync starts. *)
StartRequester(r) ==
  /\ rpc[r] = "idle"
  /\ rpc' = [rpc EXCEPT ![r] = "get"]
  /\ remaining' = [remaining EXCEPT ![r] = 1]
  /\ UNCHANGED <<stripeVars, active_stripes, limits, next, hold, asleep, threadVars,
                 admin>>

---------------------------------------------------------------------------
(* unraidd.  md_thread() clears the wake flag and calls it; it runs until   *)
(* its handle list is empty.                                                *)
HandleList(u) == {s \in pool : lru[s] = "handle" /\ unit[s] = u}

WakeThread(u) ==
  /\ tpc[u] = "sleep" /\ wake[u]
  /\ tpc' = [tpc EXCEPT ![u] = "loop"] /\ wake' = [wake EXCEPT ![u] = FALSE]
  /\ UNCHANGED <<stripeVars, active_stripes, limits, requesterVars, remaining, asleep,
                 tsh, left, admin>>

TakeStripe(u, s) ==
  /\ tpc[u] = "loop" /\ s \in HandleList(u)
  /\ lru' = [lru EXCEPT ![s] = "none"]
  /\ handle' = [handle EXCEPT ![s] = FALSE]
  /\ count' = [count EXCEPT ![s] = @ + 1]
  /\ tpc' = [tpc EXCEPT ![u] = "handle"] /\ tsh' = [tsh EXCEPT ![u] = s]
  /\ UNCHANGED <<pool, sector, unit, req, work, io, active_stripes, limits,
                 requesterVars, remaining, asleep, wake, left, admin>>

ThreadSleeps(u) ==
  /\ tpc[u] = "loop" /\ HandleList(u) = {}
  /\ tpc' = [tpc EXCEPT ![u] = "sleep"]
  /\ UNCHANGED <<stripeVars, active_stripes, limits, requesterVars, remaining, asleep,
                 wake, tsh, left, admin>>

(* handle_stripe() up to its I/O: another round, or the request is complete *)
(* (and blocks that were reconstructed for it are written back).            *)
HandleStripe(u) ==
  /\ tpc[u] = "handle"
  /\ tpc' = [tpc EXCEPT ![u] = "submit"]
  /\ LET s == tsh[u]
     IN  \/ /\ req[s] # None /\ work[s] > 0
            /\ work' = [work EXCEPT ![s] = @ - 1]
            /\ \E n \in 1 .. MaxIO : left' = [left EXCEPT ![u] = n]
            /\ UNCHANGED <<req, remaining>>
         \/ /\ req[s] # None /\ work[s] = 0
            /\ req' = [req EXCEPT ![s] = None]
            /\ remaining' = [remaining EXCEPT ![req[s]] = @ - 1]
            /\ \E n \in 0 .. 1 : left' = [left EXCEPT ![u] = n]
            /\ work' = work
         \/ /\ req[s] = None
            /\ left' = [left EXCEPT ![u] = 0]
            /\ UNCHANGED <<req, work, remaining>>
  /\ UNCHANGED <<pool, sector, handle, count, unit, lru, io, active_stripes, limits,
                 requesterVars, asleep, wake, tsh, admin>>

\* Mutant: the I/O does not take a reference.
Submit_NoReference(u) ==
  /\ tpc[u] = "submit" /\ left[u] > 0
  /\ io' = [io EXCEPT ![tsh[u]] = @ + 1]
  /\ left' = [left EXCEPT ![u] = @ - 1]
  /\ UNCHANGED <<pool, sector, handle, count, unit, lru, req, work, active_stripes,
                 limits, requesterVars, remaining, asleep, tpc, wake, tsh, admin>>

(* atomic_inc(&sh->count); submit_bio_noacct(): it may complete at once.    *)
Submit(u) ==
  /\ tpc[u] = "submit" /\ left[u] > 0
  /\ LET s == tsh[u]
     IN  count' = [count EXCEPT ![s] = @ + 1] /\ io' = [io EXCEPT ![s] = @ + 1]
  /\ left' = [left EXCEPT ![u] = @ - 1]
  /\ UNCHANGED <<pool, sector, handle, unit, lru, req, work, active_stripes, limits,
                 requesterVars, remaining, asleep, tpc, wake, tsh, admin>>

ReleaseHandled(u) ==
  /\ tpc[u] = "submit" /\ left[u] = 0
  /\ release_stripe(tsh[u], handle)
  /\ tpc' = [tpc EXCEPT ![u] = "loop"] /\ tsh' = [tsh EXCEPT ![u] = None]
  /\ UNCHANGED <<pool, sector, unit, req, work, io, limits, left, requesterVars,
                 remaining, admin>>

\* Mutant: STRIPE_HANDLE is set after the release.
EndRequest_FlagLate(s) ==
  /\ io[s] > 0
  /\ io' = [io EXCEPT ![s] = @ - 1]
  /\ count' = [count EXCEPT ![s] = @ - 1]
  /\ handle' = [handle EXCEPT ![s] = TRUE]
  /\ lru' = IF count[s] # 1 THEN lru
            ELSE [lru EXCEPT ![s] = IF handle[s] THEN "handle" ELSE "inactive"]
  /\ UNCHANGED <<pool, sector, unit, req, work, active_stripes, limits, requesterVars,
                 remaining, asleep, threadVars, admin>>

(* end_request(). *)
EndRequest(s) ==
  /\ io[s] > 0
  /\ io' = [io EXCEPT ![s] = @ - 1]
  /\ release_stripe(s, [handle EXCEPT ![s] = TRUE])
  /\ UNCHANGED <<pool, sector, unit, req, work, limits, tpc, tsh, left, requesterVars,
                 remaining, admin>>

---------------------------------------------------------------------------
(* "set md_num_stripes": unraid_num_stripes() adds or frees one stripe at a *)
(* time until the size is reached or an allocation fails.                   *)
SetNumStripes(n) ==
  /\ admin = None
  /\ admin' = n
  /\ UNCHANGED <<stripeVars, active_stripes, limits, requesterVars, remaining, asleep,
                 threadVars>>

(* grow_stripes(): the new stripe is released like an active one of unit 0; *)
(* the active_stripes[0]++ just before its release undoes the release's     *)
(* decrement, and the two are one step here.                                *)
GrowStripes(s) ==
  /\ admin # None /\ num_stripes < admin /\ s \notin pool
  /\ pool' = pool \cup {s}
  /\ sector' = [sector EXCEPT ![s] = None]
  /\ unit' = [unit EXCEPT ![s] = 0]
  /\ lru' = [lru EXCEPT ![s] = "inactive"]
  /\ num_stripes' = num_stripes + 1
  /\ asleep' = {}
  /\ UNCHANGED <<handle, count, req, work, io, active_stripes, queue_limit, sync_limit,
                 requesterVars, remaining, threadVars, admin>>

(* shrink_stripes(): waits for a free stripe. *)
ShrinkStripes(s) ==
  /\ admin # None /\ num_stripes > admin /\ "admin" \notin asleep
  /\ s \in Inactive
  /\ pool' = pool \ {s}
  /\ sector' = [sector EXCEPT ![s] = None]
  /\ lru' = [lru EXCEPT ![s] = "none"]
  /\ num_stripes' = num_stripes - 1
  /\ UNCHANGED <<handle, count, unit, req, work, io, active_stripes, queue_limit,
                 sync_limit, requesterVars, remaining, asleep, threadVars, admin>>

ShrinkWaits ==
  /\ admin # None /\ num_stripes > admin /\ "admin" \notin asleep
  /\ Inactive = {}
  /\ asleep' = asleep \cup {"admin"}
  /\ UNCHANGED <<stripeVars, active_stripes, limits, requesterVars, remaining,
                 threadVars, admin>>

(* The size is reached, or kmem_cache_alloc() or alloc_page() fails.        *)
SizeReached ==
  /\ admin # None /\ num_stripes <= admin
  /\ admin' = None
  /\ UNCHANGED <<stripeVars, active_stripes, limits, requesterVars, remaining, asleep,
                 threadVars>>

(* "set md_queue_limit", "set md_sync_limit": read by the next to look.     *)
SetLimits(q, y) ==
  /\ admin = None /\ <<q, y>> # <<queue_limit, sync_limit>>
  /\ queue_limit' = q /\ sync_limit' = y
  /\ UNCHANGED <<stripeVars, active_stripes, num_stripes, requesterVars, remaining,
                 asleep, threadVars, admin>>

---------------------------------------------------------------------------
Init ==
  /\ pool \in SUBSET Stripes /\ Cardinality(pool) = InitStripes
  /\ sector = [s \in Stripes |-> None]
  /\ handle = [s \in Stripes |-> FALSE]
  /\ count = [s \in Stripes |-> 0]
  /\ unit = [s \in Stripes |-> 0]
  /\ lru = [s \in Stripes |-> IF s \in pool THEN "inactive" ELSE "none"]
  /\ req = [s \in Stripes |-> None]
  /\ work = [s \in Stripes |-> 0]
  /\ io = [s \in Stripes |-> 0]
  /\ active_stripes = [u \in Units |-> 0]
  /\ num_stripes = InitStripes
  /\ queue_limit \in QueueLimits /\ sync_limit \in SyncLimits
  /\ rpc = [r \in Requesters |-> "idle"] /\ next = First /\ hold = [r \in Requesters |-> None]
  /\ remaining = [r \in Requesters |-> 0]
  /\ asleep = {}
  /\ tpc = [u \in Units |-> "sleep"] /\ wake = [u \in Units |-> FALSE]
  /\ tsh = [u \in Units |-> None] /\ left = [u \in Units |-> 0]
  /\ admin = None

Request(r) == GetStripe(r) \/ NoStripe(r) \/ Attach(r) \/ EndRequester(r)
Thread(u) ==
  \/ WakeThread(u) \/ ThreadSleeps(u) \/ HandleStripe(u) \/ Submit(u) \/ ReleaseHandled(u)
  \/ \E s \in Stripes : TakeStripe(u, s)
Resize == (\E s \in Stripes : GrowStripes(s) \/ ShrinkStripes(s)) \/ ShrinkWaits \/ SizeReached

Next ==
  \/ \E r \in Requesters : StartRequester(r) \/ Request(r)
  \/ \E u \in Units : Thread(u)
  \/ \E s \in Stripes : EndRequest(s)
  \/ \E n \in StripeCounts : SetNumStripes(n)
  \/ \E q \in QueueLimits, y \in SyncLimits : SetLimits(q, y)
  \/ Resize

Spec == Init /\ [][Next]_vars

(* Threads are scheduled, I/O completes, md_proc_write() runs to its end.   *)
(* Nothing is assumed of when requests arrive or settings change.           *)
Fairness ==
  /\ \A r \in Requesters : WF_vars(Request(r))
  /\ \A u \in Units : WF_vars(Thread(u))
  /\ \A s \in Stripes : WF_vars(EndRequest(s))
  /\ WF_vars(Resize)

LiveSpec == Spec /\ Fairness

---------------------------------------------------------------------------
(* Properties. *)

(* Every variable keeps its type. *)
StripeTypes ==
  /\ pool \subseteq Stripes /\ sector \in [Stripes -> Sectors \cup {None}]
  /\ handle \in [Stripes -> BOOLEAN] /\ count \in [Stripes -> Nat]
  /\ unit \in [Stripes -> Units] /\ lru \in [Stripes -> {"none", "inactive", "handle"}]
  /\ req \in [Stripes -> Requesters \cup {None}]
  /\ work \in [Stripes -> Nat] /\ io \in [Stripes -> Nat]

RequesterTypes ==
  /\ rpc \in [Requesters -> {"idle", "get", "hold", "end", "done"}]
  /\ next \in [Requesters -> Nat] /\ hold \in [Requesters -> Stripes \cup {None}]
  /\ remaining \in [Requesters -> Int]

ThreadTypes ==
  /\ tpc \in [Units -> {"sleep", "loop", "handle", "submit"}] /\ wake \in [Units -> BOOLEAN]
  /\ tsh \in [Units -> Stripes \cup {None}] /\ left \in [Units -> Nat]

CacheTypes ==
  /\ active_stripes \in [Units -> Int] /\ asleep \subseteq Waiters
  /\ num_stripes \in Int /\ queue_limit \in QueueLimits /\ sync_limit \in SyncLimits
  /\ admin \in StripeCounts \cup {None}

TypeOK == StripeTypes /\ RequesterTypes /\ ThreadTypes /\ CacheTypes

(* The reference count is one for whoever has activated the stripe, a       *)
(* requester or an unraidd thread, plus one for each I/O in flight          *)
(* (unraid.c:142), and never two of them have it at once.                   *)
Held(s) == \E r \in Requesters : hold[r] = s
Handled(s) == \E u \in Units : tsh[u] = s

CountsMatch == \A s \in Stripes : count[s] = io[s] + IF Held(s) \/ Handled(s) THEN 1 ELSE 0

OneHolder ==
  /\ \A r, t \in Requesters : hold[r] = hold[t] /\ hold[r] # None => r = t
  /\ \A u, v \in Units : tsh[u] = tsh[v] /\ tsh[u] # None => u = v
  /\ \A r \in Requesters, u \in Units : hold[r] = tsh[u] => hold[r] = None

RefCountsExact == CountsMatch /\ OneHolder

(* handle_stripe() finds its stripe alone: no I/O of it is in flight and no *)
(* requester has it, so the buffers do not change under its calculations.   *)
HandledAlone ==
  \A u \in Units : tpc[u] = "handle" =>
    io[tsh[u]] = 0 /\ ~ Held(tsh[u])

(* "If the refcount is 0 and STRIPE_HANDLE is set, then it is on the        *)
(* handle_list and if refcount is 0 and STRIPE_HANDLE is not set, then the  *)
(* stripe is on inactive_list" (unraid.c:126); otherwise it is on neither.  *)
ListsMatchCounts ==
  \A s \in pool :
    lru[s] = IF count[s] > 0 THEN "none" ELSE IF handle[s] THEN "handle" ELSE "inactive"

(* No sector is cached twice, so no request can miss the data of another.   *)
OneStripePerSector ==
  \A s, t \in pool : sector[s] = sector[t] /\ sector[s] # None => s = t

(* sanity_check(): a stripe on the inactive list has nothing attached and   *)
(* no I/O; and what is attached belongs to the unit, hence the column, the  *)
(* stripe was activated for.                                                *)
InactiveIdle ==
  /\ \A s \in Inactive : req[s] = None /\ io[s] = 0 /\ ~ handle[s]
  /\ \A s \in pool : req[s] # None => unit[s] = UnitOf[req[s]]

(* active_stripes, changed without a common lock order by two threads, is   *)
(* the number of stripes of the unit that are not inactive.                 *)
ActiveStripesExact ==
  /\ \A u \in Units : active_stripes[u] = Cardinality({s \in pool \ Inactive : unit[s] = u})
  /\ num_stripes = Cardinality(pool)

(* A bio is returned when, and only when, every stripe it is attached to    *)
(* has completed and no more will be.                                       *)
BioCountsExact ==
  \A r \in Requesters :
    remaining[r] = Cardinality({s \in pool : req[s] = r})
                   + IF rpc[r] \in {"get", "hold", "end"} THEN 1 ELSE 0

(* Every request that has arrived is served, whatever settings change.      *)
AllServed ==
  \A r \in Requesters : rpc[r] = "get" ~> rpc[r] = "done" /\ remaining[r] = 0

(* "set md_num_stripes" returns. *)
ResizeEnds == admin # None ~> admin = None

=============================================================================
