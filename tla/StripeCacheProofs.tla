------------------------- MODULE StripeCacheProofs -------------------------
(***************************************************************************)
(* Safety of the stripe cache, proved for any number of stripes, disks and *)
(* requests.  IInv is inductive: the reference counts and lists say what   *)
(* the comment of unraid.c:119-150 says, and a stripe whose request is not *)
(* complete always has somebody who will come back to it.                  *)
(***************************************************************************)
EXTENDS StripeCache, TLAPS, FiniteSetTheorems

(* Who holds a stripe can be read off its program counter. *)
Holders ==
  /\ \A r \in Requesters : IF rpc[r] = "hold" THEN hold[r] \in pool ELSE hold[r] = None
  /\ \A u \in Units : IF tpc[u] \in {"handle", "submit"}
                      THEN tsh[u] \in pool ELSE tsh[u] = None
  /\ \A r \in Requesters : next[r] \in First[r] .. Last[r]

(* A stripe_head that is not allocated is in its initial state. *)
Unallocated ==
  \A s \in Stripes \ pool :
    count[s] = 0 /\ io[s] = 0 /\ ~ handle[s] /\ req[s] = None /\ lru[s] = "none"

(* A request attached to a stripe nobody refers to is about to be handled,  *)
(* so is one whose thread has nothing left to submit and no I/O in flight;  *)
(* and a requester gets its stripe with nothing attached.                   *)
NotForgotten ==
  /\ \A s \in pool : req[s] # None /\ count[s] = 0 => handle[s]
  /\ \A u \in Units : LET s == tsh[u] IN
       tpc[u] = "submit" /\ left[u] = 0 /\ io[s] = 0 /\ ~ handle[s] => req[s] = None
  /\ \A r \in Requesters : rpc[r] = "hold" =>
       req[hold[r]] = None /\ unit[hold[r]] = UnitOf[r]
  /\ \A s \in pool : req[s] # None => unit[s] = UnitOf[req[s]]

IInv ==
  /\ TypeOK /\ RefCountsExact /\ HandledAlone /\ ListsMatchCounts /\ OneStripePerSector
  /\ Holders /\ Unallocated /\ NotForgotten

USE DEF Units

(* The cache starts with every stripe idle. *)
LEMMA InitInv == Init => IInv
<1> SUFFICES ASSUME Init PROVE IInv
  OBVIOUS
<1> USE CacheAssumption DEF Init
<1>1. TypeOK
  <2>1. StripeTypes
    BY DEF StripeTypes
  <2>2. RequesterTypes
    BY DEF RequesterTypes
  <2>3. ThreadTypes
    BY DEF ThreadTypes
  <2>4. CacheTypes
    <3>1. num_stripes \in Int
      BY LimitsAssumption
    <3> QED
      BY <3>1 DEF CacheTypes
  <2> QED
    BY <2>1, <2>2, <2>3, <2>4 DEF TypeOK
<1>2. RefCountsExact
  BY DEF RefCountsExact, CountsMatch, OneHolder, Held, Handled
<1>3. HandledAlone /\ ListsMatchCounts /\ OneStripePerSector
  BY DEF HandledAlone, ListsMatchCounts, OneStripePerSector
<1>4. Holders /\ Unallocated /\ NotForgotten
  BY DEF Holders, Unallocated, NotForgotten
<1> QED
  BY <1>1, <1>2, <1>3, <1>4 DEF IInv

(* Nobody refers to a stripe of count 0, and whoever has a stripe refers to *)
(* it; a stripe is never held and handled at a time.                        *)
LEMMA References ==
  ASSUME IInv
  PROVE  /\ \A r \in Requesters : rpc[r] = "hold" =>
              /\ hold[r] \in pool /\ hold[r] \in Stripes /\ hold[r] # None
              /\ count[hold[r]] = io[hold[r]] + 1 /\ Held(hold[r]) /\ ~ Handled(hold[r])
         /\ \A u \in Units : tpc[u] \in {"handle", "submit"} =>
              /\ tsh[u] \in pool /\ tsh[u] \in Stripes /\ tsh[u] # None
              /\ count[tsh[u]] = io[tsh[u]] + 1 /\ Handled(tsh[u]) /\ ~ Held(tsh[u])
         /\ \A s \in Stripes : io[s] > 0 => count[s] > 0 /\ s \in pool
         /\ \A s \in Stripes : count[s] = 0 => io[s] = 0 /\ ~ Held(s) /\ ~ Handled(s)
<1> USE CacheAssumption DEF IInv, TypeOK, StripeTypes, RequesterTypes, ThreadTypes
<1>1. \A s \in Stripes : /\ count[s] \in Nat /\ io[s] \in Nat
                         /\ count[s] = io[s] + IF Held(s) \/ Handled(s) THEN 1 ELSE 0
  BY DEF RefCountsExact, CountsMatch
<1>2. ASSUME NEW r \in Requesters, rpc[r] = "hold"
      PROVE  /\ hold[r] \in pool /\ hold[r] \in Stripes /\ hold[r] # None
             /\ count[hold[r]] = io[hold[r]] + 1 /\ Held(hold[r]) /\ ~ Handled(hold[r])
  <2>1. hold[r] \in pool /\ hold[r] \in Stripes /\ hold[r] # None
    BY <1>2 DEF Holders
  <2>2. Held(hold[r]) /\ ~ Handled(hold[r])
    BY <2>1 DEF Held, Handled, RefCountsExact, OneHolder
  <2> QED
    BY <1>1, <2>1, <2>2
<1>3. ASSUME NEW u \in Units, tpc[u] \in {"handle", "submit"}
      PROVE  /\ tsh[u] \in pool /\ tsh[u] \in Stripes /\ tsh[u] # None
             /\ count[tsh[u]] = io[tsh[u]] + 1 /\ Handled(tsh[u]) /\ ~ Held(tsh[u])
  <2>1. tsh[u] \in pool /\ tsh[u] \in Stripes /\ tsh[u] # None
    BY <1>3 DEF Holders
  <2>2. Handled(tsh[u]) /\ ~ Held(tsh[u])
    BY <2>1 DEF Held, Handled, RefCountsExact, OneHolder
  <2> QED
    BY <1>1, <2>1, <2>2
<1>4. \A s \in Stripes : s \notin pool => io[s] = 0
  BY Zenon DEF Unallocated
<1>5. ASSUME NEW s \in Stripes, io[s] > 0
      PROVE  count[s] > 0 /\ s \in pool
  <2>1. s \in pool
    BY <1>4, <1>5
  <2>2. count[s] = io[s] \/ count[s] = io[s] + 1
    BY <1>1
  <2>3. count[s] > 0
    BY <1>1, <1>5, <2>2
  <2> QED
    BY <2>1, <2>3
<1> QED
  BY <1>1, <1>2, <1>3, <1>5

(* A step that only moves a requester or a thread between states in which   *)
(* it has no stripe, or changes a setting, leaves the invariant alone.      *)
LEMMA Bystander ==
  ASSUME IInv, TypeOK', UNCHANGED <<stripeVars, next, hold, tsh, left>>,
         \A r \in Requesters : rpc'[r] = "hold" <=> rpc[r] = "hold",
         \A u \in Units : tpc'[u] = tpc[u] \/ {tpc[u], tpc'[u]} \subseteq {"sleep", "loop"}
  PROVE  IInv'
<1> USE DEF IInv, stripeVars
<1>1. \A s \in Stripes : (Held(s)' <=> Held(s)) /\ (Handled(s)' <=> Handled(s))
  BY DEF Held, Handled
<1>2. RefCountsExact'
  BY <1>1 DEF RefCountsExact, CountsMatch, OneHolder
<1>3. \A u \in Units : tpc'[u] \in {"handle", "submit"} => tpc'[u] = tpc[u]
  OBVIOUS
<1>4. HandledAlone'
  BY <1>3 DEF HandledAlone, Held
<1>5. ListsMatchCounts' /\ OneStripePerSector' /\ Unallocated'
  BY DEF ListsMatchCounts, OneStripePerSector, Unallocated
<1>6. Holders'
  <2>1. \A u \in Units : tpc'[u] \in {"handle", "submit"} <=> tpc[u] \in {"handle", "submit"}
    OBVIOUS
  <2> QED
    BY <2>1 DEF Holders
<1>7. NotForgotten'
  BY <1>3 DEF NotForgotten
<1> QED
  BY <1>2, <1>4, <1>5, <1>6, <1>7

(* _release_stripe() of a stripe that is referred to.                       *)
LEMMA ReleaseEffect ==
  ASSUME IInv, NEW s \in Stripes, count[s] > 0,
         NEW hd, hd \in [Stripes -> BOOLEAN], release_stripe(s, hd)
  PROVE  /\ count' \in [Stripes -> Nat] /\ handle' = hd
         /\ lru' \in [Stripes -> {"none", "inactive", "handle"}]
         /\ wake' \in [Units -> BOOLEAN] /\ active_stripes' \in [Units -> Int]
         /\ asleep' \subseteq Waiters
         /\ \A t \in Stripes : count'[t] = IF t = s THEN count[t] - 1 ELSE count[t]
         /\ \A t \in Stripes \ {s} : lru'[t] = lru[t]
         /\ count[s] # 1 => lru'[s] = lru[s]
         /\ count[s] = 1 => lru'[s] = IF hd[s] THEN "handle" ELSE "inactive"
<1> USE CacheAssumption DEF IInv, TypeOK, StripeTypes, release_stripe
<1>1. count' \in [Stripes -> Nat] /\ handle' = hd
  OBVIOUS
<1>2. lru' \in [Stripes -> {"none", "inactive", "handle"}]
  OBVIOUS
<1>3. wake' \in [Units -> BOOLEAN]
  BY DEF ThreadTypes
<1>4. active_stripes' \in [Units -> Int] /\ asleep' \subseteq Waiters
  BY DEF CacheTypes
<1>5. \A t \in Stripes : count'[t] = IF t = s THEN count[t] - 1 ELSE count[t]
  OBVIOUS
<1>6. \A t \in Stripes \ {s} : lru'[t] = lru[t]
  OBVIOUS
<1>7. count[s] # 1 => lru'[s] = lru[s]
  OBVIOUS
<1>8. count[s] = 1 => lru'[s] = IF hd[s] THEN "handle" ELSE "inactive"
  OBVIOUS
<1> QED
  BY <1>1, <1>2, <1>3, <1>4, <1>5, <1>6, <1>7, <1>8

(* A stripe from _get_active_stripe() is cached or free, and idle.          *)
LEMMA AvailableIdle ==
  ASSUME IInv, NEW r \in Requesters, next[r] \in Sectors,
         NEW s \in Available(UnitOf[r], next[r])
  PROVE  /\ s \in pool /\ s \in Stripes /\ count[s] = 0 /\ io[s] = 0
         /\ ~ handle[s] /\ req[s] = None /\ ~ Held(s) /\ ~ Handled(s)
         /\ \A t \in pool : sector[t] = next[r] => t = s
<1> USE DEF IInv
<1>1. s \in pool /\ s \in Stripes
  BY DEF Available, Cached, Inactive, TypeOK, StripeTypes
<1>2. \A t \in pool : sector[t] = next[r] => t = s
  <2>1. CASE Cached(next[r]) # {}
    <3>1. sector[s] = next[r] /\ next[r] # None
      BY <2>1, CacheAssumption DEF Available, Cached
    <3> QED
      BY <1>1, <3>1 DEF OneStripePerSector
  <2>2. CASE Cached(next[r]) = {}
    BY <2>2 DEF Cached
  <2> QED
    BY <2>1, <2>2
<1>3. count[s] = 0 /\ ~ handle[s]
  <2>1. CASE Cached(next[r]) # {}
    BY <2>1 DEF Available
  <2>2. CASE Cached(next[r]) = {}
    BY <1>1, <2>2 DEF Available, Inactive, ListsMatchCounts, TypeOK, StripeTypes
  <2> QED
    BY <2>1, <2>2
<1>4. io[s] = 0 /\ ~ Held(s) /\ ~ Handled(s)
  BY <1>1, <1>3, References
<1>5. req[s] = None
  BY <1>1, <1>3 DEF NotForgotten
<1> QED
  BY <1>1, <1>2, <1>3, <1>4, <1>5

(* get_active_stripe(): the stripe was idle, so it can change its sector.   *)
LEMMA GetStripeInv ==
  ASSUME IInv, NEW r \in Requesters, GetStripe(r)
  PROVE  IInv'
<1> USE CacheAssumption DEF IInv
<1>1. rpc[r] = "get" /\ next[r] \in Sectors /\ hold[r] = None /\ UnitOf[r] \in Units
  BY DEF GetStripe, Holders, TypeOK, RequesterTypes
<1>2. PICK s \in Available(UnitOf[r], next[r]) :
        /\ sector' = [sector EXCEPT ![s] = next[r]]
        /\ lru' = [lru EXCEPT ![s] = "none"]
        /\ unit' = [unit EXCEPT ![s] = UnitOf[r]]
        /\ count' = [count EXCEPT ![s] = @ + 1]
        /\ hold' = [hold EXCEPT ![r] = s] /\ rpc' = [rpc EXCEPT ![r] = "hold"]
  BY DEF GetStripe
<1>3. /\ active_stripes' = [active_stripes EXCEPT ![UnitOf[r]] = @ + 1]
      /\ UNCHANGED <<pool, handle, req, work, io, num_stripes, queue_limit, sync_limit, next,
                     remaining, asleep, tpc, wake, tsh, left, admin>>
  BY DEF GetStripe, limits, threadVars
<1>4. /\ s \in pool /\ s \in Stripes /\ count[s] = 0 /\ io[s] = 0
      /\ ~ handle[s] /\ req[s] = None /\ ~ Held(s) /\ ~ Handled(s)
      /\ \A t \in pool : sector[t] = next[r] => t = s
  BY <1>1, <1>2, AvailableIdle
<1>5. TypeOK'
  <2>1. StripeTypes'
    BY <1>1, <1>2, <1>3, <1>4 DEF TypeOK, StripeTypes
  <2>2. RequesterTypes'
    BY <1>2, <1>3, <1>4 DEF TypeOK, RequesterTypes
  <2>3. ThreadTypes'
    BY <1>3 DEF TypeOK, ThreadTypes
  <2>4. CacheTypes'
    BY <1>1, <1>3 DEF TypeOK, CacheTypes
  <2> QED
    BY <2>1, <2>2, <2>3, <2>4 DEF TypeOK
<1>6. /\ \A t \in Stripes : count'[t] = IF t = s THEN 1 ELSE count[t]
      /\ \A t \in Stripes : lru'[t] = IF t = s THEN "none" ELSE lru[t]
      /\ \A t \in Stripes : unit'[t] = IF t = s THEN UnitOf[r] ELSE unit[t]
      /\ \A t \in Stripes : sector'[t] = IF t = s THEN next[r] ELSE sector[t]
      /\ \A q \in Requesters : hold'[q] = IF q = r THEN s ELSE hold[q]
      /\ \A q \in Requesters : rpc'[q] = IF q = r THEN "hold" ELSE rpc[q]
  BY <1>2, <1>4 DEF TypeOK, StripeTypes, RequesterTypes
<1>7. /\ \A t \in Stripes : Held(t)' <=> t = s \/ Held(t)
      /\ \A t \in Stripes : Handled(t)' <=> Handled(t)
  BY <1>1, <1>3, <1>6 DEF Held, Handled
<1>8. RefCountsExact'
  <2>1. CountsMatch'
    BY <1>3, <1>4, <1>6, <1>7 DEF RefCountsExact, CountsMatch
  <2>2. OneHolder'
    BY <1>3, <1>4, <1>6 DEF RefCountsExact, OneHolder, Held, Handled
  <2> QED
    BY <2>1, <2>2 DEF RefCountsExact
<1>9. HandledAlone'
  BY <1>3, <1>4, <1>7, References DEF HandledAlone, Handled
<1>10. ListsMatchCounts' /\ OneStripePerSector'
  BY <1>3, <1>4, <1>6 DEF ListsMatchCounts, OneStripePerSector, TypeOK, StripeTypes
<1>11. Holders' /\ Unallocated'
  BY <1>1, <1>3, <1>4, <1>6 DEF Holders, Unallocated
<1>12. NotForgotten'
  <2>1. \A t \in pool' : req'[t] # None => (count'[t] = 0 => handle'[t]) /\ unit'[t] = UnitOf[req'[t]]
    BY <1>3, <1>4, <1>6 DEF NotForgotten, TypeOK, StripeTypes
  <2>2. \A q \in Requesters : rpc'[q] = "hold" =>
          req'[hold'[q]] = None /\ unit'[hold'[q]] = UnitOf[q]
    BY <1>3, <1>4, <1>6, References DEF NotForgotten, Held
  <2> QED
    BY <1>3, <2>1, <2>2 DEF NotForgotten
<1> QED
  BY <1>5, <1>8, <1>9, <1>10, <1>11, <1>12

(* Attaching a bio leaves the stripe to the handle list of its unit, unless *)
(* an I/O of its former round still refers to it.                           *)
LEMMA AttachInv ==
  ASSUME IInv, NEW r \in Requesters, Attach(r)
  PROVE  IInv'
<1> USE CacheAssumption DEF IInv
<1>1. PICK s \in Stripes, hd \in [Stripes -> BOOLEAN] :
        s = hold[r] /\ hd = [handle EXCEPT ![s] = TRUE]
  BY References DEF Attach, TypeOK, StripeTypes
<1>2. /\ rpc[r] = "hold" /\ s \in pool /\ s # None /\ count[s] = io[s] + 1 /\ count[s] > 0
      /\ Held(s) /\ ~ Handled(s) /\ req[s] = None /\ unit[s] = UnitOf[r]
      /\ next[r] \in First[r] .. Last[r] /\ First[r] \in Nat /\ Last[r] \in Nat
      /\ \A t \in Requesters : hold[t] = s => t = r
  <2>1. /\ rpc[r] = "hold" /\ s \in pool /\ s # None /\ count[s] = io[s] + 1
        /\ Held(s) /\ ~ Handled(s)
    BY <1>1, References DEF Attach
  <2>2. req[s] = None /\ unit[s] = UnitOf[r]
    BY <1>1, <2>1 DEF NotForgotten
  <2>3. next[r] \in First[r] .. Last[r] /\ First[r] \in Nat /\ Last[r] \in Nat
    BY DEF Holders
  <2>4. \A t \in Requesters : hold[t] = s => t = r
    BY <1>1, <2>1 DEF RefCountsExact, OneHolder
  <2>5. count[s] > 0
    BY <2>1 DEF TypeOK, StripeTypes
  <2> QED
    BY <2>1, <2>2, <2>3, <2>4, <2>5
<1>3. /\ req' = [req EXCEPT ![s] = r] /\ release_stripe(s, hd)
      /\ work' \in {[work EXCEPT ![s] = n] : n \in 0 .. MaxRounds}
      /\ remaining' = [remaining EXCEPT ![r] = @ + 1]
      /\ hold' = [hold EXCEPT ![r] = None]
      /\ \/ /\ next[r] = Last[r] /\ next' = next
            /\ rpc' = [rpc EXCEPT ![r] = "end"]
         \/ /\ next[r] # Last[r] /\ next' = [next EXCEPT ![r] = @ + 1]
            /\ rpc' = [rpc EXCEPT ![r] = "get"]
      /\ UNCHANGED <<pool, sector, unit, io, num_stripes, queue_limit, sync_limit, tpc, tsh,
                     left, admin>>
  BY <1>1 DEF Attach, limits
<1>4. PICK n \in Nat : work' = [work EXCEPT ![s] = n]
  BY <1>3
<1>5. /\ count' \in [Stripes -> Nat] /\ handle' = hd
      /\ lru' \in [Stripes -> {"none", "inactive", "handle"}]
      /\ wake' \in [Units -> BOOLEAN] /\ active_stripes' \in [Units -> Int]
      /\ asleep' \subseteq Waiters
      /\ \A t \in Stripes : count'[t] = IF t = s THEN count[t] - 1 ELSE count[t]
      /\ \A t \in Stripes \ {s} : lru'[t] = lru[t]
      /\ count[s] # 1 => lru'[s] = lru[s]
      /\ count[s] = 1 => lru'[s] = IF hd[s] THEN "handle" ELSE "inactive"
  BY <1>2, <1>3, ReleaseEffect
<1>6. /\ \A t \in Stripes : req'[t] = IF t = s THEN r ELSE req[t]
      /\ \A q \in Requesters : hold'[q] = IF q = r THEN None ELSE hold[q]
      /\ \A q \in Requesters \ {r} : rpc'[q] = rpc[q] /\ next'[q] = next[q]
      /\ rpc'[r] \in {"get", "end"} /\ next'[r] \in First[r] .. Last[r]
  <2>1. /\ \A t \in Stripes : req'[t] = IF t = s THEN r ELSE req[t]
        /\ \A q \in Requesters : hold'[q] = IF q = r THEN None ELSE hold[q]
        /\ \A q \in Requesters \ {r} : rpc'[q] = rpc[q] /\ next'[q] = next[q]
    BY <1>3 DEF TypeOK, StripeTypes, RequesterTypes
  <2>2. rpc'[r] \in {"get", "end"} /\ next'[r] \in First[r] .. Last[r]
    BY <1>2, <1>3 DEF TypeOK, RequesterTypes
  <2> QED
    BY <2>1, <2>2
<1>h. \A t \in Stripes : handle'[t] <=> t = s \/ handle[t]
  BY <1>1, <1>5 DEF TypeOK, StripeTypes
<1>7. TypeOK'
  <2>1. req' \in [Stripes -> Requesters \cup {None}] /\ work' \in [Stripes -> Nat]
    BY <1>3, <1>4 DEF TypeOK, StripeTypes
  <2>5. StripeTypes'
    BY <1>3, <1>5, <2>1 DEF TypeOK, StripeTypes
  <2>2. RequesterTypes'
    <3>1. /\ rpc \in [Requesters -> {"idle", "get", "hold", "end", "done"}]
          /\ next \in [Requesters -> Nat] /\ hold \in [Requesters -> Stripes \cup {None}]
          /\ remaining \in [Requesters -> Int]
      BY DEF TypeOK, RequesterTypes
    <3>2. rpc' \in [Requesters -> {"idle", "get", "hold", "end", "done"}]
      BY <1>3, <3>1
    <3>3. next' \in [Requesters -> Nat]
      <4>1. next[r] \in Nat
        BY <3>1
      <4> QED
        BY <1>3, <3>1, <4>1
    <3>4. hold' \in [Requesters -> Stripes \cup {None}]
      BY <1>3, <3>1
    <3>5. remaining' \in [Requesters -> Int]
      <4>1. remaining[r] + 1 \in Int
        BY <3>1
      <4> QED
        BY <1>3, <3>1, <4>1
    <3> QED
      BY <3>2, <3>3, <3>4, <3>5 DEF RequesterTypes
  <2>3. ThreadTypes'
    BY <1>3, <1>5 DEF TypeOK, ThreadTypes
  <2>4. CacheTypes'
    BY <1>3, <1>5 DEF TypeOK, CacheTypes
  <2> QED
    BY <2>2, <2>3, <2>4, <2>5 DEF TypeOK
<1>8. /\ \A t \in Stripes : Held(t)' <=> t # s /\ Held(t)
      /\ \A t \in Stripes : Handled(t)' <=> Handled(t)
  BY <1>1, <1>2, <1>3, <1>6 DEF Held, Handled
<1>9. RefCountsExact'
  <2>1. CountsMatch'
    <3>1. count[s] \in Nat /\ io[s] \in Nat
      BY DEF TypeOK, StripeTypes
    <3>2. count'[s] = io'[s] /\ ~ Held(s)' /\ ~ Handled(s)'
      BY <1>2, <1>3, <1>5, <1>8, <3>1
    <3>3. \A t \in Stripes \ {s} :
            count'[t] = count[t] /\ io'[t] = io[t] /\ (Held(t)' <=> Held(t)) /\ (Handled(t)' <=> Handled(t))
      BY <1>3, <1>5, <1>8
    <3>4. ASSUME NEW t \in Stripes
          PROVE  count'[t] = io'[t] + IF Held(t)' \/ Handled(t)' THEN 1 ELSE 0
      <4>1. CASE t = s
        BY <3>1, <3>2, <4>1, <1>3
      <4>2. CASE t # s
        BY <3>3, <4>2 DEF RefCountsExact, CountsMatch
      <4> QED
        BY <4>1, <4>2
    <3> QED
      BY <3>4 DEF CountsMatch
  <2>2. OneHolder'
    BY <1>3, <1>6 DEF RefCountsExact, OneHolder
  <2> QED
    BY <2>1, <2>2 DEF RefCountsExact
<1>10. HandledAlone'
  BY <1>3, <1>8, References DEF HandledAlone
<1>11. ListsMatchCounts' /\ OneStripePerSector'
  <2>1. OneStripePerSector'
    BY <1>3 DEF OneStripePerSector
  <2>2. lru'[s] = IF count'[s] > 0 THEN "none" ELSE "handle"
    BY <1>2, <1>5, <1>h DEF ListsMatchCounts, TypeOK, StripeTypes
  <2>3. ListsMatchCounts'
    BY <1>3, <1>5, <1>h, <2>2 DEF ListsMatchCounts, TypeOK, StripeTypes
  <2> QED
    BY <2>1, <2>3
<1>12. Holders' /\ Unallocated'
  <2>1. Holders'
    BY <1>2, <1>3, <1>6 DEF Holders
  <2>2. Unallocated'
    <3>1. \A t \in Stripes \ pool : t # s
      BY <1>2
    <3>2. \A t \in Stripes \ {s} :
            count'[t] = count[t] /\ req'[t] = req[t] /\ lru'[t] = lru[t] /\ (handle'[t] <=> handle[t])
      BY <1>5, <1>6, <1>h
    <3> QED
      BY <1>3, <3>1, <3>2 DEF Unallocated
  <2> QED
    BY <2>1, <2>2
<1>13. NotForgotten'
  <2>1. \A t \in pool' : req'[t] # None => (count'[t] = 0 => handle'[t]) /\ unit'[t] = UnitOf[req'[t]]
    <3>1. handle'[s] /\ unit'[s] = UnitOf[r] /\ req'[s] = r
      BY <1>2, <1>3, <1>6, <1>h
    <3>2. \A t \in Stripes \ {s} :
            count'[t] = count[t] /\ req'[t] = req[t] /\ (handle'[t] <=> handle[t])
      BY <1>5, <1>6, <1>h
    <3> QED
      BY <1>3, <3>1, <3>2 DEF NotForgotten, TypeOK, StripeTypes
  <2>2. \A q \in Requesters : rpc'[q] = "hold" =>
          req'[hold'[q]] = None /\ unit'[hold'[q]] = UnitOf[q]
    BY <1>2, <1>3, <1>6, References DEF NotForgotten
  <2>3. \A u \in Units : tpc'[u] = "submit" => tsh'[u] # s /\ tsh'[u] \in Stripes
    BY <1>2, <1>3, References
  <2>4. \A u \in Units : tpc'[u] = "submit" =>
          (handle'[tsh[u]] <=> handle[tsh[u]]) /\ req'[tsh[u]] = req[tsh[u]]
    BY <1>3, <1>6, <1>h, <2>3
  <2> QED
    BY <1>3, <2>1, <2>2, <2>4 DEF NotForgotten
<1> QED
  BY <1>7, <1>9, <1>10, <1>11, <1>12, <1>13

(* unraidd takes a stripe nobody refers to. *)
LEMMA TakeStripeInv ==
  ASSUME IInv, NEW u \in Units, NEW s \in Stripes, TakeStripe(u, s)
  PROVE  IInv'
<1> USE CacheAssumption DEF IInv
<1>1. /\ tpc[u] = "loop" /\ tsh[u] = None /\ s \in pool /\ lru[s] = "handle" /\ s # None
  BY DEF TakeStripe, HandleList, Holders
<1>2. /\ lru' = [lru EXCEPT ![s] = "none"] /\ handle' = [handle EXCEPT ![s] = FALSE]
      /\ count' = [count EXCEPT ![s] = @ + 1]
      /\ tpc' = [tpc EXCEPT ![u] = "handle"] /\ tsh' = [tsh EXCEPT ![u] = s]
      /\ UNCHANGED <<pool, sector, unit, req, work, io, active_stripes, num_stripes,
                     queue_limit, sync_limit, rpc, next, hold, remaining, asleep, wake, left,
                     admin>>
  BY DEF TakeStripe, limits, requesterVars
<1>3. count[s] = 0 /\ io[s] = 0 /\ ~ Held(s) /\ ~ Handled(s)
  <2>1. count[s] = 0
    BY <1>1 DEF ListsMatchCounts, TypeOK, StripeTypes
  <2> QED
    BY <2>1, References
<1>4. TypeOK'
  <2>1. StripeTypes'
    BY <1>2 DEF TypeOK, StripeTypes
  <2>2. RequesterTypes'
    BY <1>2 DEF TypeOK, RequesterTypes
  <2>3. ThreadTypes'
    BY <1>2 DEF TypeOK, ThreadTypes
  <2>4. CacheTypes'
    BY <1>2 DEF TypeOK, CacheTypes
  <2> QED
    BY <2>1, <2>2, <2>3, <2>4 DEF TypeOK
<1>5. /\ \A t \in Stripes : count'[t] = IF t = s THEN 1 ELSE count[t]
      /\ \A t \in Stripes : lru'[t] = IF t = s THEN "none" ELSE lru[t]
      /\ \A t \in Stripes \ {s} : handle'[t] = handle[t]
      /\ \A v \in Units : tsh'[v] = IF v = u THEN s ELSE tsh[v]
      /\ \A v \in Units : tpc'[v] = IF v = u THEN "handle" ELSE tpc[v]
  BY <1>2, <1>3 DEF TypeOK, StripeTypes, ThreadTypes
<1>6. /\ \A t \in Stripes : Held(t)' <=> Held(t)
      /\ \A t \in Stripes : Handled(t)' <=> t = s \/ Handled(t)
  BY <1>1, <1>2, <1>5 DEF Held, Handled
<1>7. RefCountsExact'
  <2>1. CountsMatch'
    BY <1>2, <1>3, <1>5, <1>6 DEF RefCountsExact, CountsMatch
  <2>2. OneHolder'
    BY <1>2, <1>3, <1>5 DEF RefCountsExact, OneHolder, Held, Handled
  <2> QED
    BY <2>1, <2>2 DEF RefCountsExact
<1>8. HandledAlone'
  BY <1>2, <1>3, <1>5, <1>6, References DEF HandledAlone
<1>9. ListsMatchCounts' /\ OneStripePerSector'
  BY <1>2, <1>3, <1>5 DEF ListsMatchCounts, OneStripePerSector, TypeOK, StripeTypes
<1>10. Holders' /\ Unallocated'
  BY <1>1, <1>2, <1>5 DEF Holders, Unallocated
<1>11. NotForgotten'
  <2>1. \A t \in pool' : req'[t] # None => (count'[t] = 0 => handle'[t]) /\ unit'[t] = UnitOf[req'[t]]
    BY <1>2, <1>5 DEF NotForgotten, TypeOK, StripeTypes
  <2>2. \A q \in Requesters : rpc'[q] = "hold" =>
          req'[hold'[q]] = None /\ unit'[hold'[q]] = UnitOf[q]
    BY <1>2 DEF NotForgotten
  <2>3. \A v \in Units : tpc'[v] = "submit" =>
          tpc[v] = "submit" /\ tsh'[v] = tsh[v] /\ tsh[v] # s /\ tsh[v] \in Stripes
    BY <1>3, <1>5, References DEF Handled
  <2> QED
    BY <1>2, <1>5, <2>1, <2>2, <2>3 DEF NotForgotten
<1> QED
  BY <1>4, <1>7, <1>8, <1>9, <1>10, <1>11

(* handle_stripe() completes the request only when nothing is left to do.   *)
LEMMA HandleStripeInv ==
  ASSUME IInv, NEW u \in Units, HandleStripe(u)
  PROVE  IInv'
<1> USE CacheAssumption DEF IInv
<1>1. PICK s \in Stripes : s = tsh[u] /\ s \in pool /\ s # None
  BY References DEF HandleStripe
<1>2. /\ tpc[u] = "handle" /\ tpc' = [tpc EXCEPT ![u] = "submit"]
      /\ UNCHANGED <<pool, sector, handle, count, unit, lru, io, active_stripes, num_stripes,
                     queue_limit, sync_limit, rpc, next, hold, asleep, wake, tsh, admin>>
  BY DEF HandleStripe, limits, requesterVars
<1>3. /\ io[s] = 0 /\ ~ Held(s) /\ Handled(s) /\ count[s] = 1
      /\ \A v \in Units : tsh[v] = s => v = u
  BY <1>1, <1>2, References DEF HandledAlone, RefCountsExact, OneHolder
<1>4. \/ /\ req[s] # None /\ work[s] > 0
         /\ work' = [work EXCEPT ![s] = @ - 1]
         /\ \E n \in 1 .. MaxIO : left' = [left EXCEPT ![u] = n]
         /\ UNCHANGED <<req, remaining>>
      \/ /\ req[s] # None /\ req' = [req EXCEPT ![s] = None]
         /\ remaining' = [remaining EXCEPT ![req[s]] = @ - 1]
         /\ \E n \in 0 .. 1 : left' = [left EXCEPT ![u] = n]
         /\ work' = work
      \/ /\ req[s] = None /\ left' = [left EXCEPT ![u] = 0]
         /\ UNCHANGED <<req, work, remaining>>
  BY <1>1 DEF HandleStripe
<1>5. PICK n \in Nat : left' = [left EXCEPT ![u] = n]
  BY <1>4
<1>6. /\ \A t \in Stripes \ {s} : req'[t] = req[t]
      /\ req'[s] \in {req[s], None} /\ (left'[u] = 0 => req'[s] = None)
      /\ \A v \in Units \ {u} : left'[v] = left[v]
      /\ \A v \in Units : tpc'[v] = IF v = u THEN "submit" ELSE tpc[v]
  <2>1. \A t \in Stripes \ {s} : req'[t] = req[t]
    BY <1>4 DEF TypeOK, StripeTypes
  <2>2. req'[s] \in {req[s], None} /\ (left'[u] = 0 => req'[s] = None)
    <3>1. CASE UNCHANGED req /\ \E m \in 1 .. MaxIO : left' = [left EXCEPT ![u] = m]
      BY <3>1 DEF TypeOK, ThreadTypes
    <3>2. CASE req' = [req EXCEPT ![s] = None]
      BY <3>2 DEF TypeOK, StripeTypes
    <3>3. CASE req[s] = None /\ UNCHANGED req
      BY <3>3
    <3> QED
      BY <1>4, <3>1, <3>2, <3>3
  <2>3. \A v \in Units \ {u} : left'[v] = left[v]
    BY <1>5 DEF TypeOK, ThreadTypes
  <2>4. \A v \in Units : tpc'[v] = IF v = u THEN "submit" ELSE tpc[v]
    BY <1>2 DEF TypeOK, ThreadTypes
  <2> QED
    BY <2>1, <2>2, <2>3, <2>4
<1>7. TypeOK'
  <2>1. req' \in [Stripes -> Requesters \cup {None}]
    BY <1>4 DEF TypeOK, StripeTypes
  <2>6. work' \in [Stripes -> Nat]
    BY <1>4 DEF TypeOK, StripeTypes
  <2>7. remaining' \in [Requesters -> Int]
    BY <1>4 DEF TypeOK, RequesterTypes
  <2>2. StripeTypes'
    BY <1>2, <2>1, <2>6 DEF TypeOK, StripeTypes
  <2>3. RequesterTypes'
    BY <1>2, <2>7 DEF TypeOK, RequesterTypes
  <2>4. ThreadTypes'
    BY <1>2, <1>5 DEF TypeOK, ThreadTypes
  <2>5. CacheTypes'
    BY <1>2 DEF TypeOK, CacheTypes
  <2> QED
    BY <2>2, <2>3, <2>4, <2>5 DEF TypeOK
<1>8. RefCountsExact'
  <2>1. \A t \in Stripes : (Held(t)' <=> Held(t)) /\ (Handled(t)' <=> Handled(t))
    BY <1>2 DEF Held, Handled
  <2> QED
    BY <1>2, <2>1 DEF RefCountsExact, CountsMatch, OneHolder
<1>9. HandledAlone'
  BY <1>2, <1>6 DEF HandledAlone, Held
<1>10. ListsMatchCounts' /\ OneStripePerSector'
  BY <1>2 DEF ListsMatchCounts, OneStripePerSector
<1>11. Holders' /\ Unallocated'
  <2>1. Holders'
    BY <1>1, <1>2, <1>6 DEF Holders
  <2>2. Unallocated'
    BY <1>1, <1>2, <1>6 DEF Unallocated
  <2> QED
    BY <2>1, <2>2
<1>12. NotForgotten'
  <2>1. \A t \in pool' : req'[t] # None => (count'[t] = 0 => handle'[t]) /\ unit'[t] = UnitOf[req'[t]]
    <3>1. \A t \in pool : req'[t] # None => req'[t] = req[t]
      BY <1>6 DEF TypeOK, StripeTypes
    <3> QED
      BY <1>2, <3>1 DEF NotForgotten
  <2>2. \A q \in Requesters : rpc'[q] = "hold" =>
          req'[hold'[q]] = None /\ unit'[hold'[q]] = UnitOf[q]
    BY <1>2, <1>3, <1>6, References DEF NotForgotten, Held
  <2>3. ASSUME NEW v \in Units, tpc'[v] = "submit", left'[v] = 0, io'[tsh'[v]] = 0,
               ~ handle'[tsh'[v]]
        PROVE  req'[tsh'[v]] = None
    <3>1. CASE v = u
      BY <1>1, <1>2, <1>6, <2>3, <3>1
    <3>2. CASE v # u
      <4>1. tpc[v] = "submit" /\ left[v] = 0 /\ tsh[v] \in Stripes /\ tsh[v] # s
        BY <1>3, <1>6, <2>3, <3>2, References
      <4> QED
        BY <1>2, <1>6, <2>3, <4>1 DEF NotForgotten
    <3> QED
      BY <3>1, <3>2
  <2> QED
    BY <2>1, <2>2, <2>3 DEF NotForgotten
<1> QED
  BY <1>7, <1>8, <1>9, <1>10, <1>11, <1>12

(* An I/O takes its reference before it is submitted. *)
LEMMA SubmitInv ==
  ASSUME IInv, NEW u \in Units, Submit(u)
  PROVE  IInv'
<1> USE CacheAssumption DEF IInv
<1>1. PICK s \in Stripes : s = tsh[u] /\ s \in pool /\ s # None
  BY References DEF Submit
<1>2. /\ tpc[u] = "submit" /\ left[u] > 0
      /\ count' = [count EXCEPT ![s] = @ + 1] /\ io' = [io EXCEPT ![s] = @ + 1]
      /\ left' = [left EXCEPT ![u] = @ - 1]
      /\ UNCHANGED <<pool, sector, handle, unit, lru, req, work, active_stripes, num_stripes,
                     queue_limit, sync_limit, rpc, next, hold, remaining, asleep, tpc, wake,
                     tsh, admin>>
  BY <1>1 DEF Submit, limits, requesterVars
<1>3. /\ ~ Held(s) /\ Handled(s) /\ count[s] = io[s] + 1 /\ count[s] > 0
      /\ \A v \in Units : tsh[v] = s => v = u
  <2>1. ~ Held(s) /\ Handled(s) /\ count[s] = io[s] + 1
    BY <1>1, <1>2, References
  <2>2. \A v \in Units : tsh[v] = s => v = u
    BY <1>1 DEF RefCountsExact, OneHolder
  <2>3. count[s] > 0
    BY <2>1 DEF TypeOK, StripeTypes
  <2> QED
    BY <2>1, <2>2, <2>3
<1>4. TypeOK'
  <2>1. StripeTypes'
    BY <1>2 DEF TypeOK, StripeTypes
  <2>2. RequesterTypes'
    BY <1>2 DEF TypeOK, RequesterTypes
  <2>3. ThreadTypes'
    BY <1>2 DEF TypeOK, ThreadTypes
  <2>4. CacheTypes'
    BY <1>2 DEF TypeOK, CacheTypes
  <2> QED
    BY <2>1, <2>2, <2>3, <2>4 DEF TypeOK
<1>5. /\ \A t \in Stripes : count'[t] = IF t = s THEN count[t] + 1 ELSE count[t]
      /\ \A t \in Stripes : io'[t] = IF t = s THEN io[t] + 1 ELSE io[t]
      /\ \A v \in Units \ {u} : left'[v] = left[v]
  BY <1>2 DEF TypeOK, StripeTypes, ThreadTypes
<1>6. \A t \in Stripes : count[t] \in Nat /\ io[t] \in Nat
  BY DEF TypeOK, StripeTypes
<1>7. RefCountsExact'
  <2>1. \A t \in Stripes : (Held(t)' <=> Held(t)) /\ (Handled(t)' <=> Handled(t))
    BY <1>2 DEF Held, Handled
  <2>2. ASSUME NEW t \in Stripes
        PROVE  count'[t] = io'[t] + IF Held(t)' \/ Handled(t)' THEN 1 ELSE 0
    <3>1. CASE t = s
      BY <1>3, <1>5, <1>6, <2>1, <3>1
    <3>2. CASE t # s
      BY <1>5, <2>1, <3>2 DEF RefCountsExact, CountsMatch
    <3> QED
      BY <3>1, <3>2
  <2>3. OneHolder'
    BY <1>2 DEF RefCountsExact, OneHolder
  <2> QED
    BY <2>2, <2>3 DEF RefCountsExact, CountsMatch
<1>8. HandledAlone'
  <2>1. \A v \in Units : tpc[v] = "handle" => tsh[v] # s /\ tsh[v] \in Stripes
    BY <1>2, <1>3, References
  <2> QED
    BY <1>2, <1>5, <2>1 DEF HandledAlone, Held
<1>9. ListsMatchCounts' /\ OneStripePerSector'
  <2>1. lru[s] = "none" /\ count'[s] > 0
    BY <1>1, <1>3, <1>5, <1>6 DEF ListsMatchCounts
  <2>2. ListsMatchCounts'
    BY <1>2, <1>5, <2>1 DEF ListsMatchCounts, TypeOK, StripeTypes
  <2> QED
    BY <1>2, <2>2 DEF OneStripePerSector
<1>10. Holders' /\ Unallocated'
  <2>1. Holders'
    BY <1>2 DEF Holders
  <2>2. Unallocated'
    BY <1>1, <1>2, <1>5 DEF Unallocated
  <2> QED
    BY <2>1, <2>2
<1>11. NotForgotten'
  <2>1. \A t \in pool' : req'[t] # None => (count'[t] = 0 => handle'[t]) /\ unit'[t] = UnitOf[req'[t]]
    BY <1>2, <1>5, <1>6 DEF NotForgotten, TypeOK, StripeTypes
  <2>2. \A q \in Requesters : rpc'[q] = "hold" =>
          req'[hold'[q]] = None /\ unit'[hold'[q]] = UnitOf[q]
    BY <1>2 DEF NotForgotten
  <2>3. ASSUME NEW v \in Units, tpc'[v] = "submit", left'[v] = 0, io'[tsh'[v]] = 0,
               ~ handle'[tsh'[v]]
        PROVE  req'[tsh'[v]] = None
    <3>1. v # u
      BY <1>1, <1>2, <1>5, <1>6, <2>3
    <3>2. tpc[v] = "submit" /\ left[v] = 0 /\ tsh[v] \in Stripes /\ tsh[v] # s
      BY <1>2, <1>3, <1>5, <2>3, <3>1, References
    <3> QED
      BY <1>2, <1>5, <2>3, <3>2 DEF NotForgotten
  <2> QED
    BY <2>1, <2>2, <2>3 DEF NotForgotten
<1> QED
  BY <1>4, <1>7, <1>8, <1>9, <1>10, <1>11

(* unraidd lets go of the stripe; an I/O of it may have completed before.   *)
LEMMA ReleaseHandledInv ==
  ASSUME IInv, NEW u \in Units, ReleaseHandled(u)
  PROVE  IInv'
<1> USE CacheAssumption DEF IInv
<1>1. PICK s \in Stripes, hd \in [Stripes -> BOOLEAN] :
        s = tsh[u] /\ s \in pool /\ s # None /\ hd = handle
  BY References DEF ReleaseHandled, TypeOK, StripeTypes
<1>2. /\ tpc[u] = "submit" /\ left[u] = 0 /\ release_stripe(s, hd)
      /\ tpc' = [tpc EXCEPT ![u] = "loop"] /\ tsh' = [tsh EXCEPT ![u] = None]
      /\ UNCHANGED <<pool, sector, unit, req, work, io, num_stripes, queue_limit, sync_limit,
                     left, rpc, next, hold, remaining, admin>>
  BY <1>1 DEF ReleaseHandled, limits, requesterVars
<1>3. /\ ~ Held(s) /\ Handled(s) /\ count[s] = io[s] + 1 /\ count[s] > 0
      /\ \A v \in Units : tsh[v] = s => v = u
      /\ io[s] = 0 /\ ~ handle[s] => req[s] = None
  <2>1. ~ Held(s) /\ Handled(s) /\ count[s] = io[s] + 1
    BY <1>1, <1>2, References
  <2>2. \A v \in Units : tsh[v] = s => v = u
    BY <1>1 DEF RefCountsExact, OneHolder
  <2>3. count[s] > 0
    BY <2>1 DEF TypeOK, StripeTypes
  <2>4. io[s] = 0 /\ ~ handle[s] => req[s] = None
    BY <1>1, <1>2 DEF NotForgotten
  <2> QED
    BY <2>1, <2>2, <2>3, <2>4
<1>4. /\ count' \in [Stripes -> Nat] /\ handle' = handle
      /\ lru' \in [Stripes -> {"none", "inactive", "handle"}]
      /\ wake' \in [Units -> BOOLEAN] /\ active_stripes' \in [Units -> Int]
      /\ asleep' \subseteq Waiters
      /\ \A t \in Stripes : count'[t] = IF t = s THEN count[t] - 1 ELSE count[t]
      /\ \A t \in Stripes \ {s} : lru'[t] = lru[t]
      /\ count[s] # 1 => lru'[s] = lru[s]
      /\ count[s] = 1 => lru'[s] = IF handle[s] THEN "handle" ELSE "inactive"
  BY <1>1, <1>2, <1>3, ReleaseEffect
<1>5. /\ \A v \in Units : tpc'[v] = IF v = u THEN "loop" ELSE tpc[v]
      /\ \A v \in Units : tsh'[v] = IF v = u THEN None ELSE tsh[v]
  BY <1>2 DEF TypeOK, ThreadTypes
<1>6. TypeOK'
  <2>1. StripeTypes'
    BY <1>2, <1>4 DEF TypeOK, StripeTypes
  <2>2. RequesterTypes'
    BY <1>2 DEF TypeOK, RequesterTypes
  <2>3. ThreadTypes'
    BY <1>2, <1>4 DEF TypeOK, ThreadTypes
  <2>4. CacheTypes'
    BY <1>2, <1>4 DEF TypeOK, CacheTypes
  <2> QED
    BY <2>1, <2>2, <2>3, <2>4 DEF TypeOK
<1>7. \A t \in Stripes : count[t] \in Nat /\ io[t] \in Nat
  BY DEF TypeOK, StripeTypes
<1>8. /\ \A t \in Stripes : Held(t)' <=> Held(t)
      /\ \A t \in Stripes : Handled(t)' <=> t # s /\ Handled(t)
  BY <1>1, <1>2, <1>3, <1>5 DEF Held, Handled
<1>9. RefCountsExact'
  <2>1. ASSUME NEW t \in Stripes
        PROVE  count'[t] = io'[t] + IF Held(t)' \/ Handled(t)' THEN 1 ELSE 0
    <3>1. CASE t = s
      <4>1. count'[t] = count[t] - 1 /\ io'[t] = io[t] /\ count[t] = io[t] + 1 /\ io[t] \in Nat
        BY <1>2, <1>3, <1>4, <1>7, <3>1
      <4>2. ~ Held(t)' /\ ~ Handled(t)'
        BY <1>3, <1>8, <3>1
      <4> QED
        BY <4>1, <4>2
    <3>2. CASE t # s
      BY <1>2, <1>4, <1>8, <3>2 DEF RefCountsExact, CountsMatch
    <3> QED
      BY <3>1, <3>2
  <2>2. OneHolder'
    BY <1>2, <1>5 DEF RefCountsExact, OneHolder
  <2> QED
    BY <2>1, <2>2 DEF RefCountsExact, CountsMatch
<1>10. HandledAlone'
  <2>1. \A v \in Units : tpc[v] = "handle" => io[tsh[v]] = 0 /\ tsh[v] \in Stripes
    BY References DEF HandledAlone
  <2> QED
    BY <1>2, <1>5, <1>8, <2>1 DEF HandledAlone
<1>11. ListsMatchCounts' /\ OneStripePerSector'
  <2>1. lru'[s] = IF count'[s] > 0 THEN "none" ELSE IF handle'[s] THEN "handle" ELSE "inactive"
    <3>1. lru[s] = "none" /\ count[s] \in Nat /\ count[s] > 0
      BY <1>1, <1>3, <1>7 DEF ListsMatchCounts
    <3>2. handle' = handle /\ count'[s] = count[s] - 1
      BY <1>4
    <3>3. CASE count[s] = 1
      BY <1>4, <3>1, <3>2, <3>3
    <3>4. CASE count[s] # 1
      BY <1>4, <3>1, <3>2, <3>4
    <3> QED
      BY <3>3, <3>4
  <2>2. ListsMatchCounts'
    <3>1. pool' = pool /\ pool \subseteq Stripes
      BY <1>2 DEF TypeOK, StripeTypes
    <3>2. ASSUME NEW t \in pool, t # s
          PROVE  count'[t] = count[t] /\ lru'[t] = lru[t] /\ handle'[t] = handle[t]
      BY <1>1, <1>4, <3>1, <3>2
    <3> QED
      BY <2>1, <3>1, <3>2 DEF ListsMatchCounts
  <2> QED
    BY <1>2, <2>2 DEF OneStripePerSector
<1>12. Holders' /\ Unallocated'
  <2>1. Holders'
    BY <1>2, <1>5 DEF Holders
  <2>2. \A t \in Stripes \ pool : count'[t] = count[t] /\ lru'[t] = lru[t]
    BY <1>1, <1>4
  <2>3. Unallocated'
    BY <1>2, <1>4, <2>2 DEF Unallocated
  <2> QED
    BY <2>1, <2>3
<1>13. NotForgotten'
  <2>1. \A t \in pool' : req'[t] # None => (count'[t] = 0 => handle'[t]) /\ unit'[t] = UnitOf[req'[t]]
    <3>1. count'[s] = 0 => io[s] = 0
      BY <1>3, <1>4, <1>7
    <3> QED
      BY <1>2, <1>3, <1>4, <3>1 DEF NotForgotten, TypeOK, StripeTypes
  <2>2. \A q \in Requesters : rpc'[q] = "hold" =>
          req'[hold'[q]] = None /\ unit'[hold'[q]] = UnitOf[q]
    BY <1>2 DEF NotForgotten
  <2>3. ASSUME NEW v \in Units, tpc'[v] = "submit", left'[v] = 0, io'[tsh'[v]] = 0,
               ~ handle'[tsh'[v]]
        PROVE  req'[tsh'[v]] = None
    BY <1>2, <1>4, <1>5, <2>3 DEF NotForgotten
  <2> QED
    BY <2>1, <2>2, <2>3 DEF NotForgotten
<1> QED
  BY <1>6, <1>9, <1>10, <1>11, <1>12, <1>13

(* The completion of an I/O, at any time. *)
LEMMA EndRequestInv ==
  ASSUME IInv, NEW s \in Stripes, EndRequest(s)
  PROVE  IInv'
<1> USE CacheAssumption DEF IInv
<1>1. PICK hd \in [Stripes -> BOOLEAN] : hd = [handle EXCEPT ![s] = TRUE]
  BY DEF TypeOK, StripeTypes
<1>2. /\ io[s] > 0 /\ io' = [io EXCEPT ![s] = @ - 1] /\ release_stripe(s, hd)
      /\ UNCHANGED <<pool, sector, unit, req, work, num_stripes, queue_limit, sync_limit, tpc,
                     tsh, left, rpc, next, hold, remaining, admin>>
  BY <1>1 DEF EndRequest, limits, requesterVars
<1>3. count[s] > 0 /\ s \in pool
  BY <1>2, References
<1>4. /\ count' \in [Stripes -> Nat] /\ handle' = hd
      /\ lru' \in [Stripes -> {"none", "inactive", "handle"}]
      /\ wake' \in [Units -> BOOLEAN] /\ active_stripes' \in [Units -> Int]
      /\ asleep' \subseteq Waiters
      /\ \A t \in Stripes : count'[t] = IF t = s THEN count[t] - 1 ELSE count[t]
      /\ \A t \in Stripes \ {s} : lru'[t] = lru[t]
      /\ count[s] # 1 => lru'[s] = lru[s]
      /\ count[s] = 1 => lru'[s] = IF hd[s] THEN "handle" ELSE "inactive"
  BY <1>2, <1>3, ReleaseEffect
<1>5. /\ \A t \in Stripes : io'[t] = IF t = s THEN io[t] - 1 ELSE io[t]
      /\ \A t \in Stripes : count[t] \in Nat /\ io[t] \in Nat
  BY <1>2 DEF TypeOK, StripeTypes
<1>6. handle'[s] /\ hd[s] /\ \A t \in Stripes \ {s} : handle'[t] <=> handle[t]
  BY <1>1, <1>4 DEF TypeOK, StripeTypes
<1>7. TypeOK'
  <2>1. io' \in [Stripes -> Nat]
    BY <1>2 DEF TypeOK, StripeTypes
  <2>2. StripeTypes'
    BY <1>2, <1>4, <2>1 DEF TypeOK, StripeTypes
  <2>3. RequesterTypes'
    BY <1>2 DEF TypeOK, RequesterTypes
  <2>4. ThreadTypes'
    BY <1>2, <1>4 DEF TypeOK, ThreadTypes
  <2>5. CacheTypes'
    BY <1>2, <1>4 DEF TypeOK, CacheTypes
  <2> QED
    BY <2>2, <2>3, <2>4, <2>5 DEF TypeOK
<1>8. \A t \in Stripes : (Held(t)' <=> Held(t)) /\ (Handled(t)' <=> Handled(t))
  BY <1>2 DEF Held, Handled
<1>9. RefCountsExact'
  <2>1. ASSUME NEW t \in Stripes
        PROVE  count'[t] = io'[t] + IF Held(t)' \/ Handled(t)' THEN 1 ELSE 0
    <3>1. count[t] = io[t] + IF Held(t)' \/ Handled(t)' THEN 1 ELSE 0
      BY <1>8 DEF RefCountsExact, CountsMatch
    <3>2. CASE t = s
      <4>1. count'[t] = count[t] - 1 /\ io'[t] = io[t] - 1 /\ count[t] \in Nat /\ io[t] \in Nat
        BY <1>4, <1>5, <3>2
      <4> QED
        BY <3>1, <4>1
    <3>3. CASE t # s
      BY <1>4, <1>5, <3>1, <3>3
    <3> QED
      BY <3>2, <3>3
  <2>2. OneHolder'
    BY <1>2 DEF RefCountsExact, OneHolder
  <2> QED
    BY <2>1, <2>2 DEF RefCountsExact, CountsMatch
<1>10. HandledAlone'
  <2>1. \A u \in Units : tpc[u] = "handle" => io[tsh[u]] = 0 /\ tsh[u] \in Stripes /\ ~ Held(tsh[u])
    BY References DEF HandledAlone
  <2>3. io[s] > 0
    BY <1>2
  <2>4. ASSUME NEW u \in Units, tpc[u] = "handle" PROVE io'[tsh[u]] = 0 /\ ~ Held(tsh[u])'
    <3>1. io[tsh[u]] = 0 /\ tsh[u] \in Stripes /\ ~ Held(tsh[u])
      BY <2>1, <2>4
    <3>2. tsh[u] # s
      BY <2>3, <3>1
    <3>3. io'[tsh[u]] = io[tsh[u]]
      BY <1>5, <3>1, <3>2
    <3>4. ~ Held(tsh[u])'
      <4>1. hold' = hold /\ tsh' = tsh
        BY <1>2
      <4> QED
        BY <3>1, <4>1 DEF Held
    <3> QED
      BY <3>1, <3>3, <3>4
  <2> QED
    BY <1>2, <2>4 DEF HandledAlone
<1>11. ListsMatchCounts' /\ OneStripePerSector'
  <2>1. lru'[s] = IF count'[s] > 0 THEN "none" ELSE "handle"
    BY <1>3, <1>4, <1>5, <1>6 DEF ListsMatchCounts
  <2>2. ListsMatchCounts'
    <3>1. pool' = pool /\ pool \subseteq Stripes /\ handle'[s]
      BY <1>2, <1>6 DEF TypeOK, StripeTypes
    <3>2. ASSUME NEW t \in pool, t # s
          PROVE  count'[t] = count[t] /\ lru'[t] = lru[t] /\ (handle'[t] <=> handle[t])
      BY <1>4, <1>6, <3>1, <3>2
    <3> QED
      BY <2>1, <3>1, <3>2 DEF ListsMatchCounts
  <2> QED
    BY <1>2, <2>2 DEF OneStripePerSector
<1>12. Holders' /\ Unallocated'
  <2>1. Holders'
    BY <1>2 DEF Holders
  <2>2. \A t \in Stripes \ pool : /\ count'[t] = count[t] /\ lru'[t] = lru[t] /\ io'[t] = io[t]
                                  /\ (handle'[t] <=> handle[t])
    <3>1. s \in pool
      BY <1>3
    <3>2. \A t \in Stripes \ pool : count'[t] = count[t] /\ lru'[t] = lru[t]
      BY <1>4, <3>1
    <3>3. \A t \in Stripes \ pool : io'[t] = io[t]
      BY <1>5, <3>1
    <3>4. \A t \in Stripes \ pool : handle'[t] <=> handle[t]
      BY <1>6, <3>1
    <3> QED
      BY <3>2, <3>3, <3>4
  <2>3. Unallocated'
    BY <1>2, <2>2 DEF Unallocated
  <2> QED
    BY <2>1, <2>3
<1>13. NotForgotten'
  <2>1. ASSUME NEW t \in pool', req'[t] # None
        PROVE  (count'[t] = 0 => handle'[t]) /\ unit'[t] = UnitOf[req'[t]]
    <3>1. t \in pool /\ req[t] # None /\ t \in Stripes
      BY <1>2, <2>1 DEF TypeOK, StripeTypes
    <3>2. (count[t] = 0 => handle[t]) /\ unit[t] = UnitOf[req[t]]
      BY <3>1 DEF NotForgotten
    <3>3. unit'[t] = UnitOf[req'[t]]
      BY <1>2, <3>2
    <3>4. CASE t = s
      BY <1>6, <3>3, <3>4
    <3>5. CASE t # s
      BY <1>4, <1>6, <3>1, <3>2, <3>3, <3>5
    <3> QED
      BY <3>4, <3>5
  <2>2. \A q \in Requesters : rpc'[q] = "hold" =>
          req'[hold'[q]] = None /\ unit'[hold'[q]] = UnitOf[q]
    BY <1>2 DEF NotForgotten
  <2>3. ASSUME NEW v \in Units, tpc'[v] = "submit", left'[v] = 0, io'[tsh'[v]] = 0,
               ~ handle'[tsh'[v]]
        PROVE  req'[tsh'[v]] = None
    <3>1. tpc[v] = "submit" /\ left[v] = 0 /\ tsh[v] \in Stripes /\ tsh[v] # s
      BY <1>2, <1>6, <2>3, References
    <3> QED
      BY <1>2, <1>5, <1>6, <2>3, <3>1 DEF NotForgotten
  <2> QED
    BY <2>1, <2>2, <2>3 DEF NotForgotten
<1> QED
  BY <1>7, <1>9, <1>10, <1>11, <1>12, <1>13

(* A new stripe comes in inactive. *)
LEMMA GrowStripesInv ==
  ASSUME IInv, NEW s \in Stripes, GrowStripes(s)
  PROVE  IInv'
<1> USE CacheAssumption DEF IInv
<1>1. /\ s \notin pool /\ pool' = pool \cup {s} /\ num_stripes' = num_stripes + 1
      /\ sector' = [sector EXCEPT ![s] = None] /\ unit' = [unit EXCEPT ![s] = 0]
      /\ lru' = [lru EXCEPT ![s] = "inactive"] /\ asleep' = {}
      /\ UNCHANGED <<handle, count, req, work, io, active_stripes, queue_limit, sync_limit,
                     rpc, next, hold, remaining, tpc, wake, tsh, left, admin>>
  BY DEF GrowStripes, requesterVars, threadVars
<1>2. count[s] = 0 /\ io[s] = 0 /\ ~ handle[s] /\ req[s] = None
  BY <1>1 DEF Unallocated
<1>3. 0 \in Units
  OBVIOUS
<1>4. /\ \A t \in Stripes \ {s} : sector'[t] = sector[t] /\ unit'[t] = unit[t] /\ lru'[t] = lru[t]
      /\ sector'[s] = None /\ lru'[s] = "inactive"
  BY <1>1 DEF TypeOK, StripeTypes
<1>5. TypeOK'
  <2>1. sector' \in [Stripes -> Sectors \cup {None}] /\ unit' \in [Stripes -> Units]
        /\ lru' \in [Stripes -> {"none", "inactive", "handle"}]
    BY <1>1, <1>3 DEF TypeOK, StripeTypes
  <2>2. StripeTypes'
    BY <1>1, <2>1 DEF TypeOK, StripeTypes
  <2>3. RequesterTypes'
    BY <1>1 DEF TypeOK, RequesterTypes
  <2>4. ThreadTypes'
    BY <1>1 DEF TypeOK, ThreadTypes
  <2>5. CacheTypes'
    BY <1>1 DEF TypeOK, CacheTypes
  <2> QED
    BY <2>2, <2>3, <2>4, <2>5 DEF TypeOK
<1>6. RefCountsExact'
  <2>1. \A t \in Stripes : (Held(t)' <=> Held(t)) /\ (Handled(t)' <=> Handled(t))
    BY <1>1 DEF Held, Handled
  <2> QED
    BY <1>1, <2>1 DEF RefCountsExact, CountsMatch, OneHolder
<1>7. HandledAlone'
  BY <1>1 DEF HandledAlone, Held
<1>8. ListsMatchCounts' /\ OneStripePerSector'
  <2>1. ListsMatchCounts'
    BY <1>1, <1>2, <1>4 DEF ListsMatchCounts, TypeOK, StripeTypes
  <2>2. OneStripePerSector'
    BY <1>1, <1>4 DEF OneStripePerSector, TypeOK, StripeTypes
  <2> QED
    BY <2>1, <2>2
<1>9. Holders' /\ Unallocated'
  BY <1>1, <1>4 DEF Holders, Unallocated
<1>10. NotForgotten'
  <2>1. \A t \in pool' : req'[t] # None => (count'[t] = 0 => handle'[t]) /\ unit'[t] = UnitOf[req'[t]]
    BY <1>1, <1>2, <1>4 DEF NotForgotten, TypeOK, StripeTypes
  <2>2. \A q \in Requesters : rpc'[q] = "hold" =>
          req'[hold'[q]] = None /\ unit'[hold'[q]] = UnitOf[q]
    BY <1>1, <1>4, References DEF NotForgotten
  <2>3. \A v \in Units : tpc[v] = "submit" /\ left[v] = 0 /\ io[tsh[v]] = 0 /\ ~ handle[tsh[v]]
                         => req[tsh[v]] = None
    BY DEF NotForgotten
  <2> QED
    BY <1>1, <2>1, <2>2, <2>3 DEF NotForgotten
<1> QED
  BY <1>5, <1>6, <1>7, <1>8, <1>9, <1>10

(* Only an inactive stripe is freed. *)
LEMMA ShrinkStripesInv ==
  ASSUME IInv, NEW s \in Stripes, ShrinkStripes(s)
  PROVE  IInv'
<1> USE CacheAssumption DEF IInv
<1>1. /\ s \in pool /\ lru[s] = "inactive"
      /\ pool' = pool \ {s} /\ num_stripes' = num_stripes - 1
      /\ sector' = [sector EXCEPT ![s] = None] /\ lru' = [lru EXCEPT ![s] = "none"]
      /\ UNCHANGED <<handle, count, unit, req, work, io, active_stripes, queue_limit,
                     sync_limit, rpc, next, hold, remaining, asleep, tpc, wake, tsh, left,
                     admin>>
  BY DEF ShrinkStripes, Inactive, requesterVars, threadVars
<1>2. count[s] = 0 /\ io[s] = 0 /\ ~ handle[s] /\ req[s] = None /\ ~ Held(s) /\ ~ Handled(s)
  <2>1. count[s] = 0 /\ ~ handle[s]
    BY <1>1 DEF ListsMatchCounts, TypeOK, StripeTypes
  <2>2. io[s] = 0 /\ ~ Held(s) /\ ~ Handled(s)
    BY <2>1, References
  <2>3. req[s] = None
    BY <1>1, <2>1 DEF NotForgotten
  <2> QED
    BY <2>1, <2>2, <2>3
<1>3. /\ \A t \in Stripes \ {s} : sector'[t] = sector[t] /\ lru'[t] = lru[t]
      /\ sector'[s] = None /\ lru'[s] = "none"
  BY <1>1 DEF TypeOK, StripeTypes
<1>4. TypeOK'
  <2>1. sector' \in [Stripes -> Sectors \cup {None}]
        /\ lru' \in [Stripes -> {"none", "inactive", "handle"}]
    BY <1>1 DEF TypeOK, StripeTypes
  <2>2. StripeTypes'
    BY <1>1, <2>1 DEF TypeOK, StripeTypes
  <2>3. RequesterTypes'
    BY <1>1 DEF TypeOK, RequesterTypes
  <2>4. ThreadTypes'
    BY <1>1 DEF TypeOK, ThreadTypes
  <2>5. CacheTypes'
    BY <1>1 DEF TypeOK, CacheTypes
  <2> QED
    BY <2>2, <2>3, <2>4, <2>5 DEF TypeOK
<1>5. RefCountsExact'
  <2>1. \A t \in Stripes : (Held(t)' <=> Held(t)) /\ (Handled(t)' <=> Handled(t))
    BY <1>1 DEF Held, Handled
  <2> QED
    BY <1>1, <2>1 DEF RefCountsExact, CountsMatch, OneHolder
<1>6. HandledAlone'
  BY <1>1 DEF HandledAlone, Held
<1>7. ListsMatchCounts' /\ OneStripePerSector'
  <2>1. ListsMatchCounts'
    BY <1>1, <1>3 DEF ListsMatchCounts, TypeOK, StripeTypes
  <2>2. OneStripePerSector'
    BY <1>1, <1>3 DEF OneStripePerSector, TypeOK, StripeTypes
  <2> QED
    BY <2>1, <2>2
<1>8. Holders' /\ Unallocated'
  <2>1. \A r \in Requesters : hold[r] # s
    BY <1>2 DEF Held
  <2>2. \A u \in Units : tsh[u] # s
    BY <1>2 DEF Handled
  <2>3. Holders'
    BY <1>1, <2>1, <2>2 DEF Holders
  <2>4. Unallocated'
    <3>1. \A t \in Stripes : t # s /\ t \notin pool =>
            count[t] = 0 /\ io[t] = 0 /\ ~ handle[t] /\ req[t] = None /\ lru[t] = "none"
      BY DEF Unallocated
    <3> QED
      BY <1>1, <1>2, <1>3, <3>1 DEF Unallocated
  <2> QED
    BY <2>3, <2>4
<1>9. NotForgotten'
  <2>1. \A v \in Units : tpc[v] = "submit" /\ left[v] = 0 /\ io[tsh[v]] = 0 /\ ~ handle[tsh[v]]
                         => req[tsh[v]] = None
    BY DEF NotForgotten
  <2> QED
    BY <1>1, <2>1 DEF NotForgotten
<1> QED
  BY <1>4, <1>5, <1>6, <1>7, <1>8, <1>9

(* The steps of which Bystander speaks. *)
LEMMA BystanderInv ==
  ASSUME IInv,
         \/ \E r \in Requesters : NoStripe(r) \/ EndRequester(r) \/ StartRequester(r)
         \/ \E u \in Units : WakeThread(u) \/ ThreadSleeps(u)
         \/ \E n \in StripeCounts : SetNumStripes(n)
         \/ \E q \in QueueLimits, y \in SyncLimits : SetLimits(q, y)
         \/ ShrinkWaits \/ SizeReached \/ UNCHANGED vars
  PROVE  IInv'
<1> USE DEF IInv, TypeOK, StripeTypes, RequesterTypes, ThreadTypes, CacheTypes,
            stripeVars, requesterVars, threadVars, limits
<1>1. ASSUME NEW r \in Requesters, NoStripe(r) PROVE IInv'
  <2>1. /\ rpc[r] = "get" /\ asleep' \subseteq Waiters
        /\ rpc' = [rpc EXCEPT ![r] = "end"] \/ rpc' = rpc
        /\ UNCHANGED <<stripeVars, active_stripes, limits, next, hold, remaining, threadVars,
                       admin>>
    BY <1>1 DEF NoStripe, Waiters
  <2>2. rpc' \in [Requesters -> {"idle", "get", "hold", "end", "done"}]
    BY <2>1
  <2>3. TypeOK'
    BY <2>1, <2>2
  <2>4. \A t \in Requesters : rpc'[t] = "hold" <=> rpc[t] = "hold"
    BY <2>1
  <2> HIDE DEF IInv, TypeOK
  <2> QED
    BY <2>1, <2>3, <2>4, Bystander
<1>2. ASSUME NEW r \in Requesters, EndRequester(r) \/ StartRequester(r) PROVE IInv'
  <2>1. /\ rpc[r] # "hold"
        /\ rpc' = [rpc EXCEPT ![r] = "done"] \/ rpc' = [rpc EXCEPT ![r] = "get"]
        /\ UNCHANGED <<stripeVars, active_stripes, limits, next, hold, asleep, threadVars,
                       admin>>
    BY <1>2 DEF EndRequester, StartRequester
  <2>2. rpc' \in [Requesters -> {"idle", "get", "hold", "end", "done"}]
    BY <2>1
  <2>3. remaining' \in [Requesters -> Int]
    BY <1>2 DEF EndRequester, StartRequester
  <2>4. TypeOK'
    BY <2>1, <2>2, <2>3
  <2>5. \A t \in Requesters : rpc'[t] = "hold" <=> rpc[t] = "hold"
    BY <2>1
  <2> HIDE DEF IInv, TypeOK
  <2> QED
    BY <2>1, <2>4, <2>5, Bystander
<1>3. ASSUME NEW u \in Units, WakeThread(u) \/ ThreadSleeps(u) PROVE IInv'
  <2>1. /\ tpc[u] \in {"sleep", "loop"}
        /\ \E p \in {"sleep", "loop"} : tpc' = [tpc EXCEPT ![u] = p]
        /\ wake' \in [Units -> BOOLEAN]
        /\ UNCHANGED <<stripeVars, active_stripes, limits, requesterVars, remaining, asleep,
                       tsh, left, admin>>
    BY <1>3 DEF WakeThread, ThreadSleeps
  <2>2. TypeOK'
    BY <2>1
  <2>3. \A v \in Units : tpc'[v] = tpc[v] \/ {tpc[v], tpc'[v]} \subseteq {"sleep", "loop"}
    BY <2>1
  <2> HIDE DEF IInv, TypeOK
  <2> QED
    BY <2>1, <2>2, <2>3, Bystander
<1>4. ASSUME \/ \E n \in StripeCounts : SetNumStripes(n)
             \/ \E q \in QueueLimits, y \in SyncLimits : SetLimits(q, y)
             \/ ShrinkWaits \/ SizeReached \/ UNCHANGED vars
      PROVE  IInv'
  <2>1. /\ UNCHANGED <<stripeVars, active_stripes, num_stripes, requesterVars, remaining,
                       threadVars>>
        /\ asleep' \subseteq Waiters /\ admin' \in StripeCounts \cup {None}
        /\ queue_limit' \in QueueLimits /\ sync_limit' \in SyncLimits
    BY <1>4 DEF SetNumStripes, SetLimits, ShrinkWaits, SizeReached, vars, Waiters
  <2>2. TypeOK'
    BY <2>1
  <2> HIDE DEF IInv, TypeOK
  <2> QED
    BY <2>1, <2>2, Bystander
<1> QED
  BY <1>1, <1>2, <1>3, <1>4

(* Every step preserves the invariant. *)
LEMMA NextInv == IInv /\ [Next]_vars => IInv'
<1> SUFFICES ASSUME IInv, [Next]_vars PROVE IInv'
  OBVIOUS
<1>1. ASSUME NEW r \in Requesters, StartRequester(r) \/ Request(r) PROVE IInv'
  BY <1>1, BystanderInv, GetStripeInv, AttachInv DEF Request
<1>2. ASSUME NEW u \in Units, Thread(u) PROVE IInv'
  BY <1>2, BystanderInv, HandleStripeInv, SubmitInv, ReleaseHandledInv, TakeStripeInv DEF Thread
<1>3. ASSUME NEW s \in Stripes, EndRequest(s) PROVE IInv'
  BY <1>3, EndRequestInv
<1>4. ASSUME Resize PROVE IInv'
  BY <1>4, BystanderInv, GrowStripesInv, ShrinkStripesInv DEF Resize
<1> QED
  BY <1>1, <1>2, <1>3, <1>4, BystanderInv DEF Next

---------------------------------------------------------------------------
(* Every reachable state satisfies the inductive invariant.                 *)
THEOREM CacheInvariant == Spec => []IInv
BY InitInv, NextInv, PTL DEF Spec

(* Every variable keeps its type; no count goes below zero.                 *)
THEOREM CacheTypeOK == Spec => []TypeOK
<1>1. IInv => TypeOK
  BY DEF IInv
<1> QED
  BY <1>1, CacheInvariant, PTL

(* sh->count is the number of those who refer to the stripe, at any size of *)
(* the cache and any number of disks: no stripe is freed or reused under    *)
(* the hands of unraidd, a requester or an I/O.                             *)
THEOREM CacheRefCountsExact == Spec => []RefCountsExact
<1>1. IInv => RefCountsExact
  BY DEF IInv
<1> QED
  BY <1>1, CacheInvariant, PTL

(* handle_stripe() works on buffers that no I/O is reading or writing, and  *)
(* no two threads work on the same stripe.                                  *)
THEOREM CacheHandledAlone == Spec => []HandledAlone
<1>1. IInv => HandledAlone
  BY DEF IInv
<1> QED
  BY <1>1, CacheInvariant, PTL

(* The list of a stripe follows from its count and STRIPE_HANDLE.           *)
THEOREM CacheListsMatchCounts == Spec => []ListsMatchCounts
<1>1. IInv => ListsMatchCounts
  BY DEF IInv
<1> QED
  BY <1>1, CacheInvariant, PTL

(* find_stripe() never has two answers.                                     *)
THEOREM CacheOneStripePerSector == Spec => []OneStripePerSector
<1>1. IInv => OneStripePerSector
  BY DEF IInv
<1> QED
  BY <1>1, CacheInvariant, PTL

(* The BUG_ONs of sanity_check() do not fire for an inactive stripe.        *)
THEOREM CacheInactiveIdle == Spec => []InactiveIdle
<1>1. IInv => InactiveIdle
  <2> SUFFICES ASSUME IInv PROVE InactiveIdle
    OBVIOUS
  <2> USE DEF IInv
  <2>1. ASSUME NEW s \in Inactive PROVE req[s] = None /\ io[s] = 0 /\ ~ handle[s]
    <3>1. s \in pool /\ s \in Stripes /\ lru[s] = "inactive"
      BY DEF Inactive, TypeOK, StripeTypes
    <3>2. count[s] = 0 /\ ~ handle[s]
      BY <3>1 DEF ListsMatchCounts, TypeOK, StripeTypes
    <3>3. req[s] = None
      BY <3>1, <3>2 DEF NotForgotten
    <3> QED
      BY <3>1, <3>2, <3>3, References
  <2>2. \A s \in pool : req[s] # None => unit[s] = UnitOf[req[s]]
    BY DEF NotForgotten
  <2> QED
    BY <2>1, <2>2 DEF InactiveIdle
<1> QED
  BY <1>1, CacheInvariant, PTL

-----------------------------------------------------------------------------
(* The counters: what stripe_limit() decides by, and what decides that a   *)
(* bio is answered.                                                        *)

USE DEF Units

ActiveOf(u) == {s \in pool \ Inactive : unit[s] = u}
Attached(r) == {s \in pool : req[s] = r}

(* Nothing is attached for a request that has not arrived.                  *)
NotYetAttached == \A r \in Requesters : rpc[r] = "idle" => Attached(r) = {}

(* Whoever still attaches the bio counts as one.                            *)
Attaching(r) == IF rpc[r] \in {"get", "hold", "end"} THEN 1 ELSE 0
BioCounted(r) == remaining[r] = Cardinality(Attached(r)) + Attaching(r)

Counts == ActiveStripesExact /\ BioCountsExact /\ NotYetAttached

(* The stripes of the pool, and any part of them, can be counted.           *)
LEMMA PoolFinite ==
  ASSUME IInv
  PROVE  /\ pool \subseteq Stripes
         /\ \A S \in SUBSET pool : IsFiniteSet(S) /\ Cardinality(S) \in Nat
         /\ \A u : ActiveOf(u) \in SUBSET pool
         /\ \A r : Attached(r) \in SUBSET pool
<1>1. pool \subseteq Stripes
  BY DEF IInv, TypeOK, StripeTypes
<1>2. ASSUME NEW S \in SUBSET pool
      PROVE  IsFiniteSet(S) /\ Cardinality(S) \in Nat
  BY <1>1, LimitsAssumption, FS_Subset, FS_CardinalityType
<1> QED
  BY <1>1, <1>2 DEF ActiveOf, Attached

(* A stripe on the inactive list is referenced by nobody.                   *)
LEMMA InactiveUnused ==
  ASSUME IInv, NEW s \in pool, lru[s] = "inactive"
  PROVE  count[s] = 0 /\ req[s] = None
<1> USE DEF IInv
<1>1. s \in Stripes
  BY DEF TypeOK, StripeTypes
<1>2. count[s] = 0 /\ ~ handle[s]
  BY <1>1 DEF ListsMatchCounts, TypeOK, StripeTypes
<1> QED
  BY <1>2 DEF NotForgotten

(* The counts of all requests, one by one.                                  *)
LEMMA BioCountedEach ==
  /\ BioCountsExact <=> \A r \in Requesters : BioCounted(r)
  /\ BioCountsExact' <=> \A r \in Requesters : BioCounted(r)'
BY DEF BioCountsExact, BioCounted, Attached, Attaching

(* A step that leaves the sets alone leaves the counters alone.             *)
LEMMA SameActive ==
  ASSUME ActiveStripesExact, UNCHANGED <<active_stripes, num_stripes, pool>>,
         \A u \in Units : ActiveOf(u)' = ActiveOf(u)
  PROVE  ActiveStripesExact'
BY DEF ActiveStripesExact, ActiveOf

(* A step that attaches and completes nothing keeps them.                   *)
LEMMA SameAttached ==
  ASSUME BioCountsExact, NotYetAttached, UNCHANGED <<remaining, req, pool>>,
         \A r \in Requesters : /\ rpc[r] = "idle" <=> rpc'[r] = "idle"
                               /\ rpc[r] \in {"get", "hold", "end"}
                                  <=> rpc'[r] \in {"get", "hold", "end"}
  PROVE  BioCountsExact' /\ NotYetAttached'
BY DEF BioCountsExact, NotYetAttached, Attached

---------------------------------------------------------------------------
(* active_stripes. *)

(* _release_stripe() counts down exactly when the stripe becomes inactive.  *)
LEMMA ReleaseActive ==
  ASSUME IInv, ActiveStripesExact, NEW s \in pool, count[s] > 0,
         NEW hd, hd \in [Stripes -> BOOLEAN], release_stripe(s, hd),
         UNCHANGED <<pool, unit, num_stripes>>
  PROVE  ActiveStripesExact'
<1>0. s \in Stripes /\ unit[s] \in Units /\ lru[s] = "none"
  BY PoolFinite DEF IInv, TypeOK, StripeTypes, ListsMatchCounts
<1>1. /\ \A t \in Stripes \ {s} : lru'[t] = lru[t]
      /\ count[s] # 1 => lru'[s] = lru[s]
      /\ count[s] = 1 => lru'[s] = IF hd[s] THEN "handle" ELSE "inactive"
  BY <1>0, ReleaseEffect
<1>2. CASE count[s] = 1 /\ ~ hd[s]
  <2>1. active_stripes' = [active_stripes EXCEPT ![unit[s]] = @ - 1]
    BY <1>2 DEF release_stripe
  <2>2. \A u \in Units : ActiveOf(u)' = IF u = unit[s] THEN ActiveOf(u) \ {s} ELSE ActiveOf(u)
    BY <1>0, <1>1, <1>2, PoolFinite DEF ActiveOf, Inactive
  <2>3. s \in ActiveOf(unit[s]) /\ IsFiniteSet(ActiveOf(unit[s]))
    BY <1>0, PoolFinite DEF ActiveOf, Inactive
  <2>4. Cardinality(ActiveOf(unit[s]) \ {s}) = Cardinality(ActiveOf(unit[s])) - 1
    BY <2>3, FS_RemoveElement
  <2>5. \A u \in Units : active_stripes'[u] = Cardinality(ActiveOf(u)')
    BY <1>0, <2>1, <2>2, <2>4 DEF ActiveStripesExact, ActiveOf, IInv, TypeOK, CacheTypes
  <2> QED
    BY <2>5 DEF ActiveStripesExact, ActiveOf
<1>3. CASE ~ (count[s] = 1 /\ ~ hd[s])
  <2>1. active_stripes' = active_stripes
    BY <1>3 DEF release_stripe
  <2>2. lru'[s] # "inactive"
    BY <1>0, <1>1, <1>3
  <2>3. \A u \in Units : ActiveOf(u)' = ActiveOf(u)
    BY <1>0, <1>1, <2>2, PoolFinite DEF ActiveOf, Inactive
  <2> QED
    BY <2>1, <2>3, SameActive
<1> QED
  BY <1>2, <1>3

(* get_active_stripe() counts the stripe it takes from the list.            *)
LEMMA GetStripeActive ==
  ASSUME IInv, ActiveStripesExact, NEW r \in Requesters, GetStripe(r)
  PROVE  ActiveStripesExact'
<1>0. UnitOf[r] \in Units /\ next[r] \in Sectors
  BY CacheAssumption DEF IInv, Holders
<1>1. PICK s \in Available(UnitOf[r], next[r]) :
        /\ lru' = [lru EXCEPT ![s] = "none"] /\ unit' = [unit EXCEPT ![s] = UnitOf[r]]
  BY DEF GetStripe
<1>2. /\ active_stripes' = [active_stripes EXCEPT ![UnitOf[r]] = @ + 1]
      /\ UNCHANGED <<pool, num_stripes>>
  BY DEF GetStripe, limits
<1>3. s \in pool /\ s \in Stripes /\ lru[s] = "inactive"
  BY <1>0, AvailableIdle DEF IInv, ListsMatchCounts, TypeOK, StripeTypes
<1>4. /\ \A t \in Stripes : lru'[t] = IF t = s THEN "none" ELSE lru[t]
      /\ \A t \in Stripes : unit'[t] = IF t = s THEN UnitOf[r] ELSE unit[t]
  BY <1>1 DEF IInv, TypeOK, StripeTypes
<1>5. \A u \in Units : ActiveOf(u)' = IF u = UnitOf[r] THEN ActiveOf(u) \cup {s} ELSE ActiveOf(u)
  BY <1>2, <1>3, <1>4, PoolFinite DEF ActiveOf, Inactive
<1>6. s \notin ActiveOf(UnitOf[r]) /\ IsFiniteSet(ActiveOf(UnitOf[r]))
  BY <1>3, PoolFinite DEF ActiveOf, Inactive
<1>7. Cardinality(ActiveOf(UnitOf[r]) \cup {s}) = Cardinality(ActiveOf(UnitOf[r])) + 1
  BY <1>6, FS_AddElement
<1>8. \A u \in Units : active_stripes'[u] = Cardinality(ActiveOf(u)')
  BY <1>0, <1>2, <1>5, <1>7 DEF ActiveStripesExact, ActiveOf, IInv, TypeOK, CacheTypes
<1> QED
  BY <1>2, <1>8 DEF ActiveStripesExact, ActiveOf

(* A stripe that is added or freed is not an active one.                    *)
LEMMA ResizeActive ==
  ASSUME IInv, ActiveStripesExact, NEW s \in Stripes, GrowStripes(s) \/ ShrinkStripes(s)
  PROVE  ActiveStripesExact'
<1>0. IsFiniteSet(pool)
  BY PoolFinite
<1>1. CASE GrowStripes(s)
  <2>1. /\ s \notin pool /\ pool' = pool \cup {s} /\ num_stripes' = num_stripes + 1
        /\ lru' = [lru EXCEPT ![s] = "inactive"] /\ unit' = [unit EXCEPT ![s] = 0]
        /\ UNCHANGED active_stripes
    BY <1>1 DEF GrowStripes
  <2>2. Cardinality(pool') = Cardinality(pool) + 1
    BY <1>0, <2>1, FS_AddElement
  <2>3. \A u \in Units : ActiveOf(u)' = ActiveOf(u)
    BY <2>1, PoolFinite DEF ActiveOf, Inactive, IInv, TypeOK, StripeTypes
  <2> QED
    BY <2>1, <2>2, <2>3 DEF ActiveStripesExact, ActiveOf
<1>2. CASE ShrinkStripes(s)
  <2>1. /\ s \in pool /\ lru[s] = "inactive" /\ pool' = pool \ {s}
        /\ num_stripes' = num_stripes - 1 /\ lru' = [lru EXCEPT ![s] = "none"]
        /\ UNCHANGED <<unit, active_stripes>>
    BY <1>2 DEF ShrinkStripes, Inactive
  <2>2. Cardinality(pool') = Cardinality(pool) - 1
    BY <1>0, <2>1, FS_RemoveElement
  <2>3. \A u \in Units : ActiveOf(u)' = ActiveOf(u)
    BY <2>1, PoolFinite DEF ActiveOf, Inactive, IInv, TypeOK, StripeTypes
  <2> QED
    BY <2>1, <2>2, <2>3 DEF ActiveStripesExact, ActiveOf
<1> QED
  BY <1>1, <1>2

(* Every step keeps the number of active stripes right.                     *)
LEMMA ActiveNext ==
  ASSUME IInv, ActiveStripesExact, [Next]_vars
  PROVE  ActiveStripesExact'
<1> USE DEF IInv
<1>1. ASSUME NEW r \in Requesters, StartRequester(r) \/ NoStripe(r) \/ EndRequester(r)
      PROVE  ActiveStripesExact'
  <2>1. UNCHANGED <<active_stripes, num_stripes, pool, lru, unit>>
    BY <1>1 DEF StartRequester, NoStripe, EndRequester, stripeVars, limits
  <2> QED
    BY <2>1 DEF ActiveStripesExact, Inactive
<1>2. ASSUME NEW r \in Requesters, GetStripe(r)
      PROVE  ActiveStripesExact'
  BY <1>2, GetStripeActive
<1>3. ASSUME NEW r \in Requesters, Attach(r)
      PROVE  ActiveStripesExact'
  <2>1. /\ hold[r] \in pool /\ count[hold[r]] > 0
        /\ [handle EXCEPT ![hold[r]] = TRUE] \in [Stripes -> BOOLEAN]
    BY <1>3, References DEF Attach, TypeOK, StripeTypes
  <2>2. /\ release_stripe(hold[r], [handle EXCEPT ![hold[r]] = TRUE])
        /\ UNCHANGED <<pool, unit, num_stripes>>
    BY <1>3 DEF Attach, limits
  <2> QED
    BY <2>1, <2>2, ReleaseActive
<1>4. ASSUME NEW u \in Units, WakeThread(u) \/ ThreadSleeps(u) \/ HandleStripe(u) \/ Submit(u)
      PROVE  ActiveStripesExact'
  <2>1. UNCHANGED <<active_stripes, num_stripes, pool, lru, unit>>
    BY <1>4 DEF WakeThread, ThreadSleeps, HandleStripe, Submit, stripeVars, limits
  <2> QED
    BY <2>1 DEF ActiveStripesExact, Inactive
<1>5. ASSUME NEW u \in Units, ReleaseHandled(u)
      PROVE  ActiveStripesExact'
  <2>1. tsh[u] \in pool /\ count[tsh[u]] > 0 /\ handle \in [Stripes -> BOOLEAN]
    BY <1>5, References DEF ReleaseHandled, TypeOK, StripeTypes
  <2>2. release_stripe(tsh[u], handle) /\ UNCHANGED <<pool, unit, num_stripes>>
    BY <1>5 DEF ReleaseHandled, limits
  <2> QED
    BY <2>1, <2>2, ReleaseActive
<1>6. ASSUME NEW u \in Units, NEW s \in Stripes, TakeStripe(u, s)
      PROVE  ActiveStripesExact'
  <2>1. /\ lru[s] = "handle" /\ lru' = [lru EXCEPT ![s] = "none"]
        /\ UNCHANGED <<active_stripes, num_stripes, pool, unit>>
    BY <1>6 DEF TakeStripe, HandleList, limits
  <2>2. \A v \in Units : ActiveOf(v)' = ActiveOf(v)
    BY <2>1, PoolFinite DEF ActiveOf, Inactive, TypeOK, StripeTypes
  <2> QED
    BY <2>1, <2>2, SameActive
<1>7. ASSUME NEW s \in Stripes, EndRequest(s)
      PROVE  ActiveStripesExact'
  <2>1. /\ s \in pool /\ count[s] > 0
        /\ [handle EXCEPT ![s] = TRUE] \in [Stripes -> BOOLEAN]
    BY <1>7, References DEF EndRequest, TypeOK, StripeTypes
  <2>2. release_stripe(s, [handle EXCEPT ![s] = TRUE]) /\ UNCHANGED <<pool, unit, num_stripes>>
    BY <1>7 DEF EndRequest, limits
  <2> QED
    BY <2>1, <2>2, ReleaseActive
<1>8. ASSUME NEW s \in Stripes, GrowStripes(s) \/ ShrinkStripes(s)
      PROVE  ActiveStripesExact'
  BY <1>8, ResizeActive
<1>9. CASE \/ \E n \in StripeCounts : SetNumStripes(n)
           \/ \E q \in QueueLimits, y \in SyncLimits : SetLimits(q, y)
           \/ ShrinkWaits \/ SizeReached \/ UNCHANGED vars
  <2>1. UNCHANGED <<active_stripes, num_stripes, pool, lru, unit>>
    BY <1>9 DEF SetNumStripes, SetLimits, ShrinkWaits, SizeReached, stripeVars, limits, vars
  <2> QED
    BY <2>1 DEF ActiveStripesExact, Inactive
<1> QED
  BY <1>1, <1>2, <1>3, <1>4, <1>5, <1>6, <1>7, <1>8, <1>9 DEF Next, Request, Thread, Resize

---------------------------------------------------------------------------
(* remaining. *)

(* A stripe that a request is attached to counts as one that remains.       *)
LEMMA AttachCounts ==
  ASSUME IInv, Counts, NEW r \in Requesters, Attach(r)
  PROVE  BioCountsExact' /\ NotYetAttached'
<1> USE DEF Counts
<1>1. PICK s \in pool : s = hold[r] /\ s \in Stripes /\ req[s] = None /\ rpc[r] = "hold"
  BY References DEF Attach, IInv, NotForgotten
<1>2. /\ req' = [req EXCEPT ![s] = r] /\ remaining' = [remaining EXCEPT ![r] = @ + 1]
      /\ rpc' = [rpc EXCEPT ![r] = "end"] \/ rpc' = [rpc EXCEPT ![r] = "get"]
      /\ UNCHANGED pool
  BY <1>1 DEF Attach
<1>3. /\ \A t \in Stripes : req'[t] = IF t = s THEN r ELSE req[t]
      /\ \A q \in Requesters \ {r} : rpc'[q] = rpc[q] /\ remaining'[q] = remaining[q]
      /\ rpc'[r] \in {"end", "get"} /\ remaining'[r] = remaining[r] + 1
      /\ remaining[r] \in Int /\ r # None
  BY <1>1, <1>2, CacheAssumption DEF IInv, TypeOK, StripeTypes, RequesterTypes
<1>4. \A q \in Requesters : Attached(q)' = IF q = r THEN Attached(q) \cup {s} ELSE Attached(q)
  BY <1>1, <1>2, <1>3, PoolFinite, CacheAssumption DEF Attached
<1>5. s \notin Attached(r) /\ IsFiniteSet(Attached(r)) /\ Cardinality(Attached(r)) \in Nat
  BY <1>1, <1>3, PoolFinite DEF Attached
<1>6. Cardinality(Attached(r) \cup {s}) = Cardinality(Attached(r)) + 1
  BY <1>5, FS_AddElement
<1>7. BioCounted(r)'
  <2>1. BioCounted(r) /\ Attached(r)' = Attached(r) \cup {s}
    BY <1>4, BioCountedEach
  <2> QED
    BY <1>1, <1>3, <1>5, <1>6, <2>1 DEF BioCounted, Attaching
<1>8. \A q \in Requesters \ {r} : BioCounted(q)'
  BY <1>3, <1>4, BioCountedEach DEF BioCounted, Attaching
<1>9. NotYetAttached'
  BY <1>3, <1>4 DEF NotYetAttached
<1> QED
  BY <1>7, <1>8, <1>9, BioCountedEach

(* A stripe that is handled takes one off.                                  *)
LEMMA HandleCounts ==
  ASSUME IInv, Counts, NEW u \in Units, HandleStripe(u)
  PROVE  BioCountsExact' /\ NotYetAttached'
<1> USE DEF Counts
<1>1. PICK s \in pool : s = tsh[u] /\ s \in Stripes
  BY References DEF HandleStripe
<1>2. UNCHANGED <<pool, rpc>>
  BY DEF HandleStripe, requesterVars
<1>3. CASE UNCHANGED <<req, remaining>>
  BY <1>2, <1>3, SameAttached
<1>4. CASE /\ req[s] # None /\ req' = [req EXCEPT ![s] = None]
           /\ remaining' = [remaining EXCEPT ![req[s]] = @ - 1]
  <2>1. PICK r \in Requesters : r = req[s]
    BY <1>4 DEF IInv, TypeOK, StripeTypes
  <2>2. /\ \A t \in Stripes : req'[t] = IF t = s THEN None ELSE req[t]
        /\ \A q \in Requesters \ {r} : remaining'[q] = remaining[q]
        /\ remaining'[r] = remaining[r] - 1 /\ remaining[r] \in Int
    BY <1>4, <2>1 DEF IInv, TypeOK, StripeTypes, RequesterTypes
  <2>3. \A q \in Requesters : Attached(q)' = IF q = r THEN Attached(q) \ {s} ELSE Attached(q)
    BY <1>1, <1>2, <2>1, <2>2, PoolFinite, CacheAssumption DEF Attached
  <2>4. s \in Attached(r) /\ IsFiniteSet(Attached(r)) /\ Cardinality(Attached(r)) \in Nat
    BY <2>1, PoolFinite DEF Attached
  <2>5. Cardinality(Attached(r) \ {s}) = Cardinality(Attached(r)) - 1
    BY <2>4, FS_RemoveElement
  <2>6. BioCounted(r)'
    <3>1. BioCounted(r) /\ Attached(r)' = Attached(r) \ {s}
      BY <2>3, BioCountedEach
    <3> QED
      BY <1>2, <2>2, <2>4, <2>5, <3>1 DEF BioCounted, Attaching
  <2>7. \A q \in Requesters \ {r} : BioCounted(q)'
    BY <1>2, <2>2, <2>3, BioCountedEach DEF BioCounted, Attaching
  <2>8. NotYetAttached'
    BY <1>2, <2>3 DEF NotYetAttached
  <2> QED
    BY <2>6, <2>7, <2>8, BioCountedEach
<1> QED
  BY <1>1, <1>3, <1>4 DEF HandleStripe

(* Every step keeps the counts of the requests.                             *)
LEMMA CountsNext ==
  ASSUME IInv, Counts, [Next]_vars
  PROVE  Counts'
<1> USE DEF Counts
<1>0. ActiveStripesExact'
  BY ActiveNext
<1>1. ASSUME NEW r \in Requesters, StartRequester(r)
      PROVE  BioCountsExact' /\ NotYetAttached'
  <2>1. /\ rpc[r] = "idle" /\ rpc' = [rpc EXCEPT ![r] = "get"]
        /\ remaining' = [remaining EXCEPT ![r] = 1] /\ UNCHANGED <<req, pool>>
    BY <1>1 DEF StartRequester, stripeVars
  <2>2. /\ \A q \in Requesters \ {r} : rpc'[q] = rpc[q] /\ remaining'[q] = remaining[q]
        /\ rpc'[r] = "get" /\ remaining'[r] = 1
    BY <2>1 DEF IInv, TypeOK, RequesterTypes
  <2>3. Attached(r) = {} /\ Cardinality({}) = 0
    BY <2>1, FS_EmptySet DEF NotYetAttached
  <2>4. \A q \in Requesters : Attached(q)' = Attached(q)
    BY <2>1 DEF Attached
  <2>5. BioCounted(r)'
    BY <2>2, <2>3, <2>4 DEF BioCounted, Attaching
  <2>6. \A q \in Requesters \ {r} : BioCounted(q)'
    BY <2>2, <2>4, BioCountedEach DEF BioCounted, Attaching
  <2>7. NotYetAttached'
    BY <2>2, <2>4 DEF NotYetAttached
  <2> QED
    BY <2>5, <2>6, <2>7, BioCountedEach
<1>2. ASSUME NEW r \in Requesters, GetStripe(r) \/ NoStripe(r)
      PROVE  BioCountsExact' /\ NotYetAttached'
  <2>1. /\ rpc[r] = "get" /\ UNCHANGED <<req, pool, remaining>>
        /\ \E there \in {"hold", "end", "get"} : rpc' = [rpc EXCEPT ![r] = there]
    BY <1>2 DEF GetStripe, NoStripe, stripeVars, IInv, TypeOK, RequesterTypes
  <2>2. \A q \in Requesters : /\ rpc[q] = "idle" <=> rpc'[q] = "idle"
                              /\ rpc[q] \in {"get", "hold", "end"}
                                 <=> rpc'[q] \in {"get", "hold", "end"}
    BY <2>1 DEF IInv, TypeOK, RequesterTypes
  <2> QED
    BY <2>1, <2>2, SameAttached
<1>3. ASSUME NEW r \in Requesters, Attach(r)
      PROVE  BioCountsExact' /\ NotYetAttached'
  BY <1>3, AttachCounts
<1>4. ASSUME NEW r \in Requesters, EndRequester(r)
      PROVE  BioCountsExact' /\ NotYetAttached'
  <2>1. /\ rpc[r] = "end" /\ rpc' = [rpc EXCEPT ![r] = "done"]
        /\ remaining' = [remaining EXCEPT ![r] = @ - 1] /\ UNCHANGED <<req, pool>>
    BY <1>4 DEF EndRequester, stripeVars
  <2>2. /\ \A q \in Requesters \ {r} : rpc'[q] = rpc[q] /\ remaining'[q] = remaining[q]
        /\ rpc'[r] = "done" /\ remaining'[r] = remaining[r] - 1
    BY <2>1 DEF IInv, TypeOK, RequesterTypes
  <2>3. \A q \in Requesters : Attached(q)' = Attached(q) /\ Cardinality(Attached(q)) \in Nat
    BY <2>1, PoolFinite DEF Attached
  <2>4. BioCounted(r)'
    <3>1. BioCounted(r)
      BY BioCountedEach
    <3> QED
      BY <2>1, <2>2, <2>3, <3>1 DEF BioCounted, Attaching
  <2>5. \A q \in Requesters \ {r} : BioCounted(q)'
    BY <2>2, <2>3, BioCountedEach DEF BioCounted, Attaching
  <2>6. NotYetAttached'
    BY <2>2, <2>3 DEF NotYetAttached
  <2> QED
    BY <2>4, <2>5, <2>6, BioCountedEach
<1>5. ASSUME NEW u \in Units, HandleStripe(u)
      PROVE  BioCountsExact' /\ NotYetAttached'
  BY <1>5, HandleCounts
<1>6. ASSUME NEW u \in Units,
             \/ WakeThread(u) \/ ThreadSleeps(u) \/ Submit(u) \/ ReleaseHandled(u)
             \/ \E s \in Stripes : TakeStripe(u, s)
      PROVE  BioCountsExact' /\ NotYetAttached'
  <2>1. UNCHANGED <<remaining, req, pool, rpc>>
    BY <1>6 DEF WakeThread, ThreadSleeps, Submit, ReleaseHandled, TakeStripe, stripeVars,
       requesterVars
  <2> QED
    BY <2>1, SameAttached
<1>7. ASSUME NEW s \in Stripes, GrowStripes(s) \/ ShrinkStripes(s)
      PROVE  BioCountsExact' /\ NotYetAttached'
  <2>1. /\ UNCHANGED <<remaining, req, rpc>> /\ req[s] = None
        /\ pool' = pool \cup {s} \/ pool' = pool \ {s}
    BY <1>7, InactiveUnused DEF GrowStripes, ShrinkStripes, Inactive, requesterVars, IInv, Unallocated
  <2>2. \A q \in Requesters : Attached(q)' = Attached(q)
    BY <2>1, CacheAssumption DEF Attached
  <2>3. \A q \in Requesters : BioCounted(q)'
    BY <2>1, <2>2, BioCountedEach DEF BioCounted, Attaching
  <2>4. NotYetAttached'
    BY <2>1, <2>2 DEF NotYetAttached
  <2> QED
    BY <2>3, <2>4, BioCountedEach
<1>8. CASE \/ \E s \in Stripes : EndRequest(s)
           \/ \E n \in StripeCounts : SetNumStripes(n)
           \/ \E q \in QueueLimits, y \in SyncLimits : SetLimits(q, y)
           \/ ShrinkWaits \/ SizeReached \/ UNCHANGED vars
  <2>1. UNCHANGED <<remaining, req, pool, rpc>>
    BY <1>8 DEF EndRequest, SetNumStripes, SetLimits, ShrinkWaits, SizeReached, stripeVars,
       requesterVars, vars
  <2> QED
    BY <1>0, <2>1, SameAttached
<1> QED
  BY <1>0, <1>1, <1>2, <1>3, <1>4, <1>5, <1>6, <1>7, <1>8 DEF Next, Request, Thread, Resize

(* They are right at first.                                                 *)
LEMMA CountsInit == Init => Counts
<1> SUFFICES ASSUME Init PROVE Counts
  OBVIOUS
<1>1. IInv
  BY InitInv
<1>2. \A u \in Units : ActiveOf(u) = {}
  BY <1>1, PoolFinite DEF Init, ActiveOf, Inactive
<1>3. \A r \in Requesters : Attached(r) = {}
  BY <1>1, PoolFinite, CacheAssumption DEF Init, Attached
<1>4. Cardinality({}) = 0
  BY FS_EmptySet
<1>5. ActiveStripesExact
  <2>1. \A u \in Units : active_stripes[u] = Cardinality(ActiveOf(u))
    BY <1>2, <1>4 DEF Init
  <2>2. num_stripes = Cardinality(pool)
    BY DEF Init
  <2> QED
    BY <2>1, <2>2 DEF ActiveStripesExact, ActiveOf
<1>6. ASSUME NEW r \in Requesters
      PROVE  BioCounted(r)
  <2>1. remaining[r] = 0 /\ rpc[r] = "idle"
    BY DEF Init
  <2> QED
    BY <1>3, <1>4, <2>1 DEF BioCounted, Attaching
<1>7. NotYetAttached
  BY <1>3 DEF NotYetAttached
<1> QED
  BY <1>5, <1>6, <1>7, BioCountedEach DEF Counts

(* active_stripes[], which stripe_limit() gives out stripes by, counts the  *)
(* stripes of the unit that are not inactive, and conf->num_stripes those   *)
(* that are allocated, whichever thread releases which stripe.              *)
THEOREM CacheActiveStripesExact == Spec => []ActiveStripesExact
<1>1. Init => IInv /\ Counts
  BY InitInv, CountsInit
<1>2. (IInv /\ Counts) /\ [Next]_vars => (IInv /\ Counts)'
  BY NextInv, CountsNext
<1>3. Counts => ActiveStripesExact
  BY DEF Counts
<1> QED
  BY <1>1, <1>2, <1>3, PTL DEF Spec

(* A bio is answered once, after the last of its stripes: what is counted   *)
(* in it is the stripes it is attached to and whoever still attaches it.    *)
THEOREM CacheBioCountsExact == Spec => []BioCountsExact
<1>1. Init => IInv /\ Counts
  BY InitInv, CountsInit
<1>2. (IInv /\ Counts) /\ [Next]_vars => (IInv /\ Counts)'
  BY NextInv, CountsNext
<1>3. Counts => BioCountsExact
  BY DEF Counts
<1> QED
  BY <1>1, <1>2, <1>3, PTL DEF Spec

=============================================================================
