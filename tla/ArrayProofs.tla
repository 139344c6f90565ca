----------------------------- MODULE ArrayProofs -----------------------------
(***************************************************************************)
(* Proved of Array for any slots, disks and sizes, with writes, errors,    *)
(* restarts and failed starts in any order.                                *)
(*                                                                         *)
(* As long as the incidents "import again", "slot left out", "stop when    *)
(* stopped" and "clear again" are not met, the counters of a running array *)
(* are exact and no more than two of its slots are invalid (CountInv).     *)
(*                                                                         *)
(* Without incidents a disk that memory or the file calls valid holds the  *)
(* current content of its slot (CurrentInv).                               *)
(***************************************************************************)
EXTENDS Array, FiniteSetTheorems, TLAPS

CountedIncidents == {"import again", "slot left out", "stop when stopped", "clear again"}

Missing == WithStatus("DISK_NP_MISSING")
Wrong == WithStatus("DISK_WRONG")
Replaced == WithStatus("DISK_DSBL_NEW")
DisabledSlots == {i \in Slots : status[i] \in DisabledStatus}
InvalidSlots == Failed \cap imported
NewSlots == WithStatus("DISK_NEW") \ FailedToClear

Types ==
  /\ active \subseteq Slots /\ enabled \subseteq Slots /\ valid \subseteq Slots
  /\ id \in [Slots -> Disks \cup {None}] /\ size \in [Slots -> Nat]
  /\ width \in Nat /\ width >= 2
  /\ status \in [Slots -> Status] /\ rdev \in [Slots -> Disks \cup {None}]
  /\ erased \subseteq Slots /\ imported \subseteq Slots /\ swap \subseteq Parity
  /\ num_disks \in Nat
  /\ mdstate \in States /\ private \in BOOLEAN /\ pending \in BOOLEAN
  /\ curr_resync \in Nat /\ recovery_running \in Nat

(* What every superblock satisfies, in memory or in the file: an array has  *)
(* both parity slots, and at most two of its slots are invalid.             *)
SuperOK(a, e, v) ==
  /\ v \subseteq a \cap e
  /\ a = {} \/ Parity \subseteq a
  /\ Cardinality(a \ v) <= 2

FileOK ==
  /\ file.active \subseteq Slots /\ file.enabled \subseteq Slots /\ file.valid \subseteq Slots
  /\ file.id \in [Slots -> Disks \cup {None}] /\ file.size \in [Slots -> Nat]
  /\ SuperOK(file.active, file.enabled, file.valid)

(* The status of an imported slot is that of its bits in the superblock.    *)
StatusOK ==
  /\ \A i \in Slots \ imported : status[i] = "DISK_NP" /\ rdev[i] = None
  /\ \A i \in imported :
       /\ i \in valid => status[i] \in {"DISK_OK", "DISK_NP_MISSING", "DISK_WRONG"}
       /\ i \in active \cap enabled /\ i \notin valid => status[i] = "DISK_INVALID"
       /\ i \in active \ enabled => status[i] \in DisabledStatus
       /\ i \notin active => status[i] \in {"DISK_NP", "DISK_NEW"}
       /\ i \in enabled \ active => status[i] = "DISK_NEW" /\ id[i] # None
       /\ status[i] = "DISK_NEW" => rdev[i] # None

(* The second part of it for one slot.                                      *)
StatusOf(i) ==
  /\ i \in valid => status[i] \in {"DISK_OK", "DISK_NP_MISSING", "DISK_WRONG"}
  /\ i \in active \cap enabled /\ i \notin valid => status[i] = "DISK_INVALID"
  /\ i \in active \ enabled => status[i] \in DisabledStatus
  /\ i \notin active => status[i] \in {"DISK_NP", "DISK_NEW"}
  /\ i \in enabled \ active => status[i] = "DISK_NEW" /\ id[i] # None
  /\ status[i] = "DISK_NEW" => rdev[i] # None

CountsOK ==
  /\ num_missing = Cardinality(Missing)
  /\ num_wrong = Cardinality(Wrong)
  /\ num_replaced = Cardinality(Replaced)
  /\ num_disabled = Cardinality(DisabledSlots)
  /\ num_invalid = Cardinality(InvalidSlots)
  /\ num_new = Cardinality(NewSlots)

(* What the array state says of the counters while the array is stopped.    *)
StateOK ==
  /\ mdstate = "STOPPED" => /\ num_missing = 0 /\ num_wrong = 0 /\ num_replaced = 0
                            /\ active = {} => num_new = 0
  /\ mdstate = "DISABLE_DISK" => /\ num_missing + num_invalid <= 2
                                 /\ num_wrong = 0 /\ num_replaced = 0 /\ num_new = 0
  /\ mdstate \in {"RECON_DISK", "SWAP_DSBL"} =>
       /\ num_missing = 0 /\ num_new = 0
       /\ num_invalid + Cardinality(Wrong \ swap) <= 2

(* With no superblock all disks are new.                                    *)
EmptyOK ==
  active = {} => /\ num_new = num_disks
                 /\ num_new = 0 => width = 2

RunningOK ==
  private =>
    /\ mdstate = "STARTED" /\ active # {}
    /\ active \cup enabled \subseteq imported /\ NewSlots \subseteq enabled
    /\ num_missing = 0 /\ num_wrong = 0 /\ num_replaced = 0

CountInv ==
  /\ Types /\ FileOK /\ SuperOK(active, enabled, valid)
  /\ StatusOK /\ CountsOK /\ (~ private => StateOK)
  /\ EmptyOK /\ RunningOK
  /\ (recovery_running > 0 => private)

---------------------------------------------------------------------------
(* Sets of numbers and of slots. *)

(* A finite set of numbers has a maximum: a smallest one of those without   *)
(* would not be without.                                                    *)
LEMMA MaxOfFinite ==
  ASSUME NEW S \in SUBSET Nat, IsFiniteSet(S), S # {}
  PROVE  Max(S) \in S /\ \A y \in S : Max(S) >= y
<1> DEFINE HasMax(U) == \E m \in U : \A y \in U : m >= y
           T == {U \in FiniteSubsetsOf(Nat) : U # {} /\ ~ HasMax(U)}
<1>1. ASSUME S \in T PROVE FALSE
  <2>1. IsWellFoundedOn(StrictSubsetOrdering(Nat), FiniteSubsetsOf(Nat))
    BY FS_StrictSubsetOrderingWellFounded
  <2>2. T \subseteq FiniteSubsetsOf(Nat) /\ T # {}
    BY <1>1
  <2>3. PICK U \in T : \A V \in T : ~ (<<V, U>> \in StrictSubsetOrdering(Nat))
    <3> HIDE DEF T
    <3> QED
      BY <2>1, <2>2, WFMin
  <2>4. /\ U \in SUBSET Nat /\ IsFiniteSet(U) /\ U # {}
        /\ ~ HasMax(U)
    BY <2>3 DEF FiniteSubsetsOf
  <2>5. PICK x \in U : TRUE
    BY <2>4
  <2> DEFINE V == U \ {x}
  <2>6. V \in SUBSET Nat /\ IsFiniteSet(V)
    BY <2>4, FS_RemoveElement
  <2>7. <<V, U>> \in StrictSubsetOrdering(Nat)
    BY <2>4, <2>5 DEF StrictSubsetOrdering
  <2>8. V = {} \/ HasMax(V)
    <3> HIDE DEF HasMax
    <3> QED
      BY <2>3, <2>6, <2>7 DEF FiniteSubsetsOf
  <2>9. CASE V = {}
    <3>1. \A y \in U : x >= y
      BY <2>4, <2>9
    <3> QED
      BY <2>4, <2>5, <3>1
  <2>10. CASE HasMax(V)
    <3>1. PICK m \in V : \A y \in V : m >= y
      BY <2>10
    <3>2. CASE m >= x
      BY <2>4, <3>1, <3>2
    <3>3. CASE x > m
      <4>1. \A y \in U : x >= y
        BY <2>4, <2>5, <2>6, <3>1, <3>3
      <4> QED
        BY <2>4, <2>5, <4>1
    <3> QED
      BY <2>4, <2>5, <3>1, <3>2, <3>3
  <2> QED
    BY <2>8, <2>9, <2>10
<1>2. PICK m \in S : \A y \in S : m >= y
  BY <1>1 DEF FiniteSubsetsOf
<1> QED
  BY <1>2 DEF Max

(* Largest() is a number and none of the set is larger.                     *)
LEMMA LargestBounds ==
  ASSUME NEW S \in SUBSET Nat, IsFiniteSet(S)
  PROVE  Largest(S) \in Nat /\ \A y \in S : y <= Largest(S)
<1>1. CASE S = {}
  BY <1>1 DEF Largest
<1>2. CASE S # {}
  <2>1. Max(S) \in S /\ \A y \in S : Max(S) >= y
    BY <1>2, MaxOfFinite
  <2> QED
    BY <1>2, <2>1 DEF Largest
<1> QED
  BY <1>1, <1>2

(* There are finitely many slots; P and Q are two of them.                  *)
LEMMA SlotsFinite ==
  /\ IsFiniteSet(Slots) /\ Slots \subseteq Nat
  /\ IsFiniteSet(Parity) /\ Cardinality(Parity) <= 2 /\ DataSlots \cap Parity = {}
<1>1. Parity = {P} \cup {Q}
  BY DEF Parity
<1>2. IsFiniteSet({P}) /\ Cardinality({P}) = 1
  BY FS_Singleton
<1>3. IsFiniteSet({P} \cup {Q}) /\ Cardinality({P} \cup {Q}) <= 2
  BY <1>2, FS_AddElement
<1>4. IsFiniteSet(DataSlots) /\ DataSlots \cap Parity = {}
  BY ArrayAssumption DEF Parity
<1>5. IsFiniteSet(Slots)
  BY <1>1, <1>3, <1>4, FS_Union DEF Slots
<1> QED
  BY <1>1, <1>3, <1>4, <1>5, ArrayAssumption DEF Slots, Parity

(* Sets of slots can be counted.                                            *)
LEMMA PartOfSlots ==
  ASSUME NEW T \in SUBSET Slots
  PROVE  IsFiniteSet(T) /\ Cardinality(T) \in Nat
  BY SlotsFinite, FS_Subset, FS_CardinalityType

(* How a counter follows its set: one element more or less, or several.     *)
LEMMA CountOneMore ==
  ASSUME NEW S \in SUBSET Slots, NEW x, x \notin S, NEW T, T = S \/ T = S \cup {x}
  PROVE  Cardinality(T) = IF x \in T THEN Cardinality(S) + 1 ELSE Cardinality(S)
<1>1. IsFiniteSet(S) /\ Cardinality(S) \in Nat
  BY PartOfSlots
<1>2. Cardinality(S \cup {x}) = Cardinality(S) + 1
  BY <1>1, FS_AddElement
<1> QED
  BY <1>2

(* One element fewer.                                                       *)
LEMMA CountOneLess ==
  ASSUME NEW S \in SUBSET Slots, NEW x \in S
  PROVE  Cardinality(S \ {x}) = Cardinality(S) - 1
  BY PartOfSlots, FS_RemoveElement

(* Two sets that share nothing.                                             *)
LEMMA CountMore ==
  ASSUME NEW S \in SUBSET Slots, NEW T \in SUBSET Slots, S \cap T = {}
  PROVE  Cardinality(S \cup T) = Cardinality(S) + Cardinality(T)
<1>1. IsFiniteSet(S) /\ IsFiniteSet(T) /\ Cardinality(S) \in Nat /\ Cardinality(T) \in Nat
  BY PartOfSlots
<1>2. Cardinality(S \cup T) = Cardinality(S) + Cardinality(T) - Cardinality(S \cap T)
  BY <1>1, FS_Union
<1>3. Cardinality(S \cap T) = 0
  BY FS_EmptySet
<1> QED
  BY <1>1, <1>2, <1>3

(* A set without some of its elements.                                      *)
LEMMA CountLess ==
  ASSUME NEW S \in SUBSET Slots, NEW T \in SUBSET S
  PROVE  /\ Cardinality(S \ T) = Cardinality(S) - Cardinality(T)
         /\ Cardinality(T) <= Cardinality(S)
<1>1. IsFiniteSet(S)
  BY PartOfSlots
<1>2. S \cap T = T
  OBVIOUS
<1>3. Cardinality(S \ T) = Cardinality(S) - Cardinality(S \cap T)
  BY <1>1, FS_Difference
<1> QED
  BY <1>1, <1>2, <1>3, FS_Subset

(* The values of a function on finitely many slots.                         *)
LEMMA FiniteValues ==
  ASSUME NEW S \in SUBSET Slots, NEW f
  PROVE  IsFiniteSet({f[i] : i \in S})
<1> DEFINE g == [i \in S |-> f[i]]
           T == {f[i] : i \in S}
<1>1. g \in Surjection(S, T)
  BY DEF Surjection
<1> QED
  BY <1>1, PartOfSlots, FS_Surjection

(* A count is zero when nothing is there to count.                          *)
LEMMA CountZero ==
  ASSUME NEW S \in SUBSET Slots
  PROVE  Cardinality(S) = 0 <=> S = {}
  BY PartOfSlots, FS_EmptySet

---------------------------------------------------------------------------
(* The initial states, and the steps that change no counter. *)

(* The counters are right at first.                                         *)
LEMMA CountInit == Init => CountInv
<1> SUFFICES ASSUME Init PROVE CountInv
  OBVIOUS
<1>1. FileOK
  <2>1. PICK a \in Assemblies :
          file = IF {i \in Slots : a[i] # None} = {} THEN EmptySuper
                 ELSE [active |-> {i \in Slots : a[i] # None} \cup Parity,
                       enabled |-> {i \in Slots : a[i] # None},
                       valid |-> {i \in Slots : a[i] # None}, id |-> a,
                       size |-> [i \in Slots |->
                                  IF i \in {j \in Slots : a[j] # None} THEN SizeOf[a[i]] ELSE 0]]
    BY DEF Init
  <2>2. a \in [Slots -> Disks \cup {None}]
    BY <2>1, ArrayAssumption
  <2> DEFINE used == {i \in Slots : a[i] # None}
  <2>3. Cardinality((used \cup Parity) \ used) <= 2
    <3>1. (used \cup Parity) \ used \in SUBSET Parity
      OBVIOUS
    <3> QED
      BY <3>1, SlotsFinite, FS_Subset, FS_CardinalityType
  <2>4. \A i \in used : SizeOf[a[i]] \in Nat
    BY <2>2, ArrayAssumption
  <2>5. CASE used = {}
    <3>1. file = EmptySuper
      BY <2>1, <2>5
    <3> QED
      BY <3>1, FS_EmptySet DEF FileOK, SuperOK, EmptySuper
  <2>6. CASE used # {}
    <3>1. /\ file.active = used \cup Parity /\ file.enabled = used /\ file.valid = used
          /\ file.id = a
          /\ file.size = [i \in Slots |-> IF i \in used THEN SizeOf[a[i]] ELSE 0]
      BY <2>1, <2>6
    <3>2. Parity \subseteq Slots
      BY DEF Slots
    <3> QED
      BY <2>2, <2>3, <2>4, <3>1, <3>2 DEF FileOK, SuperOK
  <2> QED
    BY <2>5, <2>6
<1>2. Types /\ SuperOK(active, enabled, valid)
  <2>1. /\ active \subseteq Slots /\ enabled \subseteq Slots /\ valid \subseteq Slots
        /\ id \in [Slots -> Disks \cup {None}] /\ size \in [Slots -> Nat]
        /\ SuperOK(active, enabled, valid)
    BY <1>1 DEF Init, FileOK
  <2>2. status \in [Slots -> Status] /\ rdev \in [Slots -> Disks \cup {None}]
    BY DEF Init, Status
  <2>3. mdstate \in States /\ private \in BOOLEAN /\ pending \in BOOLEAN
    BY DEF Init, States
  <2> QED
    BY <2>1, <2>2, <2>3 DEF Init, Types
<1>3. StatusOK
  BY DEF Init, StatusOK
<1>4. CountsOK
  <2>1. Missing = {} /\ Wrong = {} /\ Replaced = {} /\ DisabledSlots = {} /\ InvalidSlots = {}
        /\ NewSlots = {}
    BY DEF Init, Missing, Wrong, Replaced, DisabledSlots, InvalidSlots, NewSlots, WithStatus,
           DisabledStatus
  <2> QED
    BY <2>1, FS_EmptySet DEF Init, CountsOK
<1> QED
  BY <1>1, <1>2, <1>3, <1>4 DEF Init, CountInv, StateOK, EmptyOK, RunningOK

(* The superblock that is saved is that of memory, or the file stays.       *)
LEMMA SavedOK ==
  ASSUME CountInv,
         NEW a \in SUBSET Slots, NEW v \in SUBSET Slots, SuperOK(a, enabled, v),
         file' \in Saved([Super EXCEPT !.active = a, !.valid = v])
  PROVE  FileOK'
<1>1. CASE file' = file
  BY <1>1 DEF CountInv, FileOK, SuperOK
<1>2. CASE file' = [Super EXCEPT !.active = a, !.valid = v]
  BY <1>2 DEF CountInv, Types, FileOK, SuperOK, Super
<1> QED
  BY <1>1, <1>2 DEF Saved

(* Whatever a crash leaves of a save, the file holds a sound superblock.    *)
LEMMA SavedSuperOK ==
  ASSUME CountInv, file' \in Saved(Super)
  PROVE  FileOK'
<1>1. CASE file' = file
  BY <1>1 DEF CountInv, FileOK, SuperOK
<1>2. CASE file' = Super
  BY <1>2 DEF CountInv, Types, FileOK, SuperOK, Super
<1> QED
  BY <1>1, <1>2 DEF Saved

(* A step that leaves superblock, devices and counters alone keeps the      *)
(* counts.                                                                  *)
LEMMA CountsUnchanged ==
  ASSUME CountInv, FileOK', curr_resync' \in Nat, recovery_running' \in Nat, pending' \in BOOLEAN,
         recovery_running' > 0 => private,
         UNCHANGED <<superVars, width, deviceVars, counters, swap, mdstate, private>>
  PROVE  CountInv'
<1>1. Types' /\ SuperOK(active, enabled, valid)' /\ StatusOK'
  BY DEF CountInv, Types, SuperOK, StatusOK, superVars, deviceVars, counters
<1>2. UNCHANGED <<Missing, Wrong, Replaced, DisabledSlots, InvalidSlots, NewSlots>>
  BY DEF Missing, Wrong, Replaced, DisabledSlots, InvalidSlots, NewSlots, WithStatus,
         FailedToClear, Failed, superVars, deviceVars
<1>3. CountsOK' /\ (~ private => StateOK)' /\ EmptyOK' /\ RunningOK'
  BY <1>2 DEF CountInv, CountsOK, StateOK, EmptyOK, RunningOK, superVars, deviceVars, counters
<1> QED
  BY <1>1, <1>3 DEF CountInv

(* The length of a recovery is a number.                                    *)
LEMMA RecoverySizeType ==
  ASSUME CountInv PROVE RecoverySize \in Nat
<1>1. size \in [Slots -> Nat] /\ enabled \subseteq Slots
  BY DEF CountInv, Types
<1>2. \A i \in Slots : RSize(i) \in Nat
  BY ArrayAssumption DEF CountInv, Types, RSize
<1>3. ASSUME NEW S \in SUBSET Slots
      PROVE  Largest({size[i] : i \in S}) \in Nat /\ Largest({RSize(i) : i \in S}) \in Nat
  <2>1. IsFiniteSet({size[i] : i \in S}) /\ IsFiniteSet({RSize(i) : i \in S})
    <3> DEFINE f == [i \in Slots |-> RSize(i)]
    <3>1. {RSize(i) : i \in S} = {f[i] : i \in S}
      OBVIOUS
    <3> HIDE DEF f
    <3> QED
      BY <3>1, FiniteValues
  <2>2. {size[i] : i \in S} \in SUBSET Nat /\ {RSize(i) : i \in S} \in SUBSET Nat
    BY <1>1, <1>2
  <2> QED
    BY <2>1, <2>2, LargestBounds
<1>4. enabled \ valid \in SUBSET Slots /\ WithStatus("DISK_NEW") \in SUBSET Slots
  BY <1>1 DEF WithStatus
<1> QED
  BY <1>3, <1>4 DEF RecoverySize

---------------------------------------------------------------------------
(* A slot is imported. *)

(* What import_slot() makes of the slot, and that it leaves the others.     *)
LEMMA ImportFacts ==
  ASSUME CountInv, Incidents \cap CountedIncidents = {},
         NEW i \in Slots, NEW d \in Disks \cup {None}, NEW e \in BOOLEAN, ImportSlot(i, d, e)
  PROVE  /\ i \notin imported /\ ~ private /\ status[i] = "DISK_NP"
         /\ ImportStatus(i, d) \in Status
         /\ status' \in [Slots -> Status] /\ status'[i] = ImportStatus(i, d)
         /\ \A j \in Slots \ {i} : status'[j] = status[j]
<1>1. i \notin imported
  BY DEF ImportSlot, CountedIncidents
<1>2. ImportStatus(i, d) \in Status
  BY DEF ImportStatus, Status, same_disk_info
<1>3. status \in [Slots -> Status] /\ status' = [status EXCEPT ![i] = ImportStatus(i, d)]
  BY DEF ImportSlot, CountInv, Types
<1> QED
  BY <1>1, <1>2, <1>3 DEF ImportSlot, CountInv, StatusOK

(* An import leaves a status that the slot's contents justify.              *)
LEMMA ImportStatusOK ==
  ASSUME CountInv, Incidents \cap CountedIncidents = {},
         NEW i \in Slots, NEW d \in Disks \cup {None}, NEW e \in BOOLEAN, ImportSlot(i, d, e)
  PROVE  Types' /\ FileOK' /\ SuperOK(active, enabled, valid)' /\ StatusOK'
<1> DEFINE s == ImportStatus(i, d)
<1>1. /\ active' = active /\ imported' = imported \cup {i}
      /\ rdev' = [rdev EXCEPT ![i] = d]
      /\ enabled' = IF i \notin active \/ s = "DISK_NP_DSBL" THEN enabled \ {i} ELSE enabled
      /\ valid' = IF i \notin active THEN valid \ {i} ELSE valid
      /\ id' = IF i \notin active THEN [id EXCEPT ![i] = None] ELSE id
      /\ size' = IF i \notin active THEN [size EXCEPT ![i] = 0] ELSE size
      /\ file' = file
  BY DEF ImportSlot
<1>2. /\ status' \in [Slots -> Status] /\ status'[i] = s
      /\ \A j \in Slots \ {i} : status'[j] = status[j]
  BY ImportFacts
<1>3. Types
  BY DEF CountInv
<1>4. FileOK'
  BY <1>1 DEF CountInv, FileOK, SuperOK
<1>5. SuperOK(active, enabled, valid)'
  <2>1. active \ valid' = active \ valid
    BY <1>1
  <2>2. s = "DISK_NP_DSBL" /\ i \in active => i \notin valid
    BY DEF ImportStatus, CountInv, SuperOK
  <2> QED
    BY <1>1, <2>1, <2>2 DEF CountInv, SuperOK
<1>6. StatusOK'
  <2>1. \A j \in Slots \ imported' : status'[j] = "DISK_NP" /\ rdev'[j] = None
    BY <1>1, <1>2, <1>3 DEF CountInv, StatusOK, Types
  <2>2. ASSUME NEW j \in imported, j # i
        PROVE  /\ j \in valid' <=> j \in valid
               /\ j \in enabled' <=> j \in enabled
               /\ status'[j] = status[j] /\ id'[j] = id[j] /\ rdev'[j] = rdev[j]
    BY <1>1, <1>2, <1>3, <2>2 DEF Types
  <2>3. /\ i \in valid' => s \in {"DISK_OK", "DISK_NP_MISSING", "DISK_WRONG"}
        /\ i \in active' \cap enabled' /\ i \notin valid' => s = "DISK_INVALID"
        /\ i \in active' \ enabled' => s \in DisabledStatus
        /\ i \notin active' => s \in {"DISK_NP", "DISK_NEW"}
        /\ i \notin enabled' \ active'
        /\ s = "DISK_NEW" => d # None
    BY <1>1, ArrayAssumption DEF ImportStatus, DisabledStatus, CountInv, SuperOK
  <2>4. rdev'[i] = d
    BY <1>1, <1>3 DEF Types
  <2> QED
    BY <1>1, <1>2, <2>1, <2>2, <2>3, <2>4 DEF StatusOK, CountInv
<1>7. Types'
  <2>1. /\ active' \subseteq Slots /\ enabled' \subseteq Slots /\ valid' \subseteq Slots
        /\ id' \in [Slots -> Disks \cup {None}] /\ size' \in [Slots -> Nat]
        /\ rdev' \in [Slots -> Disks \cup {None}] /\ imported' \subseteq Slots
    BY <1>1, <1>3 DEF Types
  <2>2. erased' \subseteq Slots /\ num_disks' \in Nat
    <3>1. /\ erased' = erased \cup {i} \/ erased' = erased \ {i}
          /\ num_disks' = num_disks + One(d # None)
      BY DEF ImportSlot
    <3> QED
      BY <1>3, <3>1 DEF Types, One
  <2>3. width' \in Nat /\ width' >= 2
    <3>1. i \in Nat /\ (width' = width \/ width' = i + 2)
      BY SlotsFinite DEF ImportSlot
    <3> QED
      BY <1>3, <3>1 DEF Types
  <2>4. mdstate' \in States
    BY DEF ImportSlot, ArrayState, States, Errors
  <2>5. swap' \subseteq Parity
    BY <1>3 DEF ImportSlot, Types, Swapped
  <2>6. UNCHANGED <<private, pending, curr_resync, recovery_running>>
    BY DEF ImportSlot, recovery
  <2> QED
    BY <1>2, <1>3, <2>1, <2>2, <2>3, <2>4, <2>5, <2>6 DEF Types
<1> QED
  BY <1>4, <1>5, <1>6, <1>7

(* An import counts the slot where its new status belongs.                  *)
LEMMA ImportCountsOK ==
  ASSUME CountInv, Incidents \cap CountedIncidents = {},
         NEW i \in Slots, NEW d \in Disks \cup {None}, NEW e \in BOOLEAN, ImportSlot(i, d, e)
  PROVE  CountsOK'
<1> DEFINE s == ImportStatus(i, d)
<1>1. /\ i \notin imported /\ status[i] = "DISK_NP" /\ s \in Status
      /\ status' \in [Slots -> Status] /\ status'[i] = s
      /\ \A j \in Slots \ {i} : status'[j] = status[j]
  BY ImportFacts
<1>2. /\ num_missing' = num_missing + One(s = "DISK_NP_MISSING")
      /\ num_wrong' = num_wrong + One(s = "DISK_WRONG")
      /\ num_disabled' = num_disabled + One(s \in DisabledStatus)
      /\ num_replaced' = num_replaced + One(s = "DISK_DSBL_NEW")
      /\ num_invalid' = num_invalid + One(i \in active \ valid)
      /\ num_new' = num_new + One(s = "DISK_NEW")
  BY DEF ImportSlot
<1>3. ASSUME NEW t \in Status \ {"DISK_NP"}
      PROVE  /\ WithStatus(t)' = IF s = t THEN WithStatus(t) \cup {i} ELSE WithStatus(t)
             /\ i \notin WithStatus(t) /\ WithStatus(t) \in SUBSET Slots
  BY <1>1 DEF WithStatus
<1>4. ASSUME NEW t \in Status \ {"DISK_NP"}
      PROVE  Cardinality(WithStatus(t)') = Cardinality(WithStatus(t)) + One(s = t)
  <2> DEFINE S == WithStatus(t)
             T == WithStatus(t)'
  <2>1. T = (IF s = t THEN S \cup {i} ELSE S) /\ i \notin S /\ S \in SUBSET Slots
    BY <1>3
  <2>2. i \in T <=> s = t
    BY <2>1
  <2> HIDE DEF S, T, s
  <2>3. Cardinality(T) = IF s = t THEN Cardinality(S) + 1 ELSE Cardinality(S)
    BY <2>1, <2>2, CountOneMore
  <2>4. Cardinality(S) \in Nat
    BY <2>1, PartOfSlots
  <2> QED
    BY <2>3, <2>4 DEF S, T, One
<1>5. /\ num_missing' = Cardinality(Missing') /\ num_wrong' = Cardinality(Wrong')
      /\ num_replaced' = Cardinality(Replaced')
  <2>1. {"DISK_NP_MISSING", "DISK_WRONG", "DISK_DSBL_NEW"} \subseteq Status \ {"DISK_NP"}
    BY DEF Status
  <2> QED
    BY <1>2, <1>4, <2>1 DEF CountInv, CountsOK, Missing, Wrong, Replaced
<1>6. num_disabled' = Cardinality(DisabledSlots')
  <2> DEFINE S == DisabledSlots
             T == DisabledSlots'
  <2>1. T = (IF s \in DisabledStatus THEN S \cup {i} ELSE S) /\ i \notin S /\ S \in SUBSET Slots
    BY <1>1 DEF DisabledSlots, DisabledStatus
  <2> HIDE DEF S, T, s
  <2>2. /\ Cardinality(T) = IF i \in T THEN Cardinality(S) + 1 ELSE Cardinality(S)
        /\ Cardinality(S) \in Nat
    BY <2>1, CountOneMore, PartOfSlots
  <2> QED
    BY <1>2, <2>1, <2>2 DEF S, T, CountInv, CountsOK, s, One
<1>7. num_invalid' = Cardinality(InvalidSlots')
  <2> DEFINE S == InvalidSlots
             T == InvalidSlots'
  <2>1. active' \ valid' = active \ valid /\ imported' = imported \cup {i}
    BY DEF ImportSlot
  <2>2. T = (IF i \in active \ valid THEN S \cup {i} ELSE S) /\ i \notin S /\ S \in SUBSET Slots
    BY <1>1, <2>1 DEF InvalidSlots, Failed, CountInv, Types
  <2> HIDE DEF S, T
  <2>3. /\ Cardinality(T) = IF i \in T THEN Cardinality(S) + 1 ELSE Cardinality(S)
        /\ Cardinality(S) \in Nat
    BY <2>2, CountOneMore, PartOfSlots
  <2> QED
    BY <1>2, <2>2, <2>3 DEF S, T, CountInv, CountsOK, One
<1>8. num_new' = Cardinality(NewSlots')
  <2> DEFINE S == NewSlots
             T == NewSlots'
  <2>1. \A j \in Slots \ {i} : (j \in enabled' <=> j \in enabled) /\ id'[j] = id[j]
    BY DEF ImportSlot, CountInv, Types
  <2>2. s = "DISK_NEW" => id'[i] = None
    BY DEF ImportSlot, CountInv, Types, ImportStatus
  <2>3. T = (IF s = "DISK_NEW" THEN S \cup {i} ELSE S) /\ i \notin S /\ S \in SUBSET Slots
    BY <1>1, <2>1, <2>2 DEF NewSlots, FailedToClear, WithStatus
  <2> HIDE DEF S, T, s
  <2>4. /\ Cardinality(T) = IF i \in T THEN Cardinality(S) + 1 ELSE Cardinality(S)
        /\ Cardinality(S) \in Nat
    BY <2>3, CountOneMore, PartOfSlots
  <2> QED
    BY <1>2, <2>3, <2>4 DEF S, T, CountInv, CountsOK, s, One
<1> QED
  BY <1>5, <1>6, <1>7, <1>8 DEF CountsOK

(* Counters are numbers, and what they count are sets of slots.             *)
LEMMA CountTypes ==
  ASSUME Types, CountsOK
  PROVE  /\ {num_missing, num_wrong, num_replaced, num_disabled, num_invalid, num_new}
            \subseteq Nat
         /\ {Missing, Wrong, Replaced, DisabledSlots, InvalidSlots, NewSlots}
            \subseteq SUBSET Slots
<1>1. {Missing, Wrong, Replaced, DisabledSlots, InvalidSlots, NewSlots} \subseteq SUBSET Slots
  BY DEF Types, Missing, Wrong, Replaced, DisabledSlots, InvalidSlots, NewSlots, WithStatus, Failed
<1> QED
  BY <1>1, PartOfSlots DEF CountsOK

(* The same after a step.                                                   *)
LEMMA CountTypesNext ==
  ASSUME Types', CountsOK'
  PROVE  /\ {num_missing', num_wrong', num_replaced', num_disabled', num_invalid', num_new'}
            \subseteq Nat
         /\ {Missing', Wrong', Replaced', DisabledSlots', InvalidSlots', NewSlots'}
            \subseteq SUBSET Slots
<1>1. {Missing', Wrong', Replaced', DisabledSlots', InvalidSlots', NewSlots'} \subseteq SUBSET Slots
  BY DEF Types, Missing, Wrong, Replaced, DisabledSlots, InvalidSlots, NewSlots, WithStatus, Failed
<1> QED
  BY <1>1, PartOfSlots DEF CountsOK

(* The array state that the counters of the next state give.                *)
LEMMA ArrayStateOK ==
  ASSUME Types', CountsOK', EmptyOK', mdstate' = ArrayState',
         Replaces' => Swapped' \subseteq swap'
  PROVE  StateOK'
<1> DEFINE Counters == {num_missing', num_wrong', num_replaced', num_invalid', num_new'}
<1>1. Counters \subseteq Nat /\ Wrong' \in SUBSET Slots
  BY CountTypesNext
<1>2. {width', num_disks'} \subseteq Nat /\ width' >= 2
  BY DEF Types
<1>3. CASE mdstate' = "STOPPED"
  <2>1. num_missing' = 0 /\ num_wrong' = 0 /\ num_replaced' = 0
    <3>1. CASE num_new' > 0
      <4>1. ~ (num_missing' + num_wrong' + num_replaced' > 0)
        BY <1>3, <3>1 DEF ArrayState
      <4> QED
        BY <1>1, <4>1
    <3>2. CASE ~ (num_new' > 0)
      <4>1. /\ ~ (num_missing' > 0) /\ ~ Replaces' /\ valid_parity_size'
            /\ ~ (num_disks' > 0 /\ width' = 2)
        BY <1>3, <3>2 DEF ArrayState
      <4>2. num_new' = 0 /\ num_missing' = 0 /\ (num_disks' = 0 \/ width' > 2)
        BY <1>1, <1>2, <3>2, <4>1
      <4>3. ~ (num_missing' + num_wrong' + num_replaced' > 0)
        BY <1>1, <4>1, <4>2 DEF Replaces
      <4> QED
        BY <1>1, <4>3
    <3> QED
      BY <3>1, <3>2
  <2>2. active' = {} => num_new' = 0
    <3>1. num_new' > 0 => num_new' # num_disks'
      BY <1>2, <1>3 DEF ArrayState
    <3> QED
      BY <1>1, <1>2, <3>1 DEF EmptyOK
  <2> QED
    BY <1>3, <2>1, <2>2 DEF StateOK
<1>4. CASE mdstate' = "DISABLE_DISK"
  <2>1. /\ ~ (num_new' > 0)
        /\ num_missing' + num_invalid' <= 2 /\ num_replaced' = 0 /\ num_wrong' = 0
    BY <1>4 DEF ArrayState
  <2>2. num_new' = 0
    BY <1>1, <2>1
  <2> QED
    BY <1>4, <2>1, <2>2 DEF StateOK
<1>5. CASE mdstate' \in {"RECON_DISK", "SWAP_DSBL"}
  <2>1. /\ num_missing' = 0 /\ num_new' = 0 /\ Replaces'
        /\ ~ (num_wrong' - Cardinality(Swapped)' + num_invalid' > 2)
    BY <1>1, <1>2, <1>5 DEF ArrayState
  <2>2. Swapped' \in SUBSET Wrong'
    BY DEF Swapped, Wrong, WithStatus, Slots
  <2>3. /\ Cardinality(Wrong' \ Swapped') = Cardinality(Wrong') - Cardinality(Swapped')
        /\ Cardinality(Swapped') \in Nat /\ Cardinality(Wrong') \in Nat
    BY <1>1, <2>2, CountLess, PartOfSlots
  <2>4. /\ Wrong' \ swap' \in SUBSET (Wrong' \ Swapped')
        /\ Wrong' \ Swapped' \in SUBSET Slots /\ Wrong' \ swap' \in SUBSET Slots
    BY <1>1, <2>1
  <2>5. /\ Cardinality(Wrong' \ swap') <= Cardinality(Wrong' \ Swapped')
        /\ Cardinality(Wrong' \ swap') \in Nat
    BY <2>4, CountLess, PartOfSlots
  <2>6. num_wrong' = Cardinality(Wrong')
    BY DEF CountsOK
  <2>7. num_invalid' + Cardinality(Wrong' \ swap') <= 2
    BY <1>1, <2>1, <2>3, <2>5, <2>6
  <2> QED
    BY <1>5, <2>1, <2>7 DEF StateOK
<1>6. CASE mdstate' \notin {"STOPPED", "DISABLE_DISK", "RECON_DISK", "SWAP_DSBL"}
  BY <1>6 DEF StateOK
<1> QED
  BY <1>3, <1>4, <1>5, <1>6

(* An import keeps the counts.                                              *)
LEMMA ImportCounts ==
  ASSUME CountInv, Incidents \cap CountedIncidents = {},
         NEW i \in Slots, NEW d \in Disks \cup {None}, NEW e \in BOOLEAN, ImportSlot(i, d, e)
  PROVE  CountInv'
<1>1. Types' /\ FileOK' /\ SuperOK(active, enabled, valid)' /\ StatusOK' /\ CountsOK'
  BY ImportStatusOK, ImportCountsOK
<1>2. ~ private /\ ~ private'
  BY DEF ImportSlot
<1>3. EmptyOK'
  <2> SUFFICES ASSUME active' = {} PROVE num_new' = num_disks' /\ (num_new' = 0 => width' = 2)
    BY DEF EmptyOK
  <2>1. active = {}
    BY DEF ImportSlot
  <2>2. num_new = num_disks /\ (num_new = 0 => width = 2)
    BY <2>1 DEF CountInv, EmptyOK
  <2>3. ImportStatus(i, d) = IF d = None THEN "DISK_NP" ELSE "DISK_NEW"
    BY <2>1 DEF ImportStatus
  <2>4. /\ num_disks' = num_disks + One(d # None)
        /\ num_new' = num_new + One(ImportStatus(i, d) = "DISK_NEW")
        /\ ImportStatus(i, d) # "DISK_NEW" => width' = width
    BY <2>1 DEF ImportSlot
  <2>5. num_new \in Nat
    BY CountTypes DEF CountInv
  <2> QED
    BY <2>2, <2>3, <2>4, <2>5 DEF One
<1>4. StateOK'
  <2>1. mdstate' = ArrayState' /\ (Replaces' => Swapped' \subseteq swap')
    BY DEF ImportSlot
  <2> QED
    BY <1>1, <1>3, <2>1, ArrayStateOK
<1>5. recovery_running' > 0 => private'
  BY <1>2 DEF CountInv, ImportSlot, recovery
<1> QED
  BY <1>1, <1>2, <1>3, <1>4, <1>5 DEF CountInv, RunningOK

---------------------------------------------------------------------------
(* The array is started. *)

(* What a status says of the bits of its slot.                              *)
LEMMA StatusBits ==
  ASSUME CountInv
  PROVE  /\ Missing \cup Wrong \subseteq imported \cap active \cap enabled \cap valid
         /\ Missing \cap Wrong = {}
         /\ DisabledSlots \subseteq (imported \cap active) \ enabled
         /\ Replaced \subseteq DisabledSlots
         /\ WithStatus("DISK_NEW") \subseteq imported \ active
         /\ DisabledSlots \cap valid = {}
  BY DEF CountInv, Types, SuperOK, StatusOK, Missing, Wrong, DisabledSlots, Replaced, WithStatus,
         DisabledStatus

(* What is known of an array that may be started.                           *)
LEMMA StartFacts ==
  ASSUME CountInv, Incidents \cap CountedIncidents = {}, MayStart
  PROVE  /\ ~ private /\ StateOK
         /\ active \cup enabled \subseteq imported
<1>1. (Parity \cap active) \cup (enabled \ active) \subseteq imported
  BY DEF MayStart, CountedIncidents
<1>2. \A i \in active : status[i] = "DISK_NP" => i \in Parity
  BY DEF MayStart
<1>3. \A i \in active \ imported : status[i] = "DISK_NP"
  BY DEF CountInv, StatusOK, Types
<1> QED
  BY <1>1, <1>2, <1>3 DEF MayStart, CountInv

(* What do_run() changes, and what it leaves.                               *)
LEMMA RunFacts ==
  ASSUME CountInv, NEW c \in BOOLEAN, Run(c), ~ private
  PROVE  /\ private' \in BOOLEAN /\ pending' \in BOOLEAN /\ mdstate' \in States
         /\ private' => mdstate' = "STARTED" /\ width' > 2
         /\ mdstate' = "STARTED" \/ mdstate' = mdstate
         /\ rdev' = rdev /\ erased' = erased /\ num_disks' = num_disks /\ file' = file
         /\ curr_resync' = curr_resync /\ recovery_running' = recovery_running
         /\ ~ (recovery_running' > 0)
<1>1. /\ rdev' = rdev /\ erased' = erased /\ num_disks' = num_disks /\ file' = file
      /\ curr_resync' = curr_resync /\ recovery_running' = recovery_running
  BY DEF Run, recovery
<1>2. /\ private' \in BOOLEAN /\ pending' \in BOOLEAN
      /\ private' => mdstate' = "STARTED" /\ width' > 2
      /\ mdstate' = "STARTED" \/ mdstate' = mdstate
  <2>1. CASE private' = (width' > 2) /\ mdstate' = "STARTED" /\ pending' = c
    <3>1. (width' > 2) \in BOOLEAN
      OBVIOUS
    <3> QED
      BY <2>1, <3>1, Zenon
  <2>2. CASE private' = FALSE /\ mdstate' = mdstate /\ pending' = FALSE
    BY <2>2
  <2> QED
    BY <2>1, <2>2, Zenon DEF Run
<1>3. mdstate' \in States
  BY <1>2 DEF CountInv, Types, States
<1>4. ~ (recovery_running' > 0)
  BY <1>1 DEF CountInv
<1> QED
  BY <1>1, <1>2, <1>3, <1>4

(* What is left to show of a start, once the slots and counters are.        *)
LEMMA Started ==
  ASSUME CountInv, NEW c \in BOOLEAN, Run(c), ~ private,
         Types', SuperOK(active, enabled, valid)', StatusOK', CountsOK', EmptyOK',
         active' \cup enabled' \subseteq imported', NewSlots' \subseteq enabled',
         num_missing' = 0 /\ num_wrong' = 0 /\ num_replaced' = 0,
         private' => active' # {},
         mdstate' = mdstate => StateOK'
  PROVE  CountInv'
<1>1. /\ private' => mdstate' = "STARTED"
      /\ mdstate' = "STARTED" \/ mdstate' = mdstate
      /\ file' = file /\ ~ (recovery_running' > 0)
  BY RunFacts
<1>2. FileOK'
  BY <1>1 DEF CountInv, FileOK, SuperOK
<1>3. ~ private' => StateOK'
  BY <1>1 DEF StateOK
<1>4. RunningOK'
  BY <1>1 DEF RunningOK
<1> QED
  BY <1>1, <1>2, <1>3, <1>4 DEF CountInv

(* Starting with a missing or a wrong disk disables it, and counts it so.   *)
LEMMA StartDisableCounts ==
  ASSUME CountInv, Incidents \cap CountedIncidents = {}, StartDisable
  PROVE  CountInv'
<1>1. /\ mdstate = "DISABLE_DISK" /\ MayStart /\ Run(Missing \cup Removed # {})
      /\ status' = [i \in Slots |-> IF i \in Missing THEN "DISK_NP_DSBL" ELSE status[i]]
      /\ enabled' = enabled \ Missing /\ valid' = valid \ Missing
      /\ num_disabled' = num_disabled + Cardinality(Missing)
      /\ num_invalid' = num_invalid + Cardinality(Missing)
      /\ num_missing' = num_missing - Cardinality(Missing)
      /\ id' = Forget(Missing \cup Removed)
      /\ UNCHANGED <<active, size, width, num_replaced, num_wrong, num_new, swap, imported>>
  BY DEF StartDisable, Missing
<1>2. ~ private /\ StateOK /\ active \cup enabled \subseteq imported
  BY <1>1, StartFacts
<1>3. /\ private' \in BOOLEAN /\ pending' \in BOOLEAN /\ mdstate' \in States
      /\ mdstate' = "STARTED" \/ mdstate' = mdstate
      /\ private' => width' > 2
      /\ rdev' = rdev /\ erased' = erased /\ num_disks' = num_disks
      /\ curr_resync' = curr_resync /\ recovery_running' = recovery_running
  BY <1>1, <1>2, RunFacts
<1>4. /\ Types /\ StatusOK /\ CountsOK /\ SuperOK(active, enabled, valid)
      /\ EmptyOK
  BY DEF CountInv
<1>5. /\ {num_missing, num_wrong, num_replaced, num_disabled, num_invalid, num_new} \subseteq Nat
      /\ Missing \in SUBSET Slots /\ Wrong \in SUBSET Slots /\ DisabledSlots \in SUBSET Slots
      /\ InvalidSlots \in SUBSET Slots
  BY <1>4, CountTypes
<1>6. /\ num_missing = Cardinality(Missing) /\ num_wrong = 0 /\ num_replaced = 0 /\ num_new = 0
      /\ num_missing + num_invalid <= 2
  BY <1>1, <1>2, <1>4 DEF StateOK, CountsOK
<1>7. /\ Missing \subseteq imported \cap active \cap enabled \cap valid
      /\ DisabledSlots \subseteq active \ enabled
      /\ WithStatus("DISK_NEW") \subseteq imported \ active
  BY StatusBits
<1>8. Types'
  <2>1. id' \in [Slots -> Disks \cup {None}]
    BY <1>1, <1>4 DEF Types, Forget
  <2>2. status' \in [Slots -> Status]
    BY <1>1, <1>4 DEF Types, Status
  <2> QED
    BY <1>1, <1>3, <1>4, <2>1, <2>2 DEF Types
<1>9. /\ Missing' = {} /\ Wrong' = Wrong /\ Replaced' = Replaced
      /\ DisabledSlots' = DisabledSlots \cup Missing
      /\ InvalidSlots' = InvalidSlots \cup Missing
  BY <1>1, <1>7 DEF Missing, Wrong, Replaced, DisabledSlots, DisabledStatus, InvalidSlots,
                    WithStatus, Failed
<1>10. WithStatus("DISK_NEW")' = WithStatus("DISK_NEW")
  BY <1>1 DEF WithStatus, Missing
<1>11. NewSlots' = NewSlots
  <2>1. \A i \in WithStatus("DISK_NEW") : i \notin Missing \cup Removed
    BY DEF WithStatus, Missing, Removed
  <2>2. \A i \in WithStatus("DISK_NEW") : /\ i \in enabled' <=> i \in enabled
                                          /\ id'[i] = id[i]
    BY <1>1, <2>1 DEF Forget, WithStatus
  <2>3. FailedToClear' = FailedToClear
    BY <1>10, <2>2 DEF FailedToClear
  <2> QED
    BY <1>10, <2>3 DEF NewSlots
<1>12. /\ Cardinality(Missing') = 0
       /\ Cardinality(DisabledSlots') = Cardinality(DisabledSlots) + Cardinality(Missing)
       /\ Cardinality(InvalidSlots') = Cardinality(InvalidSlots) + Cardinality(Missing)
  <2>1. DisabledSlots \cap Missing = {} /\ InvalidSlots \cap Missing = {}
    BY <1>7 DEF InvalidSlots, Failed
  <2> QED
    BY <1>5, <1>9, <2>1, CountMore, FS_EmptySet
<1>13. CountsOK' /\ num_missing' = 0
  <2>1. num_missing' = 0 /\ Cardinality(Missing') = 0
    BY <1>1, <1>5, <1>6, <1>12
  <2>2. /\ num_disabled' = Cardinality(DisabledSlots')
        /\ num_invalid' = Cardinality(InvalidSlots')
    BY <1>1, <1>4, <1>12 DEF CountsOK
  <2> QED
    BY <1>1, <1>4, <1>9, <1>11, <2>1, <2>2 DEF CountsOK
<1>14. SuperOK(active, enabled, valid)'
  <2>1. InvalidSlots' = active' \ valid'
    BY <1>1, <1>2 DEF InvalidSlots, Failed
  <2>2. Cardinality(InvalidSlots') <= 2
    BY <1>4, <1>5, <1>6, <1>12 DEF CountsOK
  <2> QED
    BY <1>1, <1>4, <2>1, <2>2 DEF SuperOK
<1>15. StatusOK'
  <2>1. \A i \in Slots \ imported : status'[i] = status[i]
    BY <1>1, <1>7
  <2>2. \A i \in Missing : i \in active' \ enabled' /\ status'[i] \in DisabledStatus
    BY <1>1, <1>5, <1>7 DEF DisabledStatus
  <2>3. \A i \in Slots \ Missing : /\ status'[i] = status[i] /\ (i \in enabled' <=> i \in enabled)
                                   /\ i \in valid' <=> i \in valid
    BY <1>1
  <2>4. \A i \in enabled' \ active' : id'[i] = id[i]
    BY <1>1, <1>2, <1>4 DEF Forget, Removed, WithStatus, Missing, StatusOK, Types
  <2>5. \A i \in Missing : i \notin valid' /\ status'[i] # "DISK_NEW"
    BY <1>1, <1>5
  <2> QED
    BY <1>1, <1>3, <1>4, <1>5, <2>1, <2>2, <2>3, <2>4, <2>5 DEF StatusOK, Types
<1>16. EmptyOK' /\ (private' => active' # {})
  BY <1>1, <1>3, <1>4, <1>6 DEF EmptyOK
<1>17. NewSlots' \subseteq enabled' /\ active' \cup enabled' \subseteq imported'
  <2>1. NewSlots = {}
    BY <1>4, <1>5, <1>6, CountTypes, CountZero DEF CountsOK
  <2> QED
    BY <1>1, <1>2, <1>11, <2>1
<1>18. mdstate' = mdstate => StateOK'
  <2>1. num_missing' = 0 /\ num_invalid' = num_missing + num_invalid
    BY <1>1, <1>5, <1>6, <1>13
  <2>2. num_missing' + num_invalid' <= 2
    BY <1>5, <1>6, <2>1
  <2> QED
    BY <1>1, <1>6, <2>2 DEF StateOK
<1> QED
  BY <1>1, <1>2, <1>6, <1>8, <1>13, <1>14, <1>15, <1>16, <1>17, <1>18, Started

(* Starting with a replaced disk keeps the counts.                          *)
LEMMA StartReconCounts ==
  ASSUME CountInv, Incidents \cap CountedIncidents = {}, StartRecon
  PROVE  CountInv'
<1> DEFINE kept == Wrong \cap swap
           changed == Wrong \ swap
<1>1. /\ mdstate \in {"RECON_DISK", "SWAP_DSBL"} /\ MayStart
      /\ Run(Wrong \cup Replaced \cup Removed # {})
      /\ status' = [i \in Slots |-> IF i \in Wrong \cap swap THEN "DISK_OK"
                                    ELSE IF i \in Wrong \cup Replaced THEN "DISK_INVALID"
                                    ELSE status[i]]
      /\ enabled' = enabled \cup Replaced
      /\ valid' = valid \ (Wrong \ (Wrong \cap swap))
      /\ num_disabled' = num_disabled - Cardinality(Replaced)
      /\ num_invalid' = num_invalid + Cardinality((Wrong \ (Wrong \cap swap)) \cap valid)
      /\ num_replaced' = num_replaced - Cardinality(Replaced)
      /\ num_wrong' = num_wrong - Cardinality(Wrong)
      /\ swap' = swap \ (Wrong \cap swap)
      /\ id' = [i \in Slots |-> IF i \in Wrong \cup Replaced THEN rdev[i] ELSE Forget(Removed)[i]]
      /\ size' = [i \in Slots |-> IF i \in Wrong \cup Replaced THEN RSize(i) ELSE size[i]]
      /\ UNCHANGED <<active, width, num_missing, num_new, imported>>
  BY DEF StartRecon, Wrong, Replaced
<1>2. ~ private /\ StateOK /\ active \cup enabled \subseteq imported
  BY <1>1, StartFacts
<1>3. /\ private' \in BOOLEAN /\ pending' \in BOOLEAN /\ mdstate' \in States
      /\ mdstate' = "STARTED" \/ mdstate' = mdstate
      /\ private' => width' > 2
      /\ rdev' = rdev /\ erased' = erased /\ num_disks' = num_disks
      /\ curr_resync' = curr_resync /\ recovery_running' = recovery_running
  BY <1>1, <1>2, RunFacts
<1>4. /\ Types /\ StatusOK /\ CountsOK /\ SuperOK(active, enabled, valid)
      /\ EmptyOK
  BY DEF CountInv
<1>5. /\ {num_missing, num_wrong, num_replaced, num_disabled, num_invalid, num_new} \subseteq Nat
      /\ Wrong \in SUBSET Slots /\ Replaced \in SUBSET Slots /\ DisabledSlots \in SUBSET Slots
      /\ InvalidSlots \in SUBSET Slots
  BY <1>4, CountTypes
<1>6. /\ num_wrong = Cardinality(Wrong) /\ num_replaced = Cardinality(Replaced)
      /\ num_missing = 0 /\ num_new = 0 /\ num_invalid + Cardinality(changed) <= 2
  BY <1>1, <1>2, <1>4 DEF StateOK, CountsOK
<1>7. /\ Wrong \subseteq imported \cap active \cap enabled \cap valid
      /\ DisabledSlots \subseteq (imported \cap active) \ enabled
      /\ Replaced \subseteq DisabledSlots /\ DisabledSlots \cap valid = {}
      /\ WithStatus("DISK_NEW") \subseteq imported \ active
  BY StatusBits
<1>8. Types'
  <2>1. id' \in [Slots -> Disks \cup {None}]
    BY <1>1, <1>4 DEF Types, Forget
  <2>2. status' \in [Slots -> Status]
    BY <1>1, <1>4 DEF Types, Status
  <2>3. size' \in [Slots -> Nat]
    BY <1>1, <1>4, ArrayAssumption DEF Types, RSize
  <2> QED
    BY <1>1, <1>3, <1>4, <1>5, <1>7, <2>1, <2>2, <2>3 DEF Types
<1>9. /\ Missing' = Missing /\ Wrong' = {} /\ Replaced' = {}
      /\ DisabledSlots' = DisabledSlots \ Replaced
      /\ InvalidSlots' = InvalidSlots \cup changed
  BY <1>1, <1>7 DEF Missing, Wrong, Replaced, DisabledSlots, DisabledStatus, InvalidSlots,
                    WithStatus, Failed
<1>10. WithStatus("DISK_NEW")' = WithStatus("DISK_NEW")
  BY <1>1 DEF WithStatus, Wrong, Replaced
<1>11. NewSlots' = NewSlots
  <2>1. \A i \in WithStatus("DISK_NEW") : i \notin Wrong \cup Replaced \cup Removed
    BY DEF WithStatus, Wrong, Replaced, Removed
  <2>2. \A i \in WithStatus("DISK_NEW") : /\ i \in enabled' <=> i \in enabled
                                          /\ id'[i] = id[i]
    BY <1>1, <2>1 DEF Forget, WithStatus
  <2>3. FailedToClear' = FailedToClear
    BY <1>10, <2>2 DEF FailedToClear
  <2> QED
    BY <1>10, <2>3 DEF NewSlots
<1>12. /\ Cardinality(Wrong') = 0 /\ Cardinality(Replaced') = 0
       /\ Cardinality(DisabledSlots') = Cardinality(DisabledSlots) - Cardinality(Replaced)
       /\ Cardinality(InvalidSlots') = Cardinality(InvalidSlots) + Cardinality(changed)
  <2>1. InvalidSlots \cap changed = {} /\ changed \in SUBSET Slots
    BY <1>5, <1>7 DEF InvalidSlots, Failed
  <2> HIDE DEF changed
  <2>2. Cardinality(InvalidSlots') = Cardinality(InvalidSlots) + Cardinality(changed)
    BY <1>5, <1>9, <2>1, CountMore
  <2>3. Cardinality(DisabledSlots') = Cardinality(DisabledSlots) - Cardinality(Replaced)
    BY <1>5, <1>7, <1>9, CountLess
  <2> QED
    BY <1>9, <2>2, <2>3, FS_EmptySet
<1>13. CountsOK' /\ num_missing' = 0 /\ num_wrong' = 0 /\ num_replaced' = 0
  <2>1. num_wrong' = 0 /\ num_replaced' = 0 /\ num_missing' = 0
    BY <1>1, <1>5, <1>6
  <2>2. num_disabled' = Cardinality(DisabledSlots')
    BY <1>1, <1>4, <1>12 DEF CountsOK
  <2>3. (Wrong \ (Wrong \cap swap)) \cap valid = changed
    BY <1>7
  <2>4. num_invalid' = Cardinality(InvalidSlots')
    BY <1>1, <1>4, <1>12, <2>3 DEF CountsOK
  <2> QED
    BY <1>1, <1>4, <1>9, <1>11, <1>12, <2>1, <2>2, <2>4 DEF CountsOK
<1>14. Cardinality(InvalidSlots') <= 2
  BY <1>4, <1>6, <1>12 DEF CountsOK
<1>15. SuperOK(active, enabled, valid)'
  <2>1. InvalidSlots' = active' \ valid'
    BY <1>1, <1>2 DEF InvalidSlots, Failed
  <2> QED
    BY <1>1, <1>4, <1>14, <2>1 DEF SuperOK
<1>16. StatusOK'
  <2>1. \A i \in Slots \ imported : status'[i] = status[i]
    BY <1>1, <1>7
  <2>2. \A i \in kept : status'[i] = "DISK_OK" /\ i \in valid' \cap enabled' \cap active'
    BY <1>1, <1>5, <1>7
  <2>3. \A i \in changed \cup Replaced :
           status'[i] = "DISK_INVALID" /\ i \in (enabled' \cap active') \ valid'
    BY <1>1, <1>5, <1>7 DEF Wrong, Replaced, WithStatus
  <2>4. \A i \in Slots \ (Wrong \cup Replaced) :
          /\ status'[i] = status[i] /\ (i \in enabled' <=> i \in enabled)
          /\ i \in valid' <=> i \in valid
    BY <1>1
  <2>5. \A i \in enabled' \ active' : id'[i] = id[i] /\ i \in enabled
    BY <1>1, <1>2, <1>4, <1>7
       DEF Forget, Removed, WithStatus, Wrong, Replaced, StatusOK, Types
  <2>6. /\ imported' = imported /\ active' = active /\ rdev' = rdev /\ imported \subseteq Slots
        /\ Wrong = kept \cup changed
    BY <1>1, <1>3, <1>4 DEF Types
  <2>7. ASSUME NEW i \in imported, i \in kept PROVE StatusOf(i)'
    BY <2>2, <2>6, <2>7 DEF StatusOf
  <2>8. ASSUME NEW i \in imported, i \in changed \cup Replaced PROVE StatusOf(i)'
    BY <2>3, <2>6, <2>8 DEF StatusOf
  <2>9. ASSUME NEW i \in imported, i \notin Wrong \cup Replaced PROVE StatusOf(i)'
    <3>1. StatusOf(i) /\ i \in Slots
      BY <1>4, <2>6, <2>9 DEF StatusOK, StatusOf, Types
    <3>2. i \in enabled' \ active' => id'[i] = id[i]
      BY <2>5
    <3> QED
      BY <2>4, <2>6, <2>9, <3>1, <3>2 DEF StatusOf
  <2>10. \A i \in imported' : StatusOf(i)'
    BY <2>6, <2>7, <2>8, <2>9
  <2>11. \A i \in Slots \ imported' : status'[i] = "DISK_NP" /\ rdev'[i] = None
    BY <1>4, <2>1, <2>6 DEF StatusOK
  <2> QED
    BY <2>10, <2>11 DEF StatusOK, StatusOf
<1>17. EmptyOK' /\ (private' => active' # {})
  BY <1>1, <1>3, <1>4, <1>6 DEF EmptyOK
<1>18. NewSlots' \subseteq enabled' /\ active' \cup enabled' \subseteq imported'
  <2>1. NewSlots = {}
    BY <1>4, <1>6, CountTypes, CountZero DEF CountsOK
  <2> QED
    BY <1>1, <1>2, <1>7, <1>11, <2>1
<1>19. mdstate' = mdstate => StateOK'
  <2>1. Cardinality(Wrong' \ swap') = 0
    BY <1>9, FS_EmptySet
  <2>2. num_invalid' + 0 <= 2
    BY <1>5, <1>13, <1>14, PartOfSlots, CountTypesNext, <1>8 DEF CountsOK
  <2>3. num_missing' = 0 /\ num_new' = 0
    BY <1>1, <1>6
  <2> QED
    BY <1>1, <2>1, <2>2, <2>3 DEF StateOK
<1> QED
  BY <1>1, <1>2, <1>8, <1>13, <1>15, <1>16, <1>17, <1>18, <1>19, Started

(* Starting an array that was stopped keeps the counts.                     *)
LEMMA StartStoppedCounts ==
  ASSUME CountInv, Incidents \cap CountedIncidents = {}, StartStopped
  PROVE  CountInv'
<1> DEFINE new == IF num_new > 0 THEN WithStatus("DISK_NEW") ELSE {}
           join == Joining(new)
<1>1. /\ mdstate = "STOPPED" /\ MayStart /\ Run(new \cup Removed # {})
      /\ new \cap FailedToClear = {}
      /\ status' = [i \in Slots |-> IF i \in join THEN "DISK_OK" ELSE status[i]]
      /\ enabled' = enabled \cup new
      /\ active' = active \cup join /\ valid' = valid \cup join
      /\ num_new' = num_new - Cardinality(join)
      /\ id' = [i \in Slots |-> IF i \in new THEN rdev[i] ELSE Forget(Removed)[i]]
      /\ size' = [i \in Slots |-> IF i \in new THEN RSize(i) ELSE size[i]]
      /\ UNCHANGED <<width, num_disabled, num_replaced, num_invalid, num_missing, num_wrong,
                     swap, imported>>
  BY DEF StartStopped, CountedIncidents
<1>2. ~ private /\ StateOK /\ active \cup enabled \subseteq imported
  BY <1>1, StartFacts
<1>3. /\ private' \in BOOLEAN /\ pending' \in BOOLEAN /\ mdstate' \in States
      /\ mdstate' = "STARTED" \/ mdstate' = mdstate
      /\ private' => width' > 2
      /\ rdev' = rdev /\ erased' = erased /\ num_disks' = num_disks
      /\ curr_resync' = curr_resync /\ recovery_running' = recovery_running
  <2> HIDE DEF new
  <2> QED
    BY <1>1, <1>2, RunFacts
<1>4. /\ Types /\ StatusOK /\ CountsOK /\ SuperOK(active, enabled, valid)
      /\ EmptyOK
  BY DEF CountInv
<1>5. /\ {num_missing, num_wrong, num_replaced, num_disabled, num_invalid, num_new} \subseteq Nat
      /\ NewSlots \in SUBSET Slots /\ WithStatus("DISK_NEW") \in SUBSET Slots
  BY <1>4, CountTypes DEF WithStatus
<1>6. /\ num_missing = 0 /\ num_wrong = 0 /\ num_replaced = 0
      /\ active = {} => num_new = 0
      /\ num_new = Cardinality(NewSlots)
  BY <1>1, <1>2, <1>4 DEF StateOK, CountsOK
<1>7. WithStatus("DISK_NEW") \subseteq imported \ active
  BY StatusBits
<1>8. /\ join \subseteq new /\ new \subseteq WithStatus("DISK_NEW") /\ new \subseteq NewSlots
      /\ join \in SUBSET NewSlots
      /\ \A i \in new : rdev[i] # None
  <2>1. join \subseteq new /\ new \subseteq WithStatus("DISK_NEW")
    BY DEF Joining
  <2>2. \A i \in WithStatus("DISK_NEW") : rdev[i] # None
    BY <1>4, <1>7 DEF StatusOK, WithStatus
  <2> HIDE DEF new, join
  <2> QED
    BY <1>1, <2>1, <2>2 DEF NewSlots
<1>9. active = {} => new = {} /\ join = {}
  BY <1>5, <1>6, <1>8
<1>10. num_new = 0 => new = {} /\ join = {}
  BY <1>8
<1>11. num_new # 0 => new = WithStatus("DISK_NEW")
  BY <1>5
<1> HIDE DEF new, join
<1>12. Types'
  <2>1. id' \in [Slots -> Disks \cup {None}]
    BY <1>1, <1>4 DEF Types, Forget
  <2>2. status' \in [Slots -> Status]
    BY <1>1, <1>4 DEF Types, Status
  <2>3. size' \in [Slots -> Nat]
    BY <1>1, <1>4, ArrayAssumption DEF Types, RSize
  <2> QED
    BY <1>1, <1>3, <1>4, <1>5, <1>8, <2>1, <2>2, <2>3 DEF Types
<1>13. /\ Missing' = Missing /\ Wrong' = Wrong /\ Replaced' = Replaced
       /\ DisabledSlots' = DisabledSlots
  BY <1>1, <1>8 DEF Missing, Wrong, Replaced, DisabledSlots, DisabledStatus, WithStatus
<1>14. Failed' = Failed /\ InvalidSlots' = InvalidSlots
  BY <1>1, <1>7, <1>8 DEF InvalidSlots, Failed
<1>15. WithStatus("DISK_NEW")' = WithStatus("DISK_NEW") \ join
  BY <1>1 DEF WithStatus
<1>16. \A i \in WithStatus("DISK_NEW") \ new : /\ i \in enabled' <=> i \in enabled
                                               /\ id'[i] = id[i]
  BY <1>1 DEF WithStatus, Forget, Removed
<1>17. NewSlots' = NewSlots \ join
  <2>1. CASE num_new = 0
    <3>1. FailedToClear' = FailedToClear
      BY <1>10, <1>15, <1>16, <2>1 DEF FailedToClear
    <3> QED
      BY <1>10, <1>15, <2>1, <3>1 DEF NewSlots
  <2>2. CASE num_new # 0
    <3>1. FailedToClear = {}
      BY <1>1, <1>11, <2>2 DEF FailedToClear
    <3>2. FailedToClear' = {}
      BY <1>1, <1>11, <1>15, <2>2 DEF FailedToClear
    <3> QED
      BY <1>15, <3>1, <3>2 DEF NewSlots
  <2> QED
    BY <2>1, <2>2
<1>18. CountsOK'
  <2>1. Cardinality(NewSlots') = Cardinality(NewSlots) - Cardinality(join)
    BY <1>5, <1>8, <1>17, CountLess
  <2> QED
    BY <1>1, <1>4, <1>13, <1>14, <2>1 DEF CountsOK
<1>19. SuperOK(active, enabled, valid)'
  BY <1>1, <1>4, <1>8, <1>9, <1>14 DEF SuperOK, Failed
<1>20. StatusOK'
  <2>1. \A i \in Slots \ imported : status'[i] = status[i]
    BY <1>1, <1>7, <1>8
  <2>2. \A i \in join : status'[i] = "DISK_OK" /\ i \in valid' \cap enabled' \cap active'
    BY <1>1, <1>5, <1>8
  <2>3. \A i \in new \ join :
           /\ status'[i] = "DISK_NEW" /\ i \in enabled' \ (active' \cup valid')
           /\ id'[i] = rdev[i] /\ rdev[i] # None
    BY <1>1, <1>4, <1>5, <1>7, <1>8 DEF WithStatus, SuperOK
  <2>4. \A i \in Slots \ new :
          /\ status'[i] = status[i] /\ (i \in enabled' <=> i \in enabled)
          /\ (i \in valid' <=> i \in valid) /\ (i \in active' <=> i \in active)
    BY <1>1, <1>8
  <2>5. \A i \in enabled \ active : i \notin new => id'[i] = id[i]
    BY <1>1, <1>2, <1>4 DEF Forget, Removed, WithStatus, StatusOK, Types
  <2>6. /\ imported' = imported /\ rdev' = rdev /\ imported \subseteq Slots /\ join \subseteq new
        /\ active' \subseteq active \cup join /\ new \subseteq imported
    BY <1>1, <1>3, <1>4, <1>5, <1>7, <1>8 DEF Types
  <2>7. ASSUME NEW i \in imported, i \in join PROVE StatusOf(i)'
    BY <2>2, <2>7 DEF StatusOf
  <2>8. ASSUME NEW i \in imported, i \in new \ join PROVE StatusOf(i)'
    BY <2>3, <2>6, <2>8 DEF StatusOf
  <2>9. ASSUME NEW i \in imported, i \notin new PROVE StatusOf(i)'
    <3>1. StatusOf(i) /\ i \in Slots
      BY <1>4, <2>6 DEF StatusOK, StatusOf, Types
    <3>2. i \in enabled' \ active' => id'[i] = id[i]
      BY <2>4, <2>5, <2>9, <3>1
    <3> QED
      BY <2>4, <2>6, <2>9, <3>1, <3>2 DEF StatusOf
  <2>10. \A i \in imported' : StatusOf(i)'
    BY <2>6, <2>7, <2>8, <2>9
  <2>11. \A i \in Slots \ imported' : status'[i] = "DISK_NP" /\ rdev'[i] = None
    BY <1>4, <2>1, <2>6 DEF StatusOK
  <2> QED
    BY <2>10, <2>11 DEF StatusOK, StatusOf
<1>21. EmptyOK' /\ (private' => active' # {})
  <2>1. ASSUME active' = {} PROVE active = {} /\ num_new = 0 /\ num_new' = 0
    <3>1. active = {} /\ num_new = 0 /\ join = {}
      BY <1>1, <1>6, <1>9, <2>1
    <3>2. Cardinality(join) = 0
      BY <3>1, FS_EmptySet
    <3> QED
      BY <1>1, <3>1, <3>2
  <2>2. active' = {} => num_disks' = 0 /\ width' = 2
    BY <1>1, <1>3, <1>4, <2>1 DEF EmptyOK
  <2> QED
    BY <1>3, <2>1, <2>2 DEF EmptyOK
<1>22. NewSlots' \subseteq enabled' /\ active' \cup enabled' \subseteq imported'
  <2>1. NewSlots \subseteq new
    <3>1. num_new = 0 => NewSlots = {}
      BY <1>5, <1>6, CountZero
    <3> QED
      BY <1>11, <3>1 DEF NewSlots
  <2> QED
    BY <1>1, <1>2, <1>7, <1>8, <1>17, <2>1
<1>23. num_missing' = 0 /\ num_wrong' = 0 /\ num_replaced' = 0
  BY <1>1, <1>6
<1>24. mdstate' = mdstate => StateOK'
  <2>1. ASSUME active' = {} PROVE num_new' = 0
    <3>1. num_new = 0 /\ join = {}
      BY <1>1, <1>6, <1>9, <2>1
    <3>2. Cardinality(join) = 0
      BY <3>1, FS_EmptySet
    <3> QED
      BY <1>1, <3>1, <3>2
  <2> QED
    BY <1>1, <1>23, <2>1 DEF StateOK
<1> QED
  BY <1>1, <1>2, <1>12, <1>18, <1>19, <1>20, <1>21, <1>22, <1>23, <1>24, Started

(* Starting a new array keeps the counts.                                   *)
LEMMA StartNewCounts ==
  ASSUME CountInv, Incidents \cap CountedIncidents = {}, StartNew
  PROVE  CountInv'
<1> DEFINE data == {i \in DataSlots : rdev[i] # None}
           absent == {i \in Parity : rdev[i] = None}
<1>1. /\ mdstate = "NEW_ARRAY" /\ MayStart /\ Run(TRUE)
      /\ active' = data \cup Parity
      /\ enabled' = (data \cup Parity) \ absent
      /\ valid' = data
      /\ id' = rdev
      /\ size' = [i \in Slots |-> RSize(i)]
      /\ status' = [i \in Slots |->
                     IF i \in data THEN "DISK_OK"
                     ELSE IF i \in absent THEN "DISK_NP_DSBL"
                     ELSE IF i \in Parity THEN "DISK_INVALID" ELSE "DISK_NP"]
      /\ width' = Largest(data) + 2
      /\ num_disabled' = Cardinality(absent) /\ num_invalid' = Cardinality(Parity)
      /\ num_replaced' = 0 /\ num_missing' = 0 /\ num_wrong' = 0 /\ num_new' = 0
      /\ swap' = {}
      /\ imported' = imported \cup Parity
  BY DEF StartNew
<1>2. ~ private
  BY <1>1, StartFacts
<1>3. /\ private' \in BOOLEAN /\ pending' \in BOOLEAN /\ mdstate' \in States
      /\ mdstate' = "STARTED" \/ mdstate' = mdstate
      /\ rdev' = rdev /\ erased' = erased /\ num_disks' = num_disks
      /\ curr_resync' = curr_resync /\ recovery_running' = recovery_running
  BY <1>1, <1>2, RunFacts
<1>4. Types /\ StatusOK
  BY DEF CountInv
<1>5. /\ data \in SUBSET Slots /\ Parity \in SUBSET Slots /\ absent \subseteq Parity
      /\ data \cap Parity = {} /\ data \subseteq imported
  BY <1>4, SlotsFinite DEF Slots, StatusOK
<1>6. Largest(data) \in Nat
  BY <1>5, PartOfSlots, SlotsFinite, LargestBounds
<1>7. \A i \in Slots : rdev[i] # None => i \in data \cup Parity
  BY DEF Slots
<1>8. P \in Parity
  BY DEF Parity
<1>9. Types'
  <2>1. size' \in [Slots -> Nat]
    BY <1>1, <1>4, ArrayAssumption DEF Types, RSize
  <2>2. status' \in [Slots -> Status]
    BY <1>1 DEF Status
  <2>3. width' \in Nat /\ width' >= 2
    BY <1>1, <1>6
  <2> QED
    BY <1>1, <1>3, <1>4, <1>5, <2>1, <2>2, <2>3 DEF Types
<1>10. active' \ valid' = Parity
  BY <1>1, <1>5
<1>11. SuperOK(active, enabled, valid)'
  BY <1>1, <1>5, <1>10, SlotsFinite DEF SuperOK
<1>12. StatusOK'
  <2>1. \A i \in data : status'[i] = "DISK_OK"
    BY <1>1, <1>5
  <2>2. \A i \in absent : status'[i] = "DISK_NP_DSBL" /\ i \notin enabled'
    BY <1>1, <1>5
  <2>3. \A i \in Parity \ absent : status'[i] = "DISK_INVALID" /\ i \in enabled'
    BY <1>1, <1>5
  <2>4. \A i \in Slots \ (data \cup Parity) : status'[i] = "DISK_NP" /\ rdev'[i] = None
    BY <1>1, <1>3, <1>7
  <2>5. \A i \in Slots : status'[i] # "DISK_NEW"
    BY <1>1
  <2> QED
    BY <1>1, <1>4, <1>5, <2>1, <2>2, <2>3, <2>4, <2>5 DEF StatusOK, Types, DisabledStatus
<1>13. CountsOK' /\ NewSlots' = {}
  <2>1. Missing' = {} /\ Wrong' = {} /\ Replaced' = {} /\ NewSlots' = {}
    BY <1>1 DEF Missing, Wrong, Replaced, NewSlots, WithStatus
  <2>2. DisabledSlots' = absent
    BY <1>1, <1>5 DEF DisabledSlots, DisabledStatus
  <2>3. InvalidSlots' = Parity
    BY <1>1, <1>10 DEF InvalidSlots, Failed
  <2> QED
    BY <1>1, <2>1, <2>2, <2>3, FS_EmptySet DEF CountsOK
<1>14. active' # {}
  BY <1>1, <1>8
<1>15. active' \cup enabled' \subseteq imported' /\ NewSlots' \subseteq enabled'
  BY <1>1, <1>5, <1>13
<1>16. mdstate' = mdstate => StateOK'
  BY <1>1 DEF StateOK
<1> QED
  BY <1>1, <1>2, <1>9, <1>11, <1>12, <1>13, <1>14, <1>15, <1>16, Started DEF EmptyOK

---------------------------------------------------------------------------
(* The array runs: errors, the recovery thread, stops and restarts. *)

(* While the array runs nothing is missing, wrong or replaced.              *)
LEMMA RunningFacts ==
  ASSUME CountInv, private
  PROVE  /\ Missing = {} /\ Wrong = {} /\ Replaced = {} /\ mdstate = "STARTED" /\ active # {}
         /\ active \cup enabled \subseteq imported /\ NewSlots \subseteq enabled
         /\ num_missing = 0 /\ num_wrong = 0 /\ num_replaced = 0
         /\ enabled \ active = NewSlots
         /\ \A i \in enabled \ active : status[i] = "DISK_NEW" /\ id[i] # None
         /\ InvalidSlots = Failed
<1>1. /\ mdstate = "STARTED" /\ active # {}
      /\ active \cup enabled \subseteq imported /\ NewSlots \subseteq enabled
      /\ num_missing = 0 /\ num_wrong = 0 /\ num_replaced = 0
  BY DEF CountInv, RunningOK
<1>2. Missing = {} /\ Wrong = {} /\ Replaced = {}
  BY <1>1, CountTypes, CountZero DEF CountInv, CountsOK
<1>3. \A i \in enabled \ active : status[i] = "DISK_NEW" /\ id[i] # None
  BY <1>1 DEF CountInv, StatusOK
<1>4. WithStatus("DISK_NEW") \cap active = {}
  BY StatusBits
<1>5. enabled \ active = NewSlots
  BY <1>1, <1>3, <1>4 DEF NewSlots, FailedToClear, WithStatus, CountInv, Types
<1> QED
  BY <1>1, <1>2, <1>3, <1>5 DEF InvalidSlots, Failed

(* A write error disables the disk, and counts it once.                     *)
LEMMA WriteErrorCounts ==
  ASSUME CountInv, NEW i \in Slots, WriteError(i)
  PROVE  CountInv'
<1>1. /\ private /\ i \in enabled
      /\ UNCHANGED <<active, id, size, width, rdev, erased, imported, num_disks, num_replaced,
                     num_missing, num_wrong, swap, mdstate, private, curr_resync,
                     recovery_running, file>>
  BY DEF WriteError, recovery
<1>2. pending' \in BOOLEAN
  BY Zenon DEF WriteError, ReplacementFails, ArrayDiskFails, ClearingFails
<1>3. /\ Types /\ StatusOK /\ CountsOK /\ SuperOK(active, enabled, valid)
      /\ EmptyOK /\ FileOK /\ FileOK'
  BY <1>1 DEF CountInv, FileOK, SuperOK
<1>4. /\ Missing = {} /\ Wrong = {} /\ Replaced = {} /\ mdstate = "STARTED" /\ active # {}
      /\ active \cup enabled \subseteq imported /\ NewSlots \subseteq enabled
      /\ num_missing = 0 /\ num_wrong = 0 /\ num_replaced = 0
      /\ enabled \ active = NewSlots /\ InvalidSlots = Failed
      /\ \A j \in enabled \ active : status[j] = "DISK_NEW" /\ id[j] # None
  BY <1>1, RunningFacts
<1>5. /\ num_disabled \in Nat /\ num_invalid \in Nat /\ num_new \in Nat
      /\ DisabledSlots \in SUBSET Slots /\ InvalidSlots \in SUBSET Slots
      /\ NewSlots \in SUBSET Slots
  BY <1>3, CountTypes
<1>6. DisabledSlots \subseteq (imported \cap active) \ enabled
      /\ WithStatus("DISK_NEW") \subseteq imported \ active
  BY StatusBits
<1>7. ASSUME Types', SuperOK(active, enabled, valid)', StatusOK', CountsOK',
             enabled' \subseteq enabled, NewSlots' \subseteq enabled'
      PROVE  CountInv'
  BY <1>1, <1>3, <1>4, <1>7 DEF CountInv, RunningOK, EmptyOK
<1>8. CASE ReplacementFails(i) \/ ArrayDiskFails(i)
  <2>1. /\ i \in active
        /\ status' = [status EXCEPT ![i] = "DISK_DSBL"]
        /\ enabled' = enabled \ {i} /\ valid' \subseteq valid \ {i}
        /\ num_disabled' = num_disabled + 1 /\ num_new' = num_new
    BY <1>3, <1>5, <1>8
       DEF WriteError, ReplacementFails, ArrayDiskFails, ClearingFails, One, SuperOK
  <2>2. /\ valid' = IF i \in valid THEN valid \ {i} ELSE valid
        /\ num_invalid' = IF i \in valid THEN num_invalid + 1 ELSE num_invalid
        /\ i \in valid => num_invalid < 2
    BY <1>5, <1>8 DEF WriteError, ReplacementFails, ArrayDiskFails, One
  <2>3. /\ status'[i] = "DISK_DSBL" /\ \A j \in Slots \ {i} : status'[j] = status[j]
        /\ status' \in [Slots -> Status]
    BY <1>3, <2>1 DEF Types, Status
  <2>4. /\ Missing' = {} /\ Wrong' = {} /\ Replaced' = {}
        /\ DisabledSlots' = DisabledSlots \cup {i} /\ i \notin DisabledSlots
    BY <1>1, <1>4, <1>6, <2>3
       DEF Missing, Wrong, Replaced, DisabledSlots, DisabledStatus, WithStatus
  <2>5. NewSlots' = NewSlots
    <3>1. i \notin WithStatus("DISK_NEW")
      BY <1>6, <2>1
    <3>2. WithStatus("DISK_NEW")' = WithStatus("DISK_NEW")
      BY <2>3, <3>1 DEF WithStatus
    <3>3. FailedToClear' = FailedToClear
      BY <1>1, <2>1, <3>1, <3>2 DEF FailedToClear
    <3> QED
      BY <3>2, <3>3 DEF NewSlots
  <2>6. InvalidSlots' = IF i \in valid THEN InvalidSlots \cup {i} ELSE InvalidSlots
    BY <1>1, <1>4, <2>1, <2>2 DEF InvalidSlots, Failed
  <2>7. /\ Cardinality(DisabledSlots') = Cardinality(DisabledSlots) + 1
        /\ Cardinality(InvalidSlots') =
             IF i \in valid THEN Cardinality(InvalidSlots) + 1 ELSE Cardinality(InvalidSlots)
    <3>1. i \in valid => i \notin InvalidSlots
      BY DEF InvalidSlots, Failed
    <3> QED
      BY <1>5, <2>4, <2>6, <3>1, CountOneMore
  <2>8. CountsOK'
    BY <1>1, <1>3, <1>4, <2>1, <2>2, <2>4, <2>5, <2>7 DEF CountsOK
  <2>9. Types'
    BY <1>1, <1>2, <1>3, <2>1, <2>3 DEF Types
  <2>10. SuperOK(active, enabled, valid)'
    <3>1. InvalidSlots' = active' \ valid'
      BY <1>1, <1>4, <2>1 DEF InvalidSlots, Failed
    <3>2. Cardinality(InvalidSlots') <= 2
      <4>1. CASE i \in valid
        BY <1>3, <1>5, <2>2, <2>7, <4>1 DEF CountsOK
      <4>2. CASE i \notin valid
        BY <1>3, <1>4, <2>7, <4>2 DEF SuperOK, Failed
      <4> QED
        BY <4>1, <4>2
    <3> QED
      BY <1>1, <1>3, <2>1, <3>1, <3>2 DEF SuperOK
  <2>11. StatusOK'
    <3>1. \A j \in Slots \ {i} : /\ j \in enabled' <=> j \in enabled
                                 /\ j \in valid' <=> j \in valid
      BY <2>1, <2>2
    <3> QED
      BY <1>1, <1>3, <1>4, <2>1, <2>3, <3>1 DEF StatusOK, Types, DisabledStatus
  <2>12. NewSlots' \subseteq enabled'
    BY <1>4, <2>1, <2>5
  <2> QED
    BY <1>7, <2>1, <2>8, <2>9, <2>10, <2>11, <2>12
<1>9. CASE ClearingFails(i)
  <2>1. /\ i \notin active /\ i \notin valid
        /\ status' = status /\ enabled' = enabled \ {i} /\ valid' = valid
        /\ num_disabled' = num_disabled /\ num_invalid' = num_invalid
        /\ num_new' = num_new - 1
    BY <1>3, <1>5, <1>9
       DEF WriteError, ReplacementFails, ArrayDiskFails, ClearingFails, One, SuperOK
  <2>2. /\ Missing' = Missing /\ Wrong' = Wrong /\ Replaced' = Replaced
        /\ DisabledSlots' = DisabledSlots /\ InvalidSlots' = InvalidSlots
    BY <1>1, <2>1 DEF Missing, Wrong, Replaced, DisabledSlots, InvalidSlots, WithStatus, Failed
  <2>3. NewSlots' = NewSlots \ {i} /\ i \in NewSlots
    <3>1. FailedToClear' = FailedToClear \cup {i}
      BY <1>1, <1>4, <2>1 DEF FailedToClear, WithStatus
    <3>2. WithStatus("DISK_NEW")' = WithStatus("DISK_NEW")
      BY <2>1 DEF WithStatus
    <3> QED
      BY <1>1, <1>4, <2>1, <3>1, <3>2 DEF NewSlots
  <2>4. Cardinality(NewSlots') = Cardinality(NewSlots) - 1
    BY <1>5, <2>3, CountOneLess
  <2>5. CountsOK'
    BY <1>1, <1>3, <2>1, <2>2, <2>4 DEF CountsOK
  <2>6. Types' /\ SuperOK(active, enabled, valid)'
    BY <1>1, <1>2, <1>3, <2>1 DEF Types, SuperOK
  <2>7. StatusOK'
    BY <1>1, <1>3, <2>1 DEF StatusOK
  <2>8. NewSlots' \subseteq enabled'
    BY <1>4, <2>1, <2>3
  <2> QED
    BY <1>7, <2>1, <2>5, <2>6, <2>7, <2>8
<1>10. CASE ~ ReplacementFails(i) /\ ~ ArrayDiskFails(i) /\ ~ ClearingFails(i)
  <2>1. UNCHANGED <<superVars, width, deviceVars, counters, swap, mdstate, private>>
    BY <1>1, <1>5, <1>10 DEF WriteError, superVars, deviceVars, counters, One
  <2>2. curr_resync' \in Nat /\ recovery_running' \in Nat /\ (recovery_running' > 0 => private)
    BY <1>1, <1>3 DEF Types
  <2> QED
    BY <1>2, <1>3, <2>1, <2>2, CountsUnchanged
<1> QED
  BY <1>8, <1>9, <1>10

(* A recovery that ends takes from the invalid disks those it made valid.   *)
LEMMA FinishSyncCounts ==
  ASSUME CountInv, FinishSync
  PROVE  CountInv'
<1> DEFINE done == enabled \ valid
           new == done \cap WithStatus("DISK_NEW")
<1>1. /\ recovery_running > 0 /\ curr_resync' = 0 /\ recovery_running' = 0
      /\ active' = active \cup new /\ valid' = valid \cup done
      /\ num_new' = num_new - Cardinality(new)
      /\ num_invalid' = num_invalid - Cardinality(done \ new)
      /\ status' = [i \in Slots |-> IF i \in done THEN "DISK_OK" ELSE status[i]]
      /\ file' \in Saved([Super EXCEPT !.active = active', !.valid = valid'])
      /\ UNCHANGED <<enabled, id, size, width, rdev, erased, imported, num_disks, num_disabled,
                     num_replaced, num_missing, num_wrong, swap, mdstate, private, pending>>
  BY DEF FinishSync
<1>2. private
  BY <1>1 DEF CountInv
<1>3. /\ Types /\ StatusOK /\ CountsOK /\ SuperOK(active, enabled, valid) /\ EmptyOK
  BY DEF CountInv
<1>4. /\ Missing = {} /\ Wrong = {} /\ Replaced = {} /\ mdstate = "STARTED" /\ active # {}
      /\ active \cup enabled \subseteq imported /\ NewSlots \subseteq enabled
      /\ num_missing = 0 /\ num_wrong = 0 /\ num_replaced = 0
      /\ enabled \ active = NewSlots /\ InvalidSlots = Failed
      /\ \A j \in enabled \ active : status[j] = "DISK_NEW" /\ id[j] # None
  BY <1>2, RunningFacts
<1>5. /\ num_disabled \in Nat /\ num_invalid \in Nat /\ num_new \in Nat
      /\ DisabledSlots \in SUBSET Slots /\ InvalidSlots \in SUBSET Slots
      /\ NewSlots \in SUBSET Slots
  BY <1>3, CountTypes
<1>6. /\ DisabledSlots \subseteq (imported \cap active) \ enabled
      /\ WithStatus("DISK_NEW") \subseteq imported \ active
  BY StatusBits
<1>7. new = NewSlots /\ new = enabled \ active /\ new \cap active = {}
      /\ done \ new = InvalidSlots \cap enabled /\ done \subseteq imported
      /\ new \subseteq done
  BY <1>3, <1>4, <1>6 DEF SuperOK, NewSlots, Failed
<1> HIDE DEF new
<1>8. status' \in [Slots -> Status]
  BY <1>1, <1>3 DEF Types, Status
<1>9. Types'
  BY <1>1, <1>3, <1>5, <1>7, <1>8 DEF Types
<1>10. /\ Missing' = {} /\ Wrong' = {} /\ Replaced' = {}
       /\ DisabledSlots' = DisabledSlots
  BY <1>1, <1>4, <1>6
     DEF Missing, Wrong, Replaced, DisabledSlots, DisabledStatus, WithStatus
<1>11. InvalidSlots' = InvalidSlots \ (done \ new)
  BY <1>1, <1>4, <1>7 DEF InvalidSlots, Failed
<1>12. NewSlots' = {}
  <2>1. WithStatus("DISK_NEW")' \subseteq WithStatus("DISK_NEW") \ new
    BY <1>1, <1>7 DEF WithStatus
  <2>2. \A j \in WithStatus("DISK_NEW") \ new : j \in FailedToClear
    BY <1>7 DEF NewSlots
  <2>3. \A j \in WithStatus("DISK_NEW")' : j \in FailedToClear'
    BY <1>1, <2>1, <2>2 DEF FailedToClear
  <2> QED
    BY <2>3 DEF NewSlots
<1>13. /\ Cardinality(InvalidSlots') = Cardinality(InvalidSlots) - Cardinality(done \ new)
       /\ Cardinality(InvalidSlots') <= Cardinality(InvalidSlots)
       /\ Cardinality(NewSlots') = 0
  <2>1. done \ new \in SUBSET InvalidSlots
    BY <1>7
  <2>2. InvalidSlots' \in SUBSET InvalidSlots
    BY <1>11
  <2> HIDE DEF done
  <2> QED
    BY <1>5, <1>11, <1>12, <2>1, <2>2, CountLess, FS_EmptySet
<1>14. num_new' = 0
  BY <1>1, <1>3, <1>5, <1>7 DEF CountsOK
<1>15. CountsOK'
  BY <1>1, <1>3, <1>4, <1>10, <1>13, <1>14 DEF CountsOK
<1>16. SuperOK(active, enabled, valid)'
  <2>1. InvalidSlots' = active' \ valid'
    BY <1>1, <1>4, <1>7 DEF InvalidSlots, Failed
  <2>2. Cardinality(InvalidSlots') <= 2
    <3>1. Cardinality(InvalidSlots) <= 2
      BY <1>3, <1>4 DEF SuperOK, Failed
    <3> QED
      BY <1>5, <1>11, <1>13, <3>1, PartOfSlots
  <2>3. valid' \subseteq active' \cap enabled'
    BY <1>1, <1>3, <1>7 DEF SuperOK
  <2>4. Parity \subseteq active'
    BY <1>1, <1>3, <1>4 DEF SuperOK
  <2> QED
    BY <2>1, <2>2, <2>3, <2>4 DEF SuperOK
<1>17. StatusOK'
  <2>1. \A i \in done : status'[i] = "DISK_OK" /\ i \in valid' \cap active' \cap enabled'
    BY <1>1, <1>3, <1>5, <1>7 DEF Types
  <2>2. \A i \in Slots \ done :
          /\ status'[i] = status[i] /\ (i \in valid' <=> i \in valid)
          /\ i \in active' <=> i \in active
    BY <1>1, <1>7
  <2> QED
    BY <1>1, <1>3, <1>7, <2>1, <2>2 DEF StatusOK, Types
<1>18. FileOK'
  <2>1. active' \in SUBSET Slots /\ valid' \in SUBSET Slots
    BY <1>9 DEF Types
  <2>2. SuperOK(active', enabled, valid')
    BY <1>1, <1>16 DEF SuperOK
  <2> QED
    BY <1>1, <2>1, <2>2, SavedOK
<1>19. EmptyOK' /\ RunningOK'
  BY <1>1, <1>4, <1>7, <1>12 DEF EmptyOK, RunningOK
<1> QED
  BY <1>1, <1>2, <1>9, <1>15, <1>16, <1>17, <1>18, <1>19 DEF CountInv

(* A restart of the machine begins with zero everywhere.                    *)
LEMMA RestartCounts ==
  ASSUME CountInv, Restart
  PROVE  CountInv'
<1>1. FileOK
  BY DEF CountInv
<1>2. active' = file.active
  BY <1>1 DEF Restart, FileOK, SuperOK, Parity
<1>3. FileOK' /\ SuperOK(active, enabled, valid)'
  BY <1>1, <1>2 DEF Restart, FileOK, SuperOK
<1>4. Types'
  <2>1. /\ active' \subseteq Slots /\ enabled' \subseteq Slots /\ valid' \subseteq Slots
        /\ id' \in [Slots -> Disks \cup {None}] /\ size' \in [Slots -> Nat]
    BY <1>1, <1>2 DEF Restart, FileOK
  <2>2. status' \in [Slots -> Status] /\ rdev' \in [Slots -> Disks \cup {None}]
    BY DEF Restart, Status
  <2>3. mdstate' \in States /\ private' \in BOOLEAN /\ pending' \in BOOLEAN
    BY DEF Restart, States
  <2> QED
    BY <2>1, <2>2, <2>3 DEF Restart, Types
<1>5. StatusOK'
  BY DEF Restart, StatusOK
<1>6. CountsOK'
  <2>1. /\ Missing' = {} /\ Wrong' = {} /\ Replaced' = {} /\ DisabledSlots' = {}
        /\ InvalidSlots' = {} /\ NewSlots' = {}
    BY DEF Restart, Missing, Wrong, Replaced, DisabledSlots, InvalidSlots, NewSlots, WithStatus,
           DisabledStatus
  <2> QED
    BY <2>1, FS_EmptySet DEF Restart, CountsOK
<1> QED
  BY <1>3, <1>4, <1>5, <1>6 DEF Restart, CountInv, StateOK, EmptyOK, RunningOK

(* Stopping the array clears the slots and the counters together.           *)
LEMMA StopCounts ==
  ASSUME CountInv, Incidents \cap CountedIncidents = {}, StopArray
  PROVE  CountInv'
<1>1. /\ private /\ private' = FALSE /\ mdstate' = "STOPPED"
      /\ recovery_running' = 0 /\ curr_resync' = 0 /\ pending' = pending
      /\ file' \in Saved(Super) \cup {file}
      /\ UNCHANGED <<superVars, width, deviceVars, counters, swap>>
  BY DEF StopArray, EndSync, CountedIncidents
<1>2. FileOK'
  <2>1. CASE file' = file
    BY <2>1 DEF CountInv, FileOK, SuperOK
  <2>2. CASE file' \in Saved(Super)
    BY <2>2, SavedSuperOK
  <2> QED
    BY <1>1, <2>1, <2>2
<1>3. Types' /\ SuperOK(active, enabled, valid)' /\ StatusOK'
  BY <1>1 DEF CountInv, Types, SuperOK, StatusOK, superVars, deviceVars, counters, States
<1>4. UNCHANGED <<Missing, Wrong, Replaced, DisabledSlots, InvalidSlots, NewSlots>>
  BY <1>1 DEF Missing, Wrong, Replaced, DisabledSlots, InvalidSlots, NewSlots, WithStatus,
              FailedToClear, Failed, superVars, deviceVars
<1>5. CountsOK' /\ EmptyOK'
  BY <1>1, <1>4 DEF CountInv, CountsOK, EmptyOK, superVars, counters
<1>6. StateOK'
  <2>1. num_missing = 0 /\ num_wrong = 0 /\ num_replaced = 0 /\ active # {}
    BY <1>1, RunningFacts
  <2> QED
    BY <1>1, <2>1 DEF StateOK, superVars, counters
<1> QED
  BY <1>1, <1>2, <1>3, <1>5, <1>6 DEF CountInv, RunningOK

(* The other steps of a running array change no slot and no counter.        *)
LEMMA QuietCounts ==
  ASSUME CountInv,
         \/ CommitSuper \/ SyncRegion \/ SyncInterrupted \/ NocheckCancel
         \/ \E resume \in BOOLEAN, offset \in Regions : CheckArray(resume, offset)
         \/ \E p \in Parity : CopyParity(p)
         \/ \E w \in DataSlots, r \in Regions : Write(w, r)
         \/ UNCHANGED vars
  PROVE  CountInv'
<1>1. /\ curr_resync \in Nat /\ recovery_running \in Nat /\ pending \in BOOLEAN
      /\ recovery_running > 0 => private
      /\ FileOK
  BY DEF CountInv, Types
<1>2. file' = file => FileOK'
  BY <1>1 DEF FileOK, SuperOK
<1>3. CASE CommitSuper
  <2>1. file' \in Saved(Super)
    BY <1>3 DEF CommitSuper
  <2>2. FileOK'
    BY <2>1, SavedSuperOK
  <2> QED
    BY <1>1, <1>3, <2>2, CountsUnchanged DEF CommitSuper, recovery
<1>4. CASE SyncRegion
  <2>1. curr_resync' = curr_resync + 1 /\ FileOK'
    BY <1>2, <1>4 DEF SyncRegion
  <2> QED
    BY <1>1, <1>4, <2>1, CountsUnchanged DEF SyncRegion
<1>5. CASE SyncInterrupted
  <2>1. file' \in Saved(Super) /\ recovery_running' = 0 /\ curr_resync' = curr_resync
    BY <1>5 DEF SyncInterrupted, EndSync
  <2>2. FileOK'
    BY <2>1, SavedSuperOK
  <2> QED
    BY <1>1, <1>5, <2>1, <2>2, CountsUnchanged DEF SyncInterrupted
<1>6. CASE NocheckCancel
  <2>1. /\ file' \in Saved(Super) \cup {file} /\ recovery_running' = 0 /\ curr_resync' = 0
        /\ private
    BY <1>6 DEF NocheckCancel, EndSync
  <2>2. FileOK'
    <3>1. CASE file' \in Saved(Super)
      BY <3>1, SavedSuperOK
    <3> QED
      BY <1>2, <2>1, <3>1
  <2> QED
    BY <1>1, <1>6, <2>1, <2>2, CountsUnchanged DEF NocheckCancel
<1>7. CASE \E resume \in BOOLEAN, offset \in Regions : CheckArray(resume, offset)
  <2>1. PICK resume \in BOOLEAN, offset \in Regions : CheckArray(resume, offset)
    BY <1>7
  <2>2. /\ private /\ file' \in Saved(Super) /\ recovery_running' = RecoverySize
        /\ curr_resync' = curr_resync \/ curr_resync' = offset
    BY <2>1 DEF CheckArray
  <2>3. FileOK' /\ RecoverySize \in Nat /\ offset \in Nat
    BY <2>2, SavedSuperOK, RecoverySizeType DEF Regions
  <2> QED
    BY <1>1, <2>1, <2>2, <2>3, CountsUnchanged DEF CheckArray
<1>8. CASE \E p \in Parity : CopyParity(p)
  BY <1>1, <1>2, <1>8, CountsUnchanged DEF CopyParity, recovery
<1>9. CASE \E w \in DataSlots, r \in Regions : Write(w, r)
  BY <1>1, <1>2, <1>9, CountsUnchanged DEF Write, recovery
<1>10. CASE UNCHANGED vars
  BY <1>1, <1>2, <1>10, CountsUnchanged DEF vars, superVars, deviceVars, counters
<1> QED
  BY <1>3, <1>4, <1>5, <1>6, <1>7, <1>8, <1>9, <1>10

(* Every step keeps the counts.                                             *)
LEMMA CountNext ==
  ASSUME CountInv, Incidents \cap CountedIncidents = {}, [Next]_vars
  PROVE  CountInv'
<1>1. CASE \E i \in Slots, d \in Disks \cup {None}, e \in BOOLEAN : ImportSlot(i, d, e)
  BY <1>1, ImportCounts
<1>2. CASE Start
  BY <1>2, StartNewCounts, StartDisableCounts, StartReconCounts, StartStoppedCounts DEF Start
<1>3. CASE StopArray
  BY <1>3, StopCounts
<1>4. CASE Restart
  BY <1>4, RestartCounts
<1>5. CASE FinishSync
  BY <1>5, FinishSyncCounts
<1>6. CASE \E i \in Slots : WriteError(i)
  BY <1>6, WriteErrorCounts
<1> QED
  BY <1>1, <1>2, <1>3, <1>4, <1>5, <1>6, QuietCounts DEF Next, Recover

(* The inductive invariant: the superblock in memory and in the file, the   *)
(* status of each slot, and each counter agree, whatever happens.           *)
THEOREM ArrayCounted ==
  ASSUME Incidents \cap CountedIncidents = {}
  PROVE  Spec => []CountInv
<1>1. Init => CountInv
  BY CountInit
<1>2. CountInv /\ [Next]_vars => CountInv'
  BY CountNext
<1> QED
  BY <1>1, <1>2, PTL DEF Spec

(* Every variable keeps its type and no counter of import_slot(),           *)
(* start_array() and md_write_error() underflows.                           *)
THEOREM ArrayTyped ==
  ASSUME Incidents \cap CountedIncidents = {}
  PROVE  Spec => []TypeOK
<1>1. CountInv => TypeOK
  BY CountTypes DEF CountInv, Types, TypeOK
<1> QED
  BY <1>1, ArrayCounted, PTL

(* At most two slots of a running array are invalid: start_array() starts   *)
(* no array with more, and md_write_error() and the recovery thread make no *)
(* more.                                                                    *)
THEOREM ArrayWithinParity ==
  ASSUME Incidents \cap CountedIncidents = {}
  PROVE  Spec => []WithinParity
<1>1. CountInv => WithinParity
  BY DEF CountInv, SuperOK, WithinParity, Failed
<1> QED
  BY <1>1, ArrayCounted, PTL

(* The counters of a running array, which md_write_error() decides on, are  *)
(* those of its slots.                                                      *)
THEOREM ArrayCountersExact ==
  ASSUME Incidents \cap CountedIncidents = {}
  PROVE  Spec => []CountersExact
<1>1. ASSUME CountInv, private PROVE active \ enabled = DisabledSlots
  <2>1. active \subseteq imported
    BY <1>1, RunningFacts
  <2>2. DisabledSlots \subseteq active \ enabled
    BY <1>1, StatusBits
  <2> QED
    BY <1>1, <2>1, <2>2 DEF CountInv, StatusOK, DisabledSlots, Types
<1>2. CountInv => CountersExact
  BY <1>1, RunningFacts DEF CountInv, CountsOK, CountersExact
<1> QED
  BY <1>2, ArrayCounted, PTL

---------------------------------------------------------------------------
(* What is valid is current, as long as none of the incidents is met. *)

FileValid == file.active \cap file.valid \cap file.enabled

(* A disk is in one slot, a present disk that replaces no other is the one  *)
(* that the superblock names, and one that does is there.                   *)
DeviceOK ==
  /\ \A i, j \in Slots : rdev[i] = rdev[j] /\ rdev[i] # None => i = j
  /\ \A i \in Slots : status[i] \in {"DISK_OK", "DISK_INVALID"}
                      \/ (status[i] = "DISK_NEW" /\ i \in enabled)
       => rdev[i] # None /\ id[i] = rdev[i] /\ size[i] = SizeOf[rdev[i]]
  /\ \A i \in Slots : status[i] \in {"DISK_WRONG", "DISK_DSBL_NEW"} => rdev[i] # None

(* A new disk that is said to be erased holds zeros until it joins.         *)
ErasedOK ==
  \A i \in erased : status[i] = "DISK_NEW" =>
    /\ i \notin enabled /\ id[i] = None
    /\ \A r \in 0 .. SizeOf[rdev[i]] - 1 : <<rdev[i], r>> \in blank

(* Disks are cleared only while none is rebuilt.                            *)
ExpansionOK ==
  num_new > 0 /\ (private \/ mdstate = "STOPPED") => num_invalid = num_disabled

(* The disks that the superblock in memory names as valid are current.      *)
SuperCurrent ==
  ~ beyond => \A i \in valid : \A r \in 0 .. size[i] - 1 : <<i, id[i], r>> \in fresh

(* The file names as valid only what memory does, but for a disk that has   *)
(* just failed.                                                             *)
FileMatches ==
  ~ pending \/ recovery_running > 0 =>
    \A i \in FileValid : /\ i \in valid \/ (pending /\ i \notin enabled)
                         /\ file.id[i] = id[i] /\ file.size[i] = size[i]
                         /\ private => id[i] = rdev[i] /\ rdev[i] # None

(* What the recovery thread has passed is current, or cleared, and it is to *)
(* pass all of each disk.                                                   *)
ProgressOK ==
  /\ ~ private => curr_resync = 0
  /\ private /\ ~ beyond =>
       \A i \in enabled \ valid : \A r \in 0 .. size[i] - 1 : r < curr_resync =>
         IF i \in active THEN <<i, rdev[i], r>> \in fresh ELSE <<rdev[i], r>> \in blank
  /\ recovery_running > 0 => \A i \in enabled \ valid : size[i] <= recovery_running

CurrentInv ==
  /\ DeviceOK /\ ErasedOK /\ ExpansionOK /\ SuperCurrent /\ FileIsCurrent /\ FileMatches
  /\ ProgressOK

(* No disk is stale at first.                                               *)
LEMMA CurrentInit == Init => CurrentInv
<1> SUFFICES ASSUME Init PROVE CurrentInv
  OBVIOUS
<1>1. PICK a \in Assemblies :
        LET used == {i \in Slots : a[i] # None}
        IN  /\ file = IF used = {} THEN EmptySuper
                      ELSE [active |-> used \cup Parity, enabled |-> used, valid |-> used,
                            id |-> a, size |-> [i \in Slots |-> IF i \in used THEN SizeOf[a[i]] ELSE 0]]
            /\ fresh = UNION {{<<i, a[i], r>> : r \in 0 .. SizeOf[a[i]] - 1} : i \in used}
  BY DEF Init
<1>2. \A i \in FileValid : \A r \in 0 .. file.size[i] - 1 : <<i, file.id[i], r>> \in fresh
  <2> DEFINE used == {i \in Slots : a[i] # None}
  <2>1. CASE used = {}
    <3>1. file = EmptySuper
      BY <1>1, <2>1
    <3> QED
      BY <3>1 DEF FileValid, EmptySuper
  <2>2. CASE used # {}
    <3>1. /\ file.valid = used /\ file.id = a
          /\ file.size = [i \in Slots |-> IF i \in used THEN SizeOf[a[i]] ELSE 0]
      BY <1>1, <2>2
    <3>2. \A i \in used : \A r \in 0 .. SizeOf[a[i]] - 1 : <<i, a[i], r>> \in fresh
      BY <1>1
    <3>3. used \subseteq Slots
      OBVIOUS
    <3> HIDE DEF used
    <3> QED
      BY <3>1, <3>2, <3>3 DEF FileValid
  <2> QED
    BY <2>1, <2>2
<1>3. DeviceOK /\ ErasedOK /\ ExpansionOK /\ ProgressOK
  BY DEF Init, DeviceOK, ErasedOK, ExpansionOK, ProgressOK
<1>4. FileIsCurrent
  BY <1>2 DEF FileIsCurrent, FileValid
<1>5. CountInv
  BY CountInit
<1>6. file.valid = FileValid
  BY <1>5 DEF CountInv, FileOK, SuperOK, FileValid
<1>7. SuperCurrent
  BY <1>2, <1>6 DEF Init, SuperCurrent
<1>8. FileMatches
  BY <1>6 DEF Init, FileMatches
<1> QED
  BY <1>3, <1>4, <1>7, <1>8 DEF CurrentInv

(* The disks of a running array that are enabled are those it names.        *)
LEMMA RunningDevices ==
  ASSUME CountInv, DeviceOK, private
  PROVE  \A i \in enabled :
           /\ i \in Slots /\ rdev[i] # None /\ rdev[i] \in Disks /\ id[i] = rdev[i]
           /\ size[i] = SizeOf[rdev[i]] /\ size[i] = RSize(i) /\ size[i] \in Nat
<1> SUFFICES ASSUME NEW i \in enabled
             PROVE  /\ i \in Slots /\ rdev[i] # None /\ rdev[i] \in Disks /\ id[i] = rdev[i]
                    /\ size[i] = SizeOf[rdev[i]] /\ size[i] = RSize(i) /\ size[i] \in Nat
  OBVIOUS
<1>1. i \in imported /\ Missing = {} /\ Wrong = {} /\ i \in Slots
      /\ rdev \in [Slots -> Disks \cup {None}] /\ size \in [Slots -> Nat]
  BY RunningFacts DEF CountInv, Types
<1>2. status[i] \in {"DISK_OK", "DISK_INVALID"} \/ (status[i] = "DISK_NEW" /\ i \in enabled)
  <2>1. CASE i \in valid
    BY <1>1, <2>1 DEF CountInv, StatusOK, Missing, Wrong, WithStatus
  <2>2. CASE i \notin valid
    BY <1>1, <2>2 DEF CountInv, StatusOK
  <2> QED
    BY <2>1, <2>2
<1> QED
  BY <1>1, <1>2 DEF DeviceOK, RSize

(* A running array knows the disk in every enabled slot.                    *)
LEMMA RunningDevicesNext ==
  ASSUME CountInv', DeviceOK', private'
  PROVE  \A i \in enabled' : rdev'[i] # None /\ id'[i] = rdev'[i]
<1> SUFFICES ASSUME NEW i \in enabled' PROVE rdev'[i] # None /\ id'[i] = rdev'[i]
  OBVIOUS
<1>1. i \in Slots /\ i \in imported'
  BY DEF CountInv, Types, RunningOK
<1>2. Missing' = {} /\ Wrong' = {}
  <2>1. num_missing' = 0 /\ num_wrong' = 0
    BY DEF CountInv, RunningOK
  <2>2. Types' /\ CountsOK'
    BY DEF CountInv
  <2>3. Missing' \in SUBSET Slots /\ Wrong' \in SUBSET Slots
    BY <2>2, CountTypesNext
  <2>4. num_missing' = Cardinality(Missing') /\ num_wrong' = Cardinality(Wrong')
    BY <2>2 DEF CountsOK
  <2> QED
    BY <2>1, <2>3, <2>4, CountZero
<1>3. status'[i] \in {"DISK_OK", "DISK_INVALID"} \/ status'[i] = "DISK_NEW"
  <2>1. CASE i \in valid'
    BY <1>1, <1>2, <2>1 DEF CountInv, StatusOK, Missing, Wrong, WithStatus
  <2>2. CASE i \notin valid'
    BY <1>1, <2>2 DEF CountInv, StatusOK
  <2> QED
    BY <2>1, <2>2
<1> QED
  BY <1>1, <1>3 DEF DeviceOK

(* A new disk that is erased joins when the array starts.                   *)
LEMMA RunningErased ==
  ASSUME CountInv, ErasedOK, private
  PROVE  \A i \in erased : status[i] # "DISK_NEW"
<1>1. NewSlots \subseteq enabled /\ erased \subseteq Slots
  BY RunningFacts DEF CountInv, Types
<1> QED
  BY <1>1 DEF ErasedOK, NewSlots, WithStatus, FailedToClear

(* Equal counters: no disk is being rebuilt.                                *)
LEMMA NoneRebuilt ==
  ASSUME CountInv, private, num_invalid = num_disabled
  PROVE  enabled \ valid = NewSlots /\ active \cap enabled \subseteq valid
<1>1. /\ InvalidSlots = Failed /\ enabled \ active = NewSlots
      /\ active \cup enabled \subseteq imported
  BY RunningFacts
<1>2. DisabledSlots \subseteq active \ enabled
  BY StatusBits
<1>3. active \ enabled \subseteq Failed /\ valid \subseteq active
  BY DEF CountInv, SuperOK, Failed
<1>4. Failed \in SUBSET Slots /\ Cardinality(DisabledSlots) = Cardinality(Failed)
  BY <1>1, CountTypes DEF CountInv, CountsOK
<1>5. IsFiniteSet(Failed)
  BY <1>4, PartOfSlots
<1>6. DisabledSlots \subseteq Failed
  BY <1>2, <1>3
<1>7. DisabledSlots = Failed
  BY <1>4, <1>5, <1>6, FS_Subset
<1> QED
  BY <1>1, <1>2, <1>3, <1>7 DEF Failed

---------------------------------------------------------------------------
(* The steps that preserve it. *)

(* An import takes no stale disk for valid.                                 *)
LEMMA ImportCurrent ==
  ASSUME CountInv, CurrentInv, Incidents = {},
         NEW i \in Slots, NEW d \in Disks \cup {None}, NEW e \in BOOLEAN, ImportSlot(i, d, e)
  PROVE  CurrentInv'
<1> DEFINE s == ImportStatus(i, d)
<1>1. /\ ~ private /\ ~ pending /\ imported' = imported \cup {i}
      /\ d # None => \A j \in Slots \ {i} : rdev[j] # d
      /\ s = "DISK_INVALID" => same_disk_info(i, d)
      /\ e => d # None /\ \A r \in 0 .. SizeOf[d] - 1 : <<d, r>> \in blank
      /\ rdev' = [rdev EXCEPT ![i] = d]
      /\ erased' = IF e THEN erased \cup {i} ELSE erased \ {i}
      /\ enabled' = IF i \notin active \/ s = "DISK_NP_DSBL" THEN enabled \ {i} ELSE enabled
      /\ valid' = IF i \notin active THEN valid \ {i} ELSE valid
      /\ id' = IF i \notin active THEN [id EXCEPT ![i] = None] ELSE id
      /\ size' = IF i \notin active THEN [size EXCEPT ![i] = 0] ELSE size
      /\ mdstate' = ArrayState'
      /\ UNCHANGED <<active, private, curr_resync, recovery_running, file, pending, fresh,
                     blank, beyond>>
  BY DEF ImportSlot, recovery, content, history
<1>2. /\ i \notin imported /\ s \in Status
      /\ status' \in [Slots -> Status] /\ status'[i] = s
      /\ \A j \in Slots \ {i} : status'[j] = status[j]
  BY ImportFacts DEF CountedIncidents
<1>3. Types /\ valid \subseteq active /\ (recovery_running > 0 => private)
  BY DEF CountInv, SuperOK
<1>4. /\ s = "DISK_OK" => d # None /\ same_disk_info(i, d) /\ i \in active
      /\ s = "DISK_INVALID" => d # None /\ i \in active
      /\ s = "DISK_NEW" => d # None /\ i \notin active
      /\ s \in {"DISK_WRONG", "DISK_DSBL_NEW"} => d # None
  BY DEF ImportStatus
<1>5. \A j \in Slots \ {i} :
        /\ rdev'[j] = rdev[j] /\ id'[j] = id[j] /\ size'[j] = size[j]
        /\ (j \in enabled' <=> j \in enabled) /\ (j \in erased' <=> j \in erased)
  BY <1>1, <1>3 DEF Types
<1>6. rdev'[i] = d
  BY <1>1, <1>3 DEF Types
<1>7. DeviceOK'
  <2>1. ASSUME NEW j \in Slots, NEW k \in Slots, rdev'[j] = rdev'[k], rdev'[j] # None
        PROVE  j = k
    BY <1>1, <1>5, <1>6, <2>1 DEF CurrentInv, DeviceOK
  <2>2. ASSUME NEW j \in Slots,
               status'[j] \in {"DISK_OK", "DISK_INVALID"}
               \/ (status'[j] = "DISK_NEW" /\ j \in enabled')
        PROVE  rdev'[j] # None /\ id'[j] = rdev'[j] /\ size'[j] = SizeOf[rdev'[j]]
    <3>1. CASE j = i
      <4>1. i \in active /\ d # None /\ same_disk_info(i, d)
        BY <1>1, <1>2, <1>4, <2>2, <3>1
      <4> QED
        BY <1>1, <1>6, <3>1, <4>1 DEF same_disk_info
    <3>2. CASE j # i
      BY <1>2, <1>5, <2>2, <3>2 DEF CurrentInv, DeviceOK
    <3> QED
      BY <3>1, <3>2
  <2>3. ASSUME NEW j \in Slots, status'[j] \in {"DISK_WRONG", "DISK_DSBL_NEW"}
        PROVE  rdev'[j] # None
    BY <1>2, <1>4, <1>5, <1>6, <2>3 DEF CurrentInv, DeviceOK
  <2> QED
    BY <2>1, <2>2, <2>3 DEF DeviceOK
<1>8. ErasedOK'
  <2> SUFFICES ASSUME NEW j \in erased', status'[j] = "DISK_NEW"
               PROVE  /\ j \notin enabled' /\ id'[j] = None
                      /\ \A r \in 0 .. SizeOf[rdev'[j]] - 1 : <<rdev'[j], r>> \in blank
    BY <1>1 DEF ErasedOK
  <2>1. CASE j = i
    BY <1>1, <1>2, <1>3, <1>4, <1>6, <2>1 DEF Types
  <2>2. CASE j # i
    BY <1>1, <1>2, <1>3, <1>5, <2>2 DEF CurrentInv, ErasedOK, Types
  <2> QED
    BY <2>1, <2>2
<1>9. ExpansionOK'
  BY <1>1 DEF ExpansionOK, ArrayState, Errors
<1>10. ASSUME NEW j \in valid
       PROVE  j \in valid' /\ id'[j] = id[j] /\ size'[j] = size[j]
  BY <1>1, <1>3, <1>10 DEF Types
<1>11. SuperCurrent'
  BY <1>1, <1>10 DEF CurrentInv, SuperCurrent
<1>12. FileIsCurrent'
  BY <1>1 DEF CurrentInv, FileIsCurrent
<1>13. FileMatches'
  BY <1>1, <1>10 DEF CurrentInv, FileMatches, FileValid
<1>14. ProgressOK'
  BY <1>1, <1>3 DEF CurrentInv, ProgressOK
<1> QED
  BY <1>7, <1>8, <1>9, <1>11, <1>12, <1>13, <1>14 DEF CurrentInv

(* What Join keeps and adds.                                                *)
LEMMA JoinKeeps ==
  ASSUME NEW N, NEW i, NEW d, NEW r, <<i, d, r>> \in fresh, i \notin N,
         i \in Parity => \A j \in N : r < RSize(j) => <<rdev[j], r>> \in blank
  PROVE  <<i, d, r>> \in Join(N)
<1> DEFINE t == <<i, d, r>>
<1>1. t[1] = i /\ t[2] = d /\ t[3] = r
  OBVIOUS
<1>2. t \in fresh
  OBVIOUS
<1> HIDE DEF t
<1>3. t \in Join(N)
  BY <1>1, <1>2, Zenon DEF Join
<1> QED
  BY <1>3 DEF t

(* A region of a disk that joins is one of those that join.                 *)
LEMMA JoinAdds ==
  ASSUME NEW N, NEW i \in N, NEW r \in 0 .. RSize(i) - 1
  PROVE  <<i, rdev[i], r>> \in Join(N)
<1> DEFINE W(j) == {<<j, rdev[j], x>> : x \in 0 .. RSize(j) - 1}
<1>1. <<i, rdev[i], r>> \in W(i)
  OBVIOUS
<1>2. <<i, rdev[i], r>> \in UNION {W(j) : j \in N}
  <2> HIDE DEF W
  <2> QED
    BY <1>1
<1> QED
  BY <1>2, Zenon DEF Join

(* What is left to show of a start, once devices and file are.              *)
LEMMA StartedCurrent ==
  ASSUME CountInv, CountInv', CurrentInv, Incidents = {}, ~ private, NEW c \in BOOLEAN, Run(c),
         DeviceOK', ErasedOK', ExpansionOK', SuperCurrent', FileIsCurrent',
         ~ c => \A i \in FileValid :
                  i \in valid' /\ file.id[i] = id'[i] /\ file.size[i] = size'[i]
  PROVE  CurrentInv'
<1>1. /\ curr_resync' = curr_resync /\ file' = file /\ ~ (recovery_running' > 0)
  BY RunFacts
<1>2. pending' = c
  BY DEF Run
<1>3. ProgressOK'
  <2>1. curr_resync' = 0
    BY <1>1 DEF CurrentInv, ProgressOK
  <2>2. \A r \in Nat : ~ (r < 0)
    OBVIOUS
  <2>3. \A i \in Slots : \A r \in 0 .. size'[i] - 1 : r \in Nat
    BY DEF CountInv, Types
  <2>4. enabled' \subseteq Slots
    BY DEF CountInv, Types
  <2> QED
    BY <1>1, <2>1, <2>2, <2>3, <2>4 DEF ProgressOK
<1>4. FileMatches'
  <2> SUFFICES ASSUME ~ c, NEW i \in FileValid
               PROVE  /\ i \in valid' /\ file'.id[i] = id'[i] /\ file'.size[i] = size'[i]
                      /\ private' => id'[i] = rdev'[i] /\ rdev'[i] # None
    BY <1>1, <1>2 DEF FileMatches, FileValid
  <2>1. i \in valid' /\ file'.id[i] = id'[i] /\ file'.size[i] = size'[i]
    BY <1>1
  <2>2. i \in enabled'
    BY <2>1 DEF CountInv, SuperOK
  <2> QED
    BY <2>1, <2>2, RunningDevicesNext
<1> QED
  BY <1>3, <1>4 DEF CurrentInv

(* What every start relies on: the file is as memory has it.                *)
LEMMA StoppedFacts ==
  ASSUME CountInv, CurrentInv, MayStart
  PROVE  /\ ~ private /\ ~ pending
         /\ \A i \in FileValid : i \in valid /\ file.id[i] = id[i] /\ file.size[i] = size[i]
         /\ Removed \subseteq DisabledSlots /\ Removed \cap valid = {}
         /\ WithStatus("DISK_NP_DSBL") \cap
              (WithStatus("DISK_OK") \cup WithStatus("DISK_INVALID") \cup WithStatus("DISK_NEW")) = {}
         /\ \A S \in SUBSET Slots, i \in Slots :
              Forget(S)[i] = IF i \in S THEN None ELSE id[i]
         /\ DeviceOK /\ ErasedOK /\ SuperCurrent /\ FileIsCurrent
         /\ valid \subseteq enabled /\ valid \subseteq active
<1>1. ~ private /\ ~ pending
  BY Zenon DEF MayStart
<1>2. Removed \subseteq DisabledSlots
  BY DEF Removed, DisabledSlots, DisabledStatus, WithStatus
<1>3. DisabledSlots \cap valid = {}
  BY StatusBits
<1> QED
  BY <1>1, <1>2, <1>3
     DEF CurrentInv, FileMatches, WithStatus, Forget, CountInv, SuperOK

(* A new array takes only data disks for valid.                             *)
LEMMA StartNewCurrent ==
  ASSUME CountInv, CountInv', CurrentInv, Incidents = {}, StartNew
  PROVE  CurrentInv'
<1> DEFINE data == {i \in DataSlots : rdev[i] # None}
           absent == {i \in Parity : rdev[i] = None}
<1>1. /\ MayStart /\ file = EmptySuper /\ Run(TRUE)
      /\ valid' = data /\ id' = rdev /\ size' = [i \in Slots |-> RSize(i)]
      /\ status' = [i \in Slots |->
                     IF i \in data THEN "DISK_OK"
                     ELSE IF i \in absent THEN "DISK_NP_DSBL"
                     ELSE IF i \in Parity THEN "DISK_INVALID" ELSE "DISK_NP"]
      /\ num_new' = 0
      /\ fresh' = UNION {{<<i, rdev[i], r>> : r \in 0 .. RSize(i) - 1} : i \in data}
  BY DEF StartNew
<1>2. ~ private /\ file' = file /\ rdev' = rdev
  BY <1>1, RunFacts, StoppedFacts
<1>3. FileValid = {} /\ FileValid' = {}
  BY <1>1, <1>2 DEF FileValid, EmptySuper
<1>4. DeviceOK'
  <2>1. \A i \in Slots : status'[i] \in {"DISK_OK", "DISK_INVALID"}
                         \/ (status'[i] = "DISK_NEW" /\ i \in enabled')
          => rdev[i] # None
    BY <1>1
  <2>2. \A i \in Slots : rdev[i] # None => id'[i] = rdev[i] /\ size'[i] = SizeOf[rdev[i]]
    BY <1>1 DEF RSize
  <2>3. \A i \in Slots : status'[i] \notin {"DISK_WRONG", "DISK_DSBL_NEW"}
    BY <1>1
  <2> QED
    BY <1>2, <2>1, <2>2, <2>3 DEF CurrentInv, DeviceOK
<1>5. ErasedOK'
  <2>1. erased' \subseteq Slots
    BY DEF CountInv, Types
  <2>2. \A i \in Slots : status'[i] # "DISK_NEW"
    BY <1>1
  <2> QED
    BY <2>1, <2>2 DEF ErasedOK
<1>6. ExpansionOK'
  BY <1>1 DEF ExpansionOK
<1>7. SuperCurrent'
  <2> SUFFICES ASSUME NEW i \in data, NEW r \in 0 .. size'[i] - 1
               PROVE  <<i, id'[i], r>> \in fresh'
    BY <1>1 DEF SuperCurrent
  <2>1. i \in Slots /\ size'[i] = RSize(i) /\ id'[i] = rdev[i]
    BY <1>1 DEF Slots
  <2> QED
    BY <1>1, <2>1
<1>8. FileIsCurrent'
  BY <1>3 DEF FileIsCurrent, FileValid
<1> QED
  BY <1>1, <1>2, <1>4, <1>5, <1>6, <1>7, <1>8, StartedCurrent

(* A disk that is disabled is no longer taken for valid.                    *)
LEMMA StartDisableCurrent ==
  ASSUME CountInv, CountInv', CurrentInv, Incidents = {}, StartDisable
  PROVE  CurrentInv'
<1>1. /\ MayStart /\ mdstate = "DISABLE_DISK" /\ Run(Missing \cup Removed # {})
      /\ status' = [i \in Slots |-> IF i \in Missing THEN "DISK_NP_DSBL" ELSE status[i]]
      /\ enabled' = enabled \ Missing /\ valid' = valid \ Missing
      /\ id' = Forget(Missing \cup Removed)
      /\ UNCHANGED <<active, size, num_new, fresh>>
  BY DEF StartDisable, Missing
<1>2. /\ ~ private /\ file' = file /\ rdev' = rdev /\ erased' = erased
      /\ blank' = blank /\ beyond' = beyond
  BY <1>1, RunFacts, StoppedFacts DEF Run, history
<1>3. /\ Removed \cap valid = {} /\ DeviceOK /\ ErasedOK /\ SuperCurrent /\ FileIsCurrent
      /\ \A i \in FileValid : i \in valid /\ file.id[i] = id[i] /\ file.size[i] = size[i]
      /\ Removed \subseteq WithStatus("DISK_NP_DSBL")
      /\ Missing \subseteq Slots /\ Removed \subseteq Slots
  BY <1>1, StoppedFacts DEF Removed, Missing, WithStatus
<1>4. \A i \in Slots : id'[i] = IF i \in Missing \cup Removed THEN None ELSE id[i]
  BY <1>1, <1>3, StoppedFacts
<1>5. enabled \subseteq Slots /\ valid \subseteq Slots /\ erased \subseteq Slots
  BY DEF CountInv, Types
<1>6. DeviceOK'
  <2>1. \A i \in Slots :
          /\ status'[i] \in {"DISK_OK", "DISK_INVALID", "DISK_NEW", "DISK_WRONG", "DISK_DSBL_NEW"}
             => status'[i] = status[i] /\ id'[i] = id[i]
          /\ i \in enabled' => i \in enabled
    BY <1>1, <1>3, <1>4 DEF WithStatus
  <2> QED
    BY <1>1, <1>2, <1>3, <2>1 DEF DeviceOK
<1>7. ErasedOK'
  <2>1. \A i \in erased : status'[i] = "DISK_NEW" =>
          /\ status[i] = "DISK_NEW" /\ id'[i] = id[i]
          /\ i \in enabled' => i \in enabled
    BY <1>1, <1>3, <1>4, <1>5 DEF WithStatus
  <2> QED
    BY <1>2, <1>3, <2>1 DEF ErasedOK
<1>8. ExpansionOK'
  <2>1. num_new = 0
    BY <1>1, <1>2 DEF CountInv, StateOK
  <2> QED
    BY <1>1, <2>1 DEF ExpansionOK
<1>9. SuperCurrent' /\ FileIsCurrent'
  BY <1>1, <1>2, <1>3, <1>4, <1>5 DEF SuperCurrent, FileIsCurrent
<1>10. Missing \cup Removed = {} =>
         \A i \in FileValid : i \in valid' /\ file.id[i] = id'[i] /\ file.size[i] = size'[i]
  BY <1>1, <1>3, <1>4, <1>5
<1> QED
  BY <1>1, <1>2, <1>6, <1>7, <1>8, <1>9, <1>10, StartedCurrent

(* A disk that replaces another is not taken for valid.                     *)
LEMMA StartReconCurrent ==
  ASSUME CountInv, CountInv', CurrentInv, Incidents = {}, StartRecon
  PROVE  CurrentInv'
<1> DEFINE kept == Wrong \cap swap
<1>1. /\ MayStart /\ mdstate \in {"RECON_DISK", "SWAP_DSBL"}
      /\ Run(Wrong \cup Replaced \cup Removed # {})
      /\ status' = [i \in Slots |-> IF i \in kept THEN "DISK_OK"
                                    ELSE IF i \in Wrong \cup Replaced THEN "DISK_INVALID"
                                    ELSE status[i]]
      /\ \A p \in kept : \A r \in 0 .. RSize(p) - 1 : Current(p, r)
      /\ enabled' = enabled \cup Replaced /\ valid' = valid \ (Wrong \ kept)
      /\ id' = [i \in Slots |-> IF i \in Wrong \cup Replaced THEN rdev[i] ELSE Forget(Removed)[i]]
      /\ size' = [i \in Slots |-> IF i \in Wrong \cup Replaced THEN RSize(i) ELSE size[i]]
      /\ UNCHANGED <<active, num_new, fresh>>
  BY DEF StartRecon, Wrong, Replaced
<1>2. /\ ~ private /\ file' = file /\ rdev' = rdev /\ erased' = erased
      /\ blank' = blank /\ beyond' = beyond
  BY <1>1, RunFacts, StoppedFacts DEF Run, history
<1>3. /\ Removed \cap valid = {} /\ DeviceOK /\ ErasedOK /\ SuperCurrent /\ FileIsCurrent
      /\ \A i \in FileValid : i \in valid /\ file.id[i] = id[i] /\ file.size[i] = size[i]
      /\ Removed \subseteq WithStatus("DISK_NP_DSBL")
      /\ Wrong \cup Replaced \subseteq Slots /\ Removed \subseteq Slots
  BY <1>1, StoppedFacts DEF Removed, Wrong, Replaced, WithStatus
<1>4. \A i \in Slots \ (Wrong \cup Replaced) :
        /\ id'[i] = IF i \in Removed THEN None ELSE id[i]
        /\ size'[i] = size[i] /\ status'[i] = status[i] /\ (i \in enabled' <=> i \in enabled)
  BY <1>1, <1>3, StoppedFacts
<1>5. \A i \in Wrong \cup Replaced :
        /\ rdev[i] # None /\ id'[i] = rdev[i] /\ size'[i] = RSize(i) /\ RSize(i) = SizeOf[rdev[i]]
        /\ status'[i] \in {"DISK_OK", "DISK_INVALID"}
  BY <1>1, <1>3 DEF DeviceOK, Wrong, Replaced, WithStatus, RSize
<1>6. /\ enabled \subseteq Slots /\ valid \subseteq Slots /\ erased \subseteq Slots
      /\ Replaced \cap valid = {}
  BY StatusBits DEF CountInv, Types
<1> HIDE DEF kept
<1>7. DeviceOK'
  <2>1. \A i \in Slots :
          \/ i \in Wrong \cup Replaced
          \/ i \in Removed /\ status'[i] = "DISK_NP_DSBL"
          \/ /\ status'[i] = status[i] /\ id'[i] = id[i] /\ size'[i] = size[i]
             /\ i \in enabled' => i \in enabled
    BY <1>3, <1>4 DEF WithStatus
  <2> QED
    BY <1>2, <1>3, <1>5, <2>1 DEF DeviceOK
<1>8. ErasedOK'
  <2>1. \A i \in erased : status'[i] = "DISK_NEW" =>
          /\ status[i] = "DISK_NEW" /\ id'[i] = id[i]
          /\ i \in enabled' => i \in enabled
    BY <1>3, <1>4, <1>5, <1>6 DEF WithStatus
  <2> QED
    BY <1>2, <1>3, <2>1 DEF ErasedOK
<1>9. ExpansionOK'
  <2>1. num_new = 0
    BY <1>1, <1>2 DEF CountInv, StateOK
  <2> QED
    BY <1>1, <2>1 DEF ExpansionOK
<1>10. SuperCurrent'
  <2> SUFFICES ASSUME ~ beyond, NEW i \in valid', NEW r \in 0 .. size'[i] - 1
               PROVE  <<i, id'[i], r>> \in fresh
    BY <1>1, <1>2 DEF SuperCurrent
  <2>1. CASE i \in kept
    BY <1>1, <1>5, <2>1 DEF Current, kept
  <2>2. CASE i \notin kept
    <3>1. i \in valid /\ i \in Slots \ (Wrong \cup Replaced) /\ i \notin Removed
      BY <1>1, <1>3, <1>6, <2>2
    <3> QED
      BY <1>3, <1>4, <3>1 DEF SuperCurrent
  <2> QED
    BY <2>1, <2>2
<1>11. FileIsCurrent'
  BY <1>1, <1>2, <1>3 DEF FileIsCurrent
<1>12. Wrong \cup Replaced \cup Removed = {} =>
         \A i \in FileValid : i \in valid' /\ file.id[i] = id'[i] /\ file.size[i] = size'[i]
  BY <1>1, <1>3, <1>4, <1>6 DEF kept
<1> QED
  BY <1>1, <1>2, <1>7, <1>8, <1>9, <1>10, <1>11, <1>12, StartedCurrent

(* The disks of an array that was stopped are those that it had.            *)
LEMMA StartStoppedCurrent ==
  ASSUME CountInv, CountInv', CurrentInv, Incidents = {}, StartStopped
  PROVE  CurrentInv'
<1> DEFINE new == IF num_new > 0 THEN WithStatus("DISK_NEW") ELSE {}
           join == Joining(new)
<1>1. /\ MayStart /\ mdstate = "STOPPED" /\ Run(new \cup Removed # {})
      /\ status' = [i \in Slots |-> IF i \in join THEN "DISK_OK" ELSE status[i]]
      /\ enabled' = enabled \cup new /\ active' = active \cup join /\ valid' = valid \cup join
      /\ num_new' = num_new - Cardinality(join)
      /\ id' = [i \in Slots |-> IF i \in new THEN rdev[i] ELSE Forget(Removed)[i]]
      /\ size' = [i \in Slots |-> IF i \in new THEN RSize(i) ELSE size[i]]
      /\ fresh' = Join(join)
      /\ num_disabled' = num_disabled /\ num_invalid' = num_invalid
  BY DEF StartStopped
<1>2. /\ ~ private /\ file' = file /\ rdev' = rdev /\ erased' = erased
      /\ blank' = blank /\ beyond' = beyond
  BY <1>1, RunFacts, StoppedFacts DEF Run, history
<1>3. /\ Removed \cap valid = {} /\ DeviceOK /\ ErasedOK /\ SuperCurrent /\ FileIsCurrent
      /\ \A i \in FileValid : i \in valid /\ file.id[i] = id[i] /\ file.size[i] = size[i]
      /\ Removed \subseteq WithStatus("DISK_NP_DSBL") /\ Removed \subseteq Slots
      /\ valid \subseteq active
  BY <1>1, StoppedFacts DEF Removed, WithStatus
<1>4. /\ enabled \subseteq Slots /\ valid \subseteq Slots /\ erased \subseteq Slots
      /\ rdev \in [Slots -> Disks \cup {None}]
  BY DEF CountInv, Types
<1>5. new \subseteq WithStatus("DISK_NEW") /\ join \subseteq new /\ new \subseteq Slots
  BY DEF Joining, WithStatus
<1>6. WithStatus("DISK_NEW") \cap active = {} /\ WithStatus("DISK_NEW") \subseteq imported
  BY StatusBits
<1>7. new = {} \/ new = WithStatus("DISK_NEW")
  OBVIOUS
<1>8. join = new \/ (join = new \cap erased)
  BY DEF Joining
<1>9. \A i \in valid : i \in Parity => join = new \cap erased
  BY DEF Joining
<1>10. num_new' > 0 => num_new > 0
  <2>1. num_new \in Nat /\ Cardinality(join) \in Nat
    BY <1>5, CountTypes, PartOfSlots DEF CountInv
  <2> QED
    BY <1>1, <2>1
<1> HIDE DEF new, join
<1>11. \A i \in new : /\ rdev[i] # None /\ id'[i] = rdev[i] /\ RSize(i) = SizeOf[rdev[i]]
                      /\ size'[i] = RSize(i) /\ size'[i] = SizeOf[rdev[i]] /\ i \notin Removed
  <2>1. \A i \in new : status[i] = "DISK_NEW" /\ i \in imported /\ i \in Slots
    BY <1>5, <1>6 DEF WithStatus
  <2>2. \A i \in new : rdev[i] # None /\ i \notin Removed
    BY <1>3, <2>1 DEF CountInv, StatusOK, WithStatus
  <2> QED
    BY <1>1, <2>1, <2>2 DEF RSize
<1>12. \A i \in Slots \ new :
         /\ id'[i] = IF i \in Removed THEN None ELSE id[i]
         /\ size'[i] = size[i] /\ status'[i] = status[i] /\ (i \in enabled' <=> i \in enabled)
  BY <1>1, <1>3, <1>5, StoppedFacts
<1>13. DeviceOK'
  <2>1. \A i \in Slots :
          \/ i \in new /\ status'[i] \in {"DISK_OK", "DISK_NEW"}
          \/ i \in Removed /\ status'[i] = "DISK_NP_DSBL"
          \/ /\ status'[i] = status[i] /\ id'[i] = id[i] /\ size'[i] = size[i]
             /\ i \in enabled' => i \in enabled
    BY <1>1, <1>3, <1>5, <1>12 DEF WithStatus
  <2> QED
    BY <1>2, <1>3, <1>11, <2>1 DEF DeviceOK
<1>14. ErasedOK'
  <2> SUFFICES ASSUME NEW i \in erased, status'[i] = "DISK_NEW"
               PROVE  /\ i \notin enabled' /\ id'[i] = None
                      /\ \A r \in 0 .. SizeOf[rdev[i]] - 1 : <<rdev[i], r>> \in blank
    BY <1>2 DEF ErasedOK
  <2>1. i \notin new
    <3>1. i \in new => i \in join
      BY <1>8
    <3> QED
      BY <1>1, <1>4, <3>1
  <2>2. status[i] = "DISK_NEW" /\ i \notin Removed
    BY <1>3, <1>4, <1>12, <2>1 DEF WithStatus
  <2> QED
    BY <1>3, <1>4, <1>12, <2>1, <2>2 DEF ErasedOK
<1>15. ExpansionOK'
  BY <1>1, <1>10 DEF CurrentInv, ExpansionOK
(* A valid slot keeps its content: what joins beside valid parity is blank. *)
<1>16. ASSUME NEW i \in valid, NEW x, NEW r \in Nat, <<i, x, r>> \in fresh
       PROVE  <<i, x, r>> \in fresh'
  <2>1. i \notin join
    BY <1>3, <1>5, <1>6, <1>16
  <2>2. ASSUME i \in Parity, NEW j \in join, r < RSize(j)
        PROVE  <<rdev[j], r>> \in blank
    <3>1. j \in erased /\ status[j] = "DISK_NEW" /\ j \in new
      BY <1>5, <1>9, <2>2 DEF WithStatus
    <3>2. RSize(j) = SizeOf[rdev[j]] /\ rdev[j] \in Disks
      BY <1>4, <1>5, <1>11, <3>1
    <3>3. r \in 0 .. SizeOf[rdev[j]] - 1
      BY <2>2, <3>2, ArrayAssumption
    <3> QED
      BY <1>3, <3>1, <3>3 DEF ErasedOK
  <2> QED
    BY <1>1, <1>16, <2>1, <2>2, JoinKeeps
<1>17. size \in [Slots -> Nat] /\ file.size \in [Slots -> Nat]
  BY DEF CountInv, Types, FileOK
<1>18. SuperCurrent'
  <2> SUFFICES ASSUME ~ beyond, NEW i \in valid', NEW r \in 0 .. size'[i] - 1
               PROVE  <<i, id'[i], r>> \in fresh'
    BY <1>2, Zenon DEF SuperCurrent
  <2>1. CASE i \in join
    <3>1. id'[i] = rdev[i] /\ r \in 0 .. RSize(i) - 1
      BY <1>5, <1>11, <2>1
    <3> QED
      BY <1>1, <2>1, <3>1, JoinAdds
  <2>2. CASE i \notin join
    <3>1. i \in valid /\ i \in Slots \ new /\ i \notin Removed
      BY <1>1, <1>3, <1>4, <1>5, <1>6, <2>2
    <3>2. id'[i] = id[i] /\ size'[i] = size[i] /\ r \in Nat
      BY <1>12, <1>17, <3>1
    <3>3. <<i, id[i], r>> \in fresh
      BY <1>3, <3>1, <3>2 DEF SuperCurrent
    <3> QED
      BY <1>16, <3>1, <3>2, <3>3
  <2> QED
    BY <2>1, <2>2
<1>19. FileIsCurrent'
  <2> SUFFICES ASSUME ~ beyond, NEW i \in FileValid, NEW r \in 0 .. file.size[i] - 1
               PROVE  <<i, file.id[i], r>> \in fresh'
    BY <1>2 DEF FileIsCurrent, FileValid
  <2>1. i \in valid /\ r \in Nat
    BY <1>3, <1>4, <1>17
  <2>2. <<i, file.id[i], r>> \in fresh
    BY <1>3 DEF FileIsCurrent, FileValid
  <2> QED
    BY <1>16, <2>1, <2>2
<1>20. ASSUME new \cup Removed = {}, NEW i \in FileValid
       PROVE  i \in valid' /\ file.id[i] = id'[i] /\ file.size[i] = size'[i]
  BY <1>1, <1>3, <1>4, <1>12, <1>20
<1> QED
  BY <1>1, <1>2, <1>13, <1>14, <1>15, <1>18, <1>19, <1>20, StartedCurrent

---------------------------------------------------------------------------
(* The steps of a running array that preserve it. *)

(* A superblock that is saved is what memory has.                           *)
LEMMA FileWritten ==
  ASSUME CountInv, CountInv', DeviceOK', SuperCurrent',
         file' = [active |-> active', enabled |-> enabled', valid |-> valid',
                  id |-> id', size |-> size']
  PROVE  FileIsCurrent' /\ FileMatches'
<1>1. /\ FileValid' \subseteq valid' /\ file'.id = id' /\ file'.size = size'
  BY DEF FileValid
<1>2. valid' \subseteq enabled'
  BY DEF CountInv, SuperOK
<1>3. FileIsCurrent'
  <2>1. ~ beyond' => \A i \in FileValid' : \A r \in 0 .. file'.size[i] - 1 :
                       <<i, file'.id[i], r>> \in fresh'
    BY <1>1, Zenon DEF SuperCurrent
  <2> QED
    BY <2>1, Zenon DEF FileIsCurrent, FileValid
<1>4. FileMatches'
  BY <1>1, <1>2, RunningDevicesNext DEF FileMatches
<1> QED
  BY <1>3, <1>4

(* What a step leaves alone when it changes neither slots nor devices.      *)
LEMMA SlotsUnchanged ==
  ASSUME CurrentInv,
         UNCHANGED <<active, enabled, valid, id, size, status, rdev, erased, num_disabled,
                     num_invalid, num_new, private, mdstate, beyond>>
  PROVE  /\ DeviceOK' /\ ExpansionOK'
         /\ fresh' = fresh => SuperCurrent'
         /\ blank' = blank => ErasedOK'
         /\ file' = file /\ fresh' = fresh => FileIsCurrent'
         /\ /\ file' = file /\ pending' = pending
            /\ recovery_running' > 0 => recovery_running > 0
            => FileMatches'
  BY DEF CurrentInv, DeviceOK, ExpansionOK, SuperCurrent, ErasedOK, FileIsCurrent, FileMatches,
         FileValid

(* Saving the superblock makes the file say what memory says.               *)
LEMMA CommitCurrent ==
  ASSUME CountInv, CountInv', CurrentInv, Incidents = {}, CommitSuper
  PROVE  CurrentInv'
<1>1. /\ file' = Super /\ pending' = FALSE
      /\ UNCHANGED <<active, enabled, valid, id, size, status, rdev, erased, num_disabled,
                     num_invalid, num_new, private, mdstate, beyond, fresh, blank,
                     curr_resync, recovery_running>>
  BY DEF CommitSuper, Saved, superVars, deviceVars, counters, content, history, recovery
<1>2. DeviceOK' /\ ExpansionOK' /\ SuperCurrent' /\ ErasedOK'
  BY <1>1, SlotsUnchanged
<1>3. FileIsCurrent' /\ FileMatches'
  BY <1>1, <1>2, FileWritten DEF Super
<1>4. ProgressOK'
  BY <1>1 DEF CurrentInv, ProgressOK
<1> QED
  BY <1>2, <1>3, <1>4 DEF CurrentInv

(* A write reaches every disk that is taken for valid.                      *)
LEMMA WriteCurrent ==
  ASSUME CountInv, CountInv', CurrentInv, Incidents = {},
         NEW w \in DataSlots, NEW r \in Regions, Write(w, r)
  PROVE  CurrentInv'
<1> DEFINE to == {i \in {w} \cup Parity : i \in enabled /\ rdev[i] # None}
<1>1. /\ private /\ w \in active /\ ~ pending
      /\ fresh' = {t \in fresh : t[3] = r /\ t[1] \in {w} \cup Parity
                                => t[1] \in to /\ t[2] = rdev[t[1]]}
      /\ blank' = blank \ {<<rdev[i], r>> : i \in to}
      /\ UNCHANGED <<active, enabled, valid, id, size, status, rdev, erased, num_disabled,
                     num_invalid, num_new, private, mdstate, beyond, file, pending,
                     curr_resync, recovery_running>>
  BY Zenon DEF Write, superVars, deviceVars, counters, history, recovery
<1>2. /\ DeviceOK' /\ ExpansionOK' /\ FileMatches'
  BY <1>1, SlotsUnchanged
<1>3. \A i \in enabled : /\ i \in Slots /\ rdev[i] # None /\ id[i] = rdev[i]
                         /\ size[i] = SizeOf[rdev[i]]
  BY <1>1, RunningDevices DEF CurrentInv
<1>4. ASSUME NEW i \in enabled, NEW x, <<i, rdev[i], x>> \in fresh
      PROVE  <<i, rdev[i], x>> \in fresh'
  <2>1. i \in {w} \cup Parity => i \in to
    BY <1>3
  <2> HIDE DEF to
  <2> QED
    BY <1>1, <1>4, <2>1
<1>5. valid \subseteq enabled /\ Parity \subseteq active /\ enabled \subseteq Slots
      /\ active \subseteq Slots
  BY <1>1 DEF CountInv, SuperOK, RunningOK, Types
<1>6. SuperCurrent'
  BY <1>1, <1>3, <1>4, <1>5 DEF CurrentInv, SuperCurrent
<1>7. FileIsCurrent'
  <2> SUFFICES ASSUME ~ beyond, NEW i \in FileValid, NEW x \in 0 .. file.size[i] - 1
               PROVE  <<i, file.id[i], x>> \in fresh'
    BY <1>1 DEF FileIsCurrent, FileValid
  <2>1. i \in valid /\ file.id[i] = id[i]
    BY <1>1 DEF CurrentInv, FileMatches
  <2>2. <<i, file.id[i], x>> \in fresh
    BY DEF CurrentInv, FileIsCurrent, FileValid
  <2> QED
    BY <1>3, <1>4, <1>5, <2>1, <2>2
<1>8. ErasedOK'
  BY <1>1, RunningErased DEF CurrentInv, ErasedOK
<1>9. ASSUME NEW i \in enabled, i \notin active, NEW x, <<rdev[i], x>> \in blank
      PROVE  <<rdev[i], x>> \in blank'
  <2>1. \A j \in to : j \in active /\ j \in Slots
    BY <1>1, <1>5
  <2>2. \A j \in to : rdev[j] # rdev[i]
    BY <1>3, <1>9, <2>1 DEF CurrentInv, DeviceOK
  <2> HIDE DEF to
  <2> QED
    BY <1>1, <1>9, <2>2
<1>10. ProgressOK'
  <2>1. \A i \in enabled \ valid : \A x \in 0 .. size[i] - 1 :
          (IF i \in active THEN <<i, rdev[i], x>> \in fresh ELSE <<rdev[i], x>> \in blank)
          => (IF i \in active THEN <<i, rdev[i], x>> \in fresh' ELSE <<rdev[i], x>> \in blank')
    BY <1>4, <1>9
  <2> QED
    BY <1>1, <2>1 DEF CurrentInv, ProgressOK
<1> QED
  BY <1>2, <1>6, <1>7, <1>8, <1>10 DEF CurrentInv

(* What a sync has passed of a parity disk is current.                      *)
LEMMA CopyCurrent ==
  ASSUME CountInv, CurrentInv, Incidents = {}, NEW p \in Parity, CopyParity(p)
  PROVE  CurrentInv'
<1>1. /\ mdstate = "SWAP_DSBL" /\ status[p] = "DISK_WRONG" /\ p \in Slots
      /\ fresh \subseteq fresh' /\ blank' = {b \in blank : b[1] # rdev[p]}
      /\ UNCHANGED <<active, enabled, valid, id, size, status, rdev, erased, num_disabled,
                     num_invalid, num_new, private, mdstate, beyond, file, pending,
                     curr_resync, recovery_running>>
  BY Zenon DEF CopyParity, superVars, deviceVars, counters, history, recovery, Slots
<1>2. ~ private
  BY <1>1 DEF CountInv, RunningOK
<1>3. DeviceOK' /\ ExpansionOK' /\ FileMatches'
  BY <1>1, SlotsUnchanged
<1>4. SuperCurrent' /\ FileIsCurrent'
  BY <1>1 DEF CurrentInv, SuperCurrent, FileIsCurrent
<1>5. ErasedOK'
  <2> SUFFICES ASSUME NEW i \in erased, status[i] = "DISK_NEW"
               PROVE  /\ i \notin enabled /\ id[i] = None
                      /\ \A r \in 0 .. SizeOf[rdev[i]] - 1 : <<rdev[i], r>> \in blank'
    BY <1>1 DEF ErasedOK
  <2>1. rdev[p] # rdev[i]
    <3>1. i \in Slots /\ i # p /\ rdev[p] # None
      BY <1>1 DEF CountInv, Types, CurrentInv, DeviceOK
    <3> QED
      BY <1>1, <3>1 DEF CurrentInv, DeviceOK
  <2>2. \A r : <<rdev[i], r>> \in blank => <<rdev[i], r>> \in blank'
    BY <1>1, <2>1
  <2> QED
    BY <2>2 DEF CurrentInv, ErasedOK
<1>6. ProgressOK'
  BY <1>1, <1>2 DEF CountInv, CurrentInv, ProgressOK
<1> QED
  BY <1>3, <1>4, <1>5, <1>6 DEF CurrentInv

---------------------------------------------------------------------------
(* The recovery thread. *)

(* A region is synced: it is cleared, or computed from regions that are     *)
(* current, and no region of a disk that is valid, in memory or in the      *)
(* file, is overwritten.                                                    *)
LEMMA SyncCurrent ==
  ASSUME CountInv, CurrentInv, SyncRegion
  PROVE  CurrentInv'
<1> DEFINE r == curr_resync
           target == {i \in enabled \ valid : r < size[i] /\ rdev[i] # None}
           Disk(S) == {<<rdev[i], r>> : i \in S}
           written == Disk(IF num_new > 0 THEN target \ active ELSE target)
           right == /\ Cardinality(Failed) <= 2
                    /\ \A i \in active \cap valid : r < size[i] => Current(i, r)
<1>1. /\ recovery_running > 0 /\ curr_resync' = r + 1
      /\ IF num_new > 0
         THEN fresh' = fresh /\ blank' = blank \cup written
         ELSE /\ fresh' = {t \in fresh : <<t[2], t[3]>> \notin written} \cup
                          {<<i, rdev[i], r>> : i \in IF right THEN target ELSE {}}
              /\ blank' = blank \ written
      /\ UNCHANGED <<active, enabled, valid, id, size, status, rdev, erased, num_disabled,
                     num_invalid, num_new, private, mdstate, beyond, file, pending,
                     recovery_running>>
  BY DEF SyncRegion, superVars, deviceVars, counters, history
<1>2. private /\ valid \subseteq active \cap enabled /\ r \in Nat /\ enabled \subseteq Slots
      /\ size \in [Slots -> Nat] /\ Cardinality(active \ valid) <= 2
  BY <1>1 DEF CountInv, SuperOK, Types
<1>3. DeviceOK' /\ ExpansionOK' /\ FileMatches'
  BY <1>1, SlotsUnchanged
<1>4. \A i \in enabled : rdev[i] # None /\ id[i] = rdev[i] /\ i \in Slots
  BY <1>2, RunningDevices DEF CurrentInv
<1>5. \A i, j \in Slots : rdev[i] = rdev[j] /\ rdev[i] # None => i = j
  BY DEF CurrentInv, DeviceOK
<1>6. ErasedOK'
  BY <1>1, <1>2, RunningErased DEF CurrentInv, ErasedOK
(* What was passed before r, and r itself for the disks that are synced.    *)
<1>7. ASSUME NEW i \in enabled \ valid, NEW x \in 0 .. size[i] - 1, x < r + 1
      PROVE  x < r \/ (x = r /\ i \in target)
  <2>1. i \in enabled /\ size[i] \in Nat
    BY <1>2
  <2>2. rdev[i] # None
    BY <1>4, <2>1
  <2>3. x \in Nat /\ x < size[i]
    BY <2>1
  <2> QED
    BY <1>2, <1>7, <2>2, <2>3
<1>8. recovery_running' > 0 => \A i \in enabled \ valid : size[i] <= recovery_running
  BY <1>1 DEF CurrentInv, ProgressOK
<1>9. CASE num_new > 0
  <2>1. fresh' = fresh /\ blank' = blank \cup Disk(target \ active)
    BY <1>1, <1>9
  <2>2. SuperCurrent' /\ FileIsCurrent'
    BY <1>1, <2>1, SlotsUnchanged
  <2>3. \A i \in enabled \ valid : i \notin active
    BY <1>2, <1>9, NoneRebuilt DEF CurrentInv, ExpansionOK
  <2>4. ASSUME ~ beyond, NEW i \in enabled \ valid, NEW x \in 0 .. size[i] - 1, x < r + 1
        PROVE  <<rdev[i], x>> \in blank'
    <3>1. CASE x < r
      BY <1>2, <2>1, <2>3, <2>4, <3>1 DEF CurrentInv, ProgressOK
    <3>2. CASE x = r /\ i \in target
      <4> HIDE DEF target
      <4> QED
        BY <2>1, <2>3, <3>2
    <3> QED
      BY <1>7, <2>4, <3>1, <3>2
  <2>5. ProgressOK'
    <3>1. private' /\ beyond' = beyond /\ curr_resync' = r + 1
      BY <1>1, <1>2
    <3> HIDE DEF r
    <3> QED
      BY <1>1, <1>8, <2>3, <2>4, <3>1 DEF ProgressOK
  <2> QED
    BY <1>3, <1>6, <2>2, <2>5 DEF CurrentInv
<1>10. CASE ~ (num_new > 0)
  <2>1. /\ fresh' = {t \in fresh : <<t[2], t[3]>> \notin Disk(target)} \cup
                    {<<i, rdev[i], r>> : i \in IF right THEN target ELSE {}}
    BY <1>1, <1>10
  <2>2. enabled \subseteq active
    <3>1. num_new = 0 /\ NewSlots \in SUBSET Slots /\ num_new = Cardinality(NewSlots)
      BY <1>10, CountTypes DEF CountInv, CountsOK
    <3>2. NewSlots = {}
      BY <3>1, CountZero
    <3> QED
      BY <1>2, <3>2, RunningFacts
  <2>3. ASSUME NEW i \in Slots, rdev[i] # None, i \notin target \/ i \in {}, NEW x,
               <<i, rdev[i], x>> \in fresh
        PROVE  <<i, rdev[i], x>> \in fresh'
    <3>1. target \subseteq Slots
      BY <1>2
    <3> HIDE DEF target
    <3>2. <<rdev[i], x>> \notin Disk(target)
      BY <1>5, <2>3, <3>1
    <3> HIDE DEF Disk, right
    <3> QED
      BY <2>1, <2>3, <3>2
  <2>4. SuperCurrent'
    <3> SUFFICES ASSUME ~ beyond, NEW i \in valid, NEW x \in 0 .. size[i] - 1
                 PROVE  <<i, id[i], x>> \in fresh'
      BY <1>1 DEF SuperCurrent
    <3>1. i \in enabled /\ i \notin target
      BY <1>2
    <3>2. <<i, id[i], x>> \in fresh
      BY DEF CurrentInv, SuperCurrent
    <3> QED
      BY <1>4, <2>3, <3>1, <3>2
  <2>5. FileIsCurrent'
    <3> SUFFICES ASSUME ~ beyond, NEW i \in FileValid, NEW x \in 0 .. file.size[i] - 1
                 PROVE  <<i, file.id[i], x>> \in fresh'
      BY <1>1 DEF FileIsCurrent, FileValid
    <3>1. /\ i \in valid \/ i \notin enabled
          /\ file.id[i] = id[i] /\ id[i] = rdev[i] /\ rdev[i] # None /\ i \in Slots
      BY <1>1, <1>2 DEF CurrentInv, FileMatches, FileValid, CountInv, FileOK
    <3>2. i \notin target
      BY <3>1
    <3>3. <<i, file.id[i], x>> \in fresh
      BY DEF CurrentInv, FileIsCurrent, FileValid
    <3> QED
      BY <2>3, <3>1, <3>2, <3>3
  <2>6. ASSUME ~ beyond, NEW i \in enabled \ valid, NEW x \in 0 .. size[i] - 1, x < r + 1
        PROVE  <<i, rdev[i], x>> \in fresh'
    <3>1. CASE x < r
      <4>1. <<i, rdev[i], x>> \in fresh
        BY <1>2, <2>2, <2>6, <3>1 DEF CurrentInv, ProgressOK
      <4>2. <<rdev[i], x>> \notin Disk(target)
        BY <3>1, <1>2
      <4> HIDE DEF Disk, right, target
      <4> QED
        BY <2>1, <4>1, <4>2
    <3>2. CASE x = r /\ i \in target
      <4>1. right
        <5>1. \A j \in active \cap valid : r < size[j] => <<j, rdev[j], r>> \in fresh
          <6> SUFFICES ASSUME NEW j \in active \cap valid, r < size[j]
                       PROVE  <<j, rdev[j], r>> \in fresh
            OBVIOUS
          <6>1. j \in valid /\ j \in enabled /\ size[j] \in Nat /\ id[j] = rdev[j]
            BY <1>2, <1>4
          <6>2. r \in 0 .. size[j] - 1
            BY <1>2, <6>1
          <6>3. <<j, id[j], r>> \in fresh
            BY <2>6, <6>1, <6>2 DEF CurrentInv, SuperCurrent
          <6> QED
            BY <6>1, <6>3
        <5> QED
          BY <1>2, <5>1 DEF Failed, Current
      <4> HIDE DEF right, target, Disk
      <4> QED
        BY <2>1, <3>2, <4>1
    <3> QED
      BY <1>7, <2>6, <3>1, <3>2
  <2>7. ProgressOK'
    <3>1. private' /\ beyond' = beyond /\ curr_resync' = r + 1
      BY <1>1, <1>2
    <3> HIDE DEF r
    <3> QED
      BY <1>1, <1>8, <2>2, <2>6, <3>1 DEF ProgressOK
  <2> QED
    BY <1>3, <1>6, <2>4, <2>5, <2>7 DEF CurrentInv
<1> QED
  BY <1>9, <1>10

(* The recovery thread passes all of each disk that it is to make valid.    *)
LEMMA RecoverySizeBounds ==
  ASSUME CountInv, DeviceOK, private
  PROVE  \A i \in enabled \ valid : size[i] <= RecoverySize
<1> SUFFICES ASSUME NEW i \in enabled \ valid PROVE size[i] <= RecoverySize
  OBVIOUS
<1>1. /\ i \in Slots /\ size[i] = RSize(i) /\ size[i] \in Nat /\ size \in [Slots -> Nat]
      /\ enabled \ valid \in SUBSET Slots /\ WithStatus("DISK_NEW") \in SUBSET Slots
  BY RunningDevices DEF CountInv, Types, WithStatus
<1>2. \A j \in Slots : RSize(j) \in Nat
  BY ArrayAssumption DEF CountInv, Types, RSize
<1>3. ASSUME NEW S \in SUBSET Slots, i \in S
      PROVE  /\ size[i] <= Largest({size[j] : j \in S})
             /\ RSize(i) <= Largest({RSize(j) : j \in S})
  <2>1. IsFiniteSet({size[j] : j \in S}) /\ IsFiniteSet({RSize(j) : j \in S})
    <3> DEFINE f == [j \in Slots |-> RSize(j)]
    <3>1. {RSize(j) : j \in S} = {f[j] : j \in S}
      OBVIOUS
    <3> HIDE DEF f
    <3> QED
      BY <3>1, FiniteValues
  <2>2. {size[j] : j \in S} \in SUBSET Nat /\ {RSize(j) : j \in S} \in SUBSET Nat
    BY <1>1, <1>2
  <2>3. size[i] \in {size[j] : j \in S} /\ RSize(i) \in {RSize(j) : j \in S}
    BY <1>3
  <2> QED
    BY <2>1, <2>2, <2>3, LargestBounds
<1>4. CASE num_invalid # num_disabled
  BY <1>1, <1>3, <1>4 DEF RecoverySize
<1>5. CASE num_invalid = num_disabled /\ num_new > 0 /\ Parity \cap valid # {}
  <2>1. i \in WithStatus("DISK_NEW")
    BY <1>5, NoneRebuilt DEF NewSlots
  <2> QED
    BY <1>1, <1>3, <1>5, <2>1 DEF RecoverySize
<1>6. CASE num_invalid = num_disabled /\ ~ (num_new > 0 /\ Parity \cap valid # {})
  BY <1>1, <1>3, <1>6 DEF RecoverySize
<1> QED
  BY <1>4, <1>5, <1>6

(* A sync that starts or resumes forgets no region that is stale.           *)
LEMMA CheckCurrent ==
  ASSUME CountInv, CountInv', CurrentInv, Incidents = {},
         NEW resume \in BOOLEAN, NEW offset \in Regions, CheckArray(resume, offset)
  PROVE  CurrentInv'
<1>1. /\ private /\ file' = Super /\ recovery_running' = RecoverySize
      /\ curr_resync' = curr_resync \/ curr_resync' = offset
      /\ offset > 0 => enabled \ valid = {}
      /\ UNCHANGED <<active, enabled, valid, id, size, status, rdev, erased, num_disabled,
                     num_invalid, num_new, private, mdstate, beyond, fresh, blank, pending>>
  BY DEF CheckArray, Saved, superVars, deviceVars, counters, content, history
<1>2. DeviceOK' /\ ExpansionOK' /\ SuperCurrent' /\ ErasedOK'
  BY <1>1, SlotsUnchanged
<1>3. FileIsCurrent' /\ FileMatches'
  BY <1>1, <1>2, FileWritten DEF Super
<1>4. ProgressOK'
  <2>1. \A i \in enabled \ valid : size[i] <= RecoverySize
    BY <1>1, RecoverySizeBounds DEF CurrentInv
  <2>2. ASSUME NEW i \in enabled \ valid, NEW x \in 0 .. size[i] - 1, x < curr_resync'
        PROVE  x < curr_resync
    <3>1. offset \in Nat /\ ~ (offset > 0) /\ x \in Nat
      BY <1>1, <2>2 DEF Regions, CountInv, Types
    <3>2. ~ (x < offset)
      BY <3>1
    <3> QED
      BY <1>1, <2>2, <3>2
  <2> QED
    BY <1>1, <2>1, <2>2 DEF CurrentInv, ProgressOK
<1> QED
  BY <1>2, <1>3, <1>4 DEF CurrentInv

(* A sync that ends makes valid only what it went over.                     *)
LEMMA FinishCurrent ==
  ASSUME CountInv, CountInv', CurrentInv, Incidents = {}, FinishSync
  PROVE  CurrentInv'
<1> DEFINE done == enabled \ valid
           new == done \cap WithStatus("DISK_NEW")
<1>1. /\ recovery_running > 0 /\ curr_resync >= recovery_running
      /\ active' = active \cup new /\ valid' = valid \cup done
      /\ num_new' = num_new - Cardinality(new)
      /\ status' = [i \in Slots |-> IF i \in done THEN "DISK_OK" ELSE status[i]]
      /\ fresh' = Join(new)
      /\ curr_resync' = 0 /\ recovery_running' = 0
      /\ file' \in Saved([Super EXCEPT !.active = active', !.valid = valid'])
      /\ UNCHANGED <<enabled, id, size, rdev, erased, private, mdstate, blank, beyond>>
  BY DEF FinishSync, history
<1>2. /\ private /\ valid \subseteq active \cap enabled /\ enabled \subseteq Slots
      /\ size \in [Slots -> Nat] /\ curr_resync \in Nat /\ recovery_running \in Nat
      /\ erased \subseteq Slots
  BY <1>1 DEF CountInv, SuperOK, Types
<1>3. \A i \in enabled : /\ i \in Slots /\ rdev[i] # None /\ id[i] = rdev[i]
                         /\ size[i] = SizeOf[rdev[i]] /\ size[i] = RSize(i)
  BY <1>2, RunningDevices DEF CurrentInv
<1>4. new = NewSlots /\ new = enabled \ active
  <2>1. /\ NewSlots \subseteq enabled /\ enabled \ active = NewSlots
        /\ \A i \in enabled \ active : status[i] = "DISK_NEW" /\ id[i] # None
    BY <1>2, RunningFacts
  <2>2. WithStatus("DISK_NEW") \cap active = {}
    BY StatusBits
  <2> QED
    BY <1>2, <2>1, <2>2 DEF NewSlots, FailedToClear, WithStatus
<1>5. done \subseteq enabled /\ done \cap valid = {} /\ new \subseteq done
  OBVIOUS
<1>6. file' = [active |-> active', enabled |-> enabled', valid |-> valid',
               id |-> id', size |-> size']
  BY <1>1 DEF Saved, Super
<1>7. num_new' = 0
  <2>1. num_new \in Nat /\ num_new = Cardinality(NewSlots)
    BY CountTypes DEF CountInv, CountsOK
  <2>2. num_new' = num_new - Cardinality(NewSlots)
    BY <1>1, <1>4
  <2> QED
    BY <2>1, <2>2
<1> HIDE DEF new
(* All regions of the disks that were synced are current or cleared.        *)
<1>8. ASSUME ~ beyond, NEW i \in done, NEW x \in 0 .. size[i] - 1
      PROVE  IF i \in active THEN <<i, rdev[i], x>> \in fresh ELSE <<rdev[i], x>> \in blank
  <2>1. size[i] <= recovery_running /\ size[i] \in Nat
    BY <1>1, <1>2 DEF CurrentInv, ProgressOK
  <2>2. x < curr_resync
    BY <1>1, <1>2, <2>1
  <2> QED
    BY <1>2, <1>8, <2>2 DEF CurrentInv, ProgressOK
<1>9. DeviceOK'
  BY <1>1, <1>3 DEF CurrentInv, DeviceOK
<1>10. ErasedOK'
  <2>1. \A i \in erased : status'[i] # "DISK_NEW"
    BY <1>1, <1>2, RunningErased DEF CurrentInv
  <2> QED
    BY <1>1, <2>1 DEF ErasedOK
<1>11. ExpansionOK'
  BY <1>7 DEF ExpansionOK
<1>12. SuperCurrent'
  <2> SUFFICES ASSUME ~ beyond, NEW i \in valid', NEW x \in 0 .. size[i] - 1
               PROVE  <<i, id[i], x>> \in fresh'
    BY <1>1 DEF SuperCurrent
  <2>1. i \in enabled /\ id[i] = rdev[i] /\ size[i] = RSize(i) /\ size[i] \in Nat /\ x \in Nat
    BY <1>1, <1>2, <1>3
  <2>2. CASE i \in new
    BY <1>1, <2>1, <2>2, JoinAdds
  <2>3. CASE i \notin new
    <3>1. <<i, rdev[i], x>> \in fresh
      <4>1. CASE i \in valid
        BY <2>1, <4>1 DEF CurrentInv, SuperCurrent
      <4>2. CASE i \notin valid
        <5>1. i \in done /\ i \in active
          BY <1>1, <1>4, <2>1, <2>3, <4>2
        <5> QED
          BY <1>8, <5>1
      <4> QED
        BY <4>1, <4>2
    <3>2. ASSUME NEW j \in new, x < RSize(j) PROVE <<rdev[j], x>> \in blank
      <4>1. j \in done /\ j \notin active /\ size[j] = RSize(j) /\ size[j] \in Nat
        BY <1>2, <1>3, <1>4, <1>5
      <4>2. x \in 0 .. size[j] - 1
        BY <2>1, <3>2, <4>1
      <4> QED
        BY <1>8, <4>1, <4>2
    <3> QED
      BY <1>1, <2>1, <2>3, <3>1, <3>2, JoinKeeps
  <2> QED
    BY <2>2, <2>3
<1>13. FileIsCurrent' /\ FileMatches'
  BY <1>6, <1>9, <1>12, FileWritten
<1>14. ProgressOK'
  <2>1. enabled' \ valid' = {}
    BY <1>1
  <2> QED
    BY <1>1, <2>1 DEF ProgressOK
<1> QED
  BY <1>9, <1>10, <1>11, <1>12, <1>13, <1>14 DEF CurrentInv

(* The recovery thread ends early, by itself or because the array stops.    *)
LEMMA EndCurrent ==
  ASSUME CountInv, CountInv', CurrentInv, Incidents = {},
         SyncInterrupted \/ NocheckCancel \/ StopArray
  PROVE  CurrentInv'
<1>1. /\ private
      /\ UNCHANGED <<active, enabled, valid, id, size, status, rdev, erased, num_disabled,
                     num_invalid, num_new, beyond, fresh, blank, pending>>
  BY DEF SyncInterrupted, NocheckCancel, StopArray, superVars, deviceVars, counters, content,
         history, CountInv
<1>6. /\ recovery_running' = 0 /\ (curr_resync' = curr_resync \/ curr_resync' = 0)
      /\ ~ private' => curr_resync' = 0
  BY <1>1 DEF SyncInterrupted, NocheckCancel, StopArray, EndSync
<1>7. file' = Super \/ file' = file
  <2>1. file' \in Saved(Super) \cup {file}
    BY DEF SyncInterrupted, NocheckCancel, StopArray, EndSync
  <2> QED
    BY <2>1 DEF Saved
<1>8. ~ pending' \/ recovery_running' > 0 => ~ pending \/ recovery_running > 0
  BY <1>1, <1>6
<1>2. DeviceOK' /\ SuperCurrent' /\ ErasedOK'
  BY <1>1 DEF CurrentInv, DeviceOK, SuperCurrent, ErasedOK
<1>3. ExpansionOK'
  BY <1>1 DEF CurrentInv, ExpansionOK
<1>4. FileIsCurrent' /\ FileMatches'
  <2>1. CASE file' = Super
    BY <1>1, <1>2, <2>1, FileWritten DEF Super
  <2>2. CASE file' = file
    BY <1>1, <1>8, <2>2 DEF CurrentInv, FileIsCurrent, FileMatches, FileValid
  <2> QED
    BY <1>7, <2>1, <2>2
<1>5. ProgressOK'
  <2>1. \A i \in enabled \ valid : \A x \in 0 .. size[i] - 1 : ~ (x < 0)
    BY DEF CountInv, Types
  <2> QED
    BY <1>1, <1>6, <2>1 DEF CurrentInv, ProgressOK
<1> QED
  BY <1>2, <1>3, <1>4, <1>5 DEF CurrentInv

(* A disk that missed a write is not taken for valid, in the file neither.  *)
LEMMA WriteErrorCurrent ==
  ASSUME CountInv, CountInv', CurrentInv, NEW i \in Slots, WriteError(i)
  PROVE  CurrentInv'
<1> DEFINE fails == ReplacementFails(i) \/ ArrayDiskFails(i)
<1>1. /\ private /\ ~ pending /\ i \in enabled
      /\ status' = IF fails THEN [status EXCEPT ![i] = "DISK_DSBL"] ELSE status
      /\ enabled' = IF fails \/ ClearingFails(i) THEN enabled \ {i} ELSE enabled
      /\ valid' = IF ArrayDiskFails(i) THEN valid \ {i} ELSE valid
      /\ num_disabled' = num_disabled + One(fails)
      /\ num_invalid' = num_invalid + One(ArrayDiskFails(i))
      /\ num_new' = num_new - One(ClearingFails(i))
      /\ pending' = (fails \/ ClearingFails(i))
      /\ beyond' = (beyond \/ ~ (fails \/ ClearingFails(i)))
      /\ UNCHANGED <<active, id, size, rdev, erased, private, mdstate, curr_resync,
                     recovery_running, file, fresh, blank>>
  BY DEF WriteError, recovery, content
<1>2. /\ status \in [Slots -> Status] /\ valid \subseteq Slots /\ enabled \subseteq Slots
      /\ {num_disabled, num_invalid, num_new} \subseteq Nat
  BY CountTypes DEF CountInv, Types
<1>3. \A j \in Slots : status'[j] = status[j] \/ status'[j] = "DISK_DSBL"
  BY <1>1, <1>2
<1>4. enabled' \subseteq enabled /\ valid' \subseteq valid /\ (~ beyond' => ~ beyond)
  BY <1>1
<1>5. DeviceOK' /\ ErasedOK' /\ SuperCurrent' /\ FileIsCurrent'
  BY <1>1, <1>2, <1>3, <1>4
     DEF CurrentInv, DeviceOK, ErasedOK, SuperCurrent, FileIsCurrent, CountInv, Types
<1>6. ExpansionOK'
  <2> SUFFICES ASSUME num_new' > 0 PROVE num_invalid' = num_disabled'
    BY DEF ExpansionOK
  <2>1. num_new > 0
    BY <1>1, <1>2 DEF One
  <2>2. num_invalid = num_disabled
    BY <1>1, <2>1 DEF CurrentInv, ExpansionOK
  <2>3. ~ ReplacementFails(i)
    BY <1>1, <2>2, NoneRebuilt DEF ReplacementFails
  <2> QED
    BY <1>1, <1>2, <2>2, <2>3 DEF One
<1>7. FileMatches'
  <2> SUFFICES ASSUME NEW j \in FileValid
               PROVE  /\ j \in valid' \/ (pending' /\ j \notin enabled')
                      /\ file.id[j] = id[j] /\ file.size[j] = size[j]
                      /\ id[j] = rdev[j] /\ rdev[j] # None
    BY <1>1 DEF FileMatches, FileValid
  <2>1. /\ j \in valid /\ file.id[j] = id[j] /\ file.size[j] = size[j]
        /\ id[j] = rdev[j] /\ rdev[j] # None
    BY <1>1 DEF CurrentInv, FileMatches
  <2> QED
    BY <1>1, <2>1
<1>8. ProgressOK'
  <2>1. enabled' \ valid' \subseteq enabled \ valid
    BY <1>1, <1>2
  <2> QED
    BY <1>1, <1>4, <2>1 DEF CurrentInv, ProgressOK
<1> QED
  BY <1>5, <1>6, <1>7, <1>8 DEF CurrentInv

(* A crash leaves a file that takes no stale disk for valid.                *)
LEMMA RestartCurrent ==
  ASSUME CountInv, CurrentInv, Restart
  PROVE  CurrentInv'
<1>1. file.valid = FileValid /\ file' = file /\ fresh' = fresh /\ beyond' = beyond
  BY DEF CountInv, FileOK, SuperOK, FileValid, Restart, content
<1>2. DeviceOK' /\ ErasedOK' /\ ExpansionOK'
  BY DEF Restart, DeviceOK, ErasedOK, ExpansionOK
<1>3. FileIsCurrent'
  BY <1>1 DEF CurrentInv, FileIsCurrent
<1>4. SuperCurrent'
  BY <1>1 DEF Restart, CurrentInv, FileIsCurrent, FileValid, SuperCurrent
<1>5. FileMatches'
  BY <1>1 DEF Restart, FileMatches, FileValid
<1>6. ProgressOK'
  BY DEF Restart, ProgressOK
<1> QED
  BY <1>2, <1>3, <1>4, <1>5, <1>6 DEF CurrentInv

(* Every step keeps both invariants.                                        *)
LEMMA CurrentNext ==
  ASSUME CountInv, CurrentInv, Incidents = {}, [Next]_vars
  PROVE  CountInv' /\ CurrentInv'
<1>1. CountInv'
  BY CountNext
<1>2. CASE \E i \in Slots, d \in Disks \cup {None}, e \in BOOLEAN : ImportSlot(i, d, e)
  BY <1>1, <1>2, ImportCurrent
<1>3. CASE Start
  BY <1>1, <1>3, StartNewCurrent, StartDisableCurrent, StartReconCurrent, StartStoppedCurrent
     DEF Start
<1>4. CASE Recover \/ StopArray
  BY <1>1, <1>4, SyncCurrent, CheckCurrent, FinishCurrent, EndCurrent DEF Recover
<1>5. CASE CommitSuper \/ Restart
  BY <1>1, <1>5, CommitCurrent, RestartCurrent
<1>6. CASE \E p \in Parity : CopyParity(p)
  BY <1>1, <1>6, CopyCurrent
<1>7. CASE \E w \in DataSlots, r \in Regions : Write(w, r)
  BY <1>1, <1>7, WriteCurrent
<1>8. CASE \E i \in Slots : WriteError(i)
  BY <1>1, <1>8, WriteErrorCurrent
<1>9. CASE UNCHANGED vars
  <2>1. DeviceOK' /\ ExpansionOK' /\ SuperCurrent' /\ ErasedOK' /\ FileIsCurrent' /\ FileMatches'
    BY <1>9, SlotsUnchanged DEF vars
  <2>2. ProgressOK'
    BY <1>9 DEF vars, CurrentInv, ProgressOK
  <2> QED
    BY <1>1, <2>1, <2>2 DEF CurrentInv
<1> QED
  BY <1>1, <1>2, <1>3, <1>4, <1>5, <1>6, <1>7, <1>8, <1>9 DEF Next

(* The inductive invariant of the content: what memory and file name as     *)
(* valid, where the recovery thread is, and what is blank.                  *)
THEOREM ArrayCurrent ==
  ASSUME Incidents = {}
  PROVE  Spec => [](CountInv /\ CurrentInv)
<1>1. Init => CountInv /\ CurrentInv
  BY CountInit, CurrentInit
<1>2. CountInv /\ CurrentInv /\ [Next]_vars => CountInv' /\ CurrentInv'
  BY CurrentNext
<1> QED
  BY <1>1, <1>2, PTL DEF Spec

(* A running array takes no disk for valid that is absent or stale: not     *)
(* after errors, rebuilds that were interrupted, failed ones that restart   *)
(* from their place, new disks, swaps, crashes or stops.                    *)
THEOREM ArrayValidIsCurrent ==
  ASSUME Incidents = {}
  PROVE  Spec => []ValidIsCurrent
<1>1. ASSUME CountInv, CurrentInv PROVE ValidIsCurrent
  <2> SUFFICES ASSUME private, ~ beyond, NEW i \in active \cap valid
               PROVE  rdev[i] # None /\ \A r \in 0 .. size[i] - 1 : Current(i, r)
    BY DEF ValidIsCurrent
  <2>1. i \in enabled
    BY <1>1 DEF CountInv, SuperOK
  <2>2. rdev[i] # None /\ id[i] = rdev[i]
    BY <1>1, <2>1, RunningDevices DEF CurrentInv
  <2> QED
    BY <1>1, <2>2 DEF CurrentInv, SuperCurrent, Current
<1> QED
  BY <1>1, ArrayCurrent, PTL

(* Nor does the superblock file, at any moment at which the machine may     *)
(* crash: between the change in memory and the file included.               *)
THEOREM ArrayFileIsCurrent ==
  ASSUME Incidents = {}
  PROVE  Spec => []FileIsCurrent
<1>1. CurrentInv => FileIsCurrent
  BY DEF CurrentInv
<1> QED
  BY <1>1, ArrayCurrent, PTL

=============================================================================
