# NonRAID in TLA+

A model of the NonRAID driver (`md_nonraid/6.18`), the kernel module that gives
independent data disks one or two shared parity disks, and of the Proxmox VE plugin
that runs an array unattended, with TLC runs on small instances and proofs that
hold for every size. Line numbers are those of
`src/md_nonraid/6.18/unraid.c` and `md_unraid.c` unless a path is given. The
copies of the driver for kernels 6.1 and 6.6 differ only in how they call the
block layer.

## The system

| Part | State | Operations | Hard part |
|---|---|---|---|
| **Array** (`md_unraid.c`) | superblock in memory and in the file `super=`; per slot an imported device and its status; seven counters; `mddev->state` | `import`, `start STATE`, `stop`, `check`, `nocheck`, `md_write_error()`, `md_update_sb()`, module load | the state is derived slot by slot from counters and the file; restarts, replaced, new and missing disks, unfinished rebuilds |
| **Recovery thread** (`md_do_recovery`, `md_do_sync`, `md_thread`) | `curr_resync`, `recovery_running`, `recovery_sem`, THREAD_WAKEUP, a signal | started by `check`, ended by `nocheck`, `stop` or an error | what it declares valid; signal against mutex |
| **Stripe engine** (`handle_stripe`, `end_request`) | per stripe and column a buffer, its flags and a copy of the disk's state; bios attached; STRIPE_SYNCING, CLEARING, INSYNC | reads, read-modify and reconstruct writes, emulation of lost disks, rebuild, clear, check | errors between the writes of a stripe, states copied and then stale, two failures |
| **Stripe cache** (`get_active_stripe`, `release_stripe`, `unraidd`) | reference counts, inactive and handle lists, hash, `active_stripes[]`, sleepers | activate, attach, handle, release, `md_num_stripes`, `md_queue_limit`, `md_sync_limit` | concurrency, lost wakeups, limits, bios over several stripes |
| **Flushes** (`handle_flush`) | `flush_pending`, a work item, `active_flushes`; the volatile caches of the disks | flush data disk, P and Q, answer or resubmit the bio | disks fail, and rebuilt ones become valid, between the flush bios and the answer; nothing holds `conf` for the count-down after it |
| **Commands and status** (`md_proc_write`, `status_resync`) | `mddev->active`, `mddev->private`, `recovery_size` | any process writes `/proc/nmdcmd` or reads `/proc/nmdstat` at any time | nothing serializes them |
| **RAID-6 library** (`raid6/`) | `nonraid_gen_syndrome`, `nonraid_xor_syndrome`, the recovery functions, chosen when the module is loaded | compute P and Q, add a change to them, recover two columns | a dozen instruction sets, of which each machine runs one |
| **nmdctl** (`tools/nmdctl`) | none of its own | reads `/proc/nmdstat`, writes `/proc/nmdcmd` | check, then act |
| **Proxmox VE plugin** (`pve-plugin/`) | marker, debt and refusal files, a node lock, a unit, mounts | activate (by any process, on a fast and a slow path), teardown | an unclean shutdown has to be remembered over failing steps and further ones; the fast path takes no lock |
| other kernels' copies, GUI, units, packaging, tests | | | not modelled: duplicate or without protocol |

How they interact: a bio enters through `unraid_make_request()`, gets a stripe
from the cache, is attached to it and released; the unraidd thread of the data
disk takes the stripe off its handle list and runs `handle_stripe()`, which
submits block I/O; completions (`end_request()`) put the stripe back. A sync
does the same from the recovery thread, through `unraid_sync()`. A failed write
calls `md_write_error()`, which changes the state of the *array*; the
superblock file is updated when unraidd next comes to the stripe that saw the
error. Stripes copy the disk states when they are initialized. The end of a
sync changes the disk states in turn. All device state shared between threads
is under `device_lock`, except what `handle_stripe()` does while it holds its
stripe, and the loops of `md_do_recovery()`. The plugin sits above all of it: it
calls `nmdctl`, which reads `/proc/nmdstat` and writes `/proc/nmdcmd`.

What makes each part correct, in short: *cache*: a stripe has one user, and
nobody waits for ever; *stripe*: what was acknowledged can be read or
reconstructed, now and after a crash; *array*: a disk taken for valid holds the
current data, whatever happened to the slots, and never more is missing than
parity makes up for; *recovery thread*: it passes no disk it has not rebuilt
from end to end, it is gone when the array is, and whoever stops it gets an
answer; *flushes*: an answered flush covers every disk that is still valid;
*library*: whichever routines are chosen compute the same two parities, those of
the definition of the code; *plugin*: an unclean shutdown leads to one correcting
check, whatever fails or crashes on the way, and nothing else does.

## Modules

| Module | Models | Checked by |
|---|---|---|
| `Stripe` | one stripe: engine, completions, sync, the part of the array they change | `MCStripe`, four runs |
| `ErasureCode` | the columns of a stripe, and what P and Q hold | through `Stripe` |
| `StripeCalcProofs` | theorems about `ErasureCode`, lemmas about the calculations of `Stripe` | the prover |
| `StripeProofs` | theorems about `Stripe` | the prover |
| `BlockStore` | what the users of a stripe are promised: abstract specification | `Stripe` implements it, run `stripe_degraded` and the prover |
| `StripeCache` | the cache, requesters, unraidd threads, resizing | `MCStripeCache`, two runs |
| `StripeCacheProofs` | theorems about `StripeCache` | the prover |
| `Array` | superblock, import, start, errors, recovery, stop, restart | `MCArray`, two runs |
| `ArrayProofs` | theorems about `Array` | the prover |
| `Recovery` | the recovery thread step by step against commands, status reads, write errors and users | through `Driver` |
| `RecoveryProofs` | theorems about `Recovery` | the prover |
| `Flush` | one flush of a device and the caches of the disks | through `Driver` |
| `Driver` | `Recovery` and `Flush` together | `MCDriver`, two runs |
| `DriverProofs` | theorems about `Driver` | the prover |
| `Galois` | the tables of `mktables.c` over the field of 256 elements | `MCRaid6` |
| `Syndrome`, `Algorithms` | the shapes of `gen_syndrome` and `xor_syndrome`; every routine by its name, `struct raid6_calls` | `MCRaid6` |
| `Recover` | the recovery routines and their list | `MCRaid6` |
| `Raid6` | choice of the routines, then the buffers of one stripe | `MCRaid6`, one run |
| `Raid6Proofs` | theorems about `Raid6` | the prover |
| `Plugin` | activation, marker, debt, unit and teardown of one storage on one node | one run |
| `PluginProofs` | theorems about `Plugin` | the prover |

They cut the driver at its seams. `StripeCache` reduces
`handle_stripe()` to what it does to the cache and shows that it always finds
its stripe alone (`HandledAlone`); that is why `Stripe` may take
`handle_stripe()` as one step. `Stripe` shows of one stripe that reads,
writes and rebuilds are right; `Array` takes that for granted and follows whole
disks, by region, through sequences of commands and restarts, each command one
step; `Recovery` takes the commands apart and lets them overlap. `Stripe`
computes in a field of three elements, where every mix-up of old and new blocks
shows; `Raid6` computes the bytes.

### Stripe

A block is an element of the integers modulo a prime (3 in the runs); P is the sum
of the data blocks, Q the weighted sum (`ErasureCode`). Like the code of `raid6/` it
recovers any two blocks; unlike it subtraction is not addition, so a calculation that
mixes up the old and the new block shows. `col[i]` is `sh->col[]` (`io` stands for the
locked bit with its read or write flag), `bi` the bio on one of the three bio
pointers of a column, `media` the blocks on the disks. `handle_stripe()` is
split into actions by the branch it takes (`HandleFailRequest`, `HandleRead`,
`HandleWrite`, `HandleWritten`, `HandleSyncFail`, `HandleSync`, `HandleClear`,
`HandleSyncDone`, `HandleNothing`); each does the whole pass, the superblock
update at its begin and the I/O at its end included. Write methods and partial
writes are chosen per request. Other stripes are reduced to what they do to
this one: `OtherWriteError` and `OtherUpdate`. Whether a rebuild, a clear or a
check runs follows from the disk states as in `unraid_sync()`. The model has
one stripe, so `md_do_sync()` has one position: `NocheckArray` and errors
interrupt it before or after.

Kinds of slots (`Kind`) are the combinations of valid, enabled and active that
`start_array()` leaves. `Arrays` in `MCStripe` names the assemblies of each
run and which errors may happen. `OutOfBounds` stands for
`sh->col[-1].write_bi`, which the code reads when fewer columns failed: the
memory before the array holds whatever it holds.

### StripeCache

Requesters are bios, which walk `First[r] .. Last[r]`, and the sync. A
requester gets a stripe or sleeps (`GetStripe`, `NoStripe`), attaches and
releases (`Attach`), and ends. The unraidd threads loop over the handle list
(`TakeStripe`, `HandleStripe`, `Submit`, `ReleaseHandled`, `ThreadSleeps`), and
completions run beside them (`EndRequest`). `release_stripe` is the operator
all of them share. `SetNumStripes` to `SizeReached` are `md_num_stripes`.
Lists are sets: their order is left open, so every order is covered.

### Array

One bit of `disks[].state` over all slots is a set: `active`, `enabled`,
`valid`. `ImportSlot` is `import_slot()`, with the status of the slot
(`ImportStatus`) and the state of the array (`ArrayState`). `start_array()` is
one action per state it tells apart. `pending` says that a change of the
superblock still has to reach the file; `CommitSuper` writes it. The history
variable `fresh` holds which region of which disk is the current content of a
slot; `Write`, `SyncRegion` and the joining of new disks change it.

A user and a machine may do things the driver does not survive. Each is named in
`Incident`, and `Array` allows them only if the constant `Incidents` lists
them: the passing run has none, so it shows what holds *for an operator who
keeps to them*, and a run adds one to show what it does. What the table says of the others is
found by adding them to `Incidents` in the same way.

| Incident | What goes wrong with it |
|---|---|
| import again | counters count a slot twice (`docs/manual-management.md:97` says so) |
| slot left out | run `array_slot_left_out`; also a disk whose clearing was not finished becomes valid without a device |
| stop when stopped | `ValidIsCurrent` is violated: "stop" and "start" after an import that found a disk missing run the array with that disk counted as valid |
| clear again | a disk that failed while it was cleared keeps its status; when another new disk still waits, "stop" and "start" enable it again without counting it, and `CountersExact` is violated (it takes three data slots: beyond the array run's bounds) |
| start fails | the retry of a start does not commit the superblock |
| early write | data written between `do_run()` and `md_update_sb()` is not in the array a crash leaves |
| offset | a rebuild started with an offset makes the disk valid |
| other target | a second replacement during a rebuild is not recorded by id |
| file fails | the file misses the change, nobody notices, and a restart takes a disk disabled before it for valid |
| new over old | a new array takes over slots another superblock still describes; nmdctl refuses it |

Assumed besides: the `ERASED` flag is only given for disks that hold zeros, and
the parity disk was copied before a start in `SWAP_DSBL`, as nmdctl demands
(`CopyParity`, external).

### BlockStore

A block holds one value; a read returns it, a write takes place at one moment
between its arrival and its answer, or fails and leaves the old or the new
value. `Promise` in `Stripe` is the instance: `store` is
`last`, what the acknowledged write of each block has left and the failed ones
since then may have; `request` is the bio that is attached, which is "written"
once its block is in the buffer; `answer` is what the last step passed to the
user. Emulation, rebuilds,
superblock updates, errors and the cached stripe are all stutters.

### Recovery

One variable per field that two threads share, and a program counter for the
recovery thread (`pc`) and for each process at work in `/proc` (`cmd`). The
thread is `md_thread()` from flushing its signals (`ThreadFlushes`) through the
wait, `md_do_recovery()` (`ThreadChecksSize`, `ThreadLocks`, `ThreadBegins`) and
`md_do_sync()` (`unraid_sync`, `ThreadAdvances`, `ThreadEndsLoop`,
`ThreadDrained`) to the loop that marks the disks, one disk in two steps
(`ThreadTests`, `ThreadMarks`), because the code holds no lock between them.
`check_array()` is two steps, `nocheck_array()` three, `stop_array()` with
`do_stop()` four, a read of `/proc/nmdstat` two (`status_resync()` zeroes
`recovery_size` and computes it again). `Start` brings in replaced and new disks.
The history variable `good` holds which regions of each disk are current.

The code has races that it does not close. Each is a *window*, named in
`Window`, that `Windows` opens; the runs and theorems say which they need shut:

| Window | What overlaps | With it |
|---|---|---|
| late | `stop` and a `check` whose thread has not taken `recovery_sem` yet | `SyncOnlyWhileRunning` and `ResumePoint` are violated: `recovery_sem` is free, so `stop_array()` frees the array and the thread goes on |
| stale | a `check` without a read of `/proc/nmdstat` since the start | run `driver_stale` |
| status | `status_resync()` between its zero and its sum, and `md_do_recovery()` | `RebuiltCovered` is violated: the loop has nothing to do and the disks are marked |
| marking | a write fails between `md_do_recovery()`'s test of a disk and its stores | `CountersMatch` and `RebuiltCovered` are violated |
| open | `md_open()` after `stop_array()` has read `mddev->active` | the `conf` of an open device is freed; nothing in the code prevents it, and no property here turns on it |
| rebuilt | `md_do_recovery()` marks a disk valid (`md_unraid.c:1259`) that `handle_flush()` has passed over (`unraid.c:1700`), before `submit_flush_data()` | `FlushCovers` is violated: the flush is answered with a valid disk that has not written its cache |

What a window lets in is not met by the run `driver`: its properties hold where the
window is shut, and the table says what TLC finds where it is open.

### Flush and Driver

`handle_flush` counts one for itself, `submit_flush_bio` goes to the data disk,
P and Q, each tested when its turn comes, `SentAll` drops the count,
`end_flush` ends one bio, `submit_flush_data` answers the flush or sends its data on,
and is then done with it. What a volatile cache may still hold of writes answered
before the flush came is `due`: all the disks of the device at first, and less each
whose flush bio has ended. `Driver` lets the steps of `Recovery` happen beside a
flush (`Beside`): disks fail, devices are opened and released, recoveries run, are
paused and end. A disk that a recovery makes valid has data in its cache like any other.
When `handle_flush()` has yet to come to it, it is flushed; when it was passed over, only
the window "rebuilt" lets it become valid before the answer.

A device is released when its flushes are answered, so the array is not stopped under
one. What comes after the answer is left out: `submit_flush_data()` counts down in
`conf` (`unraid.c:1666`) after `bio_endio()`, when nothing holds the `conf` any more.
`active_flushes` itself is only printed.

### RAID-6 library

A register is the set of its bits, two bytes of it, so that what one instruction
carries from one byte into the next shows; a block is eight registers, the least
that every unrolling divides. `Syndrome` has the loops the routines share
(`GenDirect`, `GenAhead`, `GenZeroed`, `XorSyndrome`), with the doubling of each
instruction set (`Twice`, `Left`); `Algorithms` says of each routine which loop
it is, how far it is unrolled and how it doubles (`Loop`). `Recover` has the two
recoveries with the three ways to multiply by a constant (`Mul`). `Raid6` loads the module on some
processor (`Load` to `ChooseRecov`), starts a new array whose parities are
unknown and rebuilt first (`Boot`), and then writes, reads, fails, rebuilds and
checks one stripe with the operations of `unraid.c:635-991`: each branch of
`handle_stripe()` is a list of them (`Rebuilt`, `Modify`, `Reconstruct`, `Recon`,
`Checked`), which `Done` runs in order on the buffers that were read.

Left out of `Raid6`, each by a guard that says so: a benchmark that measures
zero for every routine (`MinPerf`); a check of one data disk by a routine that
loads a column ahead (`CanCheck`: it reads `srcs[-1]` and throws the value
away); a P that is wrong while a data disk is lost, which the code cannot know
(`Corrupt`). `recov_neon.c`, `recov_s390xc.c` and `recov_loongarch_simd.c` use the
`raid6_call` of the kernel's own library (`KernelCall`, external), because they include
the kernel's header. On x86 a recovery takes two registers in a turn, without
`CONFIG_X86_64` one: `avx2x2` and `avx2x1` and their like in `raid6_recov_algos`.

### Plugin

A process that activates the storage looks at the array and the pool once
(`Activate`) and takes the fast path, which is `_ensure_bookkeeping()` alone, or
the slow one under the lock: `RecordDebt`, the start of the array
(`StartedAlready` to `StartArray`), `MountMembers`, `MountPool`, bookkeeping.
Both paths share the bookkeeping: `Marked`, `CreateMarker` and `SyncMarker`, because
the file is there before it is synced; `RegisterUnit`; `Correct` and `ClearDebt`.
Any command or file operation may fail. `TeardownPools` to `RemoveMarker` is
`pve-nonraid-teardown`.

`files` is what a process sees of the marker and the debt, `found` the versions a
loss of power may leave: the file system keeps changes in order and writes
them back some time later, or when the marker is synced. The debt file is not
synced by the code; it is in order with the removal of the marker, which is what the
properties rest on. Two history variables observe: `vouched` (an activation has
reported success since the array came up) and `owed` (a shutdown was unclean and
no correcting check has started since).

As in `Recovery`, what the code leaves open is a *window*:

| Window | What overlaps | With it |
|---|---|---|
| waiting | an activation waits for the lock while another one brings the storage up | `CheckOnlyAfterUnclean` is violated: the waiter takes the marker written meanwhile for a crash, and a clean boot ends in a correcting check, which the plugin's README (line 137) rules out |
| creating | the fast path meets a marker that is created and not yet synced | `UncleanRemembered` is violated: success is reported and a loss of power leaves no marker |
| enabled | the unit is active after a boot in which no activation recorded the debt | `UncleanRemembered` is violated: that boot ends with a teardown in which nmdctl has nothing to unmount or stop and succeeds, and the marker of the crash before it is removed |
| unanswered | a check is started, but its command times out or fails (`NonRAIDPlugin.pm:1046-1062`), or the debt cannot be removed (1054) | `CheckOnlyAfterUnclean` is violated: the debt stays, and a later activation starts a second check for the same shutdown. `UncleanRemembered` and `DebtPaid` hold |

The run `plugin` has them shut and does not meet what they let in.

Assumed: nobody activates during a teardown (`Before=pvestatd.service` in the unit, or
`pvesm set --disable 1`, as the plugin's README demands for a stop by hand); a check outlasts the step after it. An import that
fails half way leaves what a complete one does. A correcting check that is
interrupted by an orderly stop is not repeated: the debt is cleared when the
check starts, and the model says so too.

## Runs

| Run | What it shows |
|---|---|
| `stripe_intact` | every slot in use, one being cleared or one unassigned, one error here or in other stripes, or parity that does not match at first: reads return the last acknowledged value, from the disk, the cache or a reconstruction, parity errors are real and a correcting sync repairs them |
| `stripe_degraded` | one slot lost and one error more, or two slots lost, rebuilt or too short: the same with emulation and rebuild, and that between requests the disks taken for valid hold the data and buffers are what they claim, what the superblock file would reassemble, what the end of a rebuild declares valid, and that the answers are those of a `BlockStore` |
| `stripe_live` | one data disk mirrored: every request and sync ends, none fails within what parity covers |
| `stripe_p_valid_loss` | violation: a reconstruct-write marks a P that is disabled valid in the cached stripe; a later check fills its buffer with zeros and computes an unreadable data block from them |
| `cache` | two bios and a sync for one or two stripes, while limits and size change: reference counts, lists, hash and counters agree |
| `cache_live` | a bio and a sync throttled to nothing, a shrinking cache: no wakeup is lost, every resize ends |
| `array` | double parity, single parity or no array at first; imports in any order, with a larger spare disk, a swap of parity into a data slot, new disks erased or not, write errors, rebuilds stopped and resumed, one crash or reload |
| `array_slot_left_out` | violation: three failed slots in a running single parity array |
| `driver` | two writers of `/proc/nmdcmd` that also read the status, a flushed device, one write error, with every window shut: no disk passes that was not rebuilt from end to end, a resumed sync has left nothing out, counters agree, the sync never outlives the array, a flush beside failures and a recovery covers the caches of the disks that are valid when it is answered, commands and flushes end |
| `driver_stale` | violation: a check after a start covers only the size computed before it |
| `raid6` | six architectures, every set of features, every outcome of the benchmark, three to seven columns, every pair of lost disks: choice and bytes; the tables for all 28 data disks, as an assumption TLC evaluates |
| `plugin` | two processes activate, three ends of a boot in any way, two failures, every disk state, with every window shut: an unclean shutdown is remembered until its check starts, no check starts without one, a debt is paid in the end, and nobody is stuck |

### Bounds and why they are enough

* `Stripe`: two data columns (one for liveness). With P and Q that gives every
  pair of lost columns, a data column that is written and one that is not; a
  third would only repeat the second. Order 3 is the smallest field with an
  erasure code for two columns; one written value tells old, new and their
  differences apart. One error beyond the lost slots reaches three failures.
* `StripeCache`: two stripes, two sectors, one data disk and the sync make
  competition for a stripe, for a sector and between units; at most two I/Os
  and one extra round make completions overlap each other and the thread. The
  proofs lift these bounds for the invariants they cover.
* `Array`: two data slots, five disks, sizes of one and two regions (parity
  may be larger than data, replacements larger than the disk they replace). One
  reload and one write error, together with missing and replaced disks, reach
  three failed slots. `Fits` lets the larger spare go where the parity was, and
  the parity disk, also larger, into the first data slot. A spare for the data
  slots as well, from no array at first, and two errors for a double and a single
  parity array have been checked in larger runs, with the same result.
* `Driver`: the parity disk of two regions and a data disk of one, so that a
  sync has a middle to be paused in and the two disks have different sizes; two
  writers meet in any command; three commands are a start, a check and the stop
  or pause that meets it; one write error hits anywhere. One flush at a time. The
  commands that may be under way beside it are those of `MeetFlush`, in the run "check"
  and "resume": the recovery they start runs on, marks its disks or is ended by an error
  beside the flush. The others would only multiply the states: a "stop" does not begin
  with the device open, a "cancel" or "pause" does nothing but signal the thread, as an
  error does, and a read of the status touches `recovery_size` alone. Without this bound
  1.47 million states have been checked in a larger run, with the same result. The
  theorem below has no such bound.
* `Raid6`: one, two, four and five data disks are the counts at which loops have
  nothing, one or several columns ahead, `xor_blocks()` is called with a full
  and a partial set of four, and NEON takes its fours and its rest. Two versions
  of the highest column, of bytes that differ everywhere; the lowest and the
  highest data column, P and Q may fail.

* `Plugin`: two processes meet on either path, or one on each. Three ends of a
  boot: an unclean one, a second one while its debt is recorded or paid, and an
  orderly one after that. Two failures: a step fails, and so does its retry or the
  teardown. The theorem has no such bounds.

`MCStripe` also names arrays outside the bounds, kept to reproduce what happens
there: `PLostReadError` (P disabled and a read error), `SingleParityLastWrite` (a
write whose last remaining column fails is never completed), `RebuildUnread` (a
replacement is declared valid with a block that could not be computed) and
`OtherStripeFails` (a write acknowledged on the strength of a failure that is not
yet in the file, and a crash).

### Deadlock

The runs of the driver do not check for deadlock: an array without requests may rest,
and the bounds end behaviours (`CHECK_DEADLOCK FALSE`). That of the plugin does, as
there is always another activation. That nothing waits for ever is what
the liveness runs show.

### Fairness

`stripe_live`: weak fairness of `handle_stripe()` (unraidd is woken for every
stripe put on its list) and of each column's completion (disks answer, with or
without error). `cache_live`: weak fairness of every thread that runs, of
completions and of the resizing command; threads are scheduled by the kernel,
and a sleeper is enabled only after the wakeup it waits for. Nothing is assumed
of users: requests, settings, checks and stops may never come. `driver`: weak
fairness of the recovery thread, of the ends of its stripes (run `stripe_live`),
of every command that can go on and of the steps of a flush; strong fairness of
taking `recovery_sem`, because a mutex is handed to those who wait for it. `plugin`: weak fairness of
some process activating (pvestatd does in each of its cycles), of the steps of an
activation or teardown that was begun (each command has a timeout), of the expiry of
a cached refusal and of the end of a check; none of operators, repairs or power.

## Proofs

### Stripe

`StripeProofs` proves, for any number of data disks, any prime order above it, any
values, write methods and contents of `OutOfBounds`, and for every array of which
`Covered` holds:

| Theorem | What holds |
|---|---|
| `StripeTyped` * | `TypeOK` |
| `StripeReadsCurrent` *, `StripeNoRequestFails` * | reads return the last acknowledged value, no request fails |
| `StripeNoAssertionFails` * | every calculation finds its source buffers up to date |
| `StripeAckedDataStored`, `StripeAckedDataSurvivesCrash` | at rest the disks that count as valid, and those the superblock file calls valid, determine exactly the acknowledged data |
| `StripeCleanBuffersCurrent` | at rest an up-to-date buffer of a valid column has its block |
| `StripeRebuiltDiskCurrent` | what the end of a recovery declares valid is current |
| `StripeNoSyncError` | a stripe that started in order is never reported as wrong |
| `StripeSyncErrorIsReal` * | a parity error is reported only of parity that contradicts the data on the disks |
| `StripeSyncRepairs` * | a correcting sync leaves parity that matches the data |
| `StripeImplementsBlockStore` * | every step is one of `BlockStore` or a stutter |

Those with a star are proved for more: for every set of arrays of which each satisfies
`Covered` or `Whole`, the latter ones with any parity (below).

`Covered` says what the code can be expected to survive, of the slots the array
starts with and of the errors that may come:

* the columns that are lost (disabled, or being rebuilt) and those that fail are at
  most two: parity has no more;
* if P is among them, no other column fails. P disabled and one read error more is the
  bug that run `stripe_p_valid_loss` shows; without this hypothesis
  `StripeAckedDataStored` is false;
* P and Q are active slots, as `alloc_mddev()` makes them (one that is left out counts as
  lost), and not shorter than the stripe, which `valid_parity_size()` sees to;
* no new disk is cleared while another one is rebuilt, as `Array` shows of
  `start_array()` (`ExpansionOK`);
* the array was stopped cleanly. After an unclean stop parity may not match: `Whole` is
  about that case.

Of the assemblies that the passing runs use, two are outside `Covered`: the unclean
one, and two lost disks with a read error of P or Q.

Four theorems need more. `StripeAckedDataSurvivesCrash` wants disks to fail in accesses
to this stripe only: after an error in another stripe it is the thread of that stripe
that updates the file, and a write to this one may be answered before it
(`OtherStripeFails` reproduces that). `StripeCleanBuffersCurrent` and, for the arrays of `Covered`,
`StripeNoSyncError` and `StripeSyncErrorIsReal` want a P that is neither lost nor failing: a P that is disabled is
marked valid, and the next read for it fills its buffer with zeros, as in the bug above. Within `Covered` no data is ever
computed from that buffer (`ParityGood` below), but it is not what the first property says
of it, and a check compares it with the data: with array `PLost` (P disabled, nothing else
wrong) TLC finds `SyncErrorIsReal` violated, a check that counts a parity error where there
is none.

None of the properties is inductive. `StripeInv` says that there are a set `broken` of
disks that have failed so far and a content `d` of the data columns such that
`Inv(broken, d)`:

* `Acked`, `Content`: `d` is what was acknowledged last, changed by the request whose
  write was made but not answered. A request that fails could leave two contents
  possible; here none fails, and the proof shows it along the way;
* `Errors`: the failed disks are ones that may fail and were counted, so that `Covered`
  applies to them;
* `DiskGood`, `Counted`: what the states of disks in the array may be, and that the
  counters count them. `md_write_error()` decides by the counters, so the bound on
  failures reaches the disks only through them;
* `ColsGood`: the flags and the content of each column. `ColGood` relates the state the
  stripe has copied to that of the disk, which may have changed since; `ColCurrent`
  says which buffers and which blocks on disks have to be the block of `d`;
  `ParityGood` says when a P that is not enabled may be called valid: only when
  everything else is there or being written, so that nobody will compute from it;
* `Pending`: a request keeps the stripe on a list or an I/O running;
* `Syncing`, `Synced`: the bits of the stripe and the recovery thread agree, and once the
  thread is past the stripe every disk in use has its block. `Synced` is what makes the
  end of a recovery right; an error, a pause or a failure in between has to keep it or
  end the recovery;
* `EventGood`, `FileGood`: what the last step answered, and that the superblock file
  lags behind only while its update is due.

`InitInv` and one lemma for each action show it inductive. A step of `handle_stripe()` goes
through `HandleFrame`, which leaves the columns, the request and the sync to be shown;
a completion with an error through `ErrorFrame`, which adds a disk to `broken`. What
the steps need of the calculations is in `StripeCalcProofs`: `Holding(g, d, L, V)`
says that the buffers of the columns in `V` that count, in calculation `g`, are blocks of
`d`; each routine keeps it and fills its own columns (`Raid5Fills` and its like), and
`ReadCalc`, `WriteCalc`, `SyncCalc` and `check_parity` are chains of them, one case for
each set of failed columns. Every case of
`handle_stripe()` thus has a step in the proof, which is where
`StripeNoAssertionFails` comes from.

`Whole` is about arrays after an unclean stop: every slot that is assigned is in use, no
disk fails, and parity may be anything. `StripeInv` says nothing of them, as there is no
content that the disks hold, parity included.

For `StripeSyncRepairs` on the arrays of `Covered`, `StripeInv` is enough: the step that
ends the sync leaves the stripe at rest (`SyncOver`). For those of `Whole` the invariant
is `WholeInv`, which follows the sync itself: until it calculates, every
buffer that is up to date holds what is on its disk (`Scanned`: `unraid_sync()` drops the
buffers, a request cannot come between, and no write is running), and from then on
until its writes are done there are data of which every disk holds the block, or is
being written it (`Repaired`). The end of the last write turns that into the property
(`RepairedStored`). `Scanned` also makes what the check finds true: the buffers
it compares are what the disks have (`WholeReal`).

What requests meet on such arrays is `Served(d)`, on top of `WholeInv`: the data `d` are
those acknowledged, and each block of them, with the request made but not answered, is on
the data disk it belongs to, or in the buffer that is being written there (`OnOwnDisks`).
The proof shows on the way why the parity does not matter: no disk is missing, so a read
takes its own column, a write locks no data column but its own and is made on top of the
block acknowledged (`ServedWrite`), and a sync writes parity only (`ServedSync`).
`ServesInvariant` joins it with `StripeInv`, and `Promising` names what the refinement
needs of either: requests come one at a time, none fails, a write is made on the
acknowledged data, and a read returns them. What the disks say without one of them is another
matter, on which `AckedDataStored` makes no claim before a correcting sync: it is about
arrays that were stopped cleanly.

That the routines fill the right blocks is a fact about the code, proved in
the same module: `TwoCanBeLost`, that all columns but any two determine the data, from
the order being prime (`NoZeroDivisors`). `PValue` and `QValue` are sums over a set
that the library computes by recursion. The induction over the subsets of the columns
that this needs is `SubsetInduction`, which takes the property as the set of those
that have it and follows from the well-founded order of the finite subsets.

### Stripe cache

`StripeCacheProofs` proves, for any number of stripes,
sectors, bios, units, I/Os and any limits that satisfy `CacheAssumption` and
`LimitsAssumption`:

* `CacheRefCountsExact`, `CacheHandledAlone`, `CacheListsMatchCounts`,
  `CacheOneStripePerSector`, `CacheActiveStripesExact`, `CacheBioCountsExact`: the
  invariants of run `cache` of the same names;
* `CacheTypeOK`, `CacheInactiveIdle` (the assertions of `sanity_check()`), which
  need no run of their own any more;
* `CacheInvariant`: the inductive invariant `IInv` they follow from.

The properties are not inductive alone. That `handle_stripe()` finds its stripe
alone rests on the count being exact and on a stripe on the handle list having
count zero; that the count stays exact rests on each holder being in the
right place of its program with a stripe that is allocated; that an inactive
stripe has nothing attached rests on a stripe with a request still to be served
being held, in flight or flagged. So `IInv` adds `Holders` (who has a stripe is
at a place where the code has one, and it is in the pool), `Unallocated` (a
stripe outside the pool is idle and unhashed) and `NotForgotten` (an attached
request is on its way to being served). `InitInv` and one lemma for each action
that moves a reference show it inductive; `Bystander` deals with the steps that
change no stripe, `ReleaseEffect` with `release_stripe`, which four actions
share, and `AvailableIdle` with what `_get_active_stripe()` hands out.

The two counters are sums over sets that change. Their proofs follow the sets, `ActiveOf(u)` and `Attached(r)`, by one element at a time: `IInv` says that
the stripe that leaves or joins was in or out before (a stripe that is handed out
was inactive, one that is attached had nothing attached), and
`NotYetAttached` that a request has nothing attached before it arrives.

### Recovery thread

`RecoveryProofs`, for any disks of any sizes, any number of processes, commands,
errors and open devices:

* `RecoverySyncOnlyWhileRunning`, with the window "late" shut: the invariant
  `Control` says who holds `recovery_sem` (`OneHolder`), that while somebody stops
  the array nobody has woken the thread or is about to (`NotWoken`), that who has had
  the mutex found the thread idle and it stays so (`Waited`), and hence that a
  stopped array has an idle thread (`Stopped`). The property alone is not
  inductive: it says nothing of a thread that is about to lock, or of a `stop`
  that is half done. "late" is exactly what breaks `NotWoken`.
* `RecoveryCountersMatch`, with "late" and "marking" shut: the counters agree with
  the sets because every disk that changes state changes exactly one difference of
  two sets by one element (`CountedWriteError`, `CountedMarks`, `CountedStart`).
  `SlotsMatch` adds what the cases need: a new disk is not active, a disk that is
  enabled and not active is new, and the disk `md_do_recovery()` has tested is
  still enabled and not valid when it is marked, which is what "marking" breaks.

With "late", "stale", "status" and "marking" shut: `RecoveryRebuiltCovered` and `RecoveryResumePoint`. A disk is marked at the end of
a path on which each step relies on the one before, and the invariant `Rebuilt`
has a part for each: `Sized`, that `recovery_size` was computed since the start and
covers every disk that waits for the recovery, from the command to the loop
(`ResyncSizeCovers`: the three cases of `status_resync()` do, because disks are
rebuilt or cleared, never both, and because the counters are right); `Reached`,
that every region the loop has passed is current or in flight, whoever sets
`curr_resync` back, and that a start begins at 0; `Kinds`, that what is in flight is
for the kind of recovery there is; `Ended`, that after the loop every region is
given out, and after the wait for the stripes current. Each window breaks one
part: "stale" and "status" `Sized`, "late" `Reached` (a start that does not begin
at 0) and `Kinds`, "marking" `SlotsMatch`, on which the counters rest.

### Array

`ArrayProofs`, for any slots, disks and sizes:

* With the incidents "import again", "slot left out", "stop when stopped" and
  "clear again" shut (the others may happen): `ArrayCountersExact`, `ArrayWithinParity`
  and `ArrayTyped`. The counters are set slot by slot by imports and changed by starts,
  errors and ends of recoveries, each from the status of a slot, while the properties
  compare them with the bits of the superblock. `CountInv` ties the three together:
  `StatusOK` says which bits a slot of each status has, `CountsOK` that each counter is
  the number of imported slots of its statuses, `StateOK` which counters each state
  of the array admits, `EmptyOK` what holds before an import, `RunningOK` of a running
  array; `FileOK` says the same of what a restart reads back. The proof of
  `StatusOK` failed for a disk whose clearing had failed, which TLC then confirmed with
  three data slots: the incident "clear again".
* Without incidents: `ArrayValidIsCurrent` and `ArrayFileIsCurrent`, from `ArrayCurrent`.
  `CurrentInv` adds `SuperCurrent` (what the superblock in memory names by id as valid
  is current, running or not), `FileMatches` (where the file and the memory may
  differ, and whose commit is pending), `DeviceOK` (a disk is in one slot, and one that
  replaces no other is the one the superblock names), `ErasedOK` (a new disk said to be
  erased holds zeros until it joins), `ExpansionOK` (disks are cleared only while none is
  rebuilt) and `ProgressOK` (what the recovery thread has passed is current or
  cleared, and it is to pass all of each disk, so that a resumed recovery marks no
  disk too early).

### Flushes

`DriverProofs`, with "late", "open" and "rebuilt" shut: `DriverFlushCovers`. The
property speaks of the moment of the answer only. `DriverInv` says of the way there:
what a valid disk still owes the flush is to be sent or in flight (`Owed`);
`flush_pending` is the number of flush bios in flight, and one more while
`handle_flush()` sends them (`FlushCounted`), so it reaches zero once, at the end; a
flush has its device open and so the array running (`FlushHeld`), which rests on
`Control` and on `StopFindsNoUser` (who stops the array found no open device, and none
is opened since): no start brings in disks under a flush (`RunningStays`). A write error
takes a disk out of `valid`, which `Owed` survives; a recovery adds one, which it
survives when `handle_flush()` has yet to come to that disk. That it never adds one
which was passed over is the hypothesis on "rebuilt": the code does not see to it, and
the theorem does not speak of such a flush.

### RAID-6 library

`Raid6Proofs`, for any architecture, processor and outcome of the benchmark, any
number of columns a stripe may have, any size and content of its blocks, any columns
that are written and any that fail:

| Theorem | What holds |
|---|---|
| `FittestSelected` | `BestChosen`: the routines that are picked run on the processor, none with a higher priority is passed over, the fastest of those measured is taken |
| `AlwaysCoded` | `ParityCoded`: the disks hold the data and its P and Q by the definition of the code |
| `AlwaysRecovered` | `RecoveredRight`: a read of lost columns gets what was last written |
| `AlwaysExact` | `CheckExact`: a check reports the parities that do not fit and no others |

`Raid6Assumption` bounds the columns by `MD_SB_DISKS` and says that blocks are made of
registers; `WordsAssumption` that a block is a multiple of what the longest
unrolling does in a turn, as `PAGE_SIZE` is. The third one, `TablesAssumption`, has no constant in
it: that the tables hold what `mktables.c` computes (`TablesAreRight`), that the
coefficients of the recoveries are inverses in the field and no two disks have the same
(`ProductsAreRight`), and that doubling a power gives the next (`DoublingIsRight`).
These are statements about the 256 elements of one field, which TLC evaluates in full
before every run of `Raid6`; the prover takes them from there.

The property says nothing of what a write finds in its buffers, nor of which
routine runs, so it is not inductive. `SelectionInv` says at each point of
`raid6_select_algo()` what the scan of the list has seen (`Passed`), because the lists
fall in priority and end with a routine that runs anywhere (`AlgorithmLists`), and so
that in the end each of the three has a routine (`Named`). `RowInv` says what the
disks hold between two operations (`Coded`): at most two are lost, each that is
neither lost nor spoiled has its column of `Word(Content, N)`, the data with both
parities, and each that is spoiled has not, which is what a check must find.

Between them are four layers. `Times`, `Mul`, `Twice` and the rest act on the bytes of a
register one by one, whatever instruction set they are written for
(`TwiceBytes`, `MulBytes`), and `gfmul()` is linear (`MulLinear`), so that
they act on sums. The loops from the highest column down are Horner's rule:
`Balance` says what is missing from the accumulators for both sums, and each of the three
shapes of a loop ends with nothing missing (`DirectSums`, `ZeroedSums`, `AheadSums`). Hence
`GenEncodes`, `XorMoves` (an `xor_syndrome` adds the difference of two contents to both
parities), `TwoRebuilt` and `OneRebuilt` (the recoveries solve for what is missing), for every routine
by its name. Then the operations of `unraid.c`: each fills the columns it locks with
those of the word (`Makes`) or moves the word to the new data (`Moves`), and the
lists of operations that `handle_stripe()` runs are chains of them, one case
for each set of lost columns (`ModifyUpdates`, `ReconstructUpdates`, `ReconUpdates`,
`CheckRight`). Last, each step of `Raid6` keeps `RowInv`, one lemma each.

The functions over columns and bits are recursive, but each is a function on the
numbers up to a bound, and `UpTo` is induction for those: it takes
the property as the set of numbers that have it, and so needs no operator as a parameter.

### Plugin

`PluginProofs`, with "creating" and "enabled" shut, for any number of processes, boots
and failures: `PluginUncleanRemembered`. The property is not inductive: it looks at
what a crash leaves, and a success is reported several steps after the marker was
found or synced. `PluginInv` adds `Durable` (a marker that is there and not
being synced is in every version a loss of power may leave), `OneSyncs` (two
processes never sync it, so that none removes what the other reports),
`MarkerKept` (the marker is there while an activation vouches for it or is about to),
`DebtKept` (what is owed is in the marker or the debt in every version, and in
the debt as soon as there is a unit or a pool to tear down or an activation past
`RecordDebt`, so that a teardown may remove the marker), `PaidFirst` (the debt is
removed only when its check has started) and `TornDown` (nobody activates beside a
teardown, and an array that was stopped is vouched for no more). "creating" breaks
`MarkerKept`, "enabled" `DebtKept`; "waiting" and "unanswered" break nothing here, and
the theorem leaves them open.

`PluginCheckOnlyAfterUnclean`, with "waiting" and "unanswered" shut. The property relates the
start of a check to what the history variable `owed` says; `CheckInv` adds what the
code relies on without a test: a process on the slow path holds the lock and
finds no pool (`SlowAlone`), whoever is past it finds one (`PoolUp`), a marker
when nothing is owed means that the pool is up or coming down (`MarkerOwed`), and a
debt when nothing is owed that its check has started and somebody is about to
remove it (`DebtOwed`). A process that waits for the lock while another brings the pool
up breaks `SlowAlone`: that is "waiting". A check whose debt stays breaks `DebtOwed`.

### Only model-checked

Of `Stripe`: arrays outside `Covered` and `Whole`, the theorems without a star for those
of `Whole`, and the clean buffers of an array that has lost P. Of the driver and the plugin: what happens
inside the windows and incidents. Of the RAID-6 library: the tables, in full, as
assumptions.

For good, liveness (`RequestsAnswered`, `SyncsEnd`, `AllServed`, `ResizeEnds`,
`CommandsReturn`, `FlushesEnd`, `DebtPaid`): the prover has no rules for fairness and
ENABLED. The safety they rest on is proved.

## What is not modelled

* The driver for kernels 6.1 and 6.6: the same files with other calls into the
  block layer; a module for them would be a copy of the one for 6.18.
* `nmdctl`: a shell script without state of its own. What the driver relies on it
  for is in the guards of `Array` (incidents) and `Recovery` (windows), what the plugin
  calls it for in `Plugin`.
* Of the Proxmox VE plugin: the disk actions of the create and update hooks (a
  command passed to `nmdctl` under the lock of the cluster's configuration),
  `status()`, several storages on one node, and the parsing of mount tables and
  `lsblk`.
* The superblock as bytes: checksum, versions, conversion. `Array` has what the
  file says and when, and a write that fails (incident "file fails").
* Text and parsing of `/proc`, gendisks and labels, memory exhaustion, the GUI,
  units, packaging and tests. Read-ahead of the sync inside one stripe and bios
  larger than a block are covered by their stripe-wise parts.
* The settings `md_resync_start` and `md_resync_end`, which `docs/nmdcmd.8:113-119`
  and the comment at `md_unraid.c:82-89` describe: nothing in the driver reads them.

## Plan

Done, in this order: `Stripe` (what the driver is for), `StripeCache` and its
proofs (what `Stripe` rests on), `Array`, `Recovery` with its proofs, `Flush`,
`Driver`, the RAID-6 library, `BlockStore`, `Plugin`.

Next: volatile caches over a power failure, at the end of a rebuild.

Theorems worth proving next: that `Stripe`, once a correcting sync after an unclean stop
is past it, bears the failures of `Covered`; it needs `WholeInv` to remember which
stripes are repaired.
