# TLA+ verification of vendor_lenovo_phab2plus

The repository is a vendor tree: user space tools, vendor libraries and a great deal of data
(fonts, tables, generated headers). What has a protocol of its own, with several actors that
can meet in an order nobody tested, is modelled here, checked with TLC and, for safety, proved
with TLAPS:

- the secure monitor firmware under `trustzone/atf/v1.0` (ARM Trusted Firmware ported to
  MT6735), which runs on every core at EL3, serves the SMCs of the OS and of the secure world,
  and decides when a core and a cluster may lose power;
- the speech messenger of the audio HAL, which shares a modem between several threads;
- the part of the recovery that moves partitions and the user's data for an update package,
  where power may be lost at any point.

Paths of the firmware are relative to `src/trustzone/atf/v1.0/`, all others to `src/`.

## Inventory

| Component | State it keeps | Operations | Interacts with | Correct if |
|---|---|---|---|---|
| Bakery locks (`lib/locks/bakery/bakery_lock.c`) | owner, entering and number arrays in memory shared by all cores | init, get, release | every PSCI node; cores signal each other with sev/wfe | mutual exclusion, first come first served, nobody sleeps for ever, tickets fit in 24 bits |
| PSCI (`services/std_svc/psci`) | state of each CPU node, ref_count of each cluster node, per-CPU power state and stashed level | CPU_ON, CPU_OFF, CPU_SUSPEND, AFFINITY_INFO, the warm boot finishers | locks, platform hooks, payload dispatchers | counts exact, states follow the PSCI specification, a core wakes into what it went to sleep from |
| Platform power hooks (`plat/mt6735/plat_pm.c`) | mailboxes, CPUECTLR.SMP, interconnect coherency, dormant data | plat_affinst_on, _off, _suspend, _on_finish, _suspend_finish | called under the node locks; the power controller; the warm boot path reads the mailbox | no core runs outside the coherency of its cluster; nothing restored that was not saved |
| Topology tree (`psci_setup.c`, `plat_topology.c`) | flattened tree psci_aff_map, psci_aff_limits | built once at boot; binary search by MPIDR | every PSCI call | each MPIDR finds its node and its parents |
| Payload dispatchers (`services/spd`: teeid, tspd, mtee, tbase, trusty, fiqd) | per-core world state, preempted call | world switch SMCs, secure interrupt handler, power hooks | context and interrupt management, PSCI | a preempted call resumes where it was; no entry into a busy payload |
| Context and interrupt management (`bl31`) | saved context per world, routing model | save, restore, set next context, route | dispatchers, exception vectors | the world that is entered gets its own registers and routing |
| Runtime services (`bl31/runtime_svc.c`) | index of owning entities | registration at boot, dispatch of an SMC | all services | every function id reaches the service that owns it |
| GIC, SiP services, drivers (`plat/mt6735`) | hardware registers | register programming | PSCI, dispatchers | sequential |
| Boot stages BL1, BL2 and `trustzone/atf/v0.4` | image descriptors | load and hand over, once | - | sequential; v0.4 is an older copy |
| Speech messenger (`hardware/audio/common/V3/speech_driver/SpeechMessengerECCCI.cpp`, `SpeechDriverLAD.cpp`) | message queue, status words of both sides, share buffer and its lock, mWaitAckMessageID, the flags of a modem reset | SpeechOn/Off and the like, gains, parameters; the read thread; the parameters thread | CCCI channel to the modem; callers, reader and parameters thread share all of it | messages in order, acks matched to the head of the queue, parameters not overwritten, both sides agree, no call hangs |
| Re-partitioning (`bootable/recovery/utils/mt_gpt.cpp`, `mt_check_partition.cpp`) | two copies of the partition table on the eMMC, the kernel's view of it, the backup on the SD card and its marker file, flags in the recovery's memory | check_part_size, update_gpt, mt_gpt_update_active_part, userdata_backup, userdata_restore | the eMMC, the card, the kernel, the installer, the user | a phone that loses power starts; no partition overlaps another; the last copy of the user's data is not destroyed |
| the rest of `bootable`, `factory`, `frameworks`, `hardware`, `external` | - | user space | - | outside the model |

What is hard here is listed under `hazards` in `PROJECT.json`, each at its line: interleavings
of cores that share a cluster; a CPU_ON that arrives while its target is still on the way down;
state changed before a handler that can fail; counts and tickets at the edge of their width; a
missed wake-up event; data of a suspend that is stale, or was never saved, when a core wakes; a
power hook or an interrupt in the middle of a preempted call; acks, failed writes and modem
resets that race with callers; a loss of power between, or inside, the writes of a table.

## Modules

| Module | What it is |
|---|---|
| `BakeryLock` | the lock, one action per access to a shared variable, sev or wfe |
| `FcfsLock` | what a lock promises: one holder, first come first served |
| `BakeryFcfs` | BakeryLock with a history variable, as an implementation of FcfsLock |
| `BakeryLockProofs`, `BakeryFcfsProofs` | theorems about BakeryLock; the refinement of FcfsLock |
| `Psci` | PSCI and the platform hooks on all cores |
| `PowerStates` | what PSCI promises the OS about CPU states |
| `PsciPower` | Psci as an implementation of PowerStates |
| `PsciProofs`, `PsciPowerProofs` | theorems about Psci; the refinement |
| `Tspd` | the dispatcher of the test payload, the payload's entry code and the contexts of both worlds |
| `YieldingCall` | what a caller may rely on: one call at a time, its own result, resumable |
| `TspdProofs` | theorems about Tspd, among them that it implements YieldingCall |
| `SpeechMessenger` | the messenger with its driver and the modem |
| `SpeechProofs`, `SpeechCalmProofs` | theorems about it whatever fails, and about what it promises while nothing does |
| `Repartition`, `RepartitionProofs` | the update of the partition table with backup and restore; theorems |
| `MCBakeryLock`, `MCPsci`, `MCTspd`, `MCSpeech`, `MCRepartition` | instances for TLC, with the `.cfg` files |

### BakeryLock

Variables are the fields of `bakery_lock_t` (`owner`, `entering`, `number`), the event register
of each core (`event`), and the locals of `bakery_lock_get` that outlive a step. `Contend`,
`ScanTicket`, `TakeTicket`, `LeaveDoorway` and `SignalTicket` are `bakery_get_ticket`;
`AwaitEntry`, `SleepEntry`, `Compare`, `SleepTicket`, `Recheck` and `Acquire` the wait loop;
`ResetOwner`, `DropTicket` and `SignalRelease` are `bakery_lock_release`. The lock is device
or coherent memory, so accesses are taken as ordered. The doorway is not atomic: a core reads
the tickets one by one and publishes its own later. sev sets the event register of all cores
and wfe consumes its own: wfe's other, spurious, causes of wake-up are left out, which makes
the liveness check stricter.

`MaxTicket` is the one bound: a core starts to contend only while all tickets are below it. The
code has no such bound; tickets return to 0 when the lock is idle and grow without end while it
never is. `TicketFits` says by how much they can outgrow the bound.

### Psci

One action is what a core does between two accesses that another core or the power controller
can observe. Node locks are taken in one step (BakeryLock shows that they are locks), and what
happens under them is split at every change of shared state, so CPUs that hold other nodes
interleave with it. `pc` says where in a call a core is:

```
ns -> lock0 [-> lock1] -> locked -> ... -> [unlock1 ->] unlock0 -> ns | wfi -> off -> lock0 ...
        on:              commit                             (psci_afflvl_on)
        off, suspend:    stash, level0, [level1,] clear     (psci_afflvl_off, _suspend)
        *_finish:        [level1,] level0, commit           (psci_afflvl_power_on_finish)
```

| Actions | Code |
|---|---|
| `CpuOn`, `CpuOff`, `CpuSuspend` | `psci_smc_handler` and the checks of psci_cpu_on / _off / _suspend |
| `AcquireCpu`, `AcquireCluster`, `ReleaseCluster`, `ReleaseCpu` | psci_acquire_afflvl_locks, psci_release_afflvl_locks |
| `OnHandlers`, `CommitOnPending` | psci_call_on_handlers, plat_affinst_on, the end of psci_afflvl_on |
| `LeaveOn` | psci_do_afflvl_state_mgmt before the handlers of CPU_OFF and CPU_SUSPEND |
| `StashMaxPhysOff`, `ClearMaxPhysOff` | psci_find_max_phys_off_afflvl, psci_set_max_phys_off_afflvl |
| `OffHandler`, `SuspendHandler` | psci_afflvl{0,1}_{off,suspend} with plat_affinst_{off,suspend} |
| `PowerDown`, `PowerUp` | psci_power_down_wfi; reset, the mailbox and psci_aff_common_finish_entry |
| `OnFinisher`, `SuspendFinisher`, `RestorePanic`, `CommitOn` | the finishers with plat_affinst_*_finish |
| `AffinityInfo` (an operator) | psci_affinity_info, which takes no lock and changes nothing: its answer at any moment |

Data is abstracted to what the properties tell apart: an entry point is `aligned` or `odd` (one
that psci_save_ns_entry accepts or refuses), a mailbox holds the warm boot entry of CPU_ON, that of a
suspend, or nothing; dormant data is the cluster it was saved from; the saved GIC and timer
registers are left out. `ref_count` keeps its 16 bits (`COUNT_RANGE`).

psci_set_state clears the old state of a CPU node and ors the new one in (`psci_common.c:409-410`),
which the model does in one step. Calls look at a state under the node's lock; only
AFFINITY_INFO, which takes none, could see the moment between, in which a CPU reads as on, so
InfoMatchesAnswers is about the states before and after.

`Init` is the state psci_setup leaves: the primary core runs, the others are held in reset.
When a core wakes from a suspend, and which interrupt wakes it, is up to the environment.
CPU_OFF's last `wfi` and the removal of power are two steps, so a CPU_ON may arrive in
between; the power controller is modelled from how the hooks use it: it removes the power of a
core in `wfi` and later brings up one whose mailbox is not empty. `Stopped` is the explicit
stuttering of a system that may really stop: after a panic, or when the last core was turned off.

### Tspd

One action is one pass through the monitor, from the exception that enters EL3 to the ERET that
leaves it; EL3 runs with interrupts masked and every variable belongs to one core, so cores do
not interfere. `at` is what the core executes: the normal world, an entry point of the payload,
or no power. The secure context's ELR is `elr`; `AfterSmc` is where it points after the SMC that
ends an entry point, which is the *next* entry of `tsp_vector_table` or an endless loop, as the
assembly lays them out. `el1`, `ctx` and `own` hold the EL1 registers of the core, the saved
copies, and (history) what each world last had in them.

| Actions | Code |
|---|---|
| `Request`, `RejectRequest`, `Resume`, `RejectResume`, `GetArgs`, `Finish`, `Yield` | tspd_smc_handler, per function id and caller |
| `SecureInterrupt`, `InterruptHandled` | tspd_sel1_interrupt_handler, TSP_HANDLED_S_EL1_FIQ |
| `EntryDone`, `CpuOn`, `PowerDown`, `OffDone`, `SuspendDone`, `SuspendRefused`, `WakeUp`, `UpDone`, `SystemDone`, `LosePower` | tspd_init and the hooks of tspd_pm.c, called by PSCI |
| `WriteRegisters` | the software of a world changes its registers (external) |

psci_afflvl0_suspend calls the payload's hook and only then lets psci_save_ns_entry refuse the
entry point (`psci_afflvl_suspend.c:134-144`). `SuspendRefused` is what follows. CPU_SUSPEND
returns, but the hook has loaded the secure EL1 registers and made the secure context the next
one, and nobody takes that back: the ERET goes into the payload, behind the SMC that ended
TSP_SUSPEND, which is the entry for secure interrupts. It expects TSP_HANDLE_FIQ_AND_RETURN in
x0. A build with assertions (`DEBUG`, the default of the Makefile) does not find it and loops for
ever. The other build does not look: it handles a secure timer interrupt if one is pending, or
loops, and TSP_HANDLED_S_EL1_FIQ then enters the normal world with registers that were saved
some time ago and with the payload's power state still SUSPEND. `refused` (history) marks such
a core until it is next powered up. LiveRegisters promises the normal world nothing there, but
still the payload; PstateFollows says that the state is SUSPEND exactly then, and that in a build
with assertions such a core never runs either world again.

In YieldingCall a call ends by its own end or by the loss of the core's power: a core is `off`
until it is turned on again, and starts without a call.

The routing of secure interrupts is that of a build without TSP_INIT_ASYNC. An interrupt that
the payload does not recognise ends in a loop of `tsp_fiq_entry` (`tsp_entrypoint.S:350`): the
model has only interrupts that the payload owns.

### SpeechMessenger

An action ends where another thread can first tell the difference. `pc`, `msg` and `back` are
per thread: a caller per function of the modem (`Func`), the reader (CCCIReadThread) and the
thread that sends the parameters again after a reset (SendSphParaThread).

```
idle -> [status | lock ->] enter -> send -> write -> idle         SendMessageInQueue, SendMessage
                                 \-> down, skip, fail     modem not ready, reset, write failed
idle -> handle -> match -> matched -> consume -> [pop]    CCCIReadThread, ConsumeMessageInQueue
```

| Actions | Code |
|---|---|
| `TurnOn`, `TurnOff`, `WriteStatus`, `SetGain`, `SetParam`, `LockBuffer`, `LockTimeout` | the calls of SpeechDriverLAD |
| `EnterQueue`, `EnterEmpty` | SendMessageInQueue: wait behind the queue, or send at once |
| `Send`, `SendDropped`, `SendNotReady`, `SendDown`, `WriteDone`, `WriteRetry`, `WriteGivesUp`, `WriteSkipped`, `SendFails` | SendMessage and SendMsgFailErrorHandling |
| `Read`, `HandleAck`, `HandleData`, `HandleRequest`, `HandleEpof`, `MatchAck`, `ClearWaitAck`, `Consume`, `PopLast`, `PopAndSend` | the read thread |
| `CheckQueue`, `FlushQueue`, `ModemReady`, `ModemNotReady`, `SendAllParams` | the handling of MSG_M2A_EM_DATA_REQUEST and EPOF |
| `Answer`, `RecordData`, `ModemReset`, `AnnouncePowerOff`, `PowerOff`, `ModemBoot` | the modem (external) |

A message is its kind, its sender and `n`, the stamp of its acceptance (history). Data in the
share buffer is whose data it is; SendMessage copies it (`payload`) when it starts to write, so a
message reaches the modem as `sent`, with the data it then had. The wait for a signal inside the retries is
left out; only parameter messages are written again after a failure. Recorded data is modelled
as one block in flight. `SendDown` sets mIsModemResetDuringPhoneCall (line 382 of the messenger)
and looks at it again (line 388) in one step: a request of the modem that clears it in between is
left out.

mApSideModemStatus is changed with `|=` and `&=` by callers that share no lock
(`SpeechDriverInterface.h:194-203`): a caller reads the word when its call starts (`seen`) and
`WriteStatus` writes it back, so of two calls at the same time one can lose the other's bit. The
ASSERTs around it only log (`AudioAssert.h`). When a caller switches what is decided by its
own books (SpeechDataProcessingHandler's `mSpeechRecordOn`, AudioALSACaptureDataProviderVoice's
`mEnable`) and not by the word; `wanted` is their sum. The word can therefore stay wrong for good
(with `Quiet => apSide = wanted` as an invariant TLC finds a RecordOn during a SpeechOn that
loses its bit), and HandleData then drops recorded data of a function that is on. What the modem
runs and what modemSide says does not depend on it: that is what StatusAgrees and DataExpected
claim. mModemSideModemStatus is changed in one step, because while nothing fails only the reader
writes it; when the modem resets several threads do, and no property is about it then. Each
function has its own caller, and callers may overlap more than the HAL's own locks allow.

### Repartition

An eMMC with a GPT, an enforcing recovery (raw images). The table is what an update can change:
the ends of system and cache, the starts of cache and userdata, the active bit that the updater
sets. Each copy of the table is a header (`head`: the table its CRCs belong to) and `entries`;
`pc` walks through check_part_size, update_gpt, the installation and userdata_restore:

```
idle -> [resize ->] backup -> copy -> unmark -> update -> PPE -> SPE -> SGPT
     -> reread -> erase | cache -> install -> [restore -> restore_copy ->] idle
```

| Actions | Code |
|---|---|
| `CheckSame`, `CheckFails`, `CheckDataStays`, `CheckEncrypted`, `CheckChanged`, `CheckAgain` | check_part_size up to the first change, force_upgrade |
| `ResizeDone`, `ResizeFails`, `StartBackup`, `BackupFails`, `CopyDone`, `CopyFails`, `Unmark` | do_resize2fs and its caller, userdata_backup |
| `BeginUpdate`, `UpdateFails`, `NothingWritten`, `SetActive` | update_gpt, mt_gpt_update_active_part, the header of the primary copy |
| `WriteEntries`, `WriteLastHeader`, `WriteFails` | the three other writes of mt_gpt_update_part_entry |
| `Reread`, `RereadFails`, `Erase`, `EraseFails`, `FormatCache` | BLKRRPART and what follows in check_part_size |
| `NothingToRestore`, `Restore`, `RestoreFails`, `RestoreFromCard`, `RestoreDone`, `RestoreCopyFails` | userdata_restore in both modes |
| `SetForce`, `Crash`, `Use`, `Install` | the user's agreement; a loss of power; the phone in use; the installer (external) |

Assumed of what is not in the tree: whoever reads the table takes the secondary copy if a CRC of
the primary fails; a header, one sector, is written or not; entries reach the eMMC in their
order, so that a write that is cut short leaves a prefix; the recovery calls userdata_restore
after a successful installation if `usrdata_changed`; resize2fs and e2fsck run to their end:
do_resize2fs takes one that was killed, or a fork that failed, for a success
(`mt_check_partition.cpp:619` and `:650` look only at an exit code), and this is left out.

Five history variables delimit what the properties promise, each at a limit of the code:

- `unsound`: a write of the table was cut short and none has been completed since. The bound is
  one cut per completed table. It is a real limit: a stale secondary copy is not repaired by the
  next update, which sees an unchanged layout, so a second cut can bring back an older table.
- `blind`: mt_gpt_get_part_entry does not check the CRC of the entries it takes, so an update to
  *another* layout (or mt_gpt_update_active_part) after a write that was cut short gives a mixture of two tables a
  valid CRC: cache can then overlap userdata, and formatting it destroys data.
- `removed`: the name of a backup stays in `.data_backup_name` if power is lost between the end
  of the copy and `mt_check_partition.cpp:324`; the next backup removes that file, although the
  comment at line 224 says "remove uncompleted backup file".
- `stale`: the kernel has refused to read the new table (BLKRRPART), and the phone has not been
  started since. The recovery compares the next package with partitions that the eMMC does not
  have any more, so a backup for it may be larger than the userdata that the kernel finds later.
  BackupFits excludes it; the data themselves are kept all the same.
- `given_up`: the user agreed to lose the data.

## Runs

| Run | Instance | Shows |
|---|---|---|
| `bakery` | 3 cores, MaxTicket 3 (415,000 states) | type, MutualExclusion, OwnerIsHolder, TicketFits, the refinement of FcfsLock, and StarvationFree under weak fairness of each core inside the lock |
| `psci` | 3 cores, 2 clusters, suspends at levels 0 and 1, refused CPU_ONs (1.1 million states) | RefCountExact, RunningIsCoherent, CoherencyFollowsCount, WakeMatchesSleep, InfoMatchesAnswers, no deadlock, and the refinement of PowerStates |
| `psci_live` | 3 cores of one cluster, CPU_ON and CPU_OFF (23,000 states) | TurnedOnComesUp, CallsEnd |
| `psci_live_suspend` | 2 cores of one cluster, suspends at both levels, refused CPU_ONs (7,900 states) | the same |
| `psci_rejected` | as `psci`, with entry points that CPU_SUSPEND refuses | violation of RunningIsCoherent, see Findings |
| `psci_restore` | as `psci` | violation of WakeUpNeverPanics, see Findings |
| `tspd` | one core, two operands, two register contents, a build without assertions, in which more can follow a refused suspend (13,500 states) | AnswersOwn, LiveRegisters, FlagMeansCall, PstateFollows, PreemptedCallKept, SecureReturns, StandardCallEnds, and the refinement of YieldingCall |
| `tspd_corrupt` | two cores, a build with assertions | violation of ContextNotCorrupted, see Findings |
| `speech` | two callers, 5 calls, nothing fails (2.2 million states) | HeadAwaitsAck, DataExpected, BufferIntact, StatusAgrees |
| `speech_reset` | one caller, 1 call, 2 faults (85,000 states) | InOrder, CallsReturn, QueueDrains |
| `speech_buffer` | two callers, 3 calls, 1 fault | violation of BufferIntact, see Findings |
| `repartition` | 3 packages on an eMMC of 4 units, every cut of the entries (2.5 million states) | TableSurvives, WholeTables, DataReachable, BackupFits, DataKept |

Why the bounds are enough to be interesting. Three contenders are the fewest for which a core
can be overtaken by one while it waits for another, and two waiters can sleep on the same
release. With MaxTicket 3 tickets are reused, dropped and taken anew while a waiter sleeps on
the old value. Two cores in one cluster and one in another give a last and a not-last core out, a
first and a not-first core in, CPU_ON across clusters, two cores turning on a third, and a
cluster whose count must not be touched by the other's. The proofs remove the bounds for safety.

The cores of Tspd share only `tsp_vectors`, which is written before a second one runs, so `tspd`
has one core; `tspd_corrupt` has a second one beside. Two operands and two register contents tell
"its own" from "another's".

In `speech` five messages let several wait behind one whose ack is missing, and let a function
be switched on, off and on faster than the modem answers. `speech_reset` has two faults so that
the modem can go down again while the parameters thread works on the first reset. There is one
parameters thread at a time, and the ring of the queue (60) is not filled by the runs; the proofs
of InOrder and BufferIntact cover that too. StatusAgrees, HeadAwaitsAck and DataExpected are promises about a modem
that does not fail: with one reset StatusAgrees is false, because MDReset_FlushMessageInQueue
takes the queue's lock again after MDReset_CheckMessageInQueue and drops what was sent in
between without error handling (the share buffer stays locked if that was a parameter message).
Likewise mIsModemReset can be raised for good by a sender that read "not ready" before the modem
came back. Both are listed as hazards; no document promises otherwise.

In `repartition` the three packages differ in the start of cache, of userdata, or both, so that
userdata shrinks, grows and stays. Exploration stops where `blind` becomes true (the constraint
`Sighted`), since no property says anything from there on.

The instances use no symmetry: `Primary` and positions tell cores apart, the callers of the
messenger differ in the function they switch, and liveness is checked.

### Fairness

Interrupts are masked at EL3, so a core inside the firmware keeps executing: weak fairness of
`Proceed` in BakeryLock and of `Working` in Psci. A node lock that becomes free again and again
is obtained: strong fairness of `AcquireCpu` and `AcquireCluster`, which is what StarvationFree
says of the lock that Psci abstracts to one step. The power controller acts on a core in `wfi`
and on a CPU_ON: weak fairness of `PowerDown`, and of `PowerUp` when the mailbox holds the
entry of CPU_ON. Nothing has to wake a suspended core, and the OS and callers of the lock have
to do nothing. Both liveness properties of Psci except a system in which a core panicked.

Tspd: weak fairness of the payload's own steps; strong fairness of `Finish`, `GetArgs` and
`Resume`, because a handler is finite and every time slice advances it, and the OS resumes what
SMC_PREEMPTED told it to. SpeechMessenger: weak fairness of each thread of the HAL, which the
scheduler of the OS gives; that the modem answers, or comes back, is an assumption of QueueDrains
alone (`ModemFairness`). Repartition has no liveness property: nothing obliges a user to go on.

## Proofs

`BakeryLockProofs`, for any number of cores up to 256 and any `MaxTicket` with room below 2^24:

- `TypesKept`: loop indexes stay inside the arrays.
- `NoTicketOverflow`: TicketFits. `BoundInv` adds the number of cores in the doorway to each
  ticket: a core that starts to contend finds all tickets below MaxTicket, and one that leaves
  the doorway trades its place there for a ticket that is at most one higher.
- `MutualExclusionHolds`: `IInv`. A core that has passed another in its wait loop stays ahead of
  it (`OrderInv`): the other has not read the ticket yet, or has read it, or has drawn a later
  one and cannot pass in turn (`Behind`), although tickets are read one by one and published
  later. `LocalInv` ties the variables of one core to its place in the code.
- `OwnerConsistent`: from it, the asserts on `owner` cannot fire.
- `ServingOrder` states `IInv` itself for the lock, for the proofs of others.

`BakeryFcfsProofs`, under the same assumptions, is about the lock with the history variable
`ahead`: for each core that draws a ticket, who had left the doorway when it started. The
history does not restrict the lock (`HistoryAdds`). `ArrivalOrder` is the invariant `HInv`: a core
in `ahead[c]` is still in line and goes before `c`, because it had published its ticket before `c`
read the first one, so `c` reads it, or has read it and draws a later one. From it
`ServesInOrder`, the refinement of FcfsLock: a core that leaves the wait loop has nobody ahead who
still waits, and every other step arrives, releases or is hidden.

`PsciProofs`, for any finite set of CPUs (fewer than 2^16), any clusters and any assignment:

- `TypesKept` and `LocksHeld` hold for all callers, refused calls included. `TypeInv` adds to
  TypeOK that the place in a call fits the call (`CallInv`); `LockInv` that a core owns the locks
  of its nodes from acquisition to release.
- `WakeUpsMatch`, `CountsExact`, `CoherencyFollows`, `RunningCoherently`, `InfoAgrees` assume
  `"odd" \notin SuspendEntrypoints`, that no CPU_SUSPEND is refused for its entry point; the run
  `psci_rejected` shows that without it they are false.

RefCountExact is not inductive by itself: whether a core's departure is counted depends on the
level it sleeps at, which moves from the call's arguments to the per-CPU data and back. The
inductive invariant `SafeInv` is built in layers: `StateInv` relates, for every place a core can
be in, its node's state, stashed level, power state, mailbox and SMP bit, including the moment
when another core has written its mailbox but not yet its state (`Turning`); `CountInv` is
RefCountExact over the set of `Users`; `CohInv` says what the coherency of a cluster is while a
core is between the count and the handler (`Moving`), of which the lock admits one. A step is
proved against the core that takes it (one lemma per group of actions) and against all others
(`OtherState`, `TargetState`), which only a CPU_ON can disturb. `Quiet`, `CountStep` and
`CoherencyKeeps` say what a step leaves alone. InfoMatchesAnswers (`InfoAgrees`) needs in addition
that the state of a node changes only in steps of the CPU that holds its lock (`HolderChanges`), so
that what a CPU_ON found or made of its target (`AnswerInv`) holds until the lock is released.

`PsciPowerProofs`: `PromiseKept`, that under the same assumption Psci implements PowerStates:
each step is an Enter, Return, TurnOn, Answer, Leave, ComeUp or hidden.

`TspdProofs`, for any cores, operands and register contents, and for builds with and without
assertions. `CoreInv` has four parts per core:
`RegsInv` says which of `el1` and the two saved copies is a world's own at each place,
`PowerInv` ties the payload's power state to the place, `CallInv` ties STD_SMC_ACTIVE, the
operands and the call, and `PointInv` says where `elr` and `saved_elr` may point. It is stronger
than the properties because they follow only from what a core saved several calls earlier.
`TypesKept`, `ResultsAreOwn`, `RegistersAreLive`, `FlagIsExact`, `PowerStateFollows`,
`PreemptedCallIsKept`, and `ImplementsYieldingCall`, step by step.

`SpeechProofs`, for any functions, bounds and number of faults: `TypesKept`; `QueueLockExcludes`,
from `ThreadInv`, which says for each place of a thread whether it holds the queue's lock and
what it has in hand; and `MessagesInOrder`, from `Order`, which says that stamps grow along the
queue and that a message in hand of the lock's holder is later than the last one written.

`SpeechCalmProofs` is about a messenger for which nothing fails (`MaxFaults = 0`), for any
functions, callers, messages and length of the ring. The hypothesis is needed: one failed write
breaks BufferIntact (run `speech_buffer`), one reset the others (see Runs). `CalmInv` first excludes
the steps of error handling (`OnlyCalmSteps`), then one invariant per promise:

- `ParametersIntact` (BufferIntact), from `BufInv`: the lock of the share buffer has one owner from
  A2MBufLock to the end of the write: the caller, then the message in the queue, then whoever
  sends it; the data there and in SendMessage's copy are the owner's.
- `HeadIsAwaited` (HeadAwaitsAck), from `AckInv` and `GotInv`: while nobody works on the
  queue the ack of its head, and no other, is with the modem, under way or in the reader's hand;
  while somebody does, none is.
- `StatusAgreesAtRest` (StatusAgrees), from `StatusInv`: the last message of a function that is
  queued or in hand, or the change its caller is making, asks for what the caller last wanted
  (`wanted`); when there is none, the status says so. Nothing is assumed of mApSideModemStatus.
- `DataIsExpected` (DataExpected), from `ViewInv`: the functions the modem runs are the status as
  the acks that are not handled yet will leave it, and data comes behind the ack of its function.

The last three assume the ASSERT of SendMessageInQueue (`NeverQueuedFull`, at line 663 of the
messenger): when a message is queued in a full ring the whole queue counts as empty and its acks
find nobody. The code does not make a caller wait, so this is a hypothesis and no theorem; but
`RingSuffices` shows, whatever fails, that it holds as long as fewer messages than the ring has
elements were accepted, which is the case in every run (`RingInv`: no message is queued twice).

`RepartitionProofs`, for any eMMC, any packages and any cuts: `TypesKept`; `TableKept`
(TableSurvives), from `TableInv`, which says which copy is valid while each of the four writes is
under way; `TablesWhole` (WholeTables), from `WholeInv`: the tables that the headers' CRCs belong
to, and the one the kernel has, are in order even while the entries are not, because an update
that is tried again takes over the entries it had computed before.

`LastCopyKept` (DataKept) and `DataFound` (DataReachable) are about the data. `KeptInv` says that
data that are only on the eMMC start where the kernel finds userdata now and will find it however
the write that is under way ends (`StartsAt`: the table to be written has userdata there, and
until the primary entries are complete so has the secondary copy); and that from the backup on
there is one if userdata moves. It rests on `PlaceInv`, what each place of check_part_size has
decided before, and `SizeInv`, that a file system is never larger than what is copied of it. A
formatted cache or an installed system spares the data because the kernel's table is in order
(`NotSpared`). `BackupHasRoom` (BackupFits) follows from `SeenInv`, that the kernel will find the
table it had or the package's, and `FitInv`, that until then the backup fits in both.

Every safety property and refinement of the passing runs is so stated by a theorem. Only
model-checked: the liveness properties StarvationFree, TurnedOnComesUp, CallsEnd, SecureReturns,
StandardCallEnds, CallsReturn and QueueDrains (fairness and ENABLED are beyond the prover). The
findings are counterexamples of TLC.

## Findings

1. **A refused CPU_SUSPEND is not undone** (`psci_afflvl_suspend.c:143`). The state is set to
   SUSPEND and the cluster's count decremented before psci_afflvl0_suspend looks at the entry
   point. When that is refused the call returns INVALID_PARAMS to the OS and the core runs on
   uncounted; the next core of its cluster that leaves switches off the coherency under it. Run
   `psci_rejected`. With the payload of `Tspd` the answer does not even arrive: the core leaves
   the monitor into the payload, where a build with assertions loops for ever (see Tspd).
   A CPU_OFF that a payload dispatcher denies (`psci_afflvl_off.c:164`) has the same shape, but
   no dispatcher of the tree denies it.
2. **A wake-up restores cluster data that was never saved** (`plat/mt6735/plat_pm.c:530`).
   plat_affinst_suspend_finish ignores its `state` argument, contrary to the comment above
   the finishers: a core that suspended at level 1 while another kept the cluster on panics if
   no cluster was ever saved. Run `psci_restore`.
3. **Power hooks overwrite the place of a preempted call** (`services/spd/tspd/tspd_pm.c:100`).
   They set ELR and X0 of the secure context without a look at STD_SMC_ACTIVE, which the secure
   interrupt handler does look at. After a CPU_SUSPEND during a preempted standard call,
   TSP_FID_RESUME is accepted and enters the loop `tsp_cpu_resume_panic`. Run `tspd_corrupt`.
4. **The share buffer is unlocked twice** (`SpeechMessengerECCCI.cpp:469`). SendMessage unlocks it
   after a failed write and SendMsgFailErrorHandling unlocks it again: the second time it may be
   another caller's lock, whose parameters a third then overwrites. Run `speech_buffer`.

## Not modelled, and plan

Not modelled for good: register programming (GIC, timers, PLLs), the SiP services, the boot
stages (sequential, run once), v0.4, and user space without a protocol of its own. SYSTEM_OFF and
SYSTEM_RESET do not return; standby CPU_SUSPENDs and calls with an unknown MPIDR change nothing.
Most of the tree is data: the fonts of `factory/src/miniui`, register tables, generated headers.

Left out of what is modelled:

- dispatchers: TSP_INIT_ASYNC, and teeid, mtee, tbase, trusty and fiqd;
- messenger: the SPEECH_PARAM ack counters and SpeechParamLock, SetSpeechMode and messages that
  change no status, several parameters threads, a restart of mediaserver, the CCCI, EVDO and
  DSDA variants;
- re-partitioning: NAND and MTD, PMT and combo eMMC, file backups of a permissive recovery, a FAT
  partition behind userdata, reading the scatter file, entries that reach the eMMC out of order.

Next, in this order:

1. `AffinityMap`: psci_setup's flattened tree, psci_aff_limits and the binary search
   psci_get_aff_map_node, against a reference definition; the node that a CPU_SUSPEND at level 2
   reaches (`psci_main.c:95` admits it although the tree ends at level 1).
2. teeid beside Tspd.
3. `RuntimeSvc`: registration and index of owning entities over bounded tables.
4. A core of Psci with the bakery lock unfolded for one node, so that the abstraction of the
   lock to one step is itself checked.
5. Proofs: the lookup of AffinityMap; the components above as they are modelled.
