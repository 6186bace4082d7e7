-------------------------------- MODULE Psci --------------------------------
(***************************************************************************)
(* The PSCI power management core of BL3-1 (services/std_svc/psci) on the  *)
(* MT6735 platform port (plat/mt6735/plat_pm.c): CPU_ON, CPU_OFF,          *)
(* CPU_SUSPEND and the two warm boot paths, run by every CPU at once.      *)
(*                                                                         *)
(* An affinity level 0 node is a CPU, a level 1 node a cluster; the        *)
(* platform has no higher level.  A node's bakery lock is taken here in    *)
(* one step: BakeryLock shows that it is a lock.  A step is what a CPU     *)
(* does between two accesses that another CPU can observe or that it       *)
(* shares with the power controller.                                       *)
(***************************************************************************)
EXTENDS Integers, FiniteSets

CONSTANTS
    CPU, Cluster,
    ClusterOf,            (* the parent node of a CPU                    *)
    Primary,              (* the CPU that boots cold                     *)
    None,                 (* no owner, no mailbox entry, nothing saved   *)
    OnEntrypoints,        (* entry points that callers pass to CPU_ON    *)
    SuspendEntrypoints,   (* and to CPU_SUSPEND: "aligned" or "odd"      *)
    SuspendLevels         (* affinity levels in a CPU_SUSPEND power state *)

COUNT_RANGE == 2^16               (* values of the unsigned short ref_count *)

ASSUME TopologyAssumption ==
    /\ ClusterOf \in [CPU -> Cluster]
    /\ Primary \in CPU
    /\ None \notin CPU \cup Cluster
    /\ CPU \cap Cluster = {}
    /\ IsFiniteSet(CPU)
    /\ Cardinality(CPU) < COUNT_RANGE
ASSUME ArgumentAssumption ==
    /\ OnEntrypoints \subseteq {"aligned", "odd"}
    /\ SuspendEntrypoints \subseteq {"aligned", "odd"}
    /\ SuspendLevels \subseteq 0..1

Node == CPU \cup Cluster
INVALID == -1                     (* PSCI_INVALID_DATA                   *)
MaxAfflvl == 1                    (* plat_get_max_afflvl                 *)
AffState == {"OFF", "ON", "ON_PENDING", "SUSPEND"}

VARIABLES
    lock,         (* owner of a node's bakery lock                       *)
    affState,     (* state of a CPU node                                 *)
    refCount,     (* ref_count of a cluster node, 16 bits                *)
    powerState,   (* psci_svc_cpu_data.power_state: its affinity level   *)
    maxPhysOff,   (* psci_svc_cpu_data.max_phys_off_afflvl               *)
    mailbox,      (* the warm boot entry point of a CPU                  *)
    smp,          (* CPUECTLR.SMP: the CPU is in intra-cluster coherency *)
    coherent,     (* the cluster is in interconnect coherency (SCU, CCI) *)
    dormant,      (* el3_dormant_data: the cluster it was saved from     *)
    pc,           (* what a CPU is doing                                 *)
    op            (* the arguments and result of the call it is in       *)

data == <<affState, refCount>>
percpu == <<powerState, maxPhysOff>>
plat == <<mailbox, smp, coherent, dormant>>
vars == <<lock, affState, refCount, powerState, maxPhysOff, mailbox, smp,
          coherent, dormant, pc, op>>

Label(level) == IF level = 0 THEN "level0" ELSE "level1"
InFirmware == {"lock0", "lock1", "locked", "stash", "level0", "level1", "commit",
               "clear", "unlock1", "unlock0"}
PC == InFirmware \cup {"ns", "wfi", "off", "panic"}

Finish == {"on_finish", "suspend_finish"}
Kind == {"none", "on", "off", "suspend"} \cup Finish
Result == {"success", "already_on", "on_pending", "invalid_params"}
Op == [kind : Kind, target : CPU \cup {None}, end : 0..1,
       ep : {"aligned", "odd"}, rc : Result]
NoOp == [kind |-> "none", target |-> None, end |-> 0, ep |-> "aligned",
         rc |-> "success"]
Call(kind, target, end, ep) ==
    [kind |-> kind, target |-> target, end |-> end, ep |-> ep, rc |-> "success"]

Goto(c, label) == pc' = [pc EXCEPT ![c] = label]

-----------------------------------------------------------------------------
(* Mutant: ON_PENDING falls through to the increment.                      *)
CountAfterPending(n, state) ==
    IF state \in {"ON", "ON_PENDING"} THEN (n + 1) % COUNT_RANGE ELSE (n - 1) % COUNT_RANGE

(* psci_set_state on a cluster node: the new reference count.              *)
CountAfter(n, state) ==
    IF state = "ON" THEN (n + 1) % COUNT_RANGE
    ELSE IF state \in {"OFF", "SUSPEND"} THEN (n - 1) % COUNT_RANGE
    ELSE n

(* psci_do_afflvl_state_mgmt from level 0 to end.                          *)
StateMgmt(cpu, end, state) ==
    /\ affState' = [affState EXCEPT ![cpu] = state]
    /\ refCount' = IF end = 0 THEN refCount
                   ELSE [refCount EXCEPT ![ClusterOf[cpu]] = CountAfter(@, state)]

(* psci_get_phys_state: every state but ON counts as powered off.          *)
PhysOff(cpu, level) ==
    IF level = 0 THEN affState[cpu] # "ON" ELSE refCount[ClusterOf[cpu]] = 0

(* Mutants: the loop index after the last level; the lowest level.         *)
FindLoopEnd(cpu, end) == IF PhysOff(cpu, 0) THEN end + 1 ELSE INVALID
FindMinPhysOff(cpu, end) ==
    IF PhysOff(cpu, 0) THEN 0
    ELSE IF end = 1 /\ PhysOff(cpu, 1) THEN 1
    ELSE INVALID

(* psci_find_max_phys_off_afflvl from level 0 to end.                      *)
FindMaxPhysOff(cpu, end) ==
    IF end = 1 /\ PhysOff(cpu, 1) THEN 1
    ELSE IF PhysOff(cpu, 0) THEN 0
    ELSE INVALID

(* plat_do_plat_actions: act once, at the highest level that is off.       *)
DoPlatActions(cpu, level) == PhysOff(cpu, level) /\ level = maxPhysOff[cpu]

(* plat_affinst_off, and the part of plat_affinst_suspend that is the same. *)
LeaveCoherency(cpu, level) ==
    /\ smp' = [smp EXCEPT ![cpu] = FALSE]
    /\ coherent' = IF level = 0 THEN coherent
                   ELSE [coherent EXCEPT ![ClusterOf[cpu]] = FALSE]

(* plat_affinst_on_finish: the mailbox is zeroed on the way.               *)
EnterCoherency(cpu, level) ==
    /\ smp' = [smp EXCEPT ![cpu] = TRUE]
    /\ coherent' = IF level = 0 THEN coherent
                   ELSE [coherent EXCEPT ![ClusterOf[cpu]] = TRUE]
    /\ mailbox' = [mailbox EXCEPT ![cpu] = None]

-----------------------------------------------------------------------------
(* psci_setup on the primary CPU; the others are held in reset.            *)
Init ==
    /\ lock = [n \in Node |-> None]
    /\ affState = [c \in CPU |-> IF c = Primary THEN "ON" ELSE "OFF"]
    /\ refCount = [k \in Cluster |-> IF k = ClusterOf[Primary] THEN 1 ELSE 0]
    /\ powerState = [c \in CPU |-> INVALID]
    /\ maxPhysOff = [c \in CPU |-> INVALID]
    /\ mailbox = [c \in CPU |-> None]
    /\ smp = [c \in CPU |-> c = Primary]
    /\ coherent = [k \in Cluster |-> k = ClusterOf[Primary]]
    /\ dormant = None
    /\ pc = [c \in CPU |-> IF c = Primary THEN "ns" ELSE "off"]
    /\ op = [c \in CPU |-> NoOp]

(* The SMCs of the OS.  An MPIDR that names no CPU and a standby state are *)
(* answered without touching any state and are left out.                   *)
Smc(c, call) ==
    /\ pc[c] = "ns"
    /\ op' = [op EXCEPT ![c] = call]
    /\ Goto(c, "lock0")
    /\ UNCHANGED <<lock, data, percpu, plat>>

CpuOn(c) == \E t \in CPU, ep \in OnEntrypoints :
              Smc(c, Call("on", t, MaxAfflvl, ep))
CpuOff(c) == Smc(c, Call("off", c, MaxAfflvl, "aligned"))
CpuSuspend(c) == \E level \in SuspendLevels, ep \in SuspendEntrypoints :
                   Smc(c, Call("suspend", c, level, ep))

(* psci_acquire_afflvl_locks, bottom up.                                   *)
AcquireCpu(c) ==
    /\ pc[c] = "lock0"
    /\ lock[op[c].target] = None
    /\ lock' = [lock EXCEPT ![op[c].target] = c]
    /\ Goto(c, IF op[c].end = 0 THEN "locked" ELSE "lock1")
    /\ UNCHANGED <<data, percpu, plat, op>>

(* Mutant: a CPU that comes up does not wait for the cluster's lock.       *)
AcquireClusterUnless(c) ==
    /\ pc[c] = "lock1"
    /\ op[c].kind \in Finish \/ lock[ClusterOf[op[c].target]] = None
    /\ lock' = [lock EXCEPT ![ClusterOf[op[c].target]] = c]
    /\ Goto(c, "locked")
    /\ UNCHANGED <<data, percpu, plat, op>>

AcquireCluster(c) ==
    /\ pc[c] = "lock1"
    /\ lock[ClusterOf[op[c].target]] = None
    /\ lock' = [lock EXCEPT ![ClusterOf[op[c].target]] = c]
    /\ Goto(c, "locked")
    /\ UNCHANGED <<data, percpu, plat, op>>

(* Mutant: a CPU that is already coming up is turned on once more.         *)
OnHandlersTwice(c) ==
    /\ pc[c] = "locked" /\ op[c].kind = "on"
    /\ LET t  == op[c].target
           rc == IF affState[t] \in {"ON", "SUSPEND"} THEN "already_on"
                 ELSE IF op[c].ep = "odd" THEN "invalid_params"
                 ELSE "success"
       IN  /\ op' = [op EXCEPT ![c].rc = rc]
           /\ mailbox' = IF rc = "success" THEN [mailbox EXCEPT ![t] = "on"]
                         ELSE mailbox
    /\ Goto(c, "commit")
    /\ UNCHANGED <<lock, data, percpu, smp, coherent, dormant>>

(* psci_call_on_handlers.  The level 1 handler comes first and does        *)
(* nothing on this platform; the level 0 handler refuses a CPU that is not *)
(* OFF, then an entry point that does not fit, then writes the mailbox.    *)
OnHandlers(c) ==
    /\ pc[c] = "locked" /\ op[c].kind = "on"
    /\ LET t  == op[c].target
           rc == IF affState[t] \in {"ON", "SUSPEND"} THEN "already_on"
                 ELSE IF affState[t] = "ON_PENDING" THEN "on_pending"
                 ELSE IF op[c].ep = "odd" THEN "invalid_params"
                 ELSE "success"
       IN  /\ op' = [op EXCEPT ![c].rc = rc]
           /\ mailbox' = IF rc = "success" THEN [mailbox EXCEPT ![t] = "on"]
                         ELSE mailbox
    /\ Goto(c, "commit")
    /\ UNCHANGED <<lock, data, percpu, smp, coherent, dormant>>

(* The state management that ends psci_afflvl_on.                          *)
CommitOnPending(c) ==
    /\ pc[c] = "commit" /\ op[c].kind = "on"
    /\ IF op[c].rc = "success"
       THEN StateMgmt(op[c].target, MaxAfflvl, "ON_PENDING")
       ELSE UNCHANGED data
    /\ Goto(c, "unlock1")
    /\ UNCHANGED <<lock, percpu, plat, op>>

(* psci_afflvl_off and psci_afflvl_suspend change the state before the     *)
(* handlers run.                                                           *)
LeaveOn(c) ==
    /\ pc[c] = "locked" /\ op[c].kind \in {"off", "suspend"}
    /\ StateMgmt(c, op[c].end, IF op[c].kind = "off" THEN "OFF" ELSE "SUSPEND")
    /\ Goto(c, "stash")
    /\ UNCHANGED <<lock, percpu, plat, op>>

(* The highest level that goes off, or comes out of OFF, is stashed; then  *)
(* the handlers run, bottom up on the way down and top down on the way up. *)
StashMaxPhysOff(c) ==
    /\ pc[c] = "stash" \/ (pc[c] = "locked" /\ op[c].kind \in Finish)
    /\ maxPhysOff' = [maxPhysOff EXCEPT ![c] = FindMaxPhysOff(c, op[c].end)]
    /\ Goto(c, IF pc[c] = "stash" THEN Label(0) ELSE Label(op[c].end))
    /\ UNCHANGED <<lock, data, powerState, plat, op>>

(* Ascending levels; the last one leads to the end of the call.            *)
NextUp(c, level) == Goto(c, IF level < op[c].end THEN Label(level + 1) ELSE "clear")

(* psci_afflvl0_off, psci_afflvl1_off.  No dispatcher of the tree refuses  *)
(* svc_off.                                                                *)
OffHandler(c, level) ==
    /\ pc[c] = Label(level) /\ op[c].kind = "off"
    /\ IF DoPlatActions(c, level) THEN LeaveCoherency(c, level)
                                  ELSE UNCHANGED <<smp, coherent>>
    /\ NextUp(c, level)
    /\ UNCHANGED <<lock, data, percpu, mailbox, dormant, op>>

(* psci_afflvl0_suspend, psci_afflvl1_suspend.  The level 0 handler notes  *)
(* the power state before it looks at the entry point.                     *)
SuspendHandler(c, level) ==
    /\ pc[c] = Label(level) /\ op[c].kind = "suspend"
    /\ powerState' = IF level = 0 THEN [powerState EXCEPT ![c] = op[c].end]
                     ELSE powerState
    /\ IF level = 0 /\ op[c].ep = "odd"
       THEN /\ op' = [op EXCEPT ![c].rc = "invalid_params"]
            /\ Goto(c, "clear")
            /\ UNCHANGED plat
       ELSE /\ IF DoPlatActions(c, level)
               THEN /\ LeaveCoherency(c, level)
                    /\ mailbox' = [mailbox EXCEPT ![c] = "suspend"]
                    /\ dormant' = IF level = 0 THEN dormant ELSE ClusterOf[c]
               ELSE UNCHANGED plat
            /\ NextUp(c, level)
            /\ UNCHANGED op
    /\ UNCHANGED <<lock, data, maxPhysOff>>

ClearMaxPhysOff(c) ==
    /\ pc[c] = "clear"
    /\ maxPhysOff' = [maxPhysOff EXCEPT ![c] = INVALID]
    /\ Goto(c, IF op[c].end = 0 THEN "unlock0" ELSE "unlock1")
    /\ UNCHANGED <<lock, data, powerState, plat, op>>

-----------------------------------------------------------------------------
(* Mutant: a CPU that goes down takes back a CPU_ON that came meanwhile.   *)
PowerDownCancels(c) ==
    /\ pc[c] = "wfi"
    /\ mailbox' = [mailbox EXCEPT ![c] = IF @ = "on" THEN None ELSE @]
    /\ Goto(c, "off")
    /\ UNCHANGED <<lock, data, percpu, smp, coherent, dormant, op>>

(* psci_power_down_wfi: the power controller removes the power.            *)
PowerDown(c) ==
    /\ pc[c] = "wfi"
    /\ Goto(c, "off")
    /\ UNCHANGED <<lock, data, percpu, plat, op>>

(* Mutant: every wake-up walks all the levels.                             *)
PowerUpAllLevels(c) ==
    /\ pc[c] = "off"
    /\ mailbox[c] # None
    /\ op' = [op EXCEPT ![c] =
                Call(IF mailbox[c] = "on" THEN "on_finish" ELSE "suspend_finish", c,
                     MaxAfflvl, "aligned")]
    /\ Goto(c, "lock0")
    /\ UNCHANGED <<lock, data, percpu, plat>>

(* Out of reset a CPU jumps to the entry in its mailbox, which picks the   *)
(* finishers, and get_power_on_target_afflvl picks the levels: those of    *)
(* the suspend, or all of them.                                            *)
PowerUp(c) ==
    /\ pc[c] = "off"
    /\ mailbox[c] # None
    /\ op' = [op EXCEPT ![c] =
                Call(IF mailbox[c] = "on" THEN "on_finish" ELSE "suspend_finish", c,
                     IF powerState[c] = INVALID THEN MaxAfflvl ELSE powerState[c],
                     "aligned")]
    /\ Goto(c, "lock0")
    /\ UNCHANGED <<lock, data, percpu, plat>>

PlatOnFinish(c, level) ==
    IF DoPlatActions(c, level) THEN EnterCoherency(c, level)
                               ELSE UNCHANGED <<smp, coherent, mailbox>>

NextDown(c, level) == Goto(c, IF level = 0 THEN "commit" ELSE Label(level - 1))

OnFinisher(c, level) ==
    /\ pc[c] = Label(level) /\ op[c].kind = "on_finish"
    /\ PlatOnFinish(c, level)
    /\ NextDown(c, level)
    /\ UNCHANGED <<lock, data, percpu, dormant, op>>

(* plat_affinst_suspend_finish restores the cluster's dormant data at      *)
(* level 1 whatever state the cluster is in, and panics if none was saved. *)
SuspendFinisher(c, level) ==
    /\ pc[c] = Label(level) /\ op[c].kind = "suspend_finish"
    /\ level = 1 => dormant # None
    /\ PlatOnFinish(c, level)
    /\ powerState' = IF level = 0 THEN [powerState EXCEPT ![c] = INVALID]
                     ELSE powerState
    /\ NextDown(c, level)
    /\ UNCHANGED <<lock, data, maxPhysOff, dormant, op>>

RestorePanic(c) ==
    /\ pc[c] = Label(1) /\ op[c].kind = "suspend_finish"
    /\ dormant = None
    /\ Goto(c, "panic")
    /\ UNCHANGED <<lock, data, percpu, plat, op>>

(* The end of psci_afflvl_power_on_finish.                                 *)
CommitOn(c) ==
    /\ pc[c] = "commit" /\ op[c].kind \in Finish
    /\ StateMgmt(c, op[c].end, "ON")
    /\ maxPhysOff' = [maxPhysOff EXCEPT ![c] = INVALID]
    /\ Goto(c, IF op[c].end = 0 THEN "unlock0" ELSE "unlock1")
    /\ UNCHANGED <<lock, powerState, plat, op>>

-----------------------------------------------------------------------------
(* Mutant: the error path does not release the cluster's lock.             *)
ReleaseClusterOnSuccess(c) ==
    /\ pc[c] = "unlock1"
    /\ lock' = IF op[c].rc = "success"
               THEN [lock EXCEPT ![ClusterOf[op[c].target]] = None] ELSE lock
    /\ Goto(c, "unlock0")
    /\ UNCHANGED <<data, percpu, plat, op>>

(* psci_release_afflvl_locks, top down.                                    *)
ReleaseCluster(c) ==
    /\ pc[c] = "unlock1"
    /\ lock' = [lock EXCEPT ![ClusterOf[op[c].target]] = None]
    /\ Goto(c, "unlock0")
    /\ UNCHANGED <<data, percpu, plat, op>>

(* The call ends: in the final wfi after a CPU_OFF or CPU_SUSPEND that did *)
(* not fail, in the non-secure world otherwise.                            *)
ReleaseCpu(c) ==
    /\ pc[c] = "unlock0"
    /\ lock' = [lock EXCEPT ![op[c].target] = None]
    /\ Goto(c, IF op[c].kind \in {"off", "suspend"} /\ op[c].rc = "success"
               THEN "wfi" ELSE "ns")
    /\ op' = [op EXCEPT ![c] = NoOp]
    /\ UNCHANGED <<data, percpu, plat>>

(* A CPU that panicked keeps its locks, and nothing turns on a system      *)
(* whose last CPU was turned off.                                          *)
Stopped ==
    /\ \/ \E c \in CPU : pc[c] = "panic"
       \/ \A c \in CPU : pc[c] = "off" /\ mailbox[c] = None
    /\ UNCHANGED vars

Locking(c) == AcquireCpu(c) \/ AcquireCluster(c)

Working(c) ==
    \/ OnHandlers(c)       \/ CommitOnPending(c)
    \/ LeaveOn(c)          \/ ClearMaxPhysOff(c)
    \/ StashMaxPhysOff(c)  \/ CommitOn(c)
    \/ RestorePanic(c)
    \/ ReleaseCluster(c)   \/ ReleaseCpu(c)
    \/ \E level \in 0..1 :
         \/ OffHandler(c, level) \/ SuspendHandler(c, level)
         \/ OnFinisher(c, level) \/ SuspendFinisher(c, level)

Power(c) == PowerDown(c) \/ PowerUp(c)

Next ==
    \/ \E c \in CPU : CpuOn(c) \/ CpuOff(c) \/ CpuSuspend(c)
    \/ \E c \in CPU : Locking(c) \/ Working(c) \/ Power(c)
    \/ Stopped

Spec == Init /\ [][Next]_vars

(* A CPU in EL3 keeps executing, a bakery lock that becomes free again and *)
(* again is obtained (StarvationFree), and the power controller switches a *)
(* CPU in wfi off, and one on that CPU_ON asked for.  Nothing has to wake  *)
(* a suspended CPU, and the OS has to make no call.                        *)
Fairness == \A c \in CPU :
    /\ WF_vars(Working(c))
    /\ SF_vars(AcquireCpu(c))
    /\ SF_vars(AcquireCluster(c))
    /\ WF_vars(PowerDown(c))
    /\ WF_vars(mailbox[c] = "on" /\ PowerUp(c))

FairSpec == Spec /\ Fairness

-----------------------------------------------------------------------------
(* Mutant: a suspended CPU is reported as it is stored.                    *)
AffinityInfoStored(n) ==
    IF n \in CPU THEN affState[n] ELSE IF refCount[n] # 0 THEN "ON" ELSE "OFF"

(* psci_affinity_info, which takes no lock and changes nothing: what it    *)
(* answers for a node in the current state.  A suspended CPU is on for the *)
(* OS; a cluster's state is computed from its count.                       *)
AffinityInfo(n) ==
    IF n \in CPU THEN IF affState[n] = "SUSPEND" THEN "ON" ELSE affState[n]
    ELSE IF refCount[n] # 0 THEN "ON" ELSE "OFF"

-----------------------------------------------------------------------------
TypeOK ==
    /\ lock \in [Node -> CPU \cup {None}]
    /\ affState \in [CPU -> AffState]
    /\ refCount \in [Cluster -> 0 .. COUNT_RANGE - 1]
    /\ powerState \in [CPU -> {INVALID, 0, 1}]
    /\ maxPhysOff \in [CPU -> {INVALID, 0, 1}]
    /\ mailbox \in [CPU -> {None, "on", "suspend"}]
    /\ smp \in [CPU -> BOOLEAN]
    /\ coherent \in [Cluster -> BOOLEAN]
    /\ dormant \in Cluster \cup {None}
    /\ pc \in [CPU -> PC]
    /\ op \in [CPU -> Op]

(* The affinity level a suspended CPU sleeps at, or is about to sleep at.  *)
SleepLevel(c) ==
    IF op[c].kind \in {"suspend", "suspend_finish"} THEN op[c].end ELSE powerState[c]

(* A CPU keeps its cluster on if it is on itself, or if its suspend stops  *)
(* at level 0.                                                             *)
Counted(c) == affState[c] = "ON" \/ (affState[c] = "SUSPEND" /\ SleepLevel(c) = 0)

(* The reference count of a cluster is the number of its CPUs that keep it *)
(* on, at every step of every interleaving: no path, not even a suspend at *)
(* one level with a wake-up at another, leaves a count behind or takes one *)
(* too many (the 16-bit count would wrap).                                 *)
RefCountExact ==
    \A k \in Cluster :
        refCount[k] = Cardinality({c \in CPU : ClusterOf[c] = k /\ Counted(c)})

(* A CPU executes the OS only with its own coherency and that of its       *)
(* cluster switched on: the last CPU out never switches off a cluster that *)
(* another CPU has come into, and the first one in switches it on.         *)
RunningIsCoherent ==
    \A c \in CPU : pc[c] = "ns" => smp[c] /\ coherent[ClusterOf[c]]

(* AFFINITY_INFO takes no lock and yet agrees with the other answers of    *)
(* the firmware: a CPU that runs the OS and its cluster are ON whoever     *)
(* asks, and until a CPU_ON gives back the lock of its target, AFFINITY_   *)
(* INFO says of the target what the CPU_ON is about to answer, whatever    *)
(* the target and the other CPUs do meanwhile.                             *)
InfoMatchesAnswers ==
    \A c \in CPU :
        /\ pc[c] = "ns" => AffinityInfo(c) = "ON" /\ AffinityInfo(ClusterOf[c]) = "ON"
        /\ op[c].kind = "on" /\ pc[c] \in {"unlock1", "unlock0"} =>
             AffinityInfo(op[c].target) =
                 CASE op[c].rc = "already_on" -> "ON"
                   [] op[c].rc = "invalid_params" -> "OFF"
                   [] OTHER -> "ON_PENDING"

(* While no one holds a cluster's lock, its coherency is on exactly as     *)
(* long as its reference count is not zero.                                *)
CoherencyFollowsCount ==
    \A k \in Cluster : lock[k] = None => (coherent[k] <=> refCount[k] # 0)

(* A CPU without power that is to come up again has the entry point for    *)
(* its state in its mailbox; one that finishes a power up is in the state  *)
(* that the asserts of psci_afflvl0_on_finish and                          *)
(* psci_afflvl0_suspend_finish demand and walks the levels that went off   *)
(* with it; no stashed level is seen outside a power sequence.             *)
WakeMatchesSleep ==
    \A c \in CPU :
        /\ pc[c] \in {"wfi", "off"} =>
             /\ affState[c] = "ON_PENDING" => mailbox[c] = "on"
             /\ affState[c] = "SUSPEND" => mailbox[c] = "suspend"
        /\ op[c].kind = "on_finish" /\ pc[c] \in {"level0", "level1"} =>
             affState[c] = "ON_PENDING" /\ op[c].end = MaxAfflvl
        /\ op[c].kind = "suspend_finish" /\ pc[c] \in {"level0", "level1"} =>
             affState[c] = "SUSPEND" /\ op[c].end = powerState[c]
        /\ pc[c] \in {"level0", "level1"} => maxPhysOff[c] # INVALID
        /\ pc[c] \in {"ns", "wfi", "off"} => maxPhysOff[c] = INVALID

(* plat_affinst_suspend_finish never runs into its panic: a CPU that wakes *)
(* from a level 1 suspend finds the data of a cluster that went off.       *)
WakeUpNeverPanics == \A c \in CPU : pc[c] # "panic"

(* CPU_ON that was accepted ends with the CPU on (unless a CPU panicked    *)
(* and holds the locks for ever).                                          *)
Panicked == \E c \in CPU : pc[c] = "panic"
TurnedOnComesUp ==
    \A c \in CPU : affState[c] = "ON_PENDING" ~> affState[c] = "ON" \/ Panicked

(* Every call ends: it returns to the OS or reaches the final wfi.  No two *)
(* CPUs wait for each other's node locks, and none is overtaken for ever.  *)
CallsEnd ==
    \A c \in CPU : pc[c] = "lock0" ~> pc[c] \in {"ns", "wfi"} \/ Panicked
=============================================================================
