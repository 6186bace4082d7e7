----------------------------- MODULE PsciProofs -----------------------------
(***************************************************************************)
(* The safety of Psci for every topology: types, reference counts, wake-up *)
(* data and coherency.  The invariant comes in layers, each proved with    *)
(* the help of those before it.  The layers from StateInv on need that no  *)
(* CPU_SUSPEND is refused for its entry point: the run psci_rejected shows *)
(* what happens otherwise.                                                 *)
(***************************************************************************)
EXTENDS Psci, FiniteSetTheorems, TLAPS

Before == {"lock0", "lock1", "locked"}
Asleep == {"wfi", "off"}
Leaving == {"off", "suspend"}

(* The arguments of a call, its result and the place it has got to agree.  *)
CallInv(c) ==
    /\ op[c].kind = "none" <=> pc[c] \in {"ns"} \cup Asleep
    /\ op[c].kind # "none" => op[c].target \in CPU
    /\ op[c].kind \in Leaving \cup Finish => op[c].target = c
    /\ op[c].kind \in {"on", "off"} => op[c].end = 1
    /\ pc[c] \in {"lock1", "level1", "unlock1"} => op[c].end = 1
    /\ op[c].kind = "on" => pc[c] \in Before \cup {"commit", "unlock1", "unlock0"}
    /\ op[c].kind \in Leaving =>
         pc[c] \in Before \cup {"stash", "level0", "level1", "clear", "unlock1", "unlock0"}
    /\ op[c].kind \in Finish =>
         pc[c] \in Before \cup {"level0", "level1", "commit", "unlock1", "unlock0", "panic"}
    /\ pc[c] = "panic" => op[c].kind = "suspend_finish"

(* The node locks that a CPU holds, from the acquisition to the release.   *)
Holding0 == InFirmware \ {"lock0"}
Holding1 == InFirmware \ {"lock0", "lock1", "unlock0"}

LockInv(c) ==
    /\ pc[c] \in Holding0 => lock[op[c].target] = c
    /\ pc[c] \in Holding1 /\ op[c].end = 1 => lock[ClusterOf[op[c].target]] = c

(* Some CPU has written c's mailbox, and is about to make c ON_PENDING.    *)
Turning(c) ==
    /\ lock[c] \in CPU
    /\ pc[lock[c]] = "commit"
    /\ op[lock[c]].kind = "on"
    /\ op[lock[c]].rc = "success"
    /\ op[lock[c]].target = c

Awake(c) ==
    \/ pc[c] = "ns"
    \/ op[c].kind = "on"
    \/ op[c].kind \in Leaving /\ pc[c] \in Before
    \/ op[c].kind \in Finish /\ pc[c] \in {"unlock1", "unlock0"}

Rising(c) == op[c].kind \in Finish /\ ~ Awake(c)

(* The state of a CPU's node, the levels it sleeps at and its mailbox, for *)
(* every place the CPU can be in.                                          *)
NodeState(c) ==
    /\ Turning(c) => affState[c] = "OFF"
    /\ Awake(c) => affState[c] = "ON"
    /\ pc[c] \in Asleep => affState[c] # "ON"
    /\ op[c].kind \in Leaving => op[c].rc = "success"
    /\ op[c].kind = "off" /\ pc[c] \notin Before => affState[c] = "OFF"
    /\ op[c].kind = "suspend" /\ pc[c] \notin Before => affState[c] = "SUSPEND"
    /\ op[c].kind = "suspend" => op[c].ep = "aligned"
    /\ op[c].kind = "on_finish" /\ Rising(c) =>
         affState[c] = "ON_PENDING" \/ (pc[c] = "lock0" /\ Turning(c))
    /\ op[c].kind = "suspend_finish" /\ Rising(c) => affState[c] = "SUSPEND"

SleepState(c) ==
    /\ op[c].kind = "on_finish" => op[c].end = 1
    /\ \/ pc[c] \in Asleep /\ affState[c] = "SUSPEND"
       \/ powerState[c] =
            IF \/ op[c].kind = "suspend" /\ pc[c] \notin Before \cup {"stash", "level0"}
               \/ op[c].kind = "suspend_finish" /\ Rising(c) /\ pc[c] # "commit"
            THEN op[c].end ELSE INVALID

Stashed(c) ==
    /\ pc[c] \in {"level0", "level1"} =>
         maxPhysOff[c] = IF op[c].end = 1 /\ refCount[ClusterOf[c]] = 0 THEN 1 ELSE 0
    /\ pc[c] \notin {"level0", "level1", "clear", "commit", "panic"} => maxPhysOff[c] = INVALID
    /\ op[c].kind = "on" => maxPhysOff[c] = INVALID

(* Has the handler that acts already run?                                  *)
Acted(c) ==
    \/ pc[c] \in {"commit", "clear", "unlock1", "unlock0"}
    \/ IF op[c].kind = "suspend" THEN pc[c] = "level1" /\ maxPhysOff[c] = 0
                                 ELSE pc[c] = "level0" /\ maxPhysOff[c] = 1

MailboxInv(c) ==
    /\ pc[c] \in Asleep =>
         /\ affState[c] = "ON_PENDING" => mailbox[c] = "on"
         /\ affState[c] = "SUSPEND" => mailbox[c] = "suspend" /\ powerState[c] # INVALID
         /\ affState[c] = "OFF" => mailbox[c] = IF Turning(c) THEN "on" ELSE None
    /\ Awake(c) => mailbox[c] = None
    /\ op[c].kind = "off" => mailbox[c] = None
    /\ op[c].kind = "suspend" => mailbox[c] = IF Acted(c) THEN "suspend" ELSE None
    /\ op[c].kind \in Finish /\ Acted(c) => mailbox[c] = None

SmpInv(c) == Awake(c) \/ (Rising(c) /\ Acted(c)) => smp[c]

StateInv(c) == NodeState(c) /\ SleepState(c) /\ Stashed(c) /\ MailboxInv(c) /\ SmpInv(c)

(* Between the change of a cluster's count and the handler of its level,   *)
(* or the other way round on the way up, only its coherency is known.      *)
Moving(c) ==
    /\ op[c].end = 1
    /\ \/ op[c].kind \in Leaving /\ pc[c] \in {"stash", "level0", "level1"}
       \/ op[c].kind \in Finish /\ pc[c] \in {"level0", "commit"}

CohInv(k) ==
    IF \E c \in CPU : ClusterOf[c] = k /\ Moving(c)
    THEN coherent[k]
    ELSE coherent[k] <=> refCount[k] # 0

TypeInv == TypeOK /\ \A c \in CPU : CallInv(c)

-----------------------------------------------------------------------------
(* The steps of one CPU.                                                   *)
Step(c) ==
    \/ CpuOn(c) \/ CpuOff(c) \/ CpuSuspend(c)
    \/ Locking(c) \/ Working(c) \/ Power(c)

LEMMA Modulo ==
  ASSUME NEW n \in 0 .. COUNT_RANGE - 1, NEW state \in AffState
  PROVE  CountAfter(n, state) \in 0 .. COUNT_RANGE - 1
<1>1. COUNT_RANGE \in Nat /\ COUNT_RANGE > 1
  BY DEF COUNT_RANGE
<1>. QED
  BY <1>1 DEF CountAfter

(* What the handlers of a level do, apart from the cluster's data.         *)
OffDoes(c, level) ==
    /\ pc[c] = Label(level) /\ op[c].kind = "off"
    /\ pc' = [pc EXCEPT ![c] = IF level < op[c].end THEN Label(level + 1) ELSE "clear"]
    /\ UNCHANGED <<lock, affState, refCount, powerState, maxPhysOff, mailbox, dormant, op>>
    /\ smp' = IF DoPlatActions(c, level) THEN [smp EXCEPT ![c] = FALSE] ELSE smp
    /\ coherent' = IF level = 1 /\ DoPlatActions(c, level)
                   THEN [coherent EXCEPT ![ClusterOf[c]] = FALSE] ELSE coherent

LEMMA OffEffect ==
  ASSUME TypeOK, NEW c \in CPU, NEW level \in 0..1, OffHandler(c, level)
  PROVE  OffDoes(c, level)
<1>1. smp' = IF DoPlatActions(c, level) THEN [smp EXCEPT ![c] = FALSE] ELSE smp
  BY DEF OffHandler, LeaveCoherency
<1>2. coherent' = IF level = 1 /\ DoPlatActions(c, level)
                  THEN [coherent EXCEPT ![ClusterOf[c]] = FALSE] ELSE coherent
  BY DEF OffHandler, LeaveCoherency
<1>. QED
  BY <1>1, <1>2 DEF OffDoes, OffHandler, NextUp, Goto, data, percpu

SuspendDoes(c, level) ==
    /\ pc[c] = Label(level) /\ op[c].kind = "suspend"
    /\ UNCHANGED <<lock, affState, refCount, maxPhysOff>>
    /\ powerState' = IF level = 0 THEN [powerState EXCEPT ![c] = op[c].end] ELSE powerState
    /\ IF level = 0 /\ op[c].ep = "odd"
       THEN /\ op' = [op EXCEPT ![c].rc = "invalid_params"]
            /\ pc' = [pc EXCEPT ![c] = "clear"]
            /\ UNCHANGED <<mailbox, smp, coherent, dormant>>
       ELSE /\ op' = op
            /\ pc' = [pc EXCEPT ![c] = IF level < op[c].end THEN Label(level + 1) ELSE "clear"]
            /\ mailbox' = IF DoPlatActions(c, level)
                          THEN [mailbox EXCEPT ![c] = "suspend"] ELSE mailbox
            /\ smp' = IF DoPlatActions(c, level) THEN [smp EXCEPT ![c] = FALSE] ELSE smp
            /\ coherent' = IF level = 1 /\ DoPlatActions(c, level)
                           THEN [coherent EXCEPT ![ClusterOf[c]] = FALSE] ELSE coherent
            /\ dormant' \in {dormant, ClusterOf[c]}

LEMMA SuspendEffect ==
  ASSUME TypeOK, NEW c \in CPU, NEW level \in 0..1, SuspendHandler(c, level)
  PROVE  SuspendDoes(c, level)
<1>1. CASE level = 0 /\ op[c].ep = "odd"
  BY <1>1 DEF SuspendDoes, SuspendHandler, Goto, data, plat
<1>2. CASE ~ (level = 0 /\ op[c].ep = "odd")
  <2>1. smp' = IF DoPlatActions(c, level) THEN [smp EXCEPT ![c] = FALSE] ELSE smp
    BY <1>2 DEF SuspendHandler, LeaveCoherency, plat
  <2>2. coherent' = IF level = 1 /\ DoPlatActions(c, level)
                    THEN [coherent EXCEPT ![ClusterOf[c]] = FALSE] ELSE coherent
    BY <1>2 DEF SuspendHandler, LeaveCoherency, plat
  <2>3. dormant' \in {dormant, ClusterOf[c]}
    BY <1>2 DEF SuspendHandler, plat
  <2>4. mailbox' = IF DoPlatActions(c, level) THEN [mailbox EXCEPT ![c] = "suspend"] ELSE mailbox
    BY <1>2 DEF SuspendHandler, plat
  <2>. QED
    BY <1>2, <2>1, <2>2, <2>3, <2>4 DEF SuspendDoes, SuspendHandler, NextUp, Goto, data
<1>. QED BY <1>1, <1>2

PlatOnDoes(c, level) ==
    /\ smp' = IF DoPlatActions(c, level) THEN [smp EXCEPT ![c] = TRUE] ELSE smp
    /\ coherent' = IF level = 1 /\ DoPlatActions(c, level)
                   THEN [coherent EXCEPT ![ClusterOf[c]] = TRUE] ELSE coherent
    /\ mailbox' = IF DoPlatActions(c, level) THEN [mailbox EXCEPT ![c] = None] ELSE mailbox

LEMMA PlatOnEffect ==
  ASSUME TypeOK, NEW c \in CPU, NEW level \in 0..1, PlatOnFinish(c, level)
  PROVE  PlatOnDoes(c, level)
<1>1. smp' = IF DoPlatActions(c, level) THEN [smp EXCEPT ![c] = TRUE] ELSE smp
  BY DEF PlatOnFinish, EnterCoherency
<1>2. coherent' = IF level = 1 /\ DoPlatActions(c, level)
                  THEN [coherent EXCEPT ![ClusterOf[c]] = TRUE] ELSE coherent
  BY DEF PlatOnFinish, EnterCoherency
<1>. QED
  BY <1>1, <1>2 DEF PlatOnDoes, PlatOnFinish, EnterCoherency

FinisherDoes(c, level) ==
    /\ pc[c] = Label(level) /\ op[c].kind \in Finish
    /\ pc' = [pc EXCEPT ![c] = IF level = 0 THEN "commit" ELSE Label(level - 1)]
    /\ UNCHANGED <<lock, affState, refCount, maxPhysOff, dormant, op>>
    /\ powerState' = IF level = 0 /\ op[c].kind = "suspend_finish"
                     THEN [powerState EXCEPT ![c] = INVALID] ELSE powerState
    /\ smp' = IF DoPlatActions(c, level) THEN [smp EXCEPT ![c] = TRUE] ELSE smp
    /\ coherent' = IF level = 1 /\ DoPlatActions(c, level)
                   THEN [coherent EXCEPT ![ClusterOf[c]] = TRUE] ELSE coherent
    /\ mailbox' = IF DoPlatActions(c, level) THEN [mailbox EXCEPT ![c] = None] ELSE mailbox

LEMMA FinisherEffect ==
  ASSUME TypeOK, NEW c \in CPU, NEW level \in 0..1,
         OnFinisher(c, level) \/ SuspendFinisher(c, level)
  PROVE  FinisherDoes(c, level)
<1>1. PlatOnFinish(c, level)
  BY DEF OnFinisher, SuspendFinisher
<1>2. CASE OnFinisher(c, level)
  BY <1>1, <1>2, PlatOnEffect DEF FinisherDoes, PlatOnDoes, OnFinisher, NextDown, Goto, data, percpu, Finish
<1>3. CASE SuspendFinisher(c, level)
  BY <1>1, <1>3, PlatOnEffect DEF FinisherDoes, PlatOnDoes, SuspendFinisher, NextDown, Goto, data, Finish
<1>. QED BY <1>2, <1>3

-----------------------------------------------------------------------------
(* Every variable keeps its type, and a call is never in a place that does *)
(* not belong to it.                                                       *)
LEMMA TypeStep == ASSUME TypeInv, NEW c \in CPU, Step(c) PROVE TypeInv'
<1>. USE TopologyAssumption, ArgumentAssumption
     DEF TypeInv, TypeOK, CallInv, PC, InFirmware, Node, Finish, Leaving, Before, Asleep, Goto,
         TopologyAssumption, ArgumentAssumption, data, percpu, plat
<1>1. CASE CpuOn(c)
  BY <1>1 DEF CpuOn, Smc, Call, Op, Kind, Result, MaxAfflvl
<1>2. CASE CpuOff(c)
  BY <1>2 DEF CpuOff, Smc, Call, Op, Kind, Result, MaxAfflvl
<1>3. CASE CpuSuspend(c)
  BY <1>3 DEF CpuSuspend, Smc, Call, Op, Kind, Result, MaxAfflvl
<1>4. CASE AcquireCpu(c)
  BY <1>4 DEF AcquireCpu, Op
<1>5. CASE AcquireCluster(c)
  BY <1>5 DEF AcquireCluster, Op
<1>6. CASE OnHandlers(c)
  BY <1>6 DEF OnHandlers, Op, Result
<1>7. CASE CommitOnPending(c)
  <2>1. op[c].target \in CPU /\ ClusterOf[op[c].target] \in Cluster
    BY <1>7 DEF CommitOnPending
  <2>2. CountAfter(refCount[ClusterOf[op[c].target]], "ON_PENDING") \in 0 .. COUNT_RANGE - 1
    BY <2>1 DEF CountAfter
  <2>3. /\ affState' \in [CPU -> AffState] /\ refCount' \in [Cluster -> 0 .. COUNT_RANGE - 1]
    BY <1>7, <2>1, <2>2 DEF CommitOnPending, StateMgmt, AffState, MaxAfflvl
  <2>4. /\ op[c].kind = "on" /\ pc' = [pc EXCEPT ![c] = "unlock1"]
        /\ UNCHANGED <<lock, powerState, maxPhysOff, mailbox, smp, coherent, dormant, op>>
    BY <1>7 DEF CommitOnPending
  <2>. QED BY <2>3, <2>4 DEF Op
<1>8. CASE LeaveOn(c)
  BY <1>8, Modulo DEF LeaveOn, StateMgmt, Op, AffState
<1>9. CASE StashMaxPhysOff(c)
  BY <1>9 DEF StashMaxPhysOff, FindMaxPhysOff, Label, Op
<1>10. ASSUME NEW level \in 0..1, OffHandler(c, level) PROVE TypeInv'
  <2>1. OffDoes(c, level) BY <1>10, OffEffect
  <2>2. smp' \in [CPU -> BOOLEAN] /\ coherent' \in [Cluster -> BOOLEAN]
    BY <2>1 DEF OffDoes
  <2>. QED BY <2>1, <2>2 DEF OffDoes, Label, Op
<1>11. ASSUME NEW level \in 0..1, SuspendHandler(c, level) PROVE TypeInv'
  <2>1. SuspendDoes(c, level) BY <1>11, SuspendEffect
  <2>2. powerState' \in [CPU -> {INVALID, 0, 1}]
    BY <2>1 DEF SuspendDoes, Op
  <2>3. CASE level = 0 /\ op[c].ep = "odd"
    <3>1. /\ op' = [op EXCEPT ![c].rc = "invalid_params"] /\ pc' = [pc EXCEPT ![c] = "clear"]
          /\ op[c].kind = "suspend"
          /\ UNCHANGED <<lock, affState, refCount, maxPhysOff, mailbox, smp, coherent, dormant>>
      BY <2>1, <2>3 DEF SuspendDoes
    <3>2. op' \in [CPU -> Op]
      BY <3>1 DEF Op, Result
    <3>. QED BY <2>2, <3>1, <3>2
  <2>4. CASE ~ (level = 0 /\ op[c].ep = "odd")
    <3>1. /\ smp' \in [CPU -> BOOLEAN] /\ coherent' \in [Cluster -> BOOLEAN]
          /\ mailbox' \in [CPU -> {None, "on", "suspend"}] /\ dormant' \in Cluster \cup {None}
      <4>1. smp' \in [CPU -> BOOLEAN]
        BY <2>1, <2>4 DEF SuspendDoes
      <4>2. coherent' \in [Cluster -> BOOLEAN]
        BY <2>1, <2>4 DEF SuspendDoes
      <4>3. mailbox' \in [CPU -> {None, "on", "suspend"}] /\ dormant' \in Cluster \cup {None}
        BY <2>1, <2>4 DEF SuspendDoes
      <4>. QED BY <4>1, <4>2, <4>3
    <3>. QED BY <2>1, <2>2, <2>4, <3>1 DEF SuspendDoes, Label, Op
  <2>. QED BY <2>3, <2>4
<1>12. CASE ClearMaxPhysOff(c)
  BY <1>12 DEF ClearMaxPhysOff, Op
<1>13. CASE PowerDown(c)
  BY <1>13 DEF PowerDown, Op
<1>14. CASE PowerUp(c)
  BY <1>14 DEF PowerUp, Call, Op, Kind, Result, MaxAfflvl, INVALID
<1>15. ASSUME NEW level \in 0..1, OnFinisher(c, level) \/ SuspendFinisher(c, level)
       PROVE  TypeInv'
  <2>1. FinisherDoes(c, level) BY <1>15, FinisherEffect
  <2>2. /\ smp' \in [CPU -> BOOLEAN] /\ coherent' \in [Cluster -> BOOLEAN]
        /\ mailbox' \in [CPU -> {None, "on", "suspend"}]
        /\ powerState' \in [CPU -> {INVALID, 0, 1}]
    BY <2>1 DEF FinisherDoes, Op
  <2>. QED BY <2>1, <2>2 DEF FinisherDoes, Label, Op, Result
<1>16. CASE RestorePanic(c)
  BY <1>16 DEF RestorePanic, Label, Op
<1>17. CASE CommitOn(c)
  BY <1>17, Modulo DEF CommitOn, StateMgmt, Op, AffState
<1>18. CASE ReleaseCluster(c)
  BY <1>18 DEF ReleaseCluster, Op
<1>19. CASE ReleaseCpu(c)
  BY <1>19 DEF ReleaseCpu, NoOp, Op, Kind, Result
<1>. QED
  BY <1>1, <1>2, <1>3, <1>4, <1>5, <1>6, <1>7, <1>8, <1>9, <1>10, <1>11, <1>12,
     <1>13, <1>14, <1>15, <1>16, <1>17, <1>18, <1>19
     DEF Step, Locking, Working, Power

(* For every topology: no count leaves the 16 bits it is kept in, and no   *)
(* CPU reaches a place in a call that this call does not have.             *)
THEOREM TypeCorrect == Spec => []TypeInv
<1>1. Init => TypeInv
  BY TopologyAssumption
     DEF TopologyAssumption, Init, TypeInv, TypeOK, CallInv, AffState, PC, InFirmware, Node, Finish, Leaving,
         Before, Asleep, NoOp, Op, Kind, Result, COUNT_RANGE
<1>2. TypeInv /\ [Next]_vars => TypeInv'
  <2> SUFFICES ASSUME TypeInv, [Next]_vars PROVE TypeInv'
    OBVIOUS
  <2>1. CASE UNCHANGED vars
    BY <2>1 DEF vars, data, percpu, plat, TypeInv, TypeOK, CallInv
  <2>2. ASSUME NEW c \in CPU, Step(c) PROVE TypeInv'
    BY <2>2, TypeStep
  <2>. QED BY <2>1, <2>2 DEF Next, Step, Stopped
<1>. QED BY <1>1, <1>2, PTL DEF Spec

(* The type invariant by itself.                                           *)
THEOREM TypesKept == Spec => []TypeOK
<1>1. TypeInv => TypeOK
  BY DEF TypeInv
<1>. QED BY <1>1, TypeCorrect, PTL

-----------------------------------------------------------------------------
(* A step leaves the private data of the other CPUs alone, and unless it   *)
(* takes or releases a lock the CPU was already holding what it holds.     *)
Quiet(c) ==
    \A d \in CPU \ {c} :
        /\ pc'[d] = pc[d] /\ op'[d] = op[d] /\ smp'[d] = smp[d]
        /\ powerState'[d] = powerState[d] /\ maxPhysOff'[d] = maxPhysOff[d]

KeepsLocks(c) ==
    /\ lock' = lock
    /\ pc'[c] \in Holding0 =>
         pc[c] \in Holding0 /\ op'[c].target = op[c].target /\ op'[c].end = op[c].end
    /\ pc'[c] \in Holding1 => pc[c] \in Holding1

LEMMA QuietStep ==
  ASSUME TypeInv, NEW c \in CPU, Step(c)
  PROVE  /\ Quiet(c)
         /\ \/ KeepsLocks(c)
            \/ AcquireCpu(c) \/ AcquireCluster(c) \/ ReleaseCluster(c) \/ ReleaseCpu(c)
<1>. DEFINE Goal == /\ Quiet(c)
                    /\ \/ KeepsLocks(c)
                       \/ AcquireCpu(c) \/ AcquireCluster(c) \/ ReleaseCluster(c) \/ ReleaseCpu(c)
<1>t. TypeOK /\ CallInv(c)
  BY DEF TypeInv
<1>. USE DEF Quiet, KeepsLocks, Holding0, Holding1, InFirmware, Goto, data, percpu, plat, TypeOK, Op
<1>1. CASE CpuOn(c) \/ CpuOff(c) \/ CpuSuspend(c)
  BY <1>1, <1>t DEF CpuOn, CpuOff, CpuSuspend, Smc, Call
<1>2. CASE AcquireCpu(c) \/ AcquireCluster(c) \/ ReleaseCluster(c) \/ ReleaseCpu(c)
  BY <1>2, <1>t DEF AcquireCpu, AcquireCluster, ReleaseCluster, ReleaseCpu
<1>3. CASE OnHandlers(c)
  BY <1>3, <1>t DEF OnHandlers
<1>4. CASE CommitOnPending(c) \/ LeaveOn(c) \/ StashMaxPhysOff(c)
  BY <1>4, <1>t DEF CommitOnPending, LeaveOn, StashMaxPhysOff, Label
<1>5. ASSUME NEW level \in 0..1, OffHandler(c, level) PROVE Goal
  <2>1. OffDoes(c, level) BY <1>5, <1>t, OffEffect
  <2>. QED BY <2>1, <1>t DEF OffDoes, Label
<1>6. ASSUME NEW level \in 0..1, SuspendHandler(c, level) PROVE Goal
  <2>1. SuspendDoes(c, level) BY <1>6, <1>t, SuspendEffect
  <2>. QED BY <2>1, <1>t DEF SuspendDoes, Label
<1>7. ASSUME NEW level \in 0..1, OnFinisher(c, level) \/ SuspendFinisher(c, level) PROVE Goal
  <2>1. FinisherDoes(c, level) BY <1>7, <1>t, FinisherEffect
  <2>. QED BY <2>1, <1>t DEF FinisherDoes, Label
<1>8. CASE ClearMaxPhysOff(c) \/ PowerDown(c) \/ PowerUp(c)
  BY <1>8, <1>t DEF ClearMaxPhysOff, PowerDown, PowerUp, Call
<1>9. CASE RestorePanic(c) \/ CommitOn(c)
  BY <1>9, <1>t DEF RestorePanic, CommitOn, Label
<1>. HIDE DEF Quiet, KeepsLocks
<1>. QED
  BY <1>1, <1>2, <1>3, <1>4, <1>5, <1>6, <1>7, <1>8, <1>9 DEF Step, Locking, Working, Power

-----------------------------------------------------------------------------
(* A lock is free when it is taken, and released by the CPU that holds it. *)
LEMMA LockStep ==
  ASSUME TypeInv, \A d \in CPU : LockInv(d), NEW c \in CPU, Step(c)
  PROVE  \A d \in CPU : LockInv(d)'
<1>. SUFFICES ASSUME NEW d \in CPU PROVE LockInv(d)'
  OBVIOUS
<1>t. TypeOK /\ CallInv(c) /\ CallInv(d) /\ LockInv(c) /\ LockInv(d) /\ Quiet(c)
  BY QuietStep DEF TypeInv
<1>n. /\ None \notin CPU \cup Cluster /\ CPU \cap Cluster = {} /\ ClusterOf \in [CPU -> Cluster]
      /\ lock \in [CPU \cup Cluster -> CPU \cup {None}]
  BY <1>t, TopologyAssumption DEF TopologyAssumption, TypeOK, Node
<1>i. /\ pc[d] \in Holding0 => op[d].target \in CPU
      /\ pc[c] \in Holding0 \cup {"lock0"} => op[c].target \in CPU
  BY <1>t DEF CallInv, Holding0, InFirmware, Asleep
<1>o. d # c => pc'[d] = pc[d] /\ op'[d] = op[d]
  BY <1>t DEF Quiet
<1>0. Holding1 \subseteq Holding0
  BY DEF Holding0, Holding1
<1>1. CASE KeepsLocks(c)
  BY <1>1, <1>t, <1>o DEF KeepsLocks, LockInv, Holding0, Holding1, InFirmware
<1>2. CASE AcquireCpu(c)
  <2>1. /\ pc[c] = "lock0" /\ lock[op[c].target] = None
        /\ lock' = [lock EXCEPT ![op[c].target] = c] /\ op' = op
        /\ pc'[c] = IF op[c].end = 0 THEN "locked" ELSE "lock1"
    BY <1>2, <1>t DEF AcquireCpu, Goto, TypeOK
  <2>. QED
    BY <2>1, <1>t, <1>n, <1>i, <1>o, <1>0 DEF LockInv, Holding0, Holding1, InFirmware
<1>3. CASE AcquireCluster(c)
  <2>1. /\ pc[c] = "lock1" /\ lock[ClusterOf[op[c].target]] = None
        /\ lock' = [lock EXCEPT ![ClusterOf[op[c].target]] = c] /\ op' = op
        /\ pc'[c] = "locked"
    BY <1>3, <1>t DEF AcquireCluster, Goto, TypeOK
  <2>. QED
    BY <2>1, <1>t, <1>n, <1>i, <1>o, <1>0 DEF LockInv, Holding0, Holding1, InFirmware
<1>4. CASE ReleaseCluster(c)
  <2>1. /\ pc[c] = "unlock1"
        /\ lock' = [lock EXCEPT ![ClusterOf[op[c].target]] = None] /\ op' = op
        /\ pc'[c] = "unlock0" /\ op[c].end = 1
    BY <1>4, <1>t DEF ReleaseCluster, Goto, TypeOK, CallInv
  <2>. QED
    BY <2>1, <1>t, <1>n, <1>i, <1>o, <1>0 DEF LockInv, Holding0, Holding1, InFirmware
<1>5. CASE ReleaseCpu(c)
  <2>1. /\ pc[c] = "unlock0"
        /\ lock' = [lock EXCEPT ![op[c].target] = None] /\ pc'[c] \in {"ns", "wfi"}
    BY <1>5, <1>t DEF ReleaseCpu, Goto, TypeOK
  <2>. QED
    BY <2>1, <1>t, <1>n, <1>i, <1>o, <1>0 DEF LockInv, Holding0, Holding1, InFirmware
<1>. QED
  BY <1>1, <1>2, <1>3, <1>4, <1>5, QuietStep

BaseInv == TypeInv /\ \A c \in CPU : LockInv(c)

(* For every topology: a CPU owns the locks of the nodes it works on, from *)
(* psci_acquire_afflvl_locks to psci_release_afflvl_locks.                 *)
THEOREM LocksHeld == Spec => []BaseInv
<1>1. Init => BaseInv
  <2>1. Init => TypeInv
    BY TopologyAssumption
       DEF TopologyAssumption, Init, TypeInv, TypeOK, CallInv, AffState, PC, InFirmware, Node, Finish,
           Leaving, Before, Asleep, NoOp, Op, Kind, Result, COUNT_RANGE
  <2>2. Init => \A c \in CPU : LockInv(c)
    BY DEF Init, LockInv, Holding0, Holding1, InFirmware
  <2>. QED BY <2>1, <2>2 DEF BaseInv
<1>2. BaseInv /\ [Next]_vars => BaseInv'
  <2> SUFFICES ASSUME BaseInv, [Next]_vars PROVE BaseInv'
    OBVIOUS
  <2>1. CASE UNCHANGED vars
    BY <2>1 DEF vars, data, percpu, plat, BaseInv, TypeInv, TypeOK, CallInv, LockInv
  <2>2. ASSUME NEW c \in CPU, Step(c) PROVE BaseInv'
    BY <2>2, TypeStep, LockStep DEF BaseInv
  <2>. QED BY <2>1, <2>2 DEF Next, Step, Stopped
<1>. QED BY <1>1, <1>2, PTL DEF Spec

-----------------------------------------------------------------------------
(* What a step of one CPU does to the node and the mailbox of another.     *)
TurnsOn(c, d) == OnHandlers(c) /\ op[c].target = d /\ op'[c].rc = "success"
Commits(c, d) == CommitOnPending(c) /\ op[c].target = d /\ op[c].rc = "success"

KeepsNode(d) ==
    /\ affState'[d] = affState[d]
    /\ mailbox'[d] = mailbox[d]

LEMMA OtherNode ==
  ASSUME BaseInv, NEW c \in CPU, NEW d \in CPU \ {c}, Step(c)
  PROVE  KeepsNode(d) \/ TurnsOn(c, d) \/ Commits(c, d)
<1>t. TypeOK /\ CallInv(c)
  BY DEF BaseInv, TypeInv
<1>. USE DEF KeepsNode, Goto, data, percpu, plat
<1>1. CASE CpuOn(c) \/ CpuOff(c) \/ CpuSuspend(c)
  BY <1>1 DEF CpuOn, CpuOff, CpuSuspend, Smc
<1>2. CASE AcquireCpu(c) \/ AcquireCluster(c) \/ ReleaseCluster(c) \/ ReleaseCpu(c)
  BY <1>2 DEF AcquireCpu, AcquireCluster, ReleaseCluster, ReleaseCpu
<1>3. CASE OnHandlers(c)
  BY <1>3, <1>t DEF OnHandlers, TurnsOn, TypeOK, Op
<1>4. CASE CommitOnPending(c)
  BY <1>4, <1>t DEF CommitOnPending, Commits, StateMgmt, TypeOK
<1>5. CASE LeaveOn(c) \/ CommitOn(c)
  BY <1>5, <1>t DEF LeaveOn, CommitOn, StateMgmt, TypeOK
<1>6. ASSUME NEW level \in 0..1, OffHandler(c, level) PROVE KeepsNode(d)
  BY <1>6, <1>t, OffEffect DEF OffDoes
<1>7. ASSUME NEW level \in 0..1, SuspendHandler(c, level) PROVE KeepsNode(d)
  <2>1. SuspendDoes(c, level) BY <1>7, <1>t, SuspendEffect
  <2>. QED BY <2>1, <1>t DEF SuspendDoes, TypeOK
<1>8. ASSUME NEW level \in 0..1, OnFinisher(c, level) \/ SuspendFinisher(c, level) PROVE KeepsNode(d)
  <2>1. FinisherDoes(c, level) BY <1>8, <1>t, FinisherEffect
  <2>. QED BY <2>1, <1>t DEF FinisherDoes, TypeOK
<1>9. CASE StashMaxPhysOff(c) \/ ClearMaxPhysOff(c) \/ PowerDown(c) \/ PowerUp(c) \/ RestorePanic(c)
  BY <1>9 DEF StashMaxPhysOff, ClearMaxPhysOff, PowerDown, PowerUp, RestorePanic
<1>. QED
  BY <1>1, <1>2, <1>3, <1>4, <1>5, <1>6, <1>7, <1>8, <1>9 DEF Step, Locking, Working, Power

(* Only a CPU that carries out CPU_ON for d makes d start or stop Turning. *)
LEMMA TurningStep ==
  ASSUME BaseInv, NEW c \in CPU, NEW d \in CPU, Step(c)
  PROVE  (Turning(d)' <=> Turning(d)) \/ TurnsOn(c, d) \/ Commits(c, d)
<1>. DEFINE InCommit(e) == pc[e] = "commit" /\ op[e].kind = "on" /\ op[e].rc = "success" /\ op[e].target = d
            Goal == (InCommit(c)' <=> InCommit(c)) \/ TurnsOn(c, d) \/ Commits(c, d)
<1>t. TypeOK /\ CallInv(c) /\ LockInv(c) /\ Quiet(c)
  BY QuietStep DEF BaseInv, TypeInv
<1>n. /\ None \notin CPU /\ lock \in [CPU \cup Cluster -> CPU \cup {None}]
      /\ CPU \cap Cluster = {} /\ ClusterOf \in [CPU -> Cluster]
  BY <1>t, TopologyAssumption DEF TopologyAssumption, TypeOK, Node
<1>1. Goal
  <2>. USE DEF Goto, TypeOK, Op
  <2>1. CASE CpuOn(c) \/ CpuOff(c) \/ CpuSuspend(c)
    BY <2>1, <1>t DEF CpuOn, CpuOff, CpuSuspend, Smc, Call
  <2>2. CASE AcquireCpu(c) \/ AcquireCluster(c) \/ ReleaseCluster(c) \/ ReleaseCpu(c)
    BY <2>2, <1>t DEF AcquireCpu, AcquireCluster, ReleaseCluster, ReleaseCpu
  <2>3. CASE OnHandlers(c)
    BY <2>3, <1>t DEF OnHandlers, TurnsOn
  <2>4. CASE CommitOnPending(c)
    BY <2>4, <1>t DEF CommitOnPending, Commits
  <2>5. CASE LeaveOn(c) \/ CommitOn(c)
    BY <2>5, <1>t DEF LeaveOn, CommitOn, Leaving, Finish
  <2>6. ASSUME NEW level \in 0..1, OffHandler(c, level) PROVE Goal
    BY <2>6, <1>t, OffEffect DEF OffDoes, Label
  <2>7. ASSUME NEW level \in 0..1, SuspendHandler(c, level) PROVE Goal
    <3>1. SuspendDoes(c, level) BY <2>7, <1>t, SuspendEffect
    <3>. QED BY <3>1, <1>t DEF SuspendDoes, Label
  <2>8. ASSUME NEW level \in 0..1, OnFinisher(c, level) \/ SuspendFinisher(c, level) PROVE Goal
    <3>1. FinisherDoes(c, level) BY <2>8, <1>t, FinisherEffect
    <3>. QED BY <3>1, <1>t DEF FinisherDoes, Label, Finish
  <2>9. CASE StashMaxPhysOff(c) \/ ClearMaxPhysOff(c) \/ PowerDown(c) \/ PowerUp(c) \/ RestorePanic(c)
    BY <2>9, <1>t DEF StashMaxPhysOff, ClearMaxPhysOff, PowerDown, PowerUp, RestorePanic, Label, Call
  <2>. QED
    BY <2>1, <2>2, <2>3, <2>4, <2>5, <2>6, <2>7, <2>8, <2>9 DEF Step, Locking, Working, Power
<1>2. \A e \in CPU \ {c} : InCommit(e)' <=> InCommit(e)
  BY <1>t DEF Quiet
<1>3. \A e \in CPU : Turning(d) <=> (lock[d] \in CPU /\ InCommit(lock[d]))
  BY DEF Turning
<1>4. lock'[d] = lock[d] \/ (lock[d] \in {None, c} /\ lock'[d] \in {None, c} /\ ~ InCommit(c) /\ ~ InCommit(c)')
  <2>1. CASE KeepsLocks(c)
    BY <2>1 DEF KeepsLocks
  <2>2. CASE AcquireCpu(c)
    BY <2>2, <1>t, <1>n DEF AcquireCpu, Goto, TypeOK, Node
  <2>3. CASE AcquireCluster(c)
    BY <2>3, <1>t, <1>n DEF AcquireCluster, Goto, TypeOK, Node
  <2>4. CASE ReleaseCluster(c)
    BY <2>4, <1>t, <1>n DEF ReleaseCluster, Goto, TypeOK, Node, LockInv, CallInv, Holding1, InFirmware
  <2>5. CASE ReleaseCpu(c)
    BY <2>5, <1>t, <1>n DEF ReleaseCpu, Goto, TypeOK, Node, LockInv, CallInv, Holding0, InFirmware
  <2>. QED BY <2>1, <2>2, <2>3, <2>4, <2>5, QuietStep DEF BaseInv
<1>5. Turning(d)' <=> (lock'[d] \in CPU /\ InCommit(lock[d])')
  BY DEF Turning
<1>. HIDE DEF InCommit
<1>. QED
  BY <1>1, <1>2, <1>3, <1>4, <1>5, <1>n

(* The count of a cluster changes only under the cluster's lock.           *)
LEMMA CountStep ==
  ASSUME BaseInv, NEW c \in CPU, NEW k \in Cluster, Step(c)
  PROVE  refCount'[k] = refCount[k] \/ lock[k] = c
<1>. DEFINE Goal == refCount'[k] = refCount[k] \/ lock[k] = c
<1>t. TypeOK /\ CallInv(c) /\ LockInv(c) /\ ClusterOf \in [CPU -> Cluster]
  BY TopologyAssumption DEF BaseInv, TypeInv, TopologyAssumption
<1>. USE DEF data, TypeOK, Goto
<1>1. CASE CpuOn(c) \/ CpuOff(c) \/ CpuSuspend(c)
  BY <1>1 DEF CpuOn, CpuOff, CpuSuspend, Smc
<1>2. CASE AcquireCpu(c) \/ AcquireCluster(c) \/ ReleaseCluster(c) \/ ReleaseCpu(c)
  BY <1>2 DEF AcquireCpu, AcquireCluster, ReleaseCluster, ReleaseCpu
<1>3. CASE OnHandlers(c) \/ StashMaxPhysOff(c) \/ ClearMaxPhysOff(c)
  BY <1>3 DEF OnHandlers, StashMaxPhysOff, ClearMaxPhysOff
<1>4. CASE CommitOnPending(c)
  BY <1>4, <1>t DEF CommitOnPending, StateMgmt, CountAfter
<1>5. CASE LeaveOn(c) \/ CommitOn(c)
  BY <1>5, <1>t DEF LeaveOn, CommitOn, StateMgmt, LockInv, CallInv, Leaving, Finish, Holding1, InFirmware, Op
<1>6. ASSUME NEW level \in 0..1, OffHandler(c, level) PROVE Goal
  BY <1>6 DEF OffHandler
<1>7. ASSUME NEW level \in 0..1, SuspendHandler(c, level) PROVE Goal
  BY <1>7 DEF SuspendHandler
<1>8. ASSUME NEW level \in 0..1, OnFinisher(c, level) \/ SuspendFinisher(c, level) PROVE Goal
  BY <1>8 DEF OnFinisher, SuspendFinisher
<1>9. CASE PowerDown(c) \/ PowerUp(c) \/ RestorePanic(c)
  BY <1>9 DEF PowerDown, PowerUp, RestorePanic
<1>. QED
  BY <1>1, <1>2, <1>3, <1>4, <1>5, <1>6, <1>7, <1>8, <1>9 DEF Step, Locking, Working, Power

(* What another CPU's step means for StateInv: nothing, unless it carries  *)
(* out CPU_ON.                                                             *)
LEMMA OtherState ==
  ASSUME BaseInv, NEW c \in CPU, NEW d \in CPU \ {c}, Step(c), StateInv(d),
         KeepsNode(d), Turning(d)' <=> Turning(d)
  PROVE  StateInv(d)'
<1>1. /\ pc'[d] = pc[d] /\ op'[d] = op[d] /\ smp'[d] = smp[d]
      /\ powerState'[d] = powerState[d] /\ maxPhysOff'[d] = maxPhysOff[d]
      /\ affState'[d] = affState[d] /\ mailbox'[d] = mailbox[d]
  BY QuietStep DEF Quiet, KeepsNode, BaseInv
<1>2. NodeState(d) /\ SleepState(d) /\ Stashed(d) /\ MailboxInv(d) /\ SmpInv(d)
  BY DEF StateInv
<1>3. (Awake(d)' <=> Awake(d)) /\ (Rising(d)' <=> Rising(d)) /\ (Acted(d)' <=> Acted(d))
  BY <1>1 DEF Awake, Rising, Acted
<1>4. NodeState(d)'
  BY <1>1, <1>2, <1>3 DEF NodeState
<1>5. SleepState(d)'
  BY <1>1, <1>2, <1>3 DEF SleepState
<1>6. Stashed(d)'
  <2>1. CASE pc[d] \in {"level0", "level1"} /\ op[d].end = 1
    <3>1. ClusterOf[d] \in Cluster /\ op[d].target = d /\ lock[ClusterOf[d]] = d
      BY <2>1, TopologyAssumption
         DEF TopologyAssumption, BaseInv, TypeInv, TypeOK, Op, Kind, CallInv, LockInv, Holding1, InFirmware,
             Leaving, Finish, Before, Asleep
    <3>2. refCount'[ClusterOf[d]] = refCount[ClusterOf[d]]
      BY <3>1, CountStep
    <3>. QED BY <1>1, <1>2, <3>2 DEF Stashed
  <2>2. CASE ~ (pc[d] \in {"level0", "level1"} /\ op[d].end = 1)
    BY <1>1, <1>2, <2>2 DEF Stashed
  <2>. QED BY <2>1, <2>2
<1>7. MailboxInv(d)'
  BY <1>1, <1>2, <1>3 DEF MailboxInv
<1>8. SmpInv(d)'
  BY <1>1, <1>2, <1>3 DEF SmpInv
<1>. QED BY <1>4, <1>5, <1>6, <1>7, <1>8 DEF StateInv

(* A CPU whose lock another CPU holds for CPU_ON, and which is off, sleeps *)
(* or has just come out of reset.                                          *)
LEMMA TargetSleeps ==
  ASSUME BaseInv, NEW c \in CPU, NEW d \in CPU \ {c}, StateInv(d), affState[d] = "OFF",
         op[c].kind = "on", op[c].target = d, pc[c] \in Holding0
  PROVE  /\ ~ Awake(d)
         /\ \/ pc[d] \in Asleep
            \/ pc[d] = "lock0" /\ op[d].kind = "on_finish" /\ Turning(d)
<1>t. CallInv(d) /\ LockInv(c) /\ LockInv(d) /\ pc[d] \in PC /\ op[d].kind \in Kind /\ NodeState(d)
  BY DEF BaseInv, TypeInv, TypeOK, Op, StateInv
<1>1. lock[d] = c
  BY <1>t DEF LockInv
<1>2. ~ Awake(d)
  BY <1>t DEF NodeState
<1>3. pc[d] \notin Holding0
  BY <1>1, <1>2, <1>t DEF LockInv, CallInv, Awake, Leaving, Finish, Kind, Holding0, InFirmware, Asleep
<1>4. pc[d] \in Asleep \cup {"lock0", "panic"}
  BY <1>2, <1>3, <1>t DEF Awake, PC, Holding0, Asleep
<1>5. CASE pc[d] = "panic"
  BY <1>2, <1>5, <1>t DEF CallInv, NodeState, Rising, Finish
<1>6. CASE pc[d] = "lock0"
  BY <1>2, <1>6, <1>t DEF CallInv, NodeState, Rising, Awake, Finish, Leaving, Kind, Before, Asleep
<1>. QED BY <1>2, <1>4, <1>5, <1>6

LEMMA TargetState ==
  ASSUME BaseInv, NEW c \in CPU, NEW d \in CPU \ {c}, Step(c), StateInv(d),
         TurnsOn(c, d) \/ Commits(c, d)
  PROVE  StateInv(d)'
<1>1. /\ pc'[d] = pc[d] /\ op'[d] = op[d] /\ smp'[d] = smp[d]
      /\ powerState'[d] = powerState[d] /\ maxPhysOff'[d] = maxPhysOff[d]
  BY QuietStep DEF Quiet, BaseInv
<1>2. NodeState(d) /\ SleepState(d) /\ Stashed(d) /\ MailboxInv(d) /\ SmpInv(d)
  BY DEF StateInv
<1>3. /\ TypeOK /\ LockInv(c) /\ CallInv(c) /\ CallInv(d) /\ None \notin CPU /\ CPU \cap Cluster = {}
  BY TopologyAssumption DEF BaseInv, TypeInv, TopologyAssumption
<1>4. (Awake(d)' <=> Awake(d)) /\ (Rising(d)' <=> Rising(d)) /\ (Acted(d)' <=> Acted(d))
  BY <1>1 DEF Awake, Rising, Acted
<1>5. CASE TurnsOn(c, d)
  <2>1. /\ pc[c] = "locked" /\ op[c].kind = "on" /\ op[c].target = d /\ lock[d] = c
        /\ affState[d] = "OFF" /\ affState' = affState
    BY <1>3, <1>5 DEF TurnsOn, OnHandlers, TypeOK, Op, AffState, LockInv, Holding0, InFirmware, data
  <2>2. /\ mailbox'[d] = "on" /\ Turning(d)'
    BY <1>3, <1>5, <2>1 DEF TurnsOn, OnHandlers, TypeOK, Op, Turning, Goto
  <2>3. ~ Awake(d) /\ pc[d] \in Asleep
    BY <1>3, <2>1, TargetSleeps DEF Holding0, InFirmware, Turning
  <2>4. op[d].kind = "none" /\ ~ Rising(d)
    BY <1>3, <2>3 DEF CallInv, Rising, Finish
  <2>. QED
    BY <1>1, <1>2, <1>4, <2>1, <2>2, <2>3, <2>4
       DEF StateInv, NodeState, SleepState, Stashed, MailboxInv, SmpInv, Asleep, Leaving, Finish
<1>6. CASE Commits(c, d)
  <2>1. /\ pc[c] = "commit" /\ op[c].kind = "on" /\ op[c].target = d /\ op[c].rc = "success" /\ lock[d] = c
        /\ pc'[c] = "unlock1" /\ lock' = lock
    BY <1>3, <1>6 DEF Commits, CommitOnPending, TypeOK, LockInv, Holding0, InFirmware, Goto
  <2>2. Turning(d) /\ ~ Turning(d)' /\ affState[d] = "OFF"
    BY <1>2, <2>1 DEF Turning, NodeState
  <2>3. affState'[d] = "ON_PENDING" /\ mailbox' = mailbox
    BY <1>3, <1>6 DEF Commits, CommitOnPending, StateMgmt, TypeOK, plat
  <2>4. ~ Awake(d) /\ (pc[d] \in Asleep \/ (pc[d] = "lock0" /\ op[d].kind = "on_finish"))
    BY <2>1, <2>2, TargetSleeps DEF Holding0, InFirmware
  <2>5. CASE pc[d] \in Asleep
    <3>1. op[d].kind = "none" /\ ~ Rising(d)
      BY <1>3, <2>5 DEF CallInv, Rising, Finish
    <3>. QED
      BY <1>1, <1>2, <1>4, <2>2, <2>3, <2>4, <2>5, <3>1
         DEF StateInv, NodeState, SleepState, Stashed, MailboxInv, SmpInv, Asleep, Leaving, Finish
  <2>6. CASE pc[d] = "lock0" /\ op[d].kind = "on_finish"
    <3>1. ~ Acted(d)
      BY <2>6 DEF Acted
    <3>. QED
      BY <1>1, <1>2, <1>4, <2>2, <2>3, <2>4, <2>6, <3>1
         DEF StateInv, NodeState, SleepState, Stashed, MailboxInv, SmpInv, Asleep, Leaving, Finish
  <2>. QED BY <2>4, <2>5, <2>6
<1>. QED BY <1>5, <1>6

(* Nothing but another CPU's CPU_ON makes c start or stop Turning.         *)
LEMMA SelfTurning ==
  ASSUME BaseInv, NEW c \in CPU, Step(c), NodeState(c)
  PROVE  Turning(c)' <=> Turning(c)
<1>t. TypeOK /\ CallInv(c) /\ LockInv(c)
  BY DEF BaseInv, TypeInv
<1>1. ~ TurnsOn(c, c)
  BY <1>t DEF TurnsOn, OnHandlers, NodeState, Awake, TypeOK, Op
<1>2. ~ Commits(c, c)
  BY <1>t DEF Commits, CommitOnPending, NodeState, Awake, Turning, LockInv, Holding0, InFirmware
<1>. QED BY <1>1, <1>2, TurningStep

StatePre(c) ==
    /\ TypeOK /\ CallInv(c)
    /\ NodeState(c) /\ SleepState(c) /\ Stashed(c) /\ MailboxInv(c) /\ SmpInv(c)
    /\ Turning(c)' <=> Turning(c)

(* A call or a wake-up begins.                                             *)
LEMMA BeginState ==
  ASSUME NEW c \in CPU, StatePre(c), "odd" \notin SuspendEntrypoints,
         CpuOn(c) \/ CpuOff(c) \/ CpuSuspend(c) \/ PowerUp(c) \/ PowerDown(c)
  PROVE  StateInv(c)'
<1>t. TypeOK /\ CallInv(c) /\ NodeState(c) /\ SleepState(c) /\ Stashed(c) /\ MailboxInv(c) /\ SmpInv(c)
  BY DEF StatePre
<1>u. Turning(c)' <=> Turning(c)
  BY DEF StatePre
<1>1. CASE CpuOn(c) \/ CpuOff(c) \/ CpuSuspend(c)
  <2>1. /\ pc[c] = "ns" /\ pc'[c] = "lock0"
        /\ op'[c].kind \in {"on", "off", "suspend"} /\ op'[c].rc = "success"
        /\ op'[c].kind = "suspend" => op'[c].ep = "aligned"
        /\ UNCHANGED <<lock, affState, refCount, powerState, maxPhysOff, mailbox, smp>>
    <3>. USE <1>t DEF Smc, Call, Goto, TypeOK, data, percpu, plat
    <3>1. CASE CpuOn(c) BY <3>1 DEF CpuOn
    <3>2. CASE CpuOff(c) BY <3>2 DEF CpuOff
    <3>3. CASE CpuSuspend(c)
      BY <3>3, ArgumentAssumption DEF CpuSuspend, ArgumentAssumption
    <3>. QED BY <1>1, <3>1, <3>2, <3>3
  <2>2. op[c].kind = "none"
    BY <2>1, <1>t DEF CallInv
  <2>3. Awake(c) /\ Awake(c)' /\ ~ Rising(c)'
    BY <2>1 DEF Awake, Rising, Leaving, Before, Finish
  <2>4. ~ Acted(c)'
    BY <2>1 DEF Acted
  <2>5. NodeState(c)' BY <2>1, <2>3, <1>t, <1>u DEF NodeState, Before, Asleep
  <2>6. SleepState(c)' BY <2>1, <2>2, <2>3, <1>t DEF SleepState, Before, Asleep
  <2>7. Stashed(c)' BY <2>1, <1>t DEF Stashed
  <2>8. MailboxInv(c)' BY <2>1, <2>3, <2>4, <1>t, <1>u DEF MailboxInv, Asleep, Finish
  <2>9. SmpInv(c)' BY <2>1, <2>3, <1>t DEF SmpInv
  <2>. QED BY <2>5, <2>6, <2>7, <2>8, <2>9 DEF StateInv
<1>2. CASE PowerUp(c)
  <2>1. /\ pc[c] = "off" /\ pc'[c] = "lock0" /\ mailbox[c] # None
        /\ op'[c].kind = (IF mailbox[c] = "on" THEN "on_finish" ELSE "suspend_finish")
        /\ op'[c].end = (IF powerState[c] = INVALID THEN 1 ELSE powerState[c])
        /\ UNCHANGED <<lock, affState, refCount, powerState, maxPhysOff, mailbox, smp>>
    BY <1>2, <1>t DEF PowerUp, Call, Goto, TypeOK, data, percpu, plat, MaxAfflvl
  <2>2. op[c].kind = "none" /\ affState[c] \in {"OFF", "ON_PENDING", "SUSPEND"}
    BY <2>1, <1>t DEF CallInv, NodeState, Asleep, TypeOK, AffState
  <2>3. ~ Awake(c)' /\ Rising(c)'
    BY <2>1 DEF Awake, Rising, Leaving, Before, Finish
  <2>4. ~ Acted(c)'
    BY <2>1 DEF Acted
  <2>5. NodeState(c)' BY <2>1, <2>2, <2>3, <1>t, <1>u DEF NodeState, MailboxInv, Leaving, Before, Asleep
  <2>6. SleepState(c)' BY <2>1, <2>2, <2>3, <1>t DEF SleepState, MailboxInv, Before, Asleep
  <2>7. Stashed(c)' BY <2>1, <1>t DEF Stashed
  <2>8. MailboxInv(c)' BY <2>1, <2>3, <2>4, <1>t, <1>u DEF MailboxInv, Asleep, Finish
  <2>9. SmpInv(c)' BY <2>3, <2>4 DEF SmpInv
  <2>. QED BY <2>5, <2>6, <2>7, <2>8, <2>9 DEF StateInv
<1>3. CASE PowerDown(c)
  <2>1. /\ pc[c] = "wfi" /\ pc'[c] = "off" /\ op[c].kind = "none"
        /\ UNCHANGED <<lock, affState, refCount, powerState, maxPhysOff, mailbox, smp, op>>
    BY <1>3, <1>t DEF PowerDown, Goto, TypeOK, data, percpu, plat, CallInv, Asleep
  <2>2. ~ Awake(c)' /\ ~ Rising(c)'
    BY <2>1 DEF Awake, Rising, Leaving, Finish
  <2>5. NodeState(c)' BY <2>1, <2>2, <1>t, <1>u DEF NodeState, Before, Asleep
  <2>6. SleepState(c)' BY <2>1, <1>t DEF SleepState, Asleep
  <2>7. Stashed(c)' BY <2>1, <1>t DEF Stashed
  <2>8. MailboxInv(c)' BY <2>1, <2>2, <1>t, <1>u DEF MailboxInv, Asleep, Finish
  <2>9. SmpInv(c)' BY <2>2 DEF SmpInv
  <2>. QED BY <2>5, <2>6, <2>7, <2>8, <2>9 DEF StateInv
<1>. QED BY <1>1, <1>2, <1>3

(* The steps in which a CPU only takes or releases locks, or refuses or    *)
(* commits a CPU_ON of another CPU, or panics.                             *)
LEMMA PassState ==
  ASSUME NEW c \in CPU, StatePre(c),
         \/ AcquireCpu(c) \/ AcquireCluster(c) \/ ReleaseCluster(c) \/ ReleaseCpu(c)
         \/ RestorePanic(c)
  PROVE  StateInv(c)'
<1>t. TypeOK /\ CallInv(c) /\ NodeState(c) /\ SleepState(c) /\ Stashed(c) /\ MailboxInv(c) /\ SmpInv(c)
  BY DEF StatePre
<1>u. Turning(c)' <=> Turning(c)
  BY DEF StatePre
<1>f. UNCHANGED <<affState, refCount, powerState, maxPhysOff, mailbox, smp>>
  BY DEF AcquireCpu, AcquireCluster, ReleaseCluster, ReleaseCpu, RestorePanic, data, percpu, plat
<1>1. CASE AcquireCpu(c) \/ AcquireCluster(c)
  <2>1. /\ pc[c] \in {"lock0", "lock1"} /\ pc'[c] \in {"lock1", "locked"} /\ op' = op
    BY <1>1, <1>t DEF AcquireCpu, AcquireCluster, Goto, TypeOK
  <2>2. (Awake(c)' <=> Awake(c)) /\ (Rising(c)' <=> Rising(c)) /\ ~ Acted(c) /\ ~ Acted(c)'
    BY <2>1 DEF Awake, Rising, Acted, Before
  <2>3. pc[c] = "lock0" /\ op[c].kind = "on_finish" => ~ Turning(c)
    <3>. SUFFICES ASSUME pc[c] = "lock0", op[c].kind = "on_finish" PROVE lock[c] \notin CPU
      BY DEF Turning
    <3>. QED BY <1>1, <1>t, TopologyAssumption
             DEF AcquireCpu, AcquireCluster, CallInv, Finish, TopologyAssumption
  <2>5. NodeState(c)' BY <2>1, <2>2, <2>3, <1>f, <1>t, <1>u DEF NodeState, Before, Asleep
  <2>6. SleepState(c)' BY <2>1, <2>2, <1>f, <1>t DEF SleepState, Before, Asleep
  <2>7. Stashed(c)' BY <2>1, <1>f, <1>t DEF Stashed
  <2>8. MailboxInv(c)' BY <2>1, <2>2, <1>f, <1>t, <1>u DEF MailboxInv, Asleep
  <2>9. SmpInv(c)' BY <2>1, <2>2, <1>f, <1>t DEF SmpInv
  <2>. QED BY <2>5, <2>6, <2>7, <2>8, <2>9 DEF StateInv
<1>2. CASE ReleaseCluster(c)
  <2>1. /\ pc[c] = "unlock1" /\ pc'[c] = "unlock0" /\ op' = op
    BY <1>2, <1>t DEF ReleaseCluster, Goto, TypeOK
  <2>2. (Awake(c)' <=> Awake(c)) /\ (Rising(c)' <=> Rising(c)) /\ Acted(c) /\ Acted(c)'
    BY <2>1 DEF Awake, Rising, Acted, Before
  <2>5. NodeState(c)' BY <2>1, <2>2, <1>f, <1>t, <1>u DEF NodeState, Before, Asleep
  <2>6. SleepState(c)' BY <2>1, <2>2, <1>f, <1>t DEF SleepState, Before, Asleep
  <2>7. Stashed(c)' BY <2>1, <1>f, <1>t DEF Stashed
  <2>8. MailboxInv(c)' BY <2>1, <2>2, <1>f, <1>t, <1>u DEF MailboxInv, Asleep
  <2>9. SmpInv(c)' BY <2>1, <2>2, <1>f, <1>t DEF SmpInv
  <2>. QED BY <2>5, <2>6, <2>7, <2>8, <2>9 DEF StateInv
<1>3. CASE ReleaseCpu(c)
  <2>1. /\ pc[c] = "unlock0" /\ op'[c] = NoOp
        /\ pc'[c] = (IF op[c].kind \in Leaving /\ op[c].rc = "success" THEN "wfi" ELSE "ns")
    BY <1>3, <1>t DEF ReleaseCpu, Goto, TypeOK, Leaving
  <2>2. /\ op[c].kind \in Kind \ {"none"} /\ op'[c].kind = "none" /\ Acted(c)
        /\ affState[c] \in AffState
    BY <2>1, <1>t DEF TypeOK, Op, CallInv, Asleep, NoOp, Acted
  <2>3. (Awake(c) <=> op[c].kind \notin Leaving) /\ ~ Rising(c) /\ ~ Rising(c)'
    BY <2>1, <2>2 DEF Awake, Rising, Kind, Leaving, Finish, Before
  <2>4. /\ pc'[c] = (IF op[c].kind \in Leaving THEN "wfi" ELSE "ns")
        /\ Awake(c)' <=> Awake(c)
    BY <2>1, <2>2, <2>3, <1>t DEF NodeState, Leaving, Awake, Finish, Before
  <2>5. NodeState(c)' BY <2>1, <2>2, <2>3, <2>4, <1>f, <1>t, <1>u DEF NodeState, Leaving, Before, Asleep
  <2>6. SleepState(c)'
    BY <2>1, <2>2, <2>3, <2>4, <1>f, <1>t DEF SleepState, NodeState, Leaving, Before, Asleep, NoOp
  <2>7. Stashed(c)' BY <2>1, <2>2, <2>4, <1>f, <1>t DEF Stashed, Leaving
  <2>8. MailboxInv(c)'
    <3>1. op[c].kind \in Leaving => ~ Turning(c)'
      <4>. SUFFICES ASSUME op[c].kind \in Leaving PROVE lock'[c] \notin CPU
        BY DEF Turning
      <4>. QED BY <1>3, <1>t, TopologyAssumption
               DEF ReleaseCpu, CallInv, TypeOK, Node, TopologyAssumption
    <3>2. op[c].kind = "suspend" => powerState[c] \in 0..1 /\ INVALID \notin 0..1
      BY <2>1, <1>t DEF SleepState, NodeState, Before, Asleep, TypeOK, Op, INVALID
    <3>3. CASE op[c].kind = "off"
      BY <2>1, <2>2, <2>3, <2>4, <3>1, <3>3, <1>f, <1>t DEF MailboxInv, NodeState, Leaving, Before, Finish
    <3>4. CASE op[c].kind = "suspend"
      BY <2>1, <2>2, <2>3, <2>4, <3>2, <3>4, <1>f, <1>t DEF MailboxInv, NodeState, Leaving, Before, Finish
    <3>5. CASE op[c].kind \notin Leaving
      BY <2>1, <2>2, <2>3, <2>4, <3>5, <1>f, <1>t DEF MailboxInv, Asleep, Finish
    <3>. QED BY <3>3, <3>4, <3>5 DEF Leaving
  <2>9. SmpInv(c)' BY <2>3, <2>4, <1>f, <1>t DEF SmpInv
  <2>. QED BY <2>5, <2>6, <2>7, <2>8, <2>9 DEF StateInv
<1>4. CASE RestorePanic(c)
  <2>1. /\ pc[c] = "level1" /\ pc'[c] = "panic" /\ op' = op /\ op[c].kind = "suspend_finish"
    BY <1>4, <1>t DEF RestorePanic, Goto, TypeOK, Label
  <2>2. ~ Awake(c)' /\ ~ Awake(c) /\ Rising(c)' /\ Rising(c) /\ ~ Acted(c)'
    BY <2>1 DEF Awake, Rising, Acted, Before, Finish, Leaving
  <2>5. NodeState(c)' BY <2>1, <2>2, <1>f, <1>t, <1>u DEF NodeState, Before, Asleep
  <2>6. SleepState(c)' BY <2>1, <2>2, <1>f, <1>t DEF SleepState, Before, Asleep
  <2>7. Stashed(c)' BY <2>1, <1>f, <1>t DEF Stashed
  <2>8. MailboxInv(c)' BY <2>1, <2>2, <1>f, <1>t, <1>u DEF MailboxInv, Asleep
  <2>9. SmpInv(c)' BY <2>2 DEF SmpInv
  <2>. QED BY <2>5, <2>6, <2>7, <2>8, <2>9 DEF StateInv
<1>. QED BY <1>1, <1>2, <1>3, <1>4

(* A CPU that carries out CPU_ON stays on itself.                          *)
LEMMA OnState ==
  ASSUME NEW c \in CPU, StatePre(c), LockInv(c), OnHandlers(c) \/ CommitOnPending(c)
  PROVE  StateInv(c)'
<1>t. TypeOK /\ CallInv(c) /\ NodeState(c) /\ SleepState(c) /\ Stashed(c) /\ MailboxInv(c) /\ SmpInv(c)
  BY DEF StatePre
<1>u. Turning(c)' <=> Turning(c)
  BY DEF StatePre
<1>1. op[c].kind = "on" /\ Awake(c) /\ affState[c] = "ON" /\ mailbox[c] = None /\ ~ Turning(c)
  BY <1>t DEF OnHandlers, CommitOnPending, Awake, NodeState, MailboxInv
<1>2. /\ op'[c].kind = "on" /\ op'[c].end = op[c].end /\ pc'[c] \in {"commit", "unlock1"}
      /\ affState'[c] = "ON" /\ mailbox'[c] = None
      /\ UNCHANGED <<powerState, maxPhysOff, smp>>
  <2>1. CASE OnHandlers(c)
    BY <1>1, <1>t, <2>1 DEF OnHandlers, TypeOK, Op, Goto, data, percpu
  <2>2. CASE CommitOnPending(c)
    <3>1. op[c].rc = "success" => op[c].target # c
      BY <1>1, <2>2 DEF CommitOnPending, Turning, LockInv, Holding0, InFirmware
    <3>. QED
      BY <1>1, <1>t, <2>2, <3>1 DEF CommitOnPending, StateMgmt, TypeOK, Goto, data, percpu, plat
  <2>. QED BY <2>1, <2>2
<1>3. Awake(c)' /\ ~ Rising(c)'
  BY <1>2 DEF Awake, Rising, Finish
<1>5. NodeState(c)' BY <1>1, <1>2, <1>3, <1>u DEF NodeState, Leaving, Asleep
<1>6. SleepState(c)' BY <1>1, <1>2, <1>3, <1>t DEF SleepState, Asleep
<1>7. Stashed(c)' BY <1>1, <1>2, <1>t DEF Stashed
<1>8. MailboxInv(c)' BY <1>2, <1>3 DEF MailboxInv, Asleep, Finish
<1>9. SmpInv(c)' BY <1>1, <1>2, <1>t DEF SmpInv
<1>. QED BY <1>5, <1>6, <1>7, <1>8, <1>9 DEF StateInv

(* The way down.                                                           *)
LEMMA LeaveState ==
  ASSUME NEW c \in CPU, StatePre(c), LockInv(c),
         LeaveOn(c) \/ (StashMaxPhysOff(c) /\ pc[c] = "stash") \/ ClearMaxPhysOff(c)
  PROVE  StateInv(c)'
<1>t. TypeOK /\ CallInv(c) /\ NodeState(c) /\ SleepState(c) /\ Stashed(c) /\ MailboxInv(c) /\ SmpInv(c)
  BY DEF StatePre
<1>u. Turning(c)' <=> Turning(c)
  BY DEF StatePre
<1>1. op[c].kind \in Leaving
  BY <1>t DEF LeaveOn, StashMaxPhysOff, ClearMaxPhysOff, CallInv, Leaving, Finish, Before, Asleep, TypeOK, Op, Kind
<1>2. op' = op /\ UNCHANGED <<powerState, mailbox, smp>> /\ ~ Awake(c)' /\ ~ Rising(c) /\ ~ Rising(c)'
  BY <1>1, <1>t
     DEF LeaveOn, StashMaxPhysOff, ClearMaxPhysOff, percpu, plat, Goto, Awake, Rising, Leaving, Finish, Before,
         TypeOK, Label
<1>3. CASE LeaveOn(c)
  <2>1. /\ pc[c] = "locked" /\ pc'[c] = "stash" /\ maxPhysOff' = maxPhysOff
        /\ affState'[c] = IF op[c].kind = "off" THEN "OFF" ELSE "SUSPEND"
    BY <1>3, <1>t DEF LeaveOn, StateMgmt, Goto, TypeOK, percpu
  <2>2. Awake(c) /\ ~ Acted(c) /\ ~ Acted(c)'
    BY <2>1, <1>1 DEF Awake, Before, Acted
  <2>5. NodeState(c)' BY <2>1, <2>2, <1>1, <1>2, <1>t, <1>u DEF NodeState, Leaving, Finish, Asleep
  <2>6. SleepState(c)' BY <2>1, <1>1, <1>2, <1>t DEF SleepState, Leaving, Finish, Before, Asleep
  <2>7. Stashed(c)' BY <2>1, <1>1, <1>2, <1>t DEF Stashed, Leaving
  <2>8. MailboxInv(c)' BY <2>1, <2>2, <1>1, <1>2, <1>t DEF MailboxInv, Leaving, Finish, Asleep
  <2>9. SmpInv(c)' BY <1>2 DEF SmpInv
  <2>. QED BY <2>5, <2>6, <2>7, <2>8, <2>9 DEF StateInv
<1>4. CASE StashMaxPhysOff(c)
  <2>1. /\ pc[c] = "stash" /\ pc'[c] = "level0"
        /\ affState' = affState /\ refCount' = refCount
        /\ maxPhysOff'[c] = FindMaxPhysOff(c, op[c].end)
    BY <1>4, <1>t DEF StashMaxPhysOff, Goto, TypeOK, data, Label, LeaveOn, ClearMaxPhysOff
  <2>2. maxPhysOff'[c] = IF op[c].end = 1 /\ refCount[ClusterOf[c]] = 0 THEN 1 ELSE 0
    BY <2>1, <1>1, <1>t DEF FindMaxPhysOff, PhysOff, NodeState, Leaving, Before
  <2>3. op[c].kind = "suspend" => ~ Acted(c) /\ ~ Acted(c)'
    BY <2>1, <1>2 DEF Acted
  <2>5. NodeState(c)' BY <2>1, <1>1, <1>2, <1>t, <1>u DEF NodeState, Leaving, Finish, Before, Asleep
  <2>6. SleepState(c)' BY <2>1, <1>1, <1>2, <1>t DEF SleepState, Leaving, Finish, Before, Asleep
  <2>7. Stashed(c)' BY <2>1, <2>2, <1>1, <1>2 DEF Stashed, Leaving
  <2>8. MailboxInv(c)' BY <2>1, <2>3, <1>1, <1>2, <1>t DEF MailboxInv, Leaving, Finish, Asleep
  <2>9. SmpInv(c)' BY <1>2 DEF SmpInv
  <2>. QED BY <2>5, <2>6, <2>7, <2>8, <2>9 DEF StateInv
<1>5. CASE ClearMaxPhysOff(c)
  <2>1. /\ pc[c] = "clear" /\ pc'[c] \in {"unlock0", "unlock1"}
        /\ affState' = affState /\ maxPhysOff'[c] = INVALID
    BY <1>5, <1>t DEF ClearMaxPhysOff, Goto, TypeOK, data
  <2>2. Acted(c) /\ Acted(c)'
    BY <2>1 DEF Acted
  <2>5. NodeState(c)' BY <2>1, <1>1, <1>2, <1>t, <1>u DEF NodeState, Leaving, Finish, Before, Asleep
  <2>6. SleepState(c)' BY <2>1, <1>1, <1>2, <1>t DEF SleepState, Leaving, Finish, Before, Asleep
  <2>7. Stashed(c)' BY <2>1, <1>1, <1>2 DEF Stashed, Leaving
  <2>8. MailboxInv(c)' BY <2>1, <2>2, <1>1, <1>2, <1>t DEF MailboxInv, Leaving, Finish, Asleep
  <2>9. SmpInv(c)' BY <1>2 DEF SmpInv
  <2>. QED BY <2>5, <2>6, <2>7, <2>8, <2>9 DEF StateInv
<1>. QED BY <1>3, <1>4, <1>5

LEMMA OffState ==
  ASSUME NEW c \in CPU, StatePre(c), NEW level \in 0..1, OffHandler(c, level)
  PROVE  StateInv(c)'
<1>t. TypeOK /\ CallInv(c) /\ NodeState(c) /\ SleepState(c) /\ Stashed(c) /\ MailboxInv(c) /\ SmpInv(c)
  BY DEF StatePre
<1>u. Turning(c)' <=> Turning(c)
  BY DEF StatePre
<1>1. /\ op[c].kind = "off" /\ op' = op /\ pc[c] \in {"level0", "level1"} /\ pc'[c] \in {"level1", "clear"}
      /\ UNCHANGED <<affState, refCount, powerState, maxPhysOff, mailbox>>
  BY <1>t, OffEffect DEF OffDoes, Label, TypeOK
<1>2. ~ Awake(c)' /\ ~ Rising(c) /\ ~ Rising(c)'
  BY <1>1 DEF Awake, Rising, Leaving, Finish, Before
<1>5. NodeState(c)' BY <1>1, <1>2, <1>t, <1>u DEF NodeState, Leaving, Before, Asleep
<1>6. SleepState(c)' BY <1>1, <1>2, <1>t DEF SleepState, Before, Asleep
<1>7. Stashed(c)' BY <1>1, <1>t DEF Stashed
<1>8. MailboxInv(c)' BY <1>1, <1>2, <1>t DEF MailboxInv, Asleep, Finish
<1>9. SmpInv(c)' BY <1>2 DEF SmpInv
<1>. QED BY <1>5, <1>6, <1>7, <1>8, <1>9 DEF StateInv

LEMMA SuspendState ==
  ASSUME NEW c \in CPU, StatePre(c), NEW level \in 0..1, SuspendHandler(c, level)
  PROVE  StateInv(c)'
<1>t. TypeOK /\ CallInv(c) /\ NodeState(c) /\ SleepState(c) /\ Stashed(c) /\ MailboxInv(c) /\ SmpInv(c)
  BY DEF StatePre
<1>u. Turning(c)' <=> Turning(c)
  BY DEF StatePre
<1>0. SuspendDoes(c, level)
  BY <1>t, SuspendEffect
<1>1. op[c].kind = "suspend" /\ op[c].ep = "aligned" /\ pc[c] = Label(level) /\ op[c].end \in 0..1
  BY <1>0, <1>t DEF SuspendDoes, NodeState, TypeOK, Op
<1>2. /\ op' = op /\ UNCHANGED <<affState, refCount, maxPhysOff>>
      /\ powerState'[c] = IF level = 0 THEN op[c].end ELSE powerState[c]
      /\ pc'[c] = IF level < op[c].end THEN Label(level + 1) ELSE "clear"
      /\ mailbox'[c] = IF DoPlatActions(c, level) THEN "suspend" ELSE mailbox[c]
  BY <1>0, <1>1, <1>t DEF SuspendDoes, TypeOK
<1>3. /\ affState[c] = "SUSPEND"
      /\ maxPhysOff[c] = IF op[c].end = 1 /\ refCount[ClusterOf[c]] = 0 THEN 1 ELSE 0
      /\ level = 1 => op[c].end = 1 /\ powerState[c] = 1
  BY <1>1, <1>t DEF Label, NodeState, Stashed, SleepState, CallInv, Before, Asleep
<1>4. DoPlatActions(c, level) <=> level = maxPhysOff[c]
  BY <1>3 DEF DoPlatActions, PhysOff
<1>a. ~ Awake(c)' /\ ~ Rising(c)'
  <2>1. pc'[c] \in {"level1", "clear"}
    BY <1>2 DEF Label
  <2>. QED BY <2>1, <1>1, <1>2 DEF Awake, Rising, Leaving, Finish, Before
<1>b. CASE level = 0
  <2>1. pc[c] = "level0" /\ pc'[c] = (IF op[c].end = 1 THEN "level1" ELSE "clear") /\ ~ Acted(c)
    BY <1>b, <1>1, <1>2 DEF Label, Acted
  <2>2. Acted(c)' <=> maxPhysOff[c] = 0
    BY <2>1, <1>1, <1>2, <1>3 DEF Acted
  <2>5. NodeState(c)' BY <2>1, <1>1, <1>2, <1>3, <1>a, <1>t, <1>u DEF NodeState, Leaving, Before, Asleep
  <2>6. SleepState(c)' BY <2>1, <1>b, <1>1, <1>2 DEF SleepState, Before, Asleep
  <2>7. Stashed(c)' BY <2>1, <1>1, <1>2, <1>3 DEF Stashed
  <2>8. MailboxInv(c)'
    BY <2>1, <2>2, <1>b, <1>1, <1>2, <1>4, <1>a, <1>t DEF MailboxInv, Asleep, Finish
  <2>9. SmpInv(c)' BY <1>a DEF SmpInv
  <2>. QED BY <2>5, <2>6, <2>7, <2>8, <2>9 DEF StateInv
<1>c. CASE level = 1
  <2>1. pc[c] = "level1" /\ pc'[c] = "clear" /\ Acted(c)' /\ (Acted(c) <=> maxPhysOff[c] = 0)
    BY <1>c, <1>1, <1>2, <1>3 DEF Label, Acted
  <2>5. NodeState(c)' BY <2>1, <1>1, <1>2, <1>3, <1>a, <1>t, <1>u DEF NodeState, Leaving, Before, Asleep
  <2>6. SleepState(c)' BY <2>1, <1>c, <1>1, <1>2, <1>3 DEF SleepState, Before, Asleep
  <2>7. Stashed(c)' BY <2>1, <1>1, <1>2, <1>3 DEF Stashed
  <2>8. MailboxInv(c)'
    BY <2>1, <1>c, <1>1, <1>2, <1>3, <1>4, <1>a, <1>t DEF MailboxInv, Asleep, Finish
  <2>9. SmpInv(c)' BY <1>a DEF SmpInv
  <2>. QED BY <2>5, <2>6, <2>7, <2>8, <2>9 DEF StateInv
<1>. QED BY <1>b, <1>c

(* The way up.                                                             *)
LEMMA StashUpState ==
  ASSUME NEW c \in CPU, StatePre(c), StashMaxPhysOff(c), pc[c] = "locked"
  PROVE  StateInv(c)'
<1>t. TypeOK /\ CallInv(c) /\ NodeState(c) /\ SleepState(c) /\ Stashed(c) /\ MailboxInv(c) /\ SmpInv(c)
  BY DEF StatePre
<1>u. Turning(c)' <=> Turning(c)
  BY DEF StatePre
<1>1. /\ op[c].kind \in Finish /\ op' = op
      /\ pc'[c] = IF op[c].end = 1 THEN "level1" ELSE "level0"
      /\ UNCHANGED <<affState, refCount, powerState, mailbox, smp>>
      /\ maxPhysOff'[c] = FindMaxPhysOff(c, op[c].end)
  BY <1>t DEF StashMaxPhysOff, Goto, TypeOK, Op, data, plat, Label
<1>2. ~ Awake(c) /\ Rising(c) /\ ~ Awake(c)' /\ Rising(c)'
  BY <1>1 DEF Awake, Rising, Finish, Leaving
<1>3. affState[c] # "ON" /\ op[c].end \in 0..1
  BY <1>1, <1>2, <1>t DEF NodeState, Finish, TypeOK, Op
<1>4. maxPhysOff'[c] = IF op[c].end = 1 /\ refCount[ClusterOf[c]] = 0 THEN 1 ELSE 0
  BY <1>1, <1>3 DEF FindMaxPhysOff, PhysOff
<1>5. ~ Acted(c)'
  BY <1>1, <1>4 DEF Acted, Finish
<1>a. NodeState(c)' BY <1>1, <1>2, <1>t, <1>u DEF NodeState, Leaving, Finish, Before, Asleep
<1>b. SleepState(c)' BY <1>1, <1>2, <1>t DEF SleepState, Finish, Before, Asleep
<1>c. Stashed(c)' BY <1>1, <1>3, <1>4 DEF Stashed, Finish
<1>d. MailboxInv(c)' BY <1>1, <1>2, <1>5 DEF MailboxInv, Asleep, Finish
<1>e. SmpInv(c)' BY <1>2, <1>5 DEF SmpInv
<1>. QED BY <1>a, <1>b, <1>c, <1>d, <1>e DEF StateInv

LEMMA FinisherState ==
  ASSUME NEW c \in CPU, StatePre(c), NEW level \in 0..1,
         OnFinisher(c, level) \/ SuspendFinisher(c, level)
  PROVE  StateInv(c)'
<1>t. TypeOK /\ CallInv(c) /\ NodeState(c) /\ SleepState(c) /\ Stashed(c) /\ MailboxInv(c) /\ SmpInv(c)
  BY DEF StatePre
<1>u. Turning(c)' <=> Turning(c)
  BY DEF StatePre
<1>0. FinisherDoes(c, level)
  BY <1>t, FinisherEffect
<1>1. /\ op[c].kind \in Finish /\ op' = op /\ UNCHANGED <<affState, refCount, maxPhysOff>>
      /\ pc[c] = (IF level = 0 THEN "level0" ELSE "level1")
      /\ pc'[c] = IF level = 0 THEN "commit" ELSE "level0"
      /\ powerState'[c] = IF level = 0 /\ op[c].kind = "suspend_finish" THEN INVALID ELSE powerState[c]
  BY <1>0, <1>t DEF FinisherDoes, TypeOK, Label
<1>2. /\ smp'[c] = (IF DoPlatActions(c, level) THEN TRUE ELSE smp[c])
      /\ mailbox'[c] = IF DoPlatActions(c, level) THEN None ELSE mailbox[c]
  BY <1>0, <1>t DEF FinisherDoes, TypeOK
<1>3. ~ Awake(c) /\ Rising(c) /\ ~ Awake(c)' /\ Rising(c)'
  BY <1>1 DEF Awake, Rising, Finish, Leaving
<1>4. /\ affState[c] # "ON" /\ op[c].end \in 0..1 /\ (level = 1 => op[c].end = 1)
      /\ maxPhysOff[c] = IF op[c].end = 1 /\ refCount[ClusterOf[c]] = 0 THEN 1 ELSE 0
  BY <1>1, <1>3, <1>t DEF NodeState, Finish, TypeOK, Op, Stashed, CallInv
<1>5. DoPlatActions(c, level) <=> level = maxPhysOff[c]
  BY <1>4 DEF DoPlatActions, PhysOff
<1>6. (Acted(c)' <=> level = 0 \/ maxPhysOff[c] = 1) /\ (Acted(c) <=> level = 0 /\ maxPhysOff[c] = 1)
  BY <1>1, <1>4 DEF Acted, Finish
<1>a. NodeState(c)' BY <1>1, <1>3, <1>t, <1>u DEF NodeState, Leaving, Finish, Before, Asleep
<1>b. SleepState(c)' BY <1>1, <1>3, <1>t DEF SleepState, Finish, Before, Asleep
<1>c. Stashed(c)' BY <1>1, <1>4 DEF Stashed, Finish
<1>d. MailboxInv(c)' BY <1>1, <1>2, <1>3, <1>4, <1>5, <1>6, <1>t DEF MailboxInv, Asleep, Finish
<1>e. SmpInv(c)' BY <1>2, <1>3, <1>4, <1>5, <1>6, <1>t DEF SmpInv
<1>. QED BY <1>a, <1>b, <1>c, <1>d, <1>e DEF StateInv

LEMMA CommitState ==
  ASSUME NEW c \in CPU, StatePre(c), CommitOn(c)
  PROVE  StateInv(c)'
<1>t. TypeOK /\ CallInv(c) /\ NodeState(c) /\ SleepState(c) /\ Stashed(c) /\ MailboxInv(c) /\ SmpInv(c)
  BY DEF StatePre
<1>u. Turning(c)' <=> Turning(c)
  BY DEF StatePre
<1>1. /\ op[c].kind \in Finish /\ op' = op /\ pc[c] = "commit" /\ pc'[c] \in {"unlock0", "unlock1"}
      /\ affState'[c] = "ON" /\ maxPhysOff'[c] = INVALID
      /\ UNCHANGED <<lock, powerState, mailbox, smp>>
  BY <1>t DEF CommitOn, StateMgmt, Goto, TypeOK, plat
<1>2. ~ Awake(c) /\ Rising(c) /\ Acted(c) /\ Awake(c)' /\ ~ Rising(c)'
  BY <1>1 DEF Awake, Rising, Acted, Finish, Leaving
<1>3. ~ Turning(c)
  BY <1>1, <1>2, <1>t DEF NodeState, Finish
<1>a. NodeState(c)' BY <1>1, <1>2, <1>3, <1>t, <1>u DEF NodeState, Leaving, Finish, Before, Asleep
<1>b. SleepState(c)' BY <1>1, <1>2, <1>t DEF SleepState, Finish, Before, Asleep
<1>c. Stashed(c)' BY <1>1 DEF Stashed, Finish
<1>d. MailboxInv(c)' BY <1>1, <1>2, <1>t DEF MailboxInv, Asleep, Finish
<1>e. SmpInv(c)' BY <1>1, <1>2, <1>t DEF SmpInv
<1>. QED BY <1>a, <1>b, <1>c, <1>d, <1>e DEF StateInv

SleepInv == BaseInv /\ \A c \in CPU : StateInv(c)

LEMMA StateStep ==
  ASSUME SleepInv, "odd" \notin SuspendEntrypoints, NEW c \in CPU, Step(c)
  PROVE  SleepInv'
<1>t. BaseInv /\ StateInv(c) /\ LockInv(c)
  BY DEF SleepInv, BaseInv
<1>1. BaseInv'
  BY <1>t, TypeStep, LockStep DEF BaseInv
<1>2. ASSUME NEW d \in CPU \ {c} PROVE StateInv(d)'
  <2>1. StateInv(d)
    BY DEF SleepInv
  <2>2. CASE TurnsOn(c, d) \/ Commits(c, d)
    BY <1>t, <2>1, <2>2, TargetState
  <2>3. CASE ~ TurnsOn(c, d) /\ ~ Commits(c, d)
    BY <1>t, <2>1, <2>3, OtherNode, TurningStep, OtherState
  <2>. QED BY <2>2, <2>3
<1>3. StatePre(c)
  <2>1. NodeState(c)
    BY <1>t DEF StateInv
  <2>. QED BY <1>t, <2>1, SelfTurning DEF StatePre, StateInv, BaseInv, TypeInv
<1>4. StashMaxPhysOff(c) => pc[c] \in {"stash", "locked"}
  BY DEF StashMaxPhysOff
<1>5. StateInv(c)'
  BY <1>t, <1>3, <1>4, BeginState, PassState, OnState, LeaveState, OffState, SuspendState, StashUpState,
     FinisherState, CommitState DEF Step, Locking, Working, Power
<1>. QED BY <1>1, <1>2, <1>5 DEF SleepInv

LEMMA InitSleep == Init => SleepInv
<1>. SUFFICES ASSUME Init PROVE SleepInv
  OBVIOUS
<1>1. TypeInv
  BY TopologyAssumption
     DEF TopologyAssumption, Init, TypeInv, TypeOK, CallInv, AffState, PC, InFirmware, Node, Finish,
         Leaving, Before, Asleep, NoOp, Op, Kind, Result, COUNT_RANGE
<1>2. \A c \in CPU : LockInv(c)
  BY DEF Init, LockInv, Holding0, Holding1, InFirmware
<1>3. ASSUME NEW c \in CPU PROVE StateInv(c)
  <2>1. /\ op[c].kind = "none" /\ lock[c] = None /\ powerState[c] = INVALID /\ maxPhysOff[c] = INVALID
        /\ mailbox[c] = None /\ pc[c] \in {"ns", "off"} /\ (pc[c] = "ns" <=> affState[c] = "ON")
        /\ affState[c] \in {"ON", "OFF"} /\ (pc[c] = "ns" => smp[c])
    BY DEF Init, NoOp, Node
  <2>2. ~ Turning(c) /\ ~ Rising(c) /\ (Awake(c) <=> pc[c] = "ns")
    BY <2>1, TopologyAssumption DEF TopologyAssumption, Turning, Awake, Rising, Finish, Leaving
  <2>3. NodeState(c) BY <2>1, <2>2 DEF NodeState, Asleep, Leaving
  <2>4. SleepState(c) BY <2>1, <2>2 DEF SleepState
  <2>5. Stashed(c) BY <2>1 DEF Stashed
  <2>6. MailboxInv(c) BY <2>1, <2>2 DEF MailboxInv, Asleep, Finish
  <2>7. SmpInv(c) BY <2>1, <2>2 DEF SmpInv
  <2>. QED BY <2>3, <2>4, <2>5, <2>6, <2>7 DEF StateInv
<1>. QED BY <1>1, <1>2, <1>3 DEF SleepInv, BaseInv

LEMMA SleepStutter == SleepInv /\ UNCHANGED vars => SleepInv'
<1>. SUFFICES ASSUME SleepInv, UNCHANGED vars PROVE SleepInv'
  OBVIOUS
<1>. USE DEF vars, data, percpu, plat
<1>1. BaseInv'
  BY DEF SleepInv, BaseInv, TypeInv, TypeOK, CallInv, LockInv
<1>2. ASSUME NEW c \in CPU PROVE StateInv(c)'
  <2>1. NodeState(c) /\ SleepState(c) /\ Stashed(c) /\ MailboxInv(c) /\ SmpInv(c)
    BY DEF SleepInv, StateInv
  <2>2. /\ (Awake(c)' <=> Awake(c)) /\ (Rising(c)' <=> Rising(c)) /\ (Acted(c)' <=> Acted(c))
        /\ Turning(c)' <=> Turning(c)
    BY DEF Awake, Rising, Acted, Turning
  <2>3. NodeState(c)' BY <2>1, <2>2 DEF NodeState
  <2>4. SleepState(c)' BY <2>1, <2>2 DEF SleepState
  <2>5. Stashed(c)' BY <2>1 DEF Stashed
  <2>6. MailboxInv(c)' BY <2>1, <2>2 DEF MailboxInv
  <2>7. SmpInv(c)' BY <2>1, <2>2 DEF SmpInv
  <2>. QED BY <2>3, <2>4, <2>5, <2>6, <2>7 DEF StateInv
<1>. QED BY <1>1, <1>2 DEF SleepInv

(* For every topology, as long as no CPU_SUSPEND is refused: a CPU that    *)
(* sleeps has the entry point and the level for its way back, and a CPU on *)
(* its way back is in the state that psci_afflvl0_on_finish and            *)
(* psci_afflvl0_suspend_finish assert.                                     *)
THEOREM WakeUpsMatch ==
  ASSUME "odd" \notin SuspendEntrypoints
  PROVE  Spec => []WakeMatchesSleep
<1>1. SleepInv /\ [Next]_vars => SleepInv'
  <2> SUFFICES ASSUME SleepInv, [Next]_vars PROVE SleepInv'
    OBVIOUS
  <2>1. ASSUME NEW c \in CPU, Step(c) PROVE SleepInv'
    BY <2>1, StateStep
  <2>. QED BY <2>1, SleepStutter DEF Next, Step, Stopped
<1>2. SleepInv => WakeMatchesSleep
  <2> SUFFICES ASSUME SleepInv, NEW c \in CPU
               PROVE  /\ pc[c] \in {"wfi", "off"} =>
                           /\ affState[c] = "ON_PENDING" => mailbox[c] = "on"
                           /\ affState[c] = "SUSPEND" => mailbox[c] = "suspend"
                      /\ op[c].kind = "on_finish" /\ pc[c] \in {"level0", "level1"} =>
                           affState[c] = "ON_PENDING" /\ op[c].end = MaxAfflvl
                      /\ op[c].kind = "suspend_finish" /\ pc[c] \in {"level0", "level1"} =>
                           affState[c] = "SUSPEND" /\ op[c].end = powerState[c]
                      /\ pc[c] \in {"level0", "level1"} => maxPhysOff[c] # INVALID
                      /\ pc[c] \in {"ns", "wfi", "off"} => maxPhysOff[c] = INVALID
    BY DEF WakeMatchesSleep
  <2>t. NodeState(c) /\ SleepState(c) /\ Stashed(c) /\ MailboxInv(c)
    BY DEF SleepInv, StateInv
  <2>1. op[c].kind \in Finish /\ pc[c] \in {"level0", "level1"} => Rising(c)
    BY DEF Rising, Awake, Finish, Leaving
  <2>. QED
    BY <2>t, <2>1 DEF NodeState, SleepState, Stashed, MailboxInv, Asleep, Finish, MaxAfflvl, INVALID
<1>. QED BY <1>1, <1>2, InitSleep, PTL DEF Spec

-----------------------------------------------------------------------------
(* The CPUs that keep a cluster on, and the steps that change who does.    *)
Users(k) == {c \in CPU : ClusterOf[c] = k /\ Counted(c)}

Drops(c) == LeaveOn(c) /\ op[c].end = 1
Joins(c) == CommitOn(c) /\ op[c].end = 1

LEMMA CountedOther ==
  ASSUME SleepInv, NEW c \in CPU, NEW d \in CPU \ {c}, Step(c)
  PROVE  Counted(d)' <=> Counted(d)
<1>1. op'[d] = op[d] /\ powerState'[d] = powerState[d] /\ pc'[d] = pc[d]
  BY QuietStep DEF SleepInv, BaseInv, Quiet
<1>2. CASE affState'[d] = affState[d]
  BY <1>1, <1>2 DEF Counted, SleepLevel
<1>3. CASE Commits(c, d)
  <2>1. Turning(d)
    BY <1>3 DEF Commits, CommitOnPending, Turning, SleepInv, BaseInv, LockInv, Holding0, InFirmware
  <2>2. affState[d] = "OFF" /\ affState'[d] = "ON_PENDING"
    BY <1>3, <2>1 DEF Commits, CommitOnPending, StateMgmt, SleepInv, BaseInv, TypeInv, TypeOK, StateInv, NodeState
  <2>. QED BY <2>2 DEF Counted
<1>4. CASE TurnsOn(c, d)
  BY <1>2, <1>4 DEF TurnsOn, OnHandlers, data
<1>. QED
  BY <1>2, <1>3, <1>4, OtherNode DEF SleepInv, KeepsNode

LEMMA CountedSelf ==
  ASSUME SleepInv, NEW c \in CPU, Step(c)
  PROVE  \/ Drops(c) /\ Counted(c) /\ ~ Counted(c)'
         \/ Joins(c) /\ ~ Counted(c) /\ Counted(c)'
         \/ ~ Drops(c) /\ ~ Joins(c) /\ (Counted(c)' <=> Counted(c))
<1>. DEFINE Same == ~ Drops(c) /\ ~ Joins(c) /\ (Counted(c)' <=> Counted(c))
            Goal == \/ Drops(c) /\ Counted(c) /\ ~ Counted(c)'
                    \/ Joins(c) /\ ~ Counted(c) /\ Counted(c)'
                    \/ Same
<1>t. /\ TypeOK /\ CallInv(c) /\ NodeState(c) /\ SleepState(c) /\ MailboxInv(c) /\ op[c].end \in 0..1
      /\ op[c].kind \in Kind
  BY DEF SleepInv, BaseInv, TypeInv, StateInv, TypeOK, Op
<1>1. CASE CpuOn(c) \/ CpuOff(c) \/ CpuSuspend(c)
  <2>1. affState[c] = "ON" /\ affState' = affState /\ pc[c] = "ns"
    BY <1>1, <1>t DEF CpuOn, CpuOff, CpuSuspend, Smc, data, NodeState, Awake
  <2>. QED BY <2>1 DEF Counted, Drops, Joins, LeaveOn, CommitOn
<1>2. CASE AcquireCpu(c) \/ AcquireCluster(c) \/ ReleaseCluster(c) \/ OnHandlers(c) \/ RestorePanic(c)
           \/ PowerDown(c) \/ StashMaxPhysOff(c) \/ ClearMaxPhysOff(c)
  <2>1. /\ affState' = affState /\ powerState' = powerState
        /\ op'[c].kind = op[c].kind /\ op'[c].end = op[c].end
    BY <1>2, <1>t DEF AcquireCpu, AcquireCluster, ReleaseCluster, OnHandlers, RestorePanic, PowerDown,
                      StashMaxPhysOff, ClearMaxPhysOff, data, percpu, TypeOK, Op
  <2>2. ~ Drops(c) /\ ~ Joins(c)
    BY <1>2, <1>t DEF AcquireCpu, AcquireCluster, ReleaseCluster, OnHandlers, RestorePanic, PowerDown,
                 StashMaxPhysOff, ClearMaxPhysOff, Drops, Joins, LeaveOn, CommitOn, Label, Finish
  <2>. QED BY <2>1, <2>2 DEF Counted, SleepLevel
<1>3. CASE CommitOnPending(c)
  <2>1. affState[c] = "ON" /\ Awake(c)
    BY <1>3, <1>t DEF CommitOnPending, NodeState, Awake
  <2>2. op[c].rc = "success" => op[c].target # c
    BY <1>3, <1>t, <2>1 DEF CommitOnPending, Turning, SleepInv, BaseInv, LockInv, Holding0, InFirmware, NodeState
  <2>3. affState'[c] = "ON"
    BY <1>3, <1>t, <2>1, <2>2 DEF CommitOnPending, StateMgmt, data, TypeOK
  <2>. QED BY <1>3, <2>1, <2>3 DEF Counted, Drops, Joins, LeaveOn, CommitOn, CommitOnPending, Finish
<1>4. CASE LeaveOn(c)
  <2>1. /\ Awake(c) /\ affState[c] = "ON" /\ op' = op
        /\ affState'[c] = IF op[c].kind = "off" THEN "OFF" ELSE "SUSPEND"
        /\ op[c].kind \in {"off", "suspend"}
    BY <1>4, <1>t DEF LeaveOn, StateMgmt, TypeOK, NodeState, Awake, Leaving, Before
  <2>2. op[c].kind = "off" => op[c].end = 1
    BY <1>t DEF CallInv
  <2>. QED BY <1>4, <1>t, <2>1, <2>2 DEF Counted, SleepLevel, Drops, Joins, LeaveOn, CommitOn
<1>5. CASE CommitOn(c)
  <2>1. Rising(c) /\ affState'[c] = "ON" /\ pc[c] = "commit" /\ op[c].kind \in Finish
    BY <1>5, <1>t DEF CommitOn, StateMgmt, TypeOK, Rising, Awake, Finish, Leaving
  <2>2. Counted(c) <=> op[c].end = 0
    BY <1>t, <2>1 DEF Counted, SleepLevel, NodeState, SleepState, Finish
  <2>. QED BY <1>5, <1>t, <2>1, <2>2 DEF Counted, Drops, Joins, LeaveOn, CommitOn
<1>6. ASSUME NEW level \in 0..1, OffHandler(c, level) PROVE Same
  BY <1>6, <1>t, OffEffect DEF OffDoes, Counted, SleepLevel, Drops, Joins, LeaveOn, CommitOn, Label
<1>7. ASSUME NEW level \in 0..1, SuspendHandler(c, level) PROVE Same
  <2>1. SuspendDoes(c, level) /\ op[c].ep = "aligned"
    BY <1>7, <1>t, SuspendEffect DEF NodeState, SuspendHandler
  <2>. QED BY <2>1, <1>t DEF SuspendDoes, Counted, SleepLevel, Drops, Joins, LeaveOn, CommitOn, Label
<1>8. ASSUME NEW level \in 0..1, OnFinisher(c, level) \/ SuspendFinisher(c, level) PROVE Same
  <2>1. FinisherDoes(c, level) BY <1>8, <1>t, FinisherEffect
  <2>2. op' = op /\ affState' = affState /\ (op[c].kind = "suspend_finish" \/ powerState' = powerState)
    BY <2>1 DEF FinisherDoes
  <2>. QED BY <2>1, <2>2 DEF FinisherDoes, Counted, SleepLevel, Drops, Joins, LeaveOn, CommitOn, Label
<1>9. CASE PowerUp(c)
  <2>1. /\ pc[c] = "off" /\ op[c].kind = "none" /\ mailbox[c] # None /\ affState' = affState
        /\ op'[c].kind = (IF mailbox[c] = "on" THEN "on_finish" ELSE "suspend_finish")
        /\ op'[c].end = (IF powerState[c] = INVALID THEN 1 ELSE powerState[c])
        /\ powerState' = powerState
    BY <1>9, <1>t DEF PowerUp, Call, TypeOK, data, percpu, MaxAfflvl, CallInv, Asleep
  <2>2. affState[c] = "SUSPEND" => mailbox[c] = "suspend" /\ powerState[c] # INVALID
    BY <2>1, <1>t DEF MailboxInv, Asleep
  <2>3. affState[c] # "ON"
    BY <2>1, <1>t DEF NodeState, Asleep
  <2>4. ~ Drops(c) /\ ~ Joins(c)
    BY <2>1 DEF Drops, Joins, LeaveOn, CommitOn, Finish
  <2>5. affState[c] = "SUSPEND" => SleepLevel(c)' = SleepLevel(c)
    <3>1. "suspend" # "on" OBVIOUS
    <3>. QED BY <2>1, <2>2, <3>1 DEF SleepLevel
  <2>. QED BY <2>1, <2>3, <2>4, <2>5 DEF Counted
<1>10. CASE ReleaseCpu(c)
  <2>1. /\ pc[c] = "unlock0" /\ affState' = affState /\ powerState' = powerState /\ op'[c].kind = "none"
    BY <1>10, <1>t DEF ReleaseCpu, data, percpu, NoOp, TypeOK
  <2>2. ~ Drops(c) /\ ~ Joins(c)
    BY <2>1 DEF Drops, Joins, LeaveOn, CommitOn
  <2>3. affState[c] = "SUSPEND" => op[c].kind = "suspend"
    BY <2>1, <1>t DEF NodeState, Kind, Awake, Leaving, Finish, CallInv, Before, Asleep
  <2>4. affState[c] = "SUSPEND" => SleepLevel(c)' = SleepLevel(c)
    BY <2>1, <2>3, <1>t DEF SleepLevel, SleepState, Before, Asleep
  <2>. QED BY <2>1, <2>2, <2>4 DEF Counted
<1>. QED
  BY <1>1, <1>2, <1>3, <1>4, <1>5, <1>6, <1>7, <1>8, <1>9, <1>10 DEF Step, Locking, Working, Power

(* The count follows: down with a CPU that drops out, up with one that     *)
(* joins, and otherwise not at all.                                        *)
LEMMA CountChange ==
  ASSUME BaseInv, NEW c \in CPU, NEW k \in Cluster, Step(c)
  PROVE  refCount'[k] =
           IF ClusterOf[c] = k /\ Drops(c) THEN (refCount[k] - 1) % COUNT_RANGE
           ELSE IF ClusterOf[c] = k /\ Joins(c) THEN (refCount[k] + 1) % COUNT_RANGE
           ELSE refCount[k]
<1>. DEFINE Same == ~ LeaveOn(c) /\ ~ CommitOn(c) /\ refCount'[k] = refCount[k]
<1>t. TypeOK /\ CallInv(c) /\ ClusterOf \in [CPU -> Cluster] /\ op[c].end \in 0..1
  BY TopologyAssumption DEF BaseInv, TypeInv, TopologyAssumption, TypeOK, Op
<1>1. CASE LeaveOn(c)
  <2>1. ~ Joins(c)
    BY <1>1 DEF LeaveOn, Joins, CommitOn
  <2>. QED
    BY <1>1, <1>t, <2>1 DEF LeaveOn, Drops, StateMgmt, CountAfter, TypeOK
<1>2. CASE CommitOn(c)
  <2>1. ~ Drops(c)
    BY <1>2 DEF LeaveOn, Drops, CommitOn
  <2>. QED
    BY <1>2, <1>t, <2>1 DEF CommitOn, Joins, StateMgmt, CountAfter, TypeOK
<1>3. CASE CpuOn(c) \/ CpuOff(c) \/ CpuSuspend(c)
  <2>. QED BY <1>3 DEF CpuOn, CpuOff, CpuSuspend, Smc, data, LeaveOn, CommitOn, Drops, Joins
<1>4. CASE AcquireCpu(c) \/ AcquireCluster(c) \/ ReleaseCluster(c) \/ ReleaseCpu(c)
           \/ PowerDown(c) \/ PowerUp(c) \/ RestorePanic(c) \/ ClearMaxPhysOff(c)
  BY <1>4 DEF AcquireCpu, AcquireCluster, ReleaseCluster, ReleaseCpu, PowerDown, PowerUp, RestorePanic,
              ClearMaxPhysOff, data, LeaveOn, CommitOn, Drops, Joins, Label
<1>5. CASE OnHandlers(c) \/ StashMaxPhysOff(c)
  BY <1>5 DEF OnHandlers, StashMaxPhysOff, data, LeaveOn, CommitOn, Drops, Joins, Finish
<1>6. CASE CommitOnPending(c)
  <2>1. refCount'[k] = refCount[k]
    BY <1>6, <1>t DEF CommitOnPending, StateMgmt, CountAfter, data, TypeOK
  <2>. QED BY <1>6, <2>1 DEF CommitOnPending, LeaveOn, CommitOn, Drops, Joins, Finish
<1>7. ASSUME NEW level \in 0..1, OffHandler(c, level) PROVE Same
  BY <1>7 DEF OffHandler, data, LeaveOn, CommitOn, Label
<1>8. ASSUME NEW level \in 0..1, SuspendHandler(c, level) PROVE Same
  BY <1>8 DEF SuspendHandler, data, LeaveOn, CommitOn, Label
<1>9. ASSUME NEW level \in 0..1, OnFinisher(c, level) \/ SuspendFinisher(c, level) PROVE Same
  BY <1>9 DEF OnFinisher, SuspendFinisher, data, LeaveOn, CommitOn, Label
<1>10. Same => ~ Drops(c) /\ ~ Joins(c)
  BY DEF Drops, Joins
<1>. QED
  BY <1>1, <1>2, <1>3, <1>4, <1>5, <1>6, <1>7, <1>8, <1>9, <1>10 DEF Step, Locking, Working, Power

CountInv(k) == refCount[k] = Cardinality(Users(k))

LEMMA UsersBounded ==
  ASSUME NEW k \in Cluster
  PROVE  /\ IsFiniteSet(Users(k)) /\ Cardinality(Users(k)) \in 0 .. COUNT_RANGE - 1
         /\ \A c \in Users(k) : Cardinality(Users(k)) > 0
         /\ \A c \in CPU \ Users(k) : Cardinality(Users(k)) + 1 \in 0 .. COUNT_RANGE - 1
<1>0. IsFiniteSet(CPU) /\ Cardinality(CPU) < COUNT_RANGE /\ COUNT_RANGE \in Nat /\ Users(k) \subseteq CPU
  BY TopologyAssumption DEF TopologyAssumption, COUNT_RANGE, Users
<1>1. IsFiniteSet(Users(k)) /\ Cardinality(Users(k)) <= Cardinality(CPU)
  BY <1>0, FS_Subset
<1>2. Cardinality(Users(k)) \in Nat /\ Cardinality(CPU) \in Nat
  BY <1>0, <1>1, FS_CardinalityType
<1>3. ASSUME NEW c \in Users(k) PROVE Cardinality(Users(k)) > 0
  BY <1>1, <1>2, <1>3, FS_EmptySet
<1>4. ASSUME NEW c \in CPU \ Users(k) PROVE Cardinality(Users(k)) + 1 <= Cardinality(CPU)
  <2>1. Cardinality(Users(k) \cup {c}) = Cardinality(Users(k)) + 1
    BY <1>1, <1>4, FS_AddElement
  <2>2. Users(k) \cup {c} \subseteq CPU
    BY <1>0, <1>4
  <2>. QED BY <1>0, <2>1, <2>2, FS_Subset
<1>. QED BY <1>0, <1>1, <1>2, <1>3, <1>4

LEMMA CountInvStep ==
  ASSUME SleepInv, NEW k \in Cluster, CountInv(k), NEW c \in CPU, Step(c)
  PROVE  CountInv(k)'
<1>0. BaseInv /\ COUNT_RANGE \in Nat \ {0} /\ refCount[k] = Cardinality(Users(k))
  BY DEF SleepInv, COUNT_RANGE, CountInv
<1>1. \A d \in CPU \ {c} : d \in Users(k)' <=> d \in Users(k)
  BY CountedOther DEF Users
<1>2. c \in Users(k)' <=> (ClusterOf[c] = k /\ Counted(c)')
  BY DEF Users
<1>3. c \in Users(k) <=> (ClusterOf[c] = k /\ Counted(c))
  BY DEF Users
<1>4. Users(k) \subseteq CPU /\ Users(k)' \subseteq CPU
  BY DEF Users
<1>5. CASE ClusterOf[c] = k /\ Drops(c)
  <2>1. Counted(c) /\ ~ Counted(c)'
    BY <1>5, CountedSelf DEF Drops, Joins, LeaveOn, CommitOn
  <2>2. c \in Users(k) /\ Users(k)' = Users(k) \ {c}
    BY <1>1, <1>2, <1>3, <1>4, <1>5, <2>1
  <2>3. Cardinality(Users(k)') = Cardinality(Users(k)) - 1
    BY <2>2, UsersBounded, FS_RemoveElement
  <2>4. refCount'[k] = (refCount[k] - 1) % COUNT_RANGE
    BY <1>0, <1>5, CountChange
  <2>. QED BY <1>0, <2>2, <2>3, <2>4, UsersBounded DEF CountInv
<1>6. CASE ClusterOf[c] = k /\ Joins(c)
  <2>0. ~ Drops(c)
    BY <1>6 DEF Drops, Joins, LeaveOn, CommitOn
  <2>1. ~ Counted(c) /\ Counted(c)'
    BY <1>6, <2>0, CountedSelf
  <2>2. c \notin Users(k) /\ Users(k)' = Users(k) \cup {c}
    BY <1>1, <1>2, <1>3, <1>4, <1>6, <2>1
  <2>3. Cardinality(Users(k)') = Cardinality(Users(k)) + 1
    BY <2>2, UsersBounded, FS_AddElement
  <2>4. refCount'[k] = (refCount[k] + 1) % COUNT_RANGE
    BY <1>0, <1>6, <2>0, CountChange
  <2>. QED BY <1>0, <2>2, <2>3, <2>4, UsersBounded DEF CountInv
<1>7. CASE ClusterOf[c] # k \/ (~ Drops(c) /\ ~ Joins(c))
  <2>1. Users(k)' = Users(k)
    BY <1>1, <1>2, <1>3, <1>4, <1>7, CountedSelf
  <2>2. refCount'[k] = refCount[k]
    BY <1>0, <1>7, CountChange
  <2>. QED BY <1>0, <2>1, <2>2 DEF CountInv
<1>. QED BY <1>5, <1>6, <1>7

-----------------------------------------------------------------------------
(* A CPU between a cluster's count and its coherency holds the cluster.    *)
LEMMA MovingHolds ==
  ASSUME BaseInv, NEW c \in CPU, Moving(c)
  PROVE  lock[ClusterOf[c]] = c
BY DEF BaseInv, TypeInv, CallInv, LockInv, Moving, Holding1, InFirmware, Leaving, Finish

(* What a step does to a cluster's coherency, seen from the CPU's cluster. *)
LEMMA CoherencyKeeps ==
  ASSUME BaseInv, NEW c \in CPU, NEW k \in Cluster, Step(c)
  PROVE  coherent'[k] = coherent[k] \/ (ClusterOf[c] = k /\ lock[k] = c)
<1>. DEFINE Goal == coherent'[k] = coherent[k] \/ (ClusterOf[c] = k /\ lock[k] = c)
<1>t. TypeOK /\ CallInv(c) /\ LockInv(c) /\ ClusterOf \in [CPU -> Cluster]
  BY TopologyAssumption DEF BaseInv, TypeInv, TopologyAssumption
<1>h. pc[c] = "level1" /\ op[c].kind \in Leaving \cup Finish => lock[ClusterOf[c]] = c
  BY <1>t DEF CallInv, LockInv, Holding1, InFirmware
<1>1. ASSUME NEW level \in 0..1, OffHandler(c, level) PROVE Goal
  BY <1>1, <1>t, <1>h, OffEffect DEF OffDoes, TypeOK, Label, Leaving
<1>2. ASSUME NEW level \in 0..1, SuspendHandler(c, level) PROVE Goal
  <2>1. SuspendDoes(c, level) BY <1>2, <1>t, SuspendEffect
  <2>. QED BY <2>1, <1>t, <1>h DEF SuspendDoes, TypeOK, Label, Leaving
<1>3. ASSUME NEW level \in 0..1, OnFinisher(c, level) \/ SuspendFinisher(c, level) PROVE Goal
  <2>1. FinisherDoes(c, level) BY <1>3, <1>t, FinisherEffect
  <2>2. pc[c] = Label(level) /\ op[c].kind \in Finish
    BY <2>1 DEF FinisherDoes
  <2>3. coherent' = coherent \/ (level = 1 /\ coherent' = [coherent EXCEPT ![ClusterOf[c]] = TRUE])
    BY <2>1 DEF FinisherDoes
  <2>. QED BY <2>2, <2>3, <1>t, <1>h DEF TypeOK, Label
<1>4. CASE coherent' = coherent
  BY <1>4
<1>5. \/ coherent' = coherent
      \/ \E level \in 0..1 : \/ OffHandler(c, level) \/ SuspendHandler(c, level)
                             \/ OnFinisher(c, level) \/ SuspendFinisher(c, level)
  BY DEF Step, Locking, Working, Power, CpuOn, CpuOff, CpuSuspend, Smc, AcquireCpu, AcquireCluster, OnHandlers,
         CommitOnPending, LeaveOn, ClearMaxPhysOff, StashMaxPhysOff, CommitOn, RestorePanic, ReleaseCluster,
         ReleaseCpu, PowerDown, PowerUp, plat
<1>. QED BY <1>1, <1>2, <1>3, <1>4, <1>5

(* The cluster that the CPU itself moves, with no other CPU in between.    *)
Alone(c) == IF Moving(c) THEN coherent[ClusterOf[c]]
            ELSE coherent[ClusterOf[c]] <=> refCount[ClusterOf[c]] # 0

LEMMA AloneStep ==
  ASSUME SleepInv, NEW c \in CPU, Step(c), Alone(c), CountInv(ClusterOf[c])
  PROVE  Alone(c)'
<1>. DEFINE k == ClusterOf[c]
<1>t. /\ TypeOK /\ CallInv(c) /\ NodeState(c) /\ Stashed(c) /\ LockInv(c) /\ op[c].end \in 0..1
      /\ op[c].kind \in Kind /\ ClusterOf \in [CPU -> Cluster]
  BY TopologyAssumption DEF SleepInv, BaseInv, TypeInv, StateInv, TypeOK, Op, TopologyAssumption
<1>k. k \in Cluster /\ coherent[k] \in BOOLEAN
  BY <1>t DEF TypeOK
<1>1. CASE Drops(c)
  <2>1. Counted(c)
    BY <1>1, CountedSelf DEF Drops, Joins, LeaveOn, CommitOn
  <2>2. refCount[k] # 0
    <3>1. c \in Users(k)
      BY <2>1 DEF Users
    <3>. QED BY <3>1, <1>k, UsersBounded DEF CountInv
  <2>3. ~ Moving(c) /\ coherent' = coherent
    BY <1>1 DEF Drops, LeaveOn, Moving, Leaving, Finish, plat
  <2>4. Moving(c)'
    BY <1>1, <1>t DEF Drops, LeaveOn, Moving, Leaving, Goto, TypeOK
  <2>. QED BY <2>2, <2>3, <2>4 DEF Alone
<1>2. CASE Joins(c)
  <2>1. ~ Counted(c) /\ ~ Drops(c)
    BY <1>2, CountedSelf DEF Drops, Joins, LeaveOn, CommitOn
  <2>2. refCount'[k] # 0
    <3>1. c \in CPU \ Users(k)
      BY <2>1 DEF Users
    <3>2. Cardinality(Users(k)) \in 0 .. COUNT_RANGE - 1 /\ Cardinality(Users(k)) + 1 \in 0 .. COUNT_RANGE - 1
      BY <3>1, <1>k, UsersBounded
    <3>3. refCount'[k] = (refCount[k] + 1) % COUNT_RANGE
      BY <1>2, <2>1, <1>k, CountChange DEF SleepInv
    <3>. QED BY <3>2, <3>3 DEF CountInv, COUNT_RANGE
  <2>3. Moving(c) /\ coherent' = coherent
    BY <1>2 DEF Joins, CommitOn, Moving, plat
  <2>4. ~ Moving(c)'
    BY <1>2, <1>t DEF Joins, CommitOn, Moving, Leaving, Finish, Goto, TypeOK
  <2>. QED BY <2>2, <2>3, <2>4 DEF Alone
<1>3. CASE ~ Drops(c) /\ ~ Joins(c)
  <2>0. refCount'[k] = refCount[k]
    BY <1>3, <1>k, CountChange DEF SleepInv
  <2>1. ASSUME NEW level \in 0..1, OffHandler(c, level) PROVE Alone(c)'
    <3>1. OffDoes(c, level) /\ op[c].kind = "off" /\ op[c].end = 1 /\ op' = op
      BY <2>1, <1>t, OffEffect DEF OffDoes, CallInv
    <3>2. /\ pc[c] = Label(level) /\ pc'[c] = (IF level = 0 THEN "level1" ELSE "clear")
      BY <3>1, <1>t DEF OffDoes, Label, TypeOK
    <3>c. coherent'[k] = IF level = 1 /\ DoPlatActions(c, level) THEN FALSE ELSE coherent[k]
      <4>1. coherent' = IF level = 1 /\ DoPlatActions(c, level)
                        THEN [coherent EXCEPT ![ClusterOf[c]] = FALSE] ELSE coherent
        BY <3>1 DEF OffDoes
      <4>. QED BY <4>1, <1>k, <1>t DEF TypeOK
    <3>3. Moving(c) /\ (Moving(c)' <=> level = 0)
      BY <3>1, <3>2 DEF Moving, Leaving, Finish, Label
    <3>4. level = 1 => (DoPlatActions(c, level) <=> refCount[k] = 0)
      BY <3>1, <3>2, <1>t DEF DoPlatActions, PhysOff, Stashed, Label
    <3>. QED BY <2>0, <3>2, <3>c, <3>3, <3>4 DEF Alone
  <2>2. ASSUME NEW level \in 0..1, SuspendHandler(c, level) PROVE Alone(c)'
    <3>1. SuspendDoes(c, level) /\ op[c].kind = "suspend" /\ op[c].ep = "aligned" /\ op' = op
      <4>1. SuspendDoes(c, level) BY <2>2, <1>t, SuspendEffect
      <4>. QED BY <4>1, <1>t DEF SuspendDoes, NodeState
    <3>2. /\ pc[c] = Label(level) /\ pc'[c] = (IF level = 0 /\ op[c].end = 1 THEN "level1" ELSE "clear")
          /\ level = 1 => op[c].end = 1
      BY <3>1, <1>t DEF SuspendDoes, Label, TypeOK, CallInv
    <3>c. coherent'[k] = IF level = 1 /\ DoPlatActions(c, level) THEN FALSE ELSE coherent[k]
      <4>1. coherent' = IF level = 1 /\ DoPlatActions(c, level)
                        THEN [coherent EXCEPT ![ClusterOf[c]] = FALSE] ELSE coherent
        BY <3>1 DEF SuspendDoes
      <4>. QED BY <4>1, <1>k, <1>t DEF TypeOK
    <3>3. (Moving(c) <=> op[c].end = 1) /\ (Moving(c)' <=> level = 0 /\ op[c].end = 1)
      BY <3>1, <3>2 DEF Moving, Leaving, Finish, Label
    <3>4. level = 1 => (DoPlatActions(c, level) <=> refCount[k] = 0)
      BY <3>1, <3>2, <1>t DEF DoPlatActions, PhysOff, Stashed, Label
    <3>. QED BY <2>0, <3>2, <3>c, <3>3, <3>4, <1>t DEF Alone
  <2>3. ASSUME NEW level \in 0..1, OnFinisher(c, level) \/ SuspendFinisher(c, level) PROVE Alone(c)'
    <3>1. FinisherDoes(c, level) /\ op[c].kind \in Finish /\ op' = op
      <4>1. FinisherDoes(c, level) BY <2>3, <1>t, FinisherEffect
      <4>. QED BY <4>1 DEF FinisherDoes
    <3>2. /\ pc[c] = Label(level) /\ pc'[c] = (IF level = 0 THEN "commit" ELSE "level0")
          /\ level = 1 => op[c].end = 1
      BY <3>1, <1>t DEF FinisherDoes, Label, TypeOK, CallInv
    <3>c. coherent'[k] = IF level = 1 /\ DoPlatActions(c, level) THEN TRUE ELSE coherent[k]
      <4>1. coherent' = IF level = 1 /\ DoPlatActions(c, level)
                        THEN [coherent EXCEPT ![ClusterOf[c]] = TRUE] ELSE coherent
        BY <3>1 DEF FinisherDoes
      <4>. QED BY <4>1, <1>k, <1>t DEF TypeOK
    <3>3. (Moving(c) <=> level = 0 /\ op[c].end = 1) /\ (Moving(c)' <=> op[c].end = 1)
      BY <3>1, <3>2 DEF Moving, Leaving, Finish, Label
    <3>4. level = 1 => (DoPlatActions(c, level) <=> refCount[k] = 0)
      BY <3>1, <3>2, <1>t DEF DoPlatActions, PhysOff, Stashed, Label
    <3>. QED BY <2>0, <3>2, <3>c, <3>3, <3>4, <1>t DEF Alone
  <2>4. ASSUME coherent' = coherent, Moving(c)' <=> Moving(c) PROVE Alone(c)'
    BY <2>0, <2>4 DEF Alone
  <2>. USE <1>3, <1>t DEF Moving, TypeOK, Goto, Op, Leaving, Finish
  <2>5. CASE CpuOn(c) \/ CpuOff(c) \/ CpuSuspend(c) \/ PowerUp(c)
    <3>1. coherent' = coherent /\ pc[c] \in {"ns", "off"} /\ pc'[c] = "lock0"
      BY <2>5 DEF CpuOn, CpuOff, CpuSuspend, Smc, PowerUp, plat
    <3>. QED BY <2>4, <3>1
  <2>6. CASE AcquireCpu(c) \/ AcquireCluster(c) \/ ReleaseCluster(c) \/ PowerDown(c) \/ RestorePanic(c)
    BY <2>4, <2>6 DEF AcquireCpu, AcquireCluster, ReleaseCluster, PowerDown, RestorePanic, Label, plat
  <2>7. CASE ReleaseCpu(c)
    BY <2>4, <2>7 DEF ReleaseCpu, NoOp, plat
  <2>8. CASE OnHandlers(c) \/ CommitOnPending(c)
    BY <2>4, <2>8 DEF OnHandlers, CommitOnPending, plat
  <2>9. CASE LeaveOn(c) \/ CommitOn(c)
    BY <2>4, <2>9 DEF LeaveOn, CommitOn, Drops, Joins, plat
  <2>10. CASE StashMaxPhysOff(c)
    <3>1. pc[c] = "stash" => op[c].kind \in Leaving
      BY DEF CallInv, Before, Asleep, Kind
    <3>. QED BY <2>4, <2>10, <3>1 DEF StashMaxPhysOff, Label, plat
  <2>11. CASE ClearMaxPhysOff(c)
    BY <2>4, <2>11 DEF ClearMaxPhysOff, plat
  <2>. QED
    BY <2>1, <2>2, <2>3, <2>5, <2>6, <2>7, <2>8, <2>9, <2>10, <2>11 DEF Step, Locking, Working, Power
<1>. QED BY <1>1, <1>2, <1>3

LEMMA CohStep ==
  ASSUME SleepInv, NEW k \in Cluster, CountInv(k), CohInv(k), NEW c \in CPU, Step(c)
  PROVE  CohInv(k)'
<1>t. BaseInv /\ TypeOK
  BY DEF SleepInv, BaseInv, TypeInv
<1>1. ASSUME NEW d \in CPU \ {c} PROVE Moving(d)' <=> Moving(d)
  BY <1>t, QuietStep DEF BaseInv, Quiet, Moving
<1>2. CASE \E d \in CPU \ {c} : ClusterOf[d] = k /\ Moving(d)
  <2>1. PICK d \in CPU \ {c} : ClusterOf[d] = k /\ Moving(d)
    BY <1>2
  <2>2. lock[k] # c
    BY <2>1, <1>t, MovingHolds
  <2>3. coherent'[k] = coherent[k]
    BY <2>2, <1>t, CoherencyKeeps
  <2>4. Moving(d)'
    BY <2>1, <1>1
  <2>. QED BY <2>1, <2>3, <2>4 DEF CohInv
<1>3. CASE ~ (\E d \in CPU \ {c} : ClusterOf[d] = k /\ Moving(d)) /\ ClusterOf[c] = k
  <2>1. Alone(c)
    BY <1>3 DEF CohInv, Alone
  <2>2. Alone(c)'
    BY <1>3, <2>1, AloneStep
  <2>3. ~ (\E d \in CPU \ {c} : ClusterOf[d] = k /\ Moving(d)')
    BY <1>1, <1>3
  <2>. QED BY <1>3, <2>2, <2>3 DEF CohInv, Alone
<1>4. CASE ~ (\E d \in CPU \ {c} : ClusterOf[d] = k /\ Moving(d)) /\ ClusterOf[c] # k
  <2>1. coherent'[k] = coherent[k] /\ refCount'[k] = refCount[k]
    BY <1>4, <1>t, CoherencyKeeps, CountChange
  <2>2. ~ (\E d \in CPU : ClusterOf[d] = k /\ Moving(d)) /\ ~ (\E d \in CPU : ClusterOf[d] = k /\ Moving(d)')
    BY <1>1, <1>4
  <2>. QED BY <2>1, <2>2 DEF CohInv
<1>. QED BY <1>2, <1>3, <1>4

SafeInv == SleepInv /\ \A k \in Cluster : CountInv(k) /\ CohInv(k)

(* The inductive invariant that the three theorems below rest on.          *)
THEOREM Safe ==
  ASSUME "odd" \notin SuspendEntrypoints
  PROVE  Spec => []SafeInv
<1>1. Init => SafeInv
  <2> SUFFICES ASSUME Init, NEW k \in Cluster PROVE CountInv(k) /\ CohInv(k)
    BY InitSleep DEF SafeInv
  <2>1. \A c \in CPU : ~ Moving(c)
    BY DEF Init, Moving, NoOp
  <2>2. \A c \in CPU : Counted(c) <=> c = Primary
    BY DEF Init, Counted
  <2>3. CASE k = ClusterOf[Primary]
    <3>1. Users(k) = {Primary}
      BY <2>2, <2>3, TopologyAssumption DEF Users, TopologyAssumption
    <3>2. Cardinality(Users(k)) = 1
      BY <3>1, FS_Singleton
    <3>3. refCount[k] = 1 /\ coherent[k]
      BY <2>3 DEF Init
    <3>. QED BY <2>1, <3>2, <3>3 DEF CountInv, CohInv
  <2>4. CASE k # ClusterOf[Primary]
    <3>1. Users(k) = {}
      BY <2>2, <2>4 DEF Users
    <3>2. Cardinality(Users(k)) = 0
      BY <3>1, FS_EmptySet
    <3>3. refCount[k] = 0 /\ ~ coherent[k]
      BY <2>4 DEF Init
    <3>. QED BY <2>1, <3>2, <3>3 DEF CountInv, CohInv
  <2>. QED BY <2>3, <2>4
<1>2. SafeInv /\ [Next]_vars => SafeInv'
  <2> SUFFICES ASSUME SafeInv, [Next]_vars PROVE SafeInv'
    OBVIOUS
  <2>1. ASSUME NEW c \in CPU, Step(c) PROVE SafeInv'
    BY <2>1, StateStep, CountInvStep, CohStep DEF SafeInv
  <2>2. CASE UNCHANGED vars
    <3>1. SleepInv'
      BY <2>2, SleepStutter DEF SafeInv
    <3>2. ASSUME NEW k \in Cluster PROVE CountInv(k)' /\ CohInv(k)'
      <4>1. Users(k)' = Users(k) /\ \A c \in CPU : Moving(c)' <=> Moving(c)
        BY <2>2 DEF vars, Users, Counted, SleepLevel, Moving
      <4>2. CountInv(k) /\ CohInv(k) /\ refCount' = refCount /\ coherent' = coherent
        BY <2>2 DEF vars, SafeInv
      <4>. QED BY <4>1, <4>2 DEF CountInv, CohInv
    <3>. QED BY <3>1, <3>2 DEF SafeInv
  <2>. QED BY <2>1, <2>2 DEF Next, Step, Stopped
<1>. QED BY <1>1, <1>2, PTL DEF Spec

(* For every number of CPUs and clusters: a cluster's reference count is   *)
(* the number of its CPUs that keep it on, at every step.                  *)
THEOREM CountsExact ==
  ASSUME "odd" \notin SuspendEntrypoints
  PROVE  Spec => []RefCountExact
<1>1. SafeInv => RefCountExact
  BY DEF SafeInv, CountInv, Users, RefCountExact
<1>. QED BY <1>1, Safe, PTL

(* For every number of CPUs and clusters: the coherency of a cluster that  *)
(* nobody is working on is on as long as some CPU counts on it.            *)
THEOREM CoherencyFollows ==
  ASSUME "odd" \notin SuspendEntrypoints
  PROVE  Spec => []CoherencyFollowsCount
<1>1. SafeInv => CoherencyFollowsCount
  <2> SUFFICES ASSUME SafeInv, NEW k \in Cluster, lock[k] = None PROVE coherent[k] <=> refCount[k] # 0
    BY DEF CoherencyFollowsCount
  <2>1. ~ (\E c \in CPU : ClusterOf[c] = k /\ Moving(c))
    BY MovingHolds, TopologyAssumption DEF SafeInv, SleepInv, TopologyAssumption
  <2>. QED BY <2>1 DEF SafeInv, CohInv
<1>. QED BY <1>1, Safe, PTL

(* For every number of CPUs and clusters: no CPU runs the OS outside its   *)
(* own or its cluster's coherency.                                         *)
THEOREM RunningCoherently ==
  ASSUME "odd" \notin SuspendEntrypoints
  PROVE  Spec => []RunningIsCoherent
<1>1. SafeInv => RunningIsCoherent
  <2> SUFFICES ASSUME SafeInv, NEW c \in CPU, pc[c] = "ns" PROVE smp[c] /\ coherent[ClusterOf[c]]
    BY DEF RunningIsCoherent
  <2>1. Awake(c) /\ affState[c] = "ON" /\ smp[c]
    BY DEF SafeInv, SleepInv, StateInv, NodeState, SmpInv, Awake
  <2>2. ClusterOf[c] \in Cluster /\ c \in Users(ClusterOf[c])
    BY <2>1, TopologyAssumption DEF TopologyAssumption, Users, Counted
  <2>3. refCount[ClusterOf[c]] # 0
    BY <2>2, UsersBounded DEF SafeInv, CountInv
  <2>. QED BY <2>1, <2>2, <2>3 DEF SafeInv, CohInv
<1>. QED BY <1>1, Safe, PTL

-----------------------------------------------------------------------------
(* What CPU_ON found, or made of, the state of its target, from the        *)
(* handlers to the release of the target's lock.                           *)
AnswerInv(c) ==
    op[c].kind = "on" /\ pc[c] \in {"commit", "unlock1", "unlock0"} =>
      affState[op[c].target] \in
        CASE op[c].rc = "already_on" -> {"ON", "SUSPEND"}
          [] op[c].rc = "on_pending" -> {"ON_PENDING"}
          [] op[c].rc = "invalid_params" -> {"OFF"}
          [] op[c].rc = "success" -> IF pc[c] = "commit" THEN {"OFF"} ELSE {"ON_PENDING"}

(* The state of a node changes in steps of the CPU that holds its lock.    *)
LEMMA HolderChanges ==
  ASSUME BaseInv, NEW c \in CPU, NEW d \in CPU, lock[d] # c, Step(c)
  PROVE  affState'[d] = affState[d]
<1>t. TypeOK /\ CallInv(c) /\ LockInv(c)
  BY DEF BaseInv, TypeInv
<1>1. CASE CommitOnPending(c)
  <2>1. op[c].target \in CPU /\ lock[op[c].target] = c
    BY <1>1, <1>t DEF CommitOnPending, CallInv, LockInv, Holding0, InFirmware
  <2>. QED BY <1>1, <2>1, <1>t DEF CommitOnPending, StateMgmt, TypeOK, data
<1>2. CASE LeaveOn(c) \/ CommitOn(c)
  <2>1. lock[c] = c
    BY <1>2, <1>t DEF LeaveOn, CommitOn, CallInv, LockInv, Holding0, InFirmware, Leaving
  <2>. QED BY <1>2, <2>1, <1>t DEF LeaveOn, CommitOn, StateMgmt, TypeOK
<1>3. CASE d = c
  <2>. USE DEF Goto, data, percpu, plat
  <2>1. CASE CpuOn(c) \/ CpuOff(c) \/ CpuSuspend(c)
    BY <2>1 DEF CpuOn, CpuOff, CpuSuspend, Smc
  <2>2. CASE AcquireCpu(c) \/ AcquireCluster(c) \/ ReleaseCluster(c) \/ ReleaseCpu(c)
    BY <2>2 DEF AcquireCpu, AcquireCluster, ReleaseCluster, ReleaseCpu
  <2>3. CASE OnHandlers(c)
    BY <2>3 DEF OnHandlers
  <2>4. ASSUME NEW level \in 0..1, OffHandler(c, level) PROVE affState' = affState
    BY <2>4, <1>t, OffEffect DEF OffDoes
  <2>5. ASSUME NEW level \in 0..1, SuspendHandler(c, level) PROVE affState' = affState
    BY <2>5, <1>t, SuspendEffect DEF SuspendDoes
  <2>6. ASSUME NEW level \in 0..1, OnFinisher(c, level) \/ SuspendFinisher(c, level)
        PROVE  affState' = affState
    BY <2>6, <1>t, FinisherEffect DEF FinisherDoes
  <2>7. CASE StashMaxPhysOff(c) \/ ClearMaxPhysOff(c) \/ PowerDown(c) \/ PowerUp(c) \/ RestorePanic(c)
    BY <2>7 DEF StashMaxPhysOff, ClearMaxPhysOff, PowerDown, PowerUp, RestorePanic
  <2>. QED
    BY <1>1, <1>2, <1>3, <2>1, <2>2, <2>3, <2>4, <2>5, <2>6, <2>7 DEF Step, Locking, Working, Power
<1>4. CASE d # c
  <2>1. KeepsNode(d) \/ Commits(c, d) \/ TurnsOn(c, d)
    BY <1>4, OtherNode
  <2>. QED BY <1>1, <2>1, <1>t DEF KeepsNode, Commits, TurnsOn, OnHandlers, data
<1>. QED BY <1>3, <1>4

LEMMA AnswerStep ==
  ASSUME BaseInv, NEW c \in CPU, Step(c), NEW d \in CPU, AnswerInv(d)
  PROVE  AnswerInv(d)'
<1>t. TypeOK /\ CallInv(c) /\ CallInv(d) /\ LockInv(d) /\ Quiet(c)
  BY QuietStep DEF BaseInv, TypeInv
<1>1. CASE d # c
  <2>1. pc'[d] = pc[d] /\ op'[d] = op[d]
    BY <1>1, <1>t DEF Quiet
  <2>2. ASSUME op[d].kind = "on", pc[d] \in {"commit", "unlock1", "unlock0"}
        PROVE  affState'[op[d].target] = affState[op[d].target]
    <3>1. op[d].target \in CPU /\ lock[op[d].target] # c
      BY <2>2, <1>1, <1>t DEF CallInv, LockInv, Holding0, InFirmware
    <3>. QED BY <3>1, HolderChanges
  <2>. QED BY <2>1, <2>2 DEF AnswerInv
<1>2. CASE d = c
  <2>. USE DEF AnswerInv, Goto, TypeOK, Op, data, percpu, plat
  <2>1. CASE CpuOn(c) \/ CpuOff(c) \/ CpuSuspend(c)
    BY <2>1, <1>2, <1>t DEF CpuOn, CpuOff, CpuSuspend, Smc, Call
  <2>2. CASE AcquireCpu(c) \/ AcquireCluster(c) \/ ReleaseCluster(c) \/ ReleaseCpu(c)
    BY <2>2, <1>2, <1>t DEF AcquireCpu, AcquireCluster, ReleaseCluster, ReleaseCpu, NoOp
  <2>3. CASE OnHandlers(c)
    BY <2>3, <1>2, <1>t DEF OnHandlers, CallInv, AffState
  <2>4. CASE CommitOnPending(c)
    <3>1. op[c].target \in CPU /\ op' = op /\ pc'[c] = "unlock1" /\ pc[c] = "commit"
      BY <2>4, <1>t DEF CommitOnPending, CallInv
    <3>2. affState'[op[c].target] = IF op[c].rc = "success" THEN "ON_PENDING"
                                    ELSE affState[op[c].target]
      BY <2>4, <3>1, <1>t DEF CommitOnPending, StateMgmt
    <3>3. op[c].rc \in {"success", "already_on", "on_pending", "invalid_params"}
      BY <1>t DEF Result
    <3>. QED BY <3>1, <3>2, <3>3, <1>2
  <2>5. CASE LeaveOn(c) \/ StashMaxPhysOff(c) \/ ClearMaxPhysOff(c) \/ PowerDown(c)
             \/ PowerUp(c) \/ RestorePanic(c) \/ CommitOn(c)
    BY <2>5, <1>2, <1>t DEF LeaveOn, StashMaxPhysOff, ClearMaxPhysOff, PowerDown, PowerUp,
                            RestorePanic, CommitOn, Call, Finish, Leaving, CallInv, Before
  <2>6. ASSUME NEW level \in 0..1, OffHandler(c, level) PROVE AnswerInv(c)'
    <3>1. OffDoes(c, level) BY <2>6, <1>t, OffEffect
    <3>. QED BY <3>1, <1>t DEF OffDoes
  <2>7. ASSUME NEW level \in 0..1, SuspendHandler(c, level) PROVE AnswerInv(c)'
    <3>1. SuspendDoes(c, level) BY <2>7, <1>t, SuspendEffect
    <3>. QED BY <3>1, <1>t DEF SuspendDoes
  <2>8. ASSUME NEW level \in 0..1, OnFinisher(c, level) \/ SuspendFinisher(c, level)
        PROVE  AnswerInv(c)'
    <3>1. FinisherDoes(c, level) BY <2>8, <1>t, FinisherEffect
    <3>. QED BY <3>1, <1>t DEF FinisherDoes, Finish
  <2>. HIDE DEF AnswerInv
  <2>. QED
    BY <1>2, <2>1, <2>2, <2>3, <2>4, <2>5, <2>6, <2>7, <2>8 DEF Step, Locking, Working, Power
<1>. QED BY <1>1, <1>2

THEOREM Answers == Spec => [](\A c \in CPU : AnswerInv(c))
<1>. DEFINE Inv == \A c \in CPU : AnswerInv(c)
<1>1. Init => Inv
  BY DEF Init, AnswerInv, NoOp
<1>2. BaseInv /\ Inv /\ [Next]_vars => Inv'
  <2> SUFFICES ASSUME BaseInv, Inv, [Next]_vars PROVE Inv'
    OBVIOUS
  <2>1. CASE UNCHANGED vars
    BY <2>1 DEF vars, data, AnswerInv
  <2>2. ASSUME NEW c \in CPU, Step(c) PROVE Inv'
    BY <2>2, AnswerStep
  <2>. QED BY <2>1, <2>2 DEF Next, Step, Stopped
<1>. QED BY <1>1, <1>2, LocksHeld, PTL DEF Spec

(* For every number of CPUs and clusters: AFFINITY_INFO, without a lock,   *)
(* says ON of every CPU that runs the OS and of its cluster, and of the    *)
(* target of a CPU_ON what that call is about to answer.                   *)
THEOREM InfoAgrees ==
  ASSUME "odd" \notin SuspendEntrypoints
  PROVE  Spec => []InfoMatchesAnswers
<1>1. SafeInv /\ BaseInv /\ (\A c \in CPU : AnswerInv(c)) => InfoMatchesAnswers
  <2> SUFFICES ASSUME SafeInv, BaseInv, \A c \in CPU : AnswerInv(c), NEW c \in CPU
               PROVE  /\ pc[c] = "ns" =>
                           AffinityInfo(c) = "ON" /\ AffinityInfo(ClusterOf[c]) = "ON"
                      /\ op[c].kind = "on" /\ pc[c] \in {"unlock1", "unlock0"} =>
                           AffinityInfo(op[c].target) =
                             CASE op[c].rc = "already_on" -> "ON"
                               [] op[c].rc = "invalid_params" -> "OFF"
                               [] OTHER -> "ON_PENDING"
    BY DEF InfoMatchesAnswers
  <2>1. ASSUME pc[c] = "ns" PROVE AffinityInfo(c) = "ON" /\ AffinityInfo(ClusterOf[c]) = "ON"
    <3>1. affState[c] = "ON"
      BY <2>1 DEF SafeInv, SleepInv, StateInv, NodeState, Awake
    <3>2. /\ ClusterOf[c] \in Cluster /\ ClusterOf[c] \notin CPU
          /\ c \in Users(ClusterOf[c])
      BY <3>1, TopologyAssumption DEF TopologyAssumption, Users, Counted
    <3>3. refCount[ClusterOf[c]] # 0
      BY <3>2, UsersBounded DEF SafeInv, CountInv
    <3>. QED BY <3>1, <3>2, <3>3 DEF AffinityInfo
  <2>2. ASSUME op[c].kind = "on", pc[c] \in {"unlock1", "unlock0"}
        PROVE  AffinityInfo(op[c].target) =
                 CASE op[c].rc = "already_on" -> "ON"
                   [] op[c].rc = "invalid_params" -> "OFF"
                   [] OTHER -> "ON_PENDING"
    <3>1. op[c].target \in CPU
          /\ op[c].rc \in {"success", "already_on", "on_pending", "invalid_params"}
      BY <2>2 DEF BaseInv, TypeInv, CallInv, TypeOK, Op, Result
    <3>. QED BY <2>2, <3>1 DEF AnswerInv, AffinityInfo
  <2>. QED BY <2>1, <2>2
<1>. QED BY <1>1, Safe, LocksHeld, Answers, PTL
=============================================================================
