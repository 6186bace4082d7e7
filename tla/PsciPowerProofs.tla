-------------------------- MODULE PsciPowerProofs --------------------------
(* Psci implements PowerStates, for every topology: each step of a CPU is  *)
(* one step of PowerStates or changes nothing the OS can see.              *)
EXTENDS PsciPower, PsciProofs

Running == {c \in CPU : pc[c] = "ns"}
Accepting(c) == op[c].kind = "on" /\ op[c].rc = "success" /\ pc[c] \in {"unlock1", "unlock0"}
Accepted == {c \in CPU : Accepting(c)}

Hidden == affState' = affState /\ Running' = Running /\ Accepted' = Accepted

(* The others' part in the two sets does not change.                       *)
LEMMA OthersStay ==
  ASSUME SleepInv, NEW c \in CPU, Step(c)
  PROVE  /\ \A d \in CPU \ {c} : (d \in Running' <=> d \in Running) /\ (d \in Accepted' <=> d \in Accepted)
         /\ Running \subseteq CPU /\ Running' \subseteq CPU /\ Accepted \subseteq CPU /\ Accepted' \subseteq CPU
BY QuietStep DEF SleepInv, BaseInv, Quiet, Running, Accepted, Accepting

LEMMA HiddenStep ==
  ASSUME SleepInv, NEW c \in CPU, Step(c), affState' = affState,
         pc[c] = "ns" <=> pc'[c] = "ns", Accepting(c)' <=> Accepting(c)
  PROVE  Hidden
<1>1. (c \in Running' <=> c \in Running) /\ (c \in Accepted' <=> c \in Accepted)
  BY DEF Running, Accepted
<1>. QED BY <1>1, OthersStay DEF Hidden

LEMMA PromiseStep ==
  ASSUME SleepInv, NEW c \in CPU, Step(c)
  PROVE  States!Next \/ Hidden
<1>t. /\ TypeOK /\ CallInv(c) /\ NodeState(c) /\ op[c].kind \in Kind
  BY DEF SleepInv, BaseInv, TypeInv, StateInv, TypeOK, Op
<1>r. /\ c \in Running <=> pc[c] = "ns"
      /\ c \in Running' <=> pc'[c] = "ns"
      /\ c \in Accepted <=> Accepting(c)
      /\ c \in Accepted' <=> Accepting(c)'
  BY DEF Running, Accepted
<1>s. \A d \in CPU : States!Serving(d) <=> affState[d] = "ON" /\ d \notin Running
  BY DEF States!Serving, Running
<1>1. CASE CpuOn(c) \/ CpuOff(c) \/ CpuSuspend(c)
  <2>1. pc[c] = "ns" /\ pc'[c] = "lock0" /\ affState' = affState
    BY <1>1, <1>t DEF CpuOn, CpuOff, CpuSuspend, Smc, Goto, TypeOK, data
  <2>2. Running' = Running \ {c} /\ c \in Running /\ Accepted' = Accepted
    BY <2>1, <1>r, OthersStay DEF Accepting
  <2>3. States!Enter(c)
    BY <2>1, <2>2 DEF States!Enter, Running, Accepted, Accepting
  <2>. QED BY <2>3 DEF States!Next
<1>2. CASE LeaveOn(c)
  <2>1. /\ pc[c] = "locked" /\ pc'[c] = "stash" /\ affState[c] = "ON"
        /\ \E s \in {"OFF", "SUSPEND"} : affState' = [affState EXCEPT ![c] = s]
    BY <1>2, <1>t DEF LeaveOn, StateMgmt, Goto, TypeOK, NodeState, Awake, Leaving, Before
  <2>2. Running' = Running /\ Accepted' = Accepted /\ c \notin Running /\ c \notin Accepted
    BY <2>1, <1>r, OthersStay DEF Accepting
  <2>3. States!Leave(c)
    BY <2>1, <2>2, <1>s DEF States!Leave, Running, Accepted, Accepting
  <2>. QED BY <2>3 DEF States!Next
<1>3. CASE CommitOn(c)
  <2>1. /\ pc[c] = "commit" /\ pc'[c] \in {"unlock0", "unlock1"} /\ op' = op /\ op[c].kind \in Finish
        /\ affState' = [affState EXCEPT ![c] = "ON"]
    BY <1>3, <1>t DEF CommitOn, StateMgmt, Goto, TypeOK
  <2>2. affState[c] \in {"ON_PENDING", "SUSPEND"}
    BY <2>1, <1>t DEF NodeState, Rising, Awake, Finish, Leaving
  <2>3. Running' = Running /\ Accepted' = Accepted
    BY <2>1, <1>r, OthersStay DEF Accepting, Finish
  <2>4. States!ComeUp(c)
    BY <2>1, <2>2, <2>3 DEF States!ComeUp, Running, Accepted, Accepting
  <2>. QED BY <2>4 DEF States!Next
<1>4. CASE CommitOnPending(c) /\ op[c].rc = "success"
  <2>0. PICK t \in CPU : t = op[c].target
    BY <1>4, <1>t DEF CommitOnPending, CallInv
  <2>1. /\ pc[c] = "commit" /\ pc'[c] = "unlock1" /\ op' = op /\ op[c].kind = "on"
        /\ affState' = [affState EXCEPT ![t] = "ON_PENDING"]
    BY <1>4, <1>t, <2>0 DEF CommitOnPending, StateMgmt, Goto, TypeOK
  <2>2. affState[t] = "OFF"
    <3>1. lock[t] = c
      BY <2>0, <2>1 DEF SleepInv, BaseInv, LockInv, Holding0, InFirmware
    <3>2. Turning(t)
      BY <2>0, <2>1, <3>1, <1>4 DEF Turning
    <3>. QED BY <3>2 DEF SleepInv, StateInv, NodeState
  <2>3. affState[c] = "ON" /\ c \notin Running /\ c \notin Accepted
    BY <2>1, <1>t, <1>r DEF NodeState, Awake, Accepting
  <2>4. Running' = Running /\ Accepted' = Accepted \cup {c}
    BY <2>1, <1>4, <1>r, OthersStay DEF Accepting
  <2>5. States!TurnOn(c, t)
    BY <2>1, <2>2, <2>3, <2>4, <1>s DEF States!TurnOn, Running, Accepted, Accepting
  <2>. QED BY <2>5 DEF States!Next
<1>5. CASE ReleaseCpu(c)
  <2>1. /\ pc[c] = "unlock0" /\ affState' = affState /\ op'[c].kind = "none"
        /\ pc'[c] = (IF op[c].kind \in Leaving /\ op[c].rc = "success" THEN "wfi" ELSE "ns")
    BY <1>5, <1>t DEF ReleaseCpu, Goto, TypeOK, data, NoOp, Leaving
  <2>2. op[c].kind \in {"on"} \cup Leaving \cup Finish
    BY <2>1, <1>t DEF CallInv, Kind, Leaving, Finish, Asleep
  <2>3. CASE op[c].kind \in Leaving
    <3>1. pc'[c] = "wfi"
      BY <2>1, <2>3, <1>t DEF NodeState
    <3>. QED BY <2>1, <2>3, <3>1, HiddenStep DEF Accepting, Leaving
  <2>4. CASE op[c].kind \in {"on"} \cup Finish
    <3>1. affState[c] = "ON" /\ pc'[c] = "ns" /\ c \notin Running
      BY <2>1, <2>4, <1>t, <1>r DEF NodeState, Awake, Leaving, Finish
    <3>2. Running' = Running \cup {c} /\ Accepted' = Accepted \ {c}
      BY <2>1, <3>1, <1>r, OthersStay DEF Accepting
    <3>3. CASE c \in Accepted
      <4>1. States!Answer(c)
        BY <2>1, <3>2, <3>3 DEF States!Answer, Running, Accepted, Accepting
      <4>. QED BY <4>1 DEF States!Next
    <3>4. CASE c \notin Accepted
      <4>1. Accepted' = Accepted
        BY <3>2, <3>4
      <4>2. States!Return(c)
        BY <2>1, <3>1, <3>2, <3>4, <4>1, <1>s DEF States!Return, Running, Accepted, Accepting
      <4>. QED BY <4>2 DEF States!Next
    <3>. QED BY <3>3, <3>4
  <2>. QED BY <2>2, <2>3, <2>4
<1>6. CASE CommitOnPending(c) /\ op[c].rc # "success"
  <2>1. affState' = affState /\ op' = op /\ pc[c] = "commit" /\ pc'[c] = "unlock1"
    BY <1>6, <1>t DEF CommitOnPending, data, Goto, TypeOK
  <2>. QED BY <1>6, <2>1, HiddenStep DEF Accepting
<1>7. CASE \/ AcquireCpu(c) \/ AcquireCluster(c) \/ ReleaseCluster(c) \/ PowerDown(c) \/ RestorePanic(c)
           \/ StashMaxPhysOff(c) \/ ClearMaxPhysOff(c)
  <2>1. affState' = affState /\ op' = op /\ pc[c] # "ns" /\ pc'[c] # "ns"
    BY <1>7, <1>t DEF AcquireCpu, AcquireCluster, ReleaseCluster, PowerDown, RestorePanic, StashMaxPhysOff,
                      ClearMaxPhysOff, Goto, TypeOK, data, Label
  <2>2. op[c].kind = "on" => (pc[c] \in {"unlock1", "unlock0"} <=> pc'[c] \in {"unlock1", "unlock0"})
    BY <1>7, <1>t DEF AcquireCpu, AcquireCluster, ReleaseCluster, PowerDown, RestorePanic, StashMaxPhysOff,
                      ClearMaxPhysOff, Goto, TypeOK, Label, CallInv, Before, Finish
  <2>. QED BY <2>1, <2>2, HiddenStep DEF Accepting
<1>8. CASE PowerUp(c) \/ OnHandlers(c)
  <2>1. affState' = affState /\ pc[c] \in {"off", "locked"} /\ pc'[c] \in {"lock0", "commit"}
    BY <1>8, <1>t DEF PowerUp, OnHandlers, Goto, TypeOK, data
  <2>. QED BY <2>1, HiddenStep DEF Accepting
<1>9. ASSUME NEW level \in 0..1, OffHandler(c, level) \/ SuspendHandler(c, level) PROVE Hidden
  <2>1. OffDoes(c, level) \/ SuspendDoes(c, level)
    BY <1>9, <1>t, OffEffect, SuspendEffect
  <2>2. affState' = affState /\ pc[c] \in {"level0", "level1"} /\ pc'[c] \in {"level0", "level1", "clear"}
    BY <2>1, <1>t DEF OffDoes, SuspendDoes, TypeOK, Label
  <2>. QED BY <2>2, HiddenStep DEF Accepting
<1>10. ASSUME NEW level \in 0..1, OnFinisher(c, level) \/ SuspendFinisher(c, level) PROVE Hidden
  <2>1. FinisherDoes(c, level)
    BY <1>10, <1>t, FinisherEffect
  <2>2. affState' = affState /\ pc[c] \in {"level0", "level1"} /\ pc'[c] \in {"level0", "level1", "commit"}
    BY <2>1, <1>t DEF FinisherDoes, TypeOK, Label
  <2>. QED BY <2>2, HiddenStep DEF Accepting
<1>. QED
  BY <1>1, <1>2, <1>3, <1>4, <1>5, <1>6, <1>7, <1>8, <1>9, <1>10 DEF Step, Locking, Working, Power

(* For every number of CPUs and clusters, as long as no CPU_SUSPEND is     *)
(* refused: the CPU states that the OS sees follow PowerStates.            *)
THEOREM PromiseKept ==
  ASSUME "odd" \notin SuspendEntrypoints
  PROVE  Spec => KeepsStatePromise
<1>1. Init => States!Init
  <2> SUFFICES ASSUME Init PROVE States!Init
    OBVIOUS
  <2>1. \A c \in CPU : pc[c] = "ns" <=> c = Primary
    BY DEF Init
  <2>2. \A c \in CPU : ~ Accepting(c)
    BY DEF Init, Accepting
  <2>3. Running = {Primary} /\ Accepted = {}
    BY <2>1, <2>2, TopologyAssumption DEF Running, Accepted, TopologyAssumption
  <2>. QED BY <2>3 DEF States!Init, Init, Running, Accepted, Accepting
<1>2. SafeInv /\ [Next]_vars => [States!Next]_(States!vars)
  <2> SUFFICES ASSUME SafeInv, [Next]_vars PROVE States!Next \/ UNCHANGED States!vars
    OBVIOUS
  <2>1. Hidden => UNCHANGED States!vars
    BY DEF Hidden, Running, Accepted, Accepting, States!vars
  <2>2. UNCHANGED vars => UNCHANGED States!vars
    BY DEF vars, States!vars
  <2>3. ASSUME NEW c \in CPU, Step(c) PROVE States!Next \/ Hidden
    BY <2>3, PromiseStep DEF SafeInv
  <2>. QED BY <2>1, <2>2, <2>3 DEF Next, Step, Stopped
<1>. QED BY <1>1, <1>2, Safe, PTL DEF Spec, KeepsStatePromise, States!Spec
=============================================================================
