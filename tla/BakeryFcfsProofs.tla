-------------------------- MODULE BakeryFcfsProofs --------------------------
(***************************************************************************)
(* The bakery lock implements FcfsLock for every number of cores: whoever  *)
(* has left the doorway before another enters it gets the lock first.      *)
(***************************************************************************)
EXTENDS BakeryFcfs, BakeryLockProofs

(* A ticket is out and its owner has left the doorway.                     *)
InLine == {"signal"} \cup Waiting \cup Owning

(* d was in line when c started to draw its ticket, and still is: c has    *)
(* seen d's ticket, or will see it, and does not get past d.               *)
AheadInv(c, d) ==
    d \in ahead[c] =>
      /\ d # c
      /\ pc[d] \in InLine
      /\ pc[c] \in {"scan", "clear", "signal"} \cup Waiting
      /\ Behind(c, d)

HInv ==
    /\ ahead \in [CPU -> SUBSET CPU]
    /\ \A c, d \in CPU : AheadInv(c, d)

-----------------------------------------------------------------------------
(* A step of me has to be checked against me only.                         *)
LEMMA OnlyMine ==
  ASSUME HInv, NEW me \in CPU, \A c \in CPU \ {me} : Same(c),
         ahead' \in [CPU -> SUBSET CPU],
         \A c \in CPU \ {me} : ahead'[c] \subseteq ahead[c],
         me \notin ahead'[me],
         \A d \in CPU \ {me} : AheadInv(me, d)' /\ AheadInv(d, me)'
  PROVE  HInv'
<1>1. ASSUME NEW c \in CPU, NEW d \in CPU PROVE AheadInv(c, d)'
  <2>1. CASE c # me /\ d # me
    <3>1. Same(c) /\ Same(d) /\ AheadInv(c, d) /\ ahead'[c] \subseteq ahead[c]
      BY <2>1 DEF HInv
    <3>. QED BY <3>1, SMT DEF AheadInv, Behind, Same
  <2>2. CASE c = me /\ d = me
    BY <2>2 DEF AheadInv
  <2>. QED BY <2>1, <2>2
<1>. QED BY <1>1 DEF HInv

LEMMA Ranges ==
  ASSUME TypeInv
  PROVE  \A c \in CPU : /\ c \in Int /\ number[c] \in Nat /\ my_ticket[c] \in Nat
                        /\ their_ticket[c] \in Nat /\ they[c] \in Int
                        /\ c < N /\ c >= 0 /\ they[c] >= 0
                        /\ they[c] < N => they[c] \in CPU
  BY NAssumption DEF TypeInv, TypeOK, CPU, NAssumption

(* The order of arrival holds at every step.                               *)
LEMMA AheadStep ==
  ASSUME TypeInv, TicketFits, IInv, HInv, [HNext]_<<vars, ahead>>
  PROVE  HInv'
<1>t. /\ TypeOK
      /\ \A c \in CPU : /\ c \in Int /\ number[c] \in Nat /\ my_ticket[c] \in Nat
                        /\ their_ticket[c] \in Nat /\ they[c] \in Int
                        /\ c < N /\ c >= 0 /\ they[c] >= 0
                        /\ they[c] < N => they[c] \in CPU
  BY Ranges DEF TypeInv
<1>i. \A c, d \in CPU : LocalInv(c) /\ (c # d => OrderInv(c, d))
  BY DEF IInv
<1>a. /\ ahead \in [CPU -> SUBSET CPU]
      /\ \A c, d \in CPU : AheadInv(c, d)
      /\ \A c \in CPU : c \notin ahead[c]
  BY DEF HInv, AheadInv
<1>. DEFINE Goal(me) == \A d \in CPU \ {me} : AheadInv(me, d)' /\ AheadInv(d, me)'
<1>0. ASSUME NEW me \in CPU, \A c \in CPU \ {me} : Same(c), UNCHANGED ahead, Goal(me)
      PROVE  HInv'
  BY <1>0, <1>a, OnlyMine
<1>1. ASSUME NEW me \in CPU, HContend(me) PROVE HInv'
  <2>1. /\ pc[me] = "out" /\ pc'[me] = "scan" /\ they'[me] = 0
        /\ \A c \in CPU \ {me} : Same(c)
    BY <1>1, <1>t DEF HContend, Contend, Goto, TypeOK, Same
  <2>2. /\ ahead' \in [CPU -> SUBSET CPU]
        /\ \A c \in CPU \ {me} : ahead'[c] = ahead[c]
        /\ ahead'[me] = {d \in CPU : Phase(d) \in {"waiting", "holding"}}
    BY <1>1, <1>a DEF HContend
  <2>3. \A d \in CPU : Phase(d) \in {"waiting", "holding"} => pc[d] \in InLine
    BY <1>t DEF Phase, InLine, TypeOK, PC, Waiting, Owning
  <2>4. pc[me] \notin InLine
    BY <2>1 DEF InLine, Waiting, Owning
  <2>5. ASSUME NEW d \in CPU \ {me} PROVE AheadInv(me, d)' /\ AheadInv(d, me)'
    BY <2>1, <2>2, <2>3, <2>4, <1>a, <1>t, SMT
       DEF AheadInv, Behind, Same, Waiting, Owning, InLine
  <2>. QED BY <2>1, <2>2, <2>3, <2>4, <2>5, OnlyMine
<1>2. ASSUME NEW me \in CPU, ScanTicket(me), UNCHANGED ahead PROVE HInv'
  <2>1. /\ pc[me] = "scan" /\ pc'[me] = "scan" /\ they[me] < N
        /\ they'[me] = they[me] + 1
        /\ number'[me] = number[me]
        /\ my_ticket'[me] = IF number[they[me]] > my_ticket[me] THEN number[they[me]] ELSE my_ticket[me]
        /\ \A c \in CPU \ {me} : Same(c)
    BY <1>2, <1>t DEF ScanTicket, TypeOK, Same
  <2>2. Goal(me)
    BY <1>2, <2>1, <1>a, <1>t, SMT DEF AheadInv, Behind, Same, Waiting, Owning, InLine
  <2>. QED BY <1>0, <1>2, <2>1, <2>2
<1>3. ASSUME NEW me \in CPU, TakeTicket(me), UNCHANGED ahead PROVE HInv'
  <2>1. /\ pc[me] = "scan" /\ pc'[me] = "clear" /\ they[me] = N
        /\ number'[me] = my_ticket[me] + 1
        /\ \A c \in CPU \ {me} : Same(c)
    BY <1>3, <1>t DEF TakeTicket, Goto, TypeOK, Same
  <2>2. Goal(me)
    BY <1>3, <2>1, <1>a, <1>t, SMT DEF AheadInv, Behind, Same, Waiting, Owning, InLine, Precedes
  <2>. QED BY <1>0, <1>3, <2>1, <2>2
<1>4. ASSUME NEW me \in CPU, UNCHANGED ahead,
             LeaveDoorway(me) \/ AwaitEntry(me) \/ SleepEntry(me) \/ SleepTicket(me)
      PROVE  HInv'
  <2>1. /\ \/ pc[me] = "clear" /\ pc'[me] = "signal"
           \/ pc[me] \in Waiting /\ pc'[me] \in Waiting
        /\ they'[me] = they[me] /\ number'[me] = number[me]
        /\ \A c \in CPU \ {me} : Same(c)
    BY <1>4, <1>t DEF LeaveDoorway, AwaitEntry, SleepEntry, SleepTicket, Goto, shared, locals,
                      TypeOK, Same, Waiting
  <2>2. Goal(me)
    BY <1>4, <2>1, <1>a, <1>t, SMT DEF AheadInv, Behind, Same, Waiting, Owning, InLine
  <2>. QED BY <1>0, <1>4, <2>1, <2>2
<1>5. ASSUME NEW me \in CPU, SignalTicket(me), UNCHANGED ahead PROVE HInv'
  <2>1. /\ pc[me] = "signal" /\ pc'[me] = "await_entry"
        /\ they'[me] = NextContender(me, -1) /\ number'[me] = number[me]
        /\ \A c \in CPU \ {me} : Same(c)
    BY <1>5, <1>t DEF SignalTicket, Goto, shared, TypeOK, Same
  <2>2. they'[me] \in Int /\ \A d \in CPU : d # me => they'[me] <= d
    BY <2>1, <1>t, NextContenderStep, NAssumption DEF NAssumption
  <2>3. Goal(me)
    BY <1>5, <2>1, <2>2, <1>a, <1>t, SMT DEF AheadInv, Behind, Same, Waiting, Owning, InLine
  <2>. QED BY <1>0, <1>5, <2>1, <2>3
<1>6. ASSUME NEW me \in CPU, Compare(me) \/ Recheck(me), UNCHANGED ahead PROVE HInv'
  <2>1. /\ pc[me] \in {"compare", "recheck"} /\ they[me] \in CPU
        /\ number'[me] = number[me]
        /\ \A c \in CPU \ {me} : Same(c)
    BY <1>6, <1>t DEF Compare, Recheck, Goto, shared, TypeOK, Same, TypeInv, LoopInv, Waiting
  <2>2. they[me] # me /\ my_ticket[me] = number[me]
    BY <2>1, <1>i DEF LocalInv, Ticketed, Waiting, Owning
  <2>3. CASE pc'[me] \in {"sleep_ticket"} /\ they'[me] = they[me]
    <3>1. Goal(me)
      BY <1>6, <2>1, <2>3, <1>a, <1>t, SMT DEF AheadInv, Behind, Same, Waiting, Owning, InLine
    <3>. QED BY <1>0, <1>6, <2>1, <3>1
  <2>4. CASE pc'[me] = "await_entry" /\ they'[me] = NextContender(me, they[me])
    <3>1. they[me] \notin ahead[me]
      <4>. SUFFICES ASSUME they[me] \in ahead[me] PROVE FALSE
        OBVIOUS
      <4>1. /\ pc[they[me]] \in InLine
            /\ Precedes(number[they[me]], they[me], number[me], me)
        BY <2>1, <1>a DEF AheadInv, Behind, Waiting
      <4>2. number[they[me]] # 0
        BY <4>1, <2>1, <1>i DEF LocalInv, InLine, Ticketed
      <4>3. CASE Compare(me)
        <5>1. /\ number[they[me]] \in 0 .. TICKET_RANGE - 1
              /\ number[me] \in 0 .. TICKET_RANGE - 1
          <6>1. TICKET_RANGE \in Int BY DEF TICKET_RANGE
          <6>. QED
            BY <2>1, <1>t, <6>1, MaxTicketAssumption, NAssumption
               DEF TicketFits, MaxTicketAssumption, NAssumption
        <5>2. Priority(number[they[me]], they[me]) < Priority(my_ticket[me], me)
          BY <2>1, <2>2, <4>1, <5>1, PriorityOrder
        <5>. QED BY <4>2, <4>3, <5>2, <2>4, <1>t DEF Compare, Goto, TypeOK
      <4>4. CASE Recheck(me)
        <5>1. number[they[me]] # their_ticket[me]
          BY <4>4, <2>4, <1>t DEF Recheck, Goto, TypeOK
        <5>2. Behind(they[me], me)
          BY <4>4, <5>1, <2>1, <2>2, <1>i DEF Recheck, OrderInv
        <5>3. Precedes(number[me], me, number[they[me]], they[me])
          BY <5>2, <4>1 DEF Behind, InLine
        <5>. QED BY <4>1, <5>3, <2>1, <1>t, SMT DEF Precedes
      <4>. QED BY <1>6, <4>3, <4>4
    <3>2. they[me] \in -1 .. N - 1
      BY <2>1, <1>t, NAssumption DEF NAssumption
    <3>3. /\ they'[me] \in 0..N
          /\ \A d \in CPU : d # me => (d < they'[me] <=> d <= they[me])
      BY <2>2, <2>4, <3>2, NextContenderStep
    <3>4. \A d \in CPU : d \in ahead[me] => d # they[me] /\ they[me] <= d
      BY <3>1, <2>1, <1>a DEF AheadInv, Behind, Waiting
    <3>5. \A d \in CPU : d \in ahead[me] => they'[me] <= d
      BY <3>3, <3>4, <1>a, <1>t, <2>1, NAssumption, SMT DEF NAssumption
    <3>6. Goal(me)
      BY <1>6, <2>1, <2>4, <3>5, <1>a, <1>t, SMT
         DEF AheadInv, Behind, Same, Waiting, Owning, InLine
    <3>. QED BY <1>0, <1>6, <2>1, <3>6
  <2>. QED BY <1>6, <1>t, <2>3, <2>4 DEF Compare, Recheck, Goto, TypeOK
<1>7. ASSUME NEW me \in CPU, Acquire(me), UNCHANGED ahead PROVE HInv'
  <2>1. /\ pc[me] = "await_entry" /\ pc'[me] = "held" /\ they[me] = N
        /\ number'[me] = number[me]
        /\ \A c \in CPU \ {me} : Same(c)
    BY <1>7, <1>t DEF Acquire, Goto, TypeOK, Same
  <2>2. ahead[me] = {}
    BY <2>1, <1>a, <1>t, NAssumption, SMT DEF AheadInv, Behind, Waiting, NAssumption
  <2>3. Goal(me)
    BY <1>7, <2>1, <2>2, <1>a, <1>t, SMT DEF AheadInv, Behind, Same, Waiting, Owning, InLine
  <2>. QED BY <1>0, <1>7, <2>1, <2>3
<1>8. ASSUME NEW me \in CPU, ResetOwner(me) \/ SignalRelease(me), UNCHANGED ahead PROVE HInv'
  <2>1. /\ \/ pc[me] = "held" /\ pc'[me] = "drop"
           \/ pc[me] = "wake" /\ pc'[me] = "out"
        /\ number'[me] = number[me]
        /\ \A c \in CPU \ {me} : Same(c)
    BY <1>8, <1>t DEF ResetOwner, SignalRelease, Goto, shared, locals, TypeOK, Same
  <2>2. Goal(me)
    BY <1>8, <2>1, <1>a, <1>t, SMT DEF AheadInv, Behind, Same, Waiting, Owning, InLine
  <2>. QED BY <1>0, <1>8, <2>1, <2>2
<1>9. ASSUME NEW me \in CPU, HDropTicket(me) PROVE HInv'
  <2>1. /\ pc[me] = "drop" /\ pc'[me] = "wake"
        /\ \A c \in CPU \ {me} : Same(c)
    BY <1>9, <1>t DEF HDropTicket, DropTicket, Goto, locals, TypeOK, Same
  <2>2. /\ ahead' \in [CPU -> SUBSET CPU]
        /\ \A c \in CPU : ahead'[c] = ahead[c] \ {me}
    BY <1>9, <1>a DEF HDropTicket
  <2>3. ahead[me] = {}
    BY <2>1, <1>a DEF AheadInv, Waiting
  <2>4. Goal(me)
    BY <2>1, <2>2, <2>3, <1>a DEF AheadInv
  <2>. QED BY <2>1, <2>2, <2>4, OnlyMine
<1>10. CASE UNCHANGED <<vars, ahead>>
  BY <1>10, <1>a, SMT DEF vars, HInv, AheadInv, Behind
<1>. QED
  BY <1>1, <1>2, <1>3, <1>4, <1>5, <1>6, <1>7, <1>8, <1>9, <1>10 DEF HNext, HOther, Proceed

-----------------------------------------------------------------------------
(* The history variable does not restrict the lock.                        *)
LEMMA HistoryAdds == HSpec => Spec
<1>1. HInit => Init
  BY DEF HInit
<1>2. [HNext]_<<vars, ahead>> => [Next]_vars
  BY DEF HNext, HContend, HDropTicket, HOther, Next, Proceed
<1>. QED BY <1>1, <1>2, PTL DEF HSpec, Spec

THEOREM ArrivalOrder == HSpec => []HInv
<1>1. HInit => HInv
  BY DEF HInit, HInv, AheadInv
<1>. QED
  BY <1>1, AheadStep, HistoryAdds, TypeCorrect, NoTicketOverflow, ServingOrder, PTL DEF HSpec

(* What FcfsLock sees of a CPU, for every label of the code.               *)
LEMMA PhaseOf ==
  ASSUME TypeOK, NEW c \in CPU
  PROVE  /\ Phase(c) = "idle" <=> pc[c] \in {"out", "wake"}
         /\ Phase(c) = "doorway" <=> pc[c] \in {"scan", "clear"}
         /\ Phase(c) = "waiting" <=> pc[c] \in Waiting \cup {"signal"}
         /\ Phase(c) = "holding" <=> pc[c] \in Owning
  BY DEF Phase, TypeOK, PC, Waiting, Owning

LEMMA PhaseStep ==
  ASSUME NEW me \in CPU, \A c \in CPU \ {me} : pc'[c] = pc[c]
  PROVE  phase' = [phase EXCEPT ![me] = Phase(me)']
<1>1. \A c \in CPU \ {me} : Phase(c)' = Phase(c)
  BY DEF Phase
<1>. QED BY <1>1 DEF phase

LEMMA LockStepMaps ==
  ASSUME TypeInv, TypeInv', MutualExclusion, MutualExclusion', HInv, [HNext]_<<vars, ahead>>
  PROVE  [Promise!Next]_(Promise!vars)
<1>t. /\ TypeOK /\ TypeOK' /\ pc \in [CPU -> PC]
      /\ \A c \in CPU : phase[c] = Phase(c)
  BY DEF TypeInv, TypeOK, phase
<1>. USE DEF Goto
<1>1. ASSUME NEW me \in CPU, HContend(me) PROVE Promise!Arrive(me)
  <2>1. pc[me] = "out" /\ pc'[me] = "scan" /\ \A c \in CPU \ {me} : pc'[c] = pc[c]
    BY <1>1, <1>t DEF HContend, Contend
  <2>2. Phase(me) = "idle" /\ Phase(me)' = "doorway"
    BY <2>1 DEF Phase, Waiting, Owning
  <2>. QED BY <1>1, <2>1, <2>2, <1>t, PhaseStep DEF HContend, Promise!Arrive
<1>2. ASSUME NEW me \in CPU, LeaveDoorway(me), UNCHANGED ahead PROVE Promise!Queue(me)
  <2>1. pc[me] = "clear" /\ pc'[me] = "signal" /\ \A c \in CPU \ {me} : pc'[c] = pc[c]
    BY <1>2, <1>t DEF LeaveDoorway
  <2>2. Phase(me) = "doorway" /\ Phase(me)' = "waiting"
    BY <2>1, <1>t, PhaseOf DEF Phase, Waiting, Owning
  <2>. QED BY <1>2, <2>1, <2>2, <1>t, PhaseStep DEF Promise!Queue
<1>3. ASSUME NEW me \in CPU, Acquire(me), UNCHANGED ahead PROVE Promise!Hold(me)
  <2>1. /\ pc[me] = "await_entry" /\ pc'[me] = "held" /\ they[me] = N
        /\ \A c \in CPU \ {me} : pc'[c] = pc[c]
    BY <1>3, <1>t DEF Acquire
  <2>2. Phase(me) = "waiting" /\ Phase(me)' = "holding"
    BY <2>1, <1>t, PhaseOf DEF Waiting, Owning, Phase
  <2>3. ahead[me] = {}
    <3>1. \A d \in CPU : d < N /\ d \in Int
      BY NAssumption DEF NAssumption, CPU
    <3>2. \A d \in CPU : d \in ahead[me] => they[me] <= d
      BY <2>1 DEF HInv, AheadInv, Behind, Waiting
    <3>. QED BY <2>1, <3>1, <3>2, NAssumption, SMT DEF HInv, NAssumption
  <2>4. \A d \in CPU : phase[d] # "holding"
    <3>1. \A d \in CPU \ {me} : pc[d] \notin Owning
      BY <2>1 DEF MutualExclusion, Owning
    <3>. QED BY <3>1, <2>2, <1>t, PhaseOf
  <2>. QED BY <1>3, <2>1, <2>2, <2>3, <2>4, <1>t, PhaseStep DEF Promise!Hold
<1>4. ASSUME NEW me \in CPU, HDropTicket(me) PROVE Promise!Leave(me)
  <2>1. pc[me] = "drop" /\ pc'[me] = "wake" /\ \A c \in CPU \ {me} : pc'[c] = pc[c]
    BY <1>4, <1>t DEF HDropTicket, DropTicket
  <2>2. Phase(me) = "holding" /\ Phase(me)' = "idle"
    BY <2>1, <1>t, PhaseOf DEF Phase, Waiting, Owning
  <2>. QED BY <1>4, <2>1, <2>2, <1>t, PhaseStep DEF HDropTicket, Promise!Leave
<1>5. ASSUME NEW me \in CPU, UNCHANGED ahead,
             \/ ScanTicket(me) \/ TakeTicket(me) \/ SignalTicket(me) \/ AwaitEntry(me)
             \/ SleepEntry(me) \/ Compare(me) \/ SleepTicket(me) \/ Recheck(me)
             \/ ResetOwner(me) \/ SignalRelease(me)
      PROVE  UNCHANGED Promise!vars
  <2>1. /\ \/ pc[me] \in {"scan", "clear"} /\ pc'[me] \in {"scan", "clear"}
           \/ pc[me] \in Waiting \cup {"signal"} /\ pc'[me] \in Waiting \cup {"signal"}
           \/ pc[me] \in Owning /\ pc'[me] \in Owning
           \/ pc[me] \in {"out", "wake"} /\ pc'[me] \in {"out", "wake"}
        /\ \A c \in CPU \ {me} : pc'[c] = pc[c]
    BY <1>5, <1>t DEF ScanTicket, TakeTicket, SignalTicket, AwaitEntry, SleepEntry, Compare,
                      SleepTicket, Recheck, ResetOwner, SignalRelease, Waiting, Owning
  <2>2. Phase(me)' = Phase(me)
    BY <2>1 DEF Phase, Waiting, Owning
  <2>3. phase' = phase
    BY <2>1, <2>2, <1>t, PhaseStep DEF phase
  <2>. QED BY <1>5, <2>3 DEF Promise!vars
<1>6. CASE UNCHANGED <<vars, ahead>>
  BY <1>6 DEF vars, phase, Phase, Promise!vars
<1>. QED
  BY <1>1, <1>2, <1>3, <1>4, <1>5, <1>6 DEF HNext, HOther, Proceed, Promise!Next

(* For every number of cores up to 256 the bakery lock implements a lock   *)
(* with one holder in which nobody who starts to draw a ticket overtakes   *)
(* one who has left the doorway of bakery_get_ticket before.               *)
THEOREM ServesInOrder == HSpec => FirstComeFirstServed
<1>1. HInit => Promise!Init
  BY DEF HInit, Init, Promise!Init, phase, Phase, Waiting, Owning
<1>. QED
  BY <1>1, LockStepMaps, ArrivalOrder, HistoryAdds, TypeCorrect, MutualExclusionHolds, PTL
     DEF HSpec, FirstComeFirstServed, Promise!Spec
=============================================================================
