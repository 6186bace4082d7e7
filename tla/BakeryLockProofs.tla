-------------------------- MODULE BakeryLockProofs --------------------------
(***************************************************************************)
(* Mutual exclusion of the bakery lock for every number of cores.          *)
(***************************************************************************)
EXTENDS BakeryLock, FiniteSetTheorems, TLAPS

-----------------------------------------------------------------------------
(* The inductive invariant, in three layers: types, the bound on tickets,  *)
(* and the order in which tickets are served.                              *)

(* The wait loop looks at a contender until its index has reached N.       *)
LoopInv == \A c \in CPU : pc[c] \in Waiting \ {"await_entry"} => they[c] < N

TypeInv == TypeOK /\ LoopInv

(* The CPUs that read tickets now; each may let one more ticket out.       *)
Readers == {c \in CPU : pc[c] = "scan"}

BoundInv ==
    \A c \in CPU : /\ number[c] + Cardinality(Readers) < MaxTicket + N
                   /\ my_ticket[c] + Cardinality(Readers) < MaxTicket + N

Ticketed == {"clear", "signal"} \cup Waiting \cup Owning

(* The order in which tickets are served: by ticket, then by position.     *)
Precedes(t, p, u, q) == t < u \/ (t = u /\ p < q)

(* What the variables of one CPU say of each other at each label.          *)
LocalInv(c) ==
    /\ entering[c] <=> pc[c] \in {"scan", "clear"}
    /\ number[c] # 0 <=> pc[c] \in Ticketed
    /\ pc[c] \in Ticketed \ Owning => my_ticket[c] = number[c]
    /\ pc[c] \in Waiting => they[c] # c
    /\ pc[c] \in {"sleep_ticket", "recheck"} =>
         /\ their_ticket[c] # 0
         /\ Precedes(their_ticket[c], they[c], number[c], c)

(* d, which may still be drawing a ticket, will come after c: d has not    *)
(* read c's ticket yet, or has read it, or has drawn a later one and has   *)
(* not got past c in its own wait loop.                                    *)
Behind(d, c) ==
    /\ pc[d] = "scan" => they[d] <= c \/ my_ticket[d] >= number[c]
    /\ pc[d] \in {"clear", "signal"} \cup Waiting =>
         Precedes(number[c], c, number[d], d)
    /\ pc[d] \in Waiting => they[d] <= c
    /\ pc[d] \notin Owning

(* c has got past d in its wait loop.                                      *)
HasPassed(c, d) ==
    \/ pc[c] \in Waiting /\ d < they[c]
    \/ pc[c] \in Owning

(* c stays ahead of everyone it has got past; the contender it looks at is *)
(* behind it if it started to draw after c saw its entering flag down, or  *)
(* if it has changed the ticket c waits on.                                *)
OrderInv(c, d) ==
    /\ HasPassed(c, d) => Behind(d, c)
    /\ /\ pc[c] = "compare"
       /\ they[c] = d
       /\ pc[d] \in {"scan", "clear"}
       => Behind(d, c)
    /\ pc[c] \in {"sleep_ticket", "recheck"} /\ they[c] = d =>
         number[d] = their_ticket[c] \/ Behind(d, c)

IInv ==
    /\ \A c \in CPU : LocalInv(c)
    /\ \A c, d \in CPU : c # d => OrderInv(c, d)

-----------------------------------------------------------------------------
(* The step of the wait loop stays in range and skips the own position     *)
(* and no other.                                                           *)
LEMMA NextContenderStep ==
  ASSUME NEW me \in CPU, NEW i \in -1 .. N - 1
  PROVE  /\ NextContender(me, i) \in 0..N
         /\ i # me => NextContender(me, i) # me
         /\ \A d \in CPU : d # me => (d < NextContender(me, i) <=> d <= i)
  BY NAssumption DEF NAssumption, NextContender, CPU

(* Every variable keeps its type; the wait loop never indexes past N.      *)
THEOREM TypeCorrect == Spec => []TypeInv
<1>1. Init => TypeInv
  BY NAssumption DEF NAssumption, Init, CPU, NO_OWNER, PC, Waiting, TypeInv, TypeOK, LoopInv
<1>2. TypeInv /\ [Next]_vars => TypeInv'
  <2> SUFFICES ASSUME TypeInv, [Next]_vars PROVE TypeInv'
    OBVIOUS
  <2>. USE DEF PC, Waiting, Owning, TypeInv, TypeOK, LoopInv
  <2>1. ASSUME NEW me \in CPU, Contend(me) PROVE TypeInv'
    <3>1. 0 \in 0..N BY NAssumption DEF NAssumption
    <3>. QED BY <2>1, <3>1 DEF Contend, Goto
  <2>2. ASSUME NEW me \in CPU, ScanTicket(me) PROVE TypeInv'
    <3>1. they[me] \in 0..N /\ they[me] < N BY <2>2 DEF ScanTicket
    <3>2. they[me] \in CPU /\ they[me] + 1 \in 0..N
      <4> HIDE DEF TypeInv, TypeOK, LoopInv
      <4>. QED BY <3>1, NAssumption DEF NAssumption, CPU
    <3>3. number[they[me]] \in Nat BY <3>2
    <3>. QED BY <2>2, <3>2, <3>3 DEF ScanTicket
  <2>3. ASSUME NEW me \in CPU, TakeTicket(me) PROVE TypeInv'
    <3>1. my_ticket[me] + 1 \in Nat /\ 0 \in 0..N
      BY NAssumption DEF NAssumption
    <3>. QED BY <2>3, <3>1 DEF TakeTicket, Goto
  <2>4. ASSUME NEW me \in CPU, LeaveDoorway(me) PROVE TypeInv'
    BY <2>4 DEF LeaveDoorway, Goto, locals
  <2>5. ASSUME NEW me \in CPU, SignalTicket(me) PROVE TypeInv'
    <3>1. NextContender(me, -1) \in 0..N
      BY NAssumption, NextContenderStep DEF NAssumption
    <3>. QED BY <2>5, <3>1 DEF SignalTicket, Goto, Sev, shared
  <2>6. ASSUME NEW me \in CPU, AwaitEntry(me) PROVE TypeInv'
    BY <2>6 DEF AwaitEntry, Goto, shared, locals
  <2>7. ASSUME NEW me \in CPU, SleepEntry(me) PROVE TypeInv'
    BY <2>7 DEF SleepEntry, Wfe, Goto, shared, locals
  <2>8. ASSUME NEW me \in CPU, Compare(me) PROVE TypeInv'
    <3>1. they[me] \in 0 .. N - 1
      BY <2>8, NAssumption DEF NAssumption, Compare
    <3>2. number[they[me]] \in Nat BY <3>1 DEF CPU
    <3>3. NextContender(me, they[me]) \in 0..N BY <3>1, NextContenderStep
    <3>. QED BY <2>8, <3>2, <3>3 DEF Compare, Goto, shared
  <2>9. ASSUME NEW me \in CPU, SleepTicket(me) PROVE TypeInv'
    BY <2>9 DEF SleepTicket, Wfe, Goto, shared, locals
  <2>10. ASSUME NEW me \in CPU, Recheck(me) PROVE TypeInv'
    <3>1. they[me] \in 0 .. N - 1
      BY <2>10, NAssumption DEF NAssumption, Recheck
    <3>2. NextContender(me, they[me]) \in 0..N BY <3>1, NextContenderStep
    <3>. QED BY <2>10, <3>2 DEF Recheck, Goto, shared
  <2>11. ASSUME NEW me \in CPU, Acquire(me) PROVE TypeInv'
    <3>1. 0 \in 0..N BY NAssumption DEF NAssumption
    <3>. QED BY <2>11, <3>1 DEF Acquire, Goto
  <2>12. ASSUME NEW me \in CPU, ResetOwner(me) PROVE TypeInv'
    BY <2>12 DEF ResetOwner, Goto, locals
  <2>13. ASSUME NEW me \in CPU, DropTicket(me) PROVE TypeInv'
    BY <2>13 DEF DropTicket, Goto, locals
  <2>14. ASSUME NEW me \in CPU, SignalRelease(me) PROVE TypeInv'
    BY <2>14 DEF SignalRelease, Sev, Goto, shared, locals
  <2>15. CASE UNCHANGED vars
    BY <2>15 DEF vars
  <2>. QED
    BY <2>1, <2>2, <2>3, <2>4, <2>5, <2>6, <2>7, <2>8, <2>9, <2>10, <2>11,
       <2>12, <2>13, <2>14, <2>15 DEF Next, Proceed
<1>. QED
  BY <1>1, <1>2, PTL DEF Spec

(* The type invariant by itself, for every number of cores: the loops of   *)
(* the lock code stay inside entering[] and number[].                      *)
THEOREM TypesKept == Spec => []TypeOK
<1>1. TypeInv => TypeOK
  BY DEF TypeInv
<1>. QED BY <1>1, TypeCorrect, PTL

-----------------------------------------------------------------------------
(* Readers is finite and never larger than the number of cores.            *)
LEMMA ReadersFinite ==
  /\ IsFiniteSet(Readers)
  /\ Cardinality(Readers) \in 0..N
<1>1. IsFiniteSet(CPU) /\ Cardinality(CPU) = N
  BY NAssumption, FS_Interval DEF NAssumption, CPU
<1>2. Readers \in SUBSET CPU
  BY DEF Readers
<1>3. IsFiniteSet(Readers) /\ Cardinality(Readers) <= N
  BY <1>1, <1>2, FS_Subset
<1>4. Cardinality(Readers) \in Nat
  BY <1>3, FS_CardinalityType
<1>. QED
  BY <1>3, <1>4, NAssumption DEF NAssumption

(* A step outside bakery_get_ticket's loop, that draws no ticket, keeps    *)
(* the bound.                                                              *)
LEMMA BoundKept ==
  ASSUME TypeOK, TypeOK', BoundInv, Readers' = Readers,
         \A c \in CPU : /\ number'[c] = number[c] \/ number'[c] = 0
                        /\ my_ticket'[c] = my_ticket[c] \/ my_ticket'[c] = 0
  PROVE  BoundInv'
<1>1. Cardinality(Readers) \in 0..N
  BY ReadersFinite
<1>2. \A c \in CPU : number[c] \in Nat /\ my_ticket[c] \in Nat
  BY DEF TypeOK
<1>. QED
  BY <1>1, <1>2, MaxTicketAssumption, NAssumption
     DEF BoundInv, MaxTicketAssumption, NAssumption

(* The tickets stay below MaxTicket + N, hence inside the bits PRIORITY    *)
(* keeps.                                                                  *)
THEOREM TicketsBounded == Spec => []BoundInv
<1>1. Init => BoundInv
  <2> SUFFICES ASSUME Init PROVE BoundInv
    OBVIOUS
  <2>1. Readers = {} BY DEF Init, Readers
  <2>2. Cardinality(Readers) = 0 BY <2>1, FS_EmptySet
  <2>. QED
    BY <2>2, MaxTicketAssumption, NAssumption
       DEF Init, BoundInv, MaxTicketAssumption, NAssumption
<1>2. TypeInv /\ TypeInv' /\ BoundInv /\ [Next]_vars => BoundInv'
  <2> SUFFICES ASSUME TypeInv, TypeInv', BoundInv, [Next]_vars PROVE BoundInv'
    OBVIOUS
  <2>t. TypeOK /\ TypeOK' BY DEF TypeInv
  <2>n. \A c \in CPU : number[c] \in Nat /\ my_ticket[c] \in Nat
    BY <2>t DEF TypeOK
  <2>r. IsFiniteSet(Readers) /\ Cardinality(Readers) \in 0..N
    BY ReadersFinite
  <2>a. N \in 1..256 /\ MaxTicket \in Nat
    BY NAssumption, MaxTicketAssumption DEF NAssumption, MaxTicketAssumption
  <2>1. ASSUME NEW me \in CPU, Contend(me) PROVE BoundInv'
    <3>1. Cardinality(Readers)' \in 0..N
      <4>1. IsFiniteSet(CPU) /\ Cardinality(CPU) = N
        BY <2>a, FS_Interval DEF CPU
      <4>2. Readers' \in SUBSET CPU BY DEF Readers
      <4>3. IsFiniteSet(Readers') /\ Cardinality(Readers') <= N
        BY <4>1, <4>2, FS_Subset
      <4>. QED BY <4>3, <2>a, FS_CardinalityType
    <3>2. \A c \in CPU : number[c] < MaxTicket /\ my_ticket[c] < MaxTicket
      BY <2>1 DEF Contend
    <3>3. \A c \in CPU : number'[c] = number[c] /\
                         (my_ticket'[c] = my_ticket[c] \/ my_ticket'[c] = 0)
      BY <2>1, <2>t DEF Contend, TypeOK
    <3>. QED BY <2>a, <2>n, <3>1, <3>2, <3>3 DEF BoundInv
  <2>2. ASSUME NEW me \in CPU, ScanTicket(me) PROVE BoundInv'
    <3>1. Readers' = Readers BY <2>2 DEF ScanTicket, Readers
    <3>2. they[me] \in CPU
      <4>1. they[me] \in 0..N /\ they[me] < N BY <2>2, <2>t DEF ScanTicket, TypeOK
      <4>. QED BY <4>1, <2>a DEF CPU
    <3>3. /\ number' = number
          /\ \A c \in CPU : \/ my_ticket'[c] = my_ticket[c]
                             \/ my_ticket'[c] = number[they[me]]
      BY <2>2, <2>t DEF ScanTicket, TypeOK
    <3>4. Cardinality(Readers') = Cardinality(Readers) BY <3>1
    <3>. QED BY <2>n, <2>r, <3>2, <3>3, <3>4 DEF BoundInv
  <2>3. ASSUME NEW me \in CPU, TakeTicket(me) PROVE BoundInv'
    <3>1. me \in Readers /\ Readers' = Readers \ {me}
      BY <2>3, <2>t DEF TakeTicket, Goto, Readers, TypeOK
    <3>2. Cardinality(Readers') = Cardinality(Readers) - 1
      BY <3>1, <2>r, FS_RemoveElement
    <3>3. \A c \in CPU :
             /\ number'[c] = number[c] \/ (c = me /\ number'[c] = my_ticket[me] + 1)
             /\ my_ticket'[c] = my_ticket[c] \/ (c = me /\ my_ticket'[c] = my_ticket[me] + 1)
      BY <2>3, <2>t DEF TakeTicket, TypeOK
    <3>. QED BY <2>a, <2>n, <2>r, <3>2, <3>3 DEF BoundInv
  <2>4. ASSUME NEW me \in CPU, LeaveDoorway(me) PROVE BoundInv'
    BY <2>4, <2>t, BoundKept DEF LeaveDoorway, Goto, locals, Readers, TypeOK
  <2>5. ASSUME NEW me \in CPU, SignalTicket(me) PROVE BoundInv'
    BY <2>5, <2>t, BoundKept DEF SignalTicket, Goto, shared, Readers, TypeOK
  <2>6. ASSUME NEW me \in CPU, AwaitEntry(me) PROVE BoundInv'
    BY <2>6, <2>t, BoundKept DEF AwaitEntry, Goto, shared, locals, Readers, TypeOK
  <2>7. ASSUME NEW me \in CPU, SleepEntry(me) PROVE BoundInv'
    BY <2>7, <2>t, BoundKept DEF SleepEntry, Goto, shared, locals, Readers, TypeOK
  <2>8. ASSUME NEW me \in CPU, Compare(me) PROVE BoundInv'
    BY <2>8, <2>t, BoundKept DEF Compare, Goto, shared, Readers, TypeOK
  <2>9. ASSUME NEW me \in CPU, SleepTicket(me) PROVE BoundInv'
    BY <2>9, <2>t, BoundKept DEF SleepTicket, Goto, shared, locals, Readers, TypeOK
  <2>10. ASSUME NEW me \in CPU, Recheck(me) PROVE BoundInv'
    BY <2>10, <2>t, BoundKept DEF Recheck, Goto, shared, Readers, TypeOK
  <2>11. ASSUME NEW me \in CPU, Acquire(me) PROVE BoundInv'
    BY <2>11, <2>t, BoundKept DEF Acquire, Goto, Readers, TypeOK
  <2>12. ASSUME NEW me \in CPU, ResetOwner(me) PROVE BoundInv'
    BY <2>12, <2>t, BoundKept DEF ResetOwner, Goto, locals, Readers, TypeOK
  <2>13. ASSUME NEW me \in CPU, DropTicket(me) PROVE BoundInv'
    BY <2>13, <2>t, BoundKept DEF DropTicket, Goto, locals, Readers, TypeOK
  <2>14. ASSUME NEW me \in CPU, SignalRelease(me) PROVE BoundInv'
    BY <2>14, <2>t, BoundKept DEF SignalRelease, Goto, shared, locals, Readers, TypeOK
  <2>15. CASE UNCHANGED vars
    BY <2>15, <2>t, BoundKept DEF vars, Readers, TypeOK
  <2>. QED
    BY <2>1, <2>2, <2>3, <2>4, <2>5, <2>6, <2>7, <2>8, <2>9, <2>10, <2>11,
       <2>12, <2>13, <2>14, <2>15 DEF Next, Proceed
<1>. QED
  BY <1>1, <1>2, TypeCorrect, PTL DEF Spec

(* What the bound means for the code: property TicketFits.                 *)
THEOREM NoTicketOverflow == Spec => []TicketFits
<1>1. TypeInv /\ BoundInv => TicketFits
  BY ReadersFinite, NAssumption, MaxTicketAssumption
     DEF TypeInv, TypeOK, BoundInv, TicketFits, NAssumption, MaxTicketAssumption
<1>. QED
  BY <1>1, TypeCorrect, TicketsBounded, PTL

-----------------------------------------------------------------------------
(* Priorities of tickets that fit are ordered by ticket, then position.    *)
LEMMA PriorityOrder ==
  ASSUME NEW t \in 0 .. TICKET_RANGE - 1, NEW u \in 0 .. TICKET_RANGE - 1,
         NEW p \in CPU, NEW q \in CPU
  PROVE  Priority(t, p) < Priority(u, q) <=> Precedes(t, p, u, q)
<1>1. t % TICKET_RANGE = t /\ u % TICKET_RANGE = u
  <2>1. TICKET_RANGE \in Nat \ {0}
    BY DEF TICKET_RANGE
  <2>. QED
    BY <2>1
<1>2. p \in 0..255 /\ q \in 0..255
  BY NAssumption DEF NAssumption, CPU
<1>. QED
  BY <1>1, <1>2, SMT DEF Priority, Precedes, CPU

(* What the invariant reads of one CPU stays as it is.                      *)
Same(c) ==
    /\ pc'[c] = pc[c]
    /\ they'[c] = they[c]
    /\ number'[c] = number[c]
    /\ entering'[c] = entering[c]
    /\ my_ticket'[c] = my_ticket[c]
    /\ their_ticket'[c] = their_ticket[c]

(* A step of me has to be checked against me only: what the invariant says  *)
(* of other CPUs does not change.                                           *)
LEMMA OnlyMe ==
  ASSUME IInv, NEW me \in CPU, \A c \in CPU \ {me} : Same(c),
         LocalInv(me)',
         \A d \in CPU \ {me} : OrderInv(me, d)' /\ OrderInv(d, me)'
  PROVE  IInv'
<1>1. ASSUME NEW c \in CPU PROVE LocalInv(c)'
  BY <1>1, SMT DEF IInv, LocalInv, Same
<1>2. ASSUME NEW c \in CPU, NEW d \in CPU, c # d PROVE OrderInv(c, d)'
  <2>1. CASE c # me /\ d # me
    <3>1. Same(c) /\ Same(d) /\ OrderInv(c, d)
      BY <2>1, <1>2 DEF IInv
    <3>. QED
      BY <3>1, SMT DEF OrderInv, HasPassed, Behind, Same
  <2>. QED
    BY <2>1, <1>2
<1>. QED
  BY <1>1, <1>2 DEF IInv

(* The invariant of the serving order holds at every step.                 *)
LEMMA OrderStep ==
  ASSUME TypeInv, TicketFits, IInv, [Next]_vars
  PROVE  IInv'
<1>t. /\ TypeOK
      /\ \A c \in CPU : /\ c \in Int /\ number[c] \in Nat /\ my_ticket[c] \in Nat
                        /\ their_ticket[c] \in Nat /\ they[c] \in Int
                        /\ c < N /\ c >= 0 /\ they[c] >= 0
                        /\ they[c] < N => they[c] \in CPU
  BY NAssumption DEF TypeInv, TypeOK, CPU, NAssumption
<1>i. \A c, d \in CPU : LocalInv(c) /\ (c # d => OrderInv(c, d))
  BY DEF IInv
<1>1. ASSUME NEW me \in CPU, Contend(me) PROVE IInv'
  <2>1. /\ pc[me] = "out"
        /\ pc'[me] = "scan"
        /\ they'[me] = 0
        /\ number'[me] = number[me]
        /\ entering'[me] = TRUE
        /\ my_ticket'[me] = 0
        /\ their_ticket'[me] = their_ticket[me]
        /\ \A c \in CPU \ {me} : Same(c)
    BY <1>1, <1>t DEF Contend, Goto, TypeOK, Same
  <2>2. LocalInv(me)'
    BY <2>1, <1>i, <1>t, SMT DEF LocalInv, Ticketed, Waiting, Owning, Precedes
  <2>3. ASSUME NEW d \in CPU \ {me} PROVE OrderInv(me, d)' /\ OrderInv(d, me)'
    BY <2>1, <1>i, <1>t, SMT DEF LocalInv, OrderInv, HasPassed, Behind, Ticketed, Waiting, Owning, Precedes, Same
  <2>. QED BY <2>1, <2>2, <2>3, OnlyMe
<1>2. ASSUME NEW me \in CPU, ScanTicket(me) PROVE IInv'
  <2>1. /\ pc[me] = "scan"
        /\ they[me] < N
        /\ pc'[me] = pc[me]
        /\ they'[me] = they[me] + 1
        /\ number'[me] = number[me]
        /\ entering'[me] = entering[me]
        /\ my_ticket'[me] = IF number[they[me]] > my_ticket[me] THEN number[they[me]] ELSE my_ticket[me]
        /\ their_ticket'[me] = their_ticket[me]
        /\ \A c \in CPU \ {me} : Same(c)
    BY <1>2, <1>t DEF ScanTicket, TypeOK, Same
  <2>2. LocalInv(me)'
    BY <2>1, <1>i, <1>t, SMT DEF LocalInv, Ticketed, Waiting, Owning, Precedes
  <2>3. ASSUME NEW d \in CPU \ {me} PROVE OrderInv(me, d)' /\ OrderInv(d, me)'
    BY <2>1, <1>i, <1>t, SMT DEF LocalInv, OrderInv, HasPassed, Behind, Ticketed, Waiting, Owning, Precedes, Same
  <2>. QED BY <2>1, <2>2, <2>3, OnlyMe
<1>3. ASSUME NEW me \in CPU, TakeTicket(me) PROVE IInv'
  <2>1. /\ pc[me] = "scan"
        /\ they[me] = N
        /\ pc'[me] = "clear"
        /\ they'[me] = 0
        /\ number'[me] = my_ticket[me] + 1
        /\ entering'[me] = entering[me]
        /\ my_ticket'[me] = my_ticket[me] + 1
        /\ their_ticket'[me] = their_ticket[me]
        /\ \A c \in CPU \ {me} : Same(c)
    BY <1>3, <1>t DEF TakeTicket, Goto, TypeOK, Same
  <2>2. LocalInv(me)'
    BY <2>1, <1>i, <1>t, SMT DEF LocalInv, Ticketed, Waiting, Owning, Precedes
  <2>3. ASSUME NEW d \in CPU \ {me} PROVE OrderInv(me, d)' /\ OrderInv(d, me)'
    BY <2>1, <1>i, <1>t, SMT DEF LocalInv, OrderInv, HasPassed, Behind, Ticketed, Waiting, Owning, Precedes, Same
  <2>. QED BY <2>1, <2>2, <2>3, OnlyMe
<1>4. ASSUME NEW me \in CPU, LeaveDoorway(me) PROVE IInv'
  <2>1. /\ pc[me] = "clear"
        /\ pc'[me] = "signal"
        /\ they'[me] = they[me]
        /\ number'[me] = number[me]
        /\ entering'[me] = FALSE
        /\ my_ticket'[me] = my_ticket[me]
        /\ their_ticket'[me] = their_ticket[me]
        /\ \A c \in CPU \ {me} : Same(c)
    BY <1>4, <1>t DEF LeaveDoorway, Goto, locals, TypeOK, Same
  <2>2. LocalInv(me)'
    BY <2>1, <1>i, <1>t, SMT DEF LocalInv, Ticketed, Waiting, Owning, Precedes
  <2>3. ASSUME NEW d \in CPU \ {me} PROVE OrderInv(me, d)' /\ OrderInv(d, me)'
    BY <2>1, <1>i, <1>t, SMT DEF LocalInv, OrderInv, HasPassed, Behind, Ticketed, Waiting, Owning, Precedes, Same
  <2>. QED BY <2>1, <2>2, <2>3, OnlyMe
<1>5. ASSUME NEW me \in CPU, SignalTicket(me) PROVE IInv'
  <2>1. /\ pc[me] = "signal"
        /\ pc'[me] = "await_entry"
        /\ they'[me] = NextContender(me, -1)
        /\ number'[me] = number[me]
        /\ entering'[me] = entering[me]
        /\ my_ticket'[me] = my_ticket[me]
        /\ their_ticket'[me] = their_ticket[me]
        /\ \A c \in CPU \ {me} : Same(c)
    BY <1>5, <1>t DEF SignalTicket, Goto, shared, TypeOK, Same
  <2>n. /\ they'[me] # me /\ they'[me] \in Int
        /\ \A d \in CPU : d # me => ~(d < they'[me])
    BY <2>1, <1>t, NextContenderStep, NAssumption DEF NAssumption
  <2>2. LocalInv(me)'
    BY <2>1, <2>n, <1>i, <1>t, SMT DEF LocalInv, Ticketed, Waiting, Owning, Precedes
  <2>3. ASSUME NEW d \in CPU \ {me} PROVE OrderInv(me, d)' /\ OrderInv(d, me)'
    BY <2>1, <2>n, <1>i, <1>t, SMT DEF LocalInv, OrderInv, HasPassed, Behind, Ticketed, Waiting, Owning, Precedes, Same
  <2>. QED BY <2>1, <2>2, <2>3, OnlyMe
<1>6. ASSUME NEW me \in CPU, AwaitEntry(me) PROVE IInv'
  <2>1. /\ pc[me] = "await_entry"
        /\ they[me] < N
        /\ pc'[me] = IF entering[they[me]] THEN "sleep_entry" ELSE "compare"
        /\ they'[me] = they[me]
        /\ number'[me] = number[me]
        /\ entering'[me] = entering[me]
        /\ my_ticket'[me] = my_ticket[me]
        /\ their_ticket'[me] = their_ticket[me]
        /\ \A c \in CPU \ {me} : Same(c)
    BY <1>6, <1>t DEF AwaitEntry, Goto, shared, locals, TypeOK, Same
  <2>2. LocalInv(me)'
    BY <2>1, <1>i, <1>t, SMT DEF LocalInv, Ticketed, Waiting, Owning, Precedes
  <2>3. ASSUME NEW d \in CPU \ {me} PROVE OrderInv(me, d)' /\ OrderInv(d, me)'
    BY <2>1, <1>i, <1>t, SMT DEF LocalInv, OrderInv, HasPassed, Behind, Ticketed, Waiting, Owning, Precedes, Same
  <2>. QED BY <2>1, <2>2, <2>3, OnlyMe
<1>7. ASSUME NEW me \in CPU, SleepEntry(me) PROVE IInv'
  <2>1. /\ pc[me] = "sleep_entry"
        /\ pc'[me] = "await_entry"
        /\ they'[me] = they[me]
        /\ number'[me] = number[me]
        /\ entering'[me] = entering[me]
        /\ my_ticket'[me] = my_ticket[me]
        /\ their_ticket'[me] = their_ticket[me]
        /\ \A c \in CPU \ {me} : Same(c)
    BY <1>7, <1>t DEF SleepEntry, Goto, shared, locals, TypeOK, Same
  <2>2. LocalInv(me)'
    BY <2>1, <1>i, <1>t, SMT DEF LocalInv, Ticketed, Waiting, Owning, Precedes
  <2>3. ASSUME NEW d \in CPU \ {me} PROVE OrderInv(me, d)' /\ OrderInv(d, me)'
    BY <2>1, <1>i, <1>t, SMT DEF LocalInv, OrderInv, HasPassed, Behind, Ticketed, Waiting, Owning, Precedes, Same
  <2>. QED BY <2>1, <2>2, <2>3, OnlyMe
<1>8. ASSUME NEW me \in CPU, Compare(me) PROVE IInv'
  <2>1. /\ pc[me] = "compare" /\ they[me] < N /\ they[me] \in CPU
        /\ number'[me] = number[me]
        /\ entering'[me] = entering[me]
        /\ my_ticket'[me] = my_ticket[me]
        /\ \A c \in CPU \ {me} : Same(c)
    BY <1>8, <1>t DEF Compare, Goto, shared, TypeOK, Same, TypeInv, LoopInv, Waiting
  <2>2. they[me] # me /\ my_ticket[me] = number[me]
    BY <2>1, <1>i DEF LocalInv, Ticketed, Waiting, Owning
  <2>3. Priority(number[they[me]], they[me]) < Priority(my_ticket[me], me)
          <=> Precedes(number[they[me]], they[me], number[me], me)
    <3>1. /\ number[they[me]] \in 0 .. TICKET_RANGE - 1
          /\ number[me] \in 0 .. TICKET_RANGE - 1
      <4>1. TICKET_RANGE \in Int BY DEF TICKET_RANGE
      <4>. QED
        BY <2>1, <1>t, <4>1, MaxTicketAssumption, NAssumption
           DEF TicketFits, MaxTicketAssumption, NAssumption
    <3>. QED BY <2>1, <2>2, <3>1, PriorityOrder
  <2>4. CASE number[they[me]] # 0 /\ Precedes(number[they[me]], they[me], number[me], me)
    <3>1. /\ pc'[me] = "sleep_ticket" /\ they'[me] = they[me]
          /\ their_ticket'[me] = number[they[me]]
      BY <1>8, <1>t, <2>3, <2>4 DEF Compare, Goto, TypeOK
    <3>2. LocalInv(me)'
      BY <2>1, <2>2, <2>4, <3>1, <1>i, <1>t, SMT DEF LocalInv, Ticketed, Waiting, Owning
    <3>3. ASSUME NEW d \in CPU \ {me} PROVE OrderInv(me, d)' /\ OrderInv(d, me)'
      BY <2>1, <2>4, <3>1, <1>i, <1>t, SMT DEF LocalInv, OrderInv, HasPassed, Behind, Ticketed, Waiting, Owning, Precedes, Same
    <3>. QED BY <2>1, <3>2, <3>3, OnlyMe
  <2>5. CASE ~(number[they[me]] # 0 /\ Precedes(number[they[me]], they[me], number[me], me))
    <3>1. /\ pc'[me] = "await_entry" /\ they'[me] = NextContender(me, they[me])
          /\ their_ticket'[me] = their_ticket[me]
      BY <1>8, <1>t, <2>3, <2>5 DEF Compare, Goto, TypeOK
    <3>2. /\ they'[me] # me /\ they'[me] \in 0..N
          /\ \A d \in CPU : d # me => (d < they'[me] <=> d <= they[me])
      <4>1. they[me] \in -1 .. N - 1
        BY <2>1, <1>t, NAssumption DEF NAssumption
      <4>. QED
        BY <2>2, <3>1, <4>1, NextContenderStep
    <3>3. LocalInv(me)'
      BY <2>1, <2>2, <3>1, <3>2, <1>i, SMT DEF LocalInv, Ticketed, Waiting, Owning
    <3>4. Behind(they[me], me)
      BY <2>1, <2>2, <2>5, <1>i, <1>t, SMT DEF LocalInv, OrderInv, HasPassed, Behind, Ticketed, Waiting, Owning, Precedes
    <3>5. ASSUME NEW d \in CPU \ {me} PROVE OrderInv(me, d)' /\ OrderInv(d, me)'
      <4>1. OrderInv(me, d)'
        <5>1. d < they'[me] => Behind(d, me)
          BY <2>1, <3>2, <3>4, <1>i, <1>t, SMT DEF OrderInv, HasPassed, Waiting
        <5>. QED
          BY <2>1, <3>1, <5>1, SMT DEF OrderInv, HasPassed, Behind, Waiting, Owning, Same
      <4>2. OrderInv(d, me)'
        <5>1. pc[d] \in Waiting \cup Owning /\ Behind(me, d) => they[me] # d
          BY <2>1, <2>2, <2>5, <1>i, <1>t, SMT
             DEF LocalInv, Behind, Ticketed, Waiting, Owning, Precedes
        <5>2. pc[d] \in Waiting \cup Owning /\ Behind(me, d) => they'[me] <= d
          BY <2>1, <3>2, <5>1, <1>t, NAssumption, SMT DEF Behind, Waiting, NAssumption
        <5>3. pc[d] \in Waiting \cup Owning /\ Behind(me, d) => Behind(me, d)'
          BY <2>1, <3>1, <5>2, SMT DEF Behind, Waiting, Owning, Same
        <5>. QED
          BY <2>1, <3>1, <5>3, <1>i, SMT DEF OrderInv, HasPassed, Waiting, Same
      <4>. QED BY <4>1, <4>2
    <3>. QED BY <2>1, <3>3, <3>5, OnlyMe
  <2>. QED BY <2>4, <2>5
<1>9. ASSUME NEW me \in CPU, SleepTicket(me) PROVE IInv'
  <2>1. /\ pc[me] = "sleep_ticket"
        /\ pc'[me] = "recheck"
        /\ they'[me] = they[me]
        /\ number'[me] = number[me]
        /\ entering'[me] = entering[me]
        /\ my_ticket'[me] = my_ticket[me]
        /\ their_ticket'[me] = their_ticket[me]
        /\ \A c \in CPU \ {me} : Same(c)
    BY <1>9, <1>t DEF SleepTicket, Goto, shared, locals, TypeOK, Same
  <2>2. LocalInv(me)'
    BY <2>1, <1>i, <1>t, SMT DEF LocalInv, Ticketed, Waiting, Owning, Precedes
  <2>3. ASSUME NEW d \in CPU \ {me} PROVE OrderInv(me, d)' /\ OrderInv(d, me)'
    BY <2>1, <1>i, <1>t, SMT DEF LocalInv, OrderInv, HasPassed, Behind, Ticketed, Waiting, Owning, Precedes, Same
  <2>. QED BY <2>1, <2>2, <2>3, OnlyMe
<1>10. ASSUME NEW me \in CPU, Recheck(me) PROVE IInv'
  <2>1. /\ pc[me] = "recheck" /\ they[me] < N /\ they[me] \in CPU
        /\ number'[me] = number[me]
        /\ entering'[me] = entering[me]
        /\ my_ticket'[me] = my_ticket[me]
        /\ \A c \in CPU \ {me} : Same(c)
    BY <1>10, <1>t DEF Recheck, Goto, shared, TypeOK, Same, TypeInv, LoopInv, Waiting
  <2>2. they[me] # me /\ my_ticket[me] = number[me]
    BY <2>1, <1>i DEF LocalInv, Ticketed, Waiting, Owning
  <2>3. CASE number[they[me]] = their_ticket[me]
    <3>1. /\ pc'[me] = "sleep_ticket" /\ they'[me] = they[me]
          /\ their_ticket'[me] = their_ticket[me]
      BY <1>10, <1>t, <2>3 DEF Recheck, Goto, TypeOK
    <3>2. LocalInv(me)'
      BY <2>1, <2>2, <3>1, <1>i, SMT DEF LocalInv, Ticketed, Waiting, Owning, Precedes
    <3>3. ASSUME NEW d \in CPU \ {me} PROVE OrderInv(me, d)' /\ OrderInv(d, me)'
      BY <2>1, <3>1, <1>i, <1>t, SMT DEF LocalInv, OrderInv, HasPassed, Behind, Ticketed, Waiting, Owning, Precedes, Same
    <3>. QED BY <2>1, <3>2, <3>3, OnlyMe
  <2>4. CASE number[they[me]] # their_ticket[me]
    <3>1. /\ pc'[me] = "await_entry" /\ they'[me] = NextContender(me, they[me])
      BY <1>10, <1>t, <2>4 DEF Recheck, Goto, TypeOK
    <3>2. /\ they'[me] # me /\ they'[me] \in 0..N
          /\ \A d \in CPU : d # me => (d < they'[me] <=> d <= they[me])
      <4>1. they[me] \in -1 .. N - 1
        BY <2>1, <1>t, NAssumption DEF NAssumption
      <4>. QED
        BY <2>2, <3>1, <4>1, NextContenderStep
    <3>3. LocalInv(me)'
      BY <2>1, <2>2, <3>1, <3>2, <1>i, SMT DEF LocalInv, Ticketed, Waiting, Owning
    <3>4. Behind(they[me], me)
      BY <2>1, <2>2, <2>4, <1>i DEF OrderInv
    <3>5. ASSUME NEW d \in CPU \ {me} PROVE OrderInv(me, d)' /\ OrderInv(d, me)'
      <4>1. OrderInv(me, d)'
        <5>1. d < they'[me] => Behind(d, me)
          BY <2>1, <3>2, <3>4, <1>i, <1>t, SMT DEF OrderInv, HasPassed, Waiting
        <5>. QED
          BY <2>1, <3>1, <5>1, SMT DEF OrderInv, HasPassed, Behind, Waiting, Owning, Same
      <4>2. OrderInv(d, me)'
        <5>1. pc[d] \in Waiting \cup Owning /\ Behind(me, d) => they[me] # d
          BY <2>1, <2>2, <2>4, <3>4, <1>i, <1>t, SMT
             DEF LocalInv, Behind, Ticketed, Waiting, Owning, Precedes
        <5>2. pc[d] \in Waiting \cup Owning /\ Behind(me, d) => they'[me] <= d
          BY <2>1, <3>2, <5>1, <1>t, NAssumption, SMT DEF Behind, Waiting, NAssumption
        <5>3. pc[d] \in Waiting \cup Owning /\ Behind(me, d) => Behind(me, d)'
          BY <2>1, <3>1, <5>2, SMT DEF Behind, Waiting, Owning, Same
        <5>. QED
          BY <2>1, <3>1, <5>3, <1>i, SMT DEF OrderInv, HasPassed, Waiting, Same
      <4>. QED BY <4>1, <4>2
    <3>. QED BY <2>1, <3>3, <3>5, OnlyMe
  <2>. QED BY <2>3, <2>4
<1>11. ASSUME NEW me \in CPU, Acquire(me) PROVE IInv'
  <2>1. /\ pc[me] = "await_entry"
        /\ they[me] = N
        /\ pc'[me] = "held"
        /\ they'[me] = 0
        /\ number'[me] = number[me]
        /\ entering'[me] = entering[me]
        /\ my_ticket'[me] = 0
        /\ their_ticket'[me] = their_ticket[me]
        /\ \A c \in CPU \ {me} : Same(c)
    BY <1>11, <1>t DEF Acquire, Goto, TypeOK, Same
  <2>2. LocalInv(me)'
    BY <2>1, <1>i, <1>t, SMT DEF LocalInv, Ticketed, Waiting, Owning, Precedes
  <2>3. ASSUME NEW d \in CPU \ {me} PROVE OrderInv(me, d)' /\ OrderInv(d, me)'
    BY <2>1, <1>i, <1>t, SMT DEF LocalInv, OrderInv, HasPassed, Behind, Ticketed, Waiting, Owning, Precedes, Same
  <2>. QED BY <2>1, <2>2, <2>3, OnlyMe
<1>12. ASSUME NEW me \in CPU, ResetOwner(me) PROVE IInv'
  <2>1. /\ pc[me] = "held"
        /\ pc'[me] = "drop"
        /\ they'[me] = they[me]
        /\ number'[me] = number[me]
        /\ entering'[me] = entering[me]
        /\ my_ticket'[me] = my_ticket[me]
        /\ their_ticket'[me] = their_ticket[me]
        /\ \A c \in CPU \ {me} : Same(c)
    BY <1>12, <1>t DEF ResetOwner, Goto, locals, TypeOK, Same
  <2>2. LocalInv(me)'
    BY <2>1, <1>i, <1>t, SMT DEF LocalInv, Ticketed, Waiting, Owning, Precedes
  <2>3. ASSUME NEW d \in CPU \ {me} PROVE OrderInv(me, d)' /\ OrderInv(d, me)'
    BY <2>1, <1>i, <1>t, SMT DEF LocalInv, OrderInv, HasPassed, Behind, Ticketed, Waiting, Owning, Precedes, Same
  <2>. QED BY <2>1, <2>2, <2>3, OnlyMe
<1>13. ASSUME NEW me \in CPU, DropTicket(me) PROVE IInv'
  <2>1. /\ pc[me] = "drop"
        /\ pc'[me] = "wake"
        /\ they'[me] = they[me]
        /\ number'[me] = 0
        /\ entering'[me] = entering[me]
        /\ my_ticket'[me] = my_ticket[me]
        /\ their_ticket'[me] = their_ticket[me]
        /\ \A c \in CPU \ {me} : Same(c)
    BY <1>13, <1>t DEF DropTicket, Goto, locals, TypeOK, Same
  <2>2. LocalInv(me)'
    BY <2>1, <1>i, <1>t, SMT DEF LocalInv, Ticketed, Waiting, Owning, Precedes
  <2>3. ASSUME NEW d \in CPU \ {me} PROVE OrderInv(me, d)' /\ OrderInv(d, me)'
    BY <2>1, <1>i, <1>t, SMT DEF LocalInv, OrderInv, HasPassed, Behind, Ticketed, Waiting, Owning, Precedes, Same
  <2>. QED BY <2>1, <2>2, <2>3, OnlyMe
<1>14. ASSUME NEW me \in CPU, SignalRelease(me) PROVE IInv'
  <2>1. /\ pc[me] = "wake"
        /\ pc'[me] = "out"
        /\ they'[me] = they[me]
        /\ number'[me] = number[me]
        /\ entering'[me] = entering[me]
        /\ my_ticket'[me] = my_ticket[me]
        /\ their_ticket'[me] = their_ticket[me]
        /\ \A c \in CPU \ {me} : Same(c)
    BY <1>14, <1>t DEF SignalRelease, Goto, shared, locals, TypeOK, Same
  <2>2. LocalInv(me)'
    BY <2>1, <1>i, <1>t, SMT DEF LocalInv, Ticketed, Waiting, Owning, Precedes
  <2>3. ASSUME NEW d \in CPU \ {me} PROVE OrderInv(me, d)' /\ OrderInv(d, me)'
    BY <2>1, <1>i, <1>t, SMT DEF LocalInv, OrderInv, HasPassed, Behind, Ticketed, Waiting, Owning, Precedes, Same
  <2>. QED BY <2>1, <2>2, <2>3, OnlyMe
<1>15. CASE UNCHANGED vars
  BY <1>15, <1>i, SMT DEF vars, IInv, LocalInv, OrderInv, HasPassed, Behind
<1>. QED
  BY <1>1, <1>2, <1>3, <1>4, <1>5, <1>6, <1>7, <1>8, <1>9, <1>10, <1>11,
     <1>12, <1>13, <1>14, <1>15 DEF Next, Proceed

-----------------------------------------------------------------------------
(* CPUs are served in the order of their tickets, then of their positions. *)
THEOREM ServingOrder == Spec => []IInv
<1>1. Init => IInv
  BY NAssumption, SMT
     DEF NAssumption, Init, CPU, IInv, LocalInv, OrderInv, HasPassed, Behind,
         Ticketed, Waiting, Owning
<1>. QED
  BY <1>1, OrderStep, TypeCorrect, NoTicketOverflow, PTL DEF Spec

(* A CPU that owns the lock has got past every other: property             *)
(* MutualExclusion, for every number of cores up to 256.                   *)
THEOREM MutualExclusionHolds == Spec => []MutualExclusion
<1>1. IInv => MutualExclusion
  BY DEF IInv, OrderInv, HasPassed, Behind, MutualExclusion
<1>. QED
  BY <1>1, ServingOrder, PTL

(* bakery->owner names the holder of the lock and no one else, so neither  *)
(* assertion on it can fire: property OwnerIsHolder.                       *)
THEOREM OwnerConsistent == Spec => []OwnerIsHolder
<1>1. Init => OwnerIsHolder
  BY NAssumption DEF NAssumption, Init, OwnerIsHolder, CPU, NO_OWNER
<1>2. TypeInv /\ MutualExclusion /\ MutualExclusion' /\ OwnerIsHolder /\ [Next]_vars
        => OwnerIsHolder'
  <2> SUFFICES ASSUME TypeInv, MutualExclusion, MutualExclusion', OwnerIsHolder, [Next]_vars
               PROVE  OwnerIsHolder'
    OBVIOUS
  <2>t. pc \in [CPU -> PC] /\ \A c \in CPU : c # NO_OWNER
    BY NAssumption DEF NAssumption, TypeInv, TypeOK, CPU, NO_OWNER
  <2>m. /\ \A c, d \in CPU : pc[c] = "held" /\ pc[d] = "held" => c = d
        /\ \A c, d \in CPU : pc'[c] = "held" /\ pc'[d] = "held" => c = d
    BY DEF MutualExclusion, Owning
  <2>1. ASSUME NEW me \in CPU, Acquire(me) PROVE OwnerIsHolder'
    BY <2>1, <2>t, <2>m DEF Acquire, Goto, OwnerIsHolder
  <2>2. ASSUME NEW me \in CPU, ResetOwner(me) PROVE OwnerIsHolder'
    BY <2>2, <2>t, <2>m DEF ResetOwner, Goto, OwnerIsHolder
  <2>3. ASSUME NEW me \in CPU, \/ Contend(me)    \/ ScanTicket(me)   \/ TakeTicket(me)
                              \/ LeaveDoorway(me) \/ SignalTicket(me)
                              \/ AwaitEntry(me) \/ SleepEntry(me)   \/ Compare(me)
                              \/ SleepTicket(me) \/ Recheck(me)     \/ DropTicket(me)
                              \/ SignalRelease(me)
        PROVE OwnerIsHolder'
    <3>1. /\ owner' = owner
          /\ \E l \in PC \ {"held"} : pc' = [pc EXCEPT ![me] = l] \/ pc' = pc
          /\ pc[me] # "held"
      BY <2>3 DEF Contend, ScanTicket, TakeTicket, LeaveDoorway, SignalTicket, AwaitEntry,
                  SleepEntry, Compare, SleepTicket, Recheck, DropTicket, SignalRelease,
                  Goto, PC, Waiting, Owning, shared
    <3>. QED BY <3>1, <2>t DEF OwnerIsHolder
  <2>4. CASE UNCHANGED vars
    BY <2>4 DEF vars, OwnerIsHolder
  <2>. QED
    BY <2>1, <2>2, <2>3, <2>4 DEF Next, Proceed
<1>. QED
  BY <1>1, <1>2, MutualExclusionHolds, TypeCorrect, PTL DEF Spec
=============================================================================
