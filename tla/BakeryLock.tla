----------------------------- MODULE BakeryLock -----------------------------
(***************************************************************************)
(* The bakery lock of BL3-1, trustzone/atf/v1.0/lib/locks/bakery.          *)
(*                                                                         *)
(* The lock is shared memory that is fully ordered, so a step of this      *)
(* module is one access to a shared variable (or one sev/wfe) of one CPU,  *)
(* with the computation on local variables that follows it.  CPUs are the  *)
(* core positions that platform_get_core_pos returns.                      *)
(***************************************************************************)
EXTENDS Integers

CONSTANTS
    N,          (* BAKERY_LOCK_MAX_CPUS, the number of cores             *)
    MaxTicket   (* bound: a CPU starts to contend only while every       *)
                (* ticket that is out, or was just read, is below it     *)

(* Values of t that the shift by 8 of a 32-bit unsigned does not cut.      *)
TICKET_RANGE == 2^24

(* Core positions fit in the byte that PRIORITY leaves for them, and the   *)
(* tickets the bound lets out fit in the other 24 bits.                    *)
ASSUME NAssumption == N \in 1..256
ASSUME MaxTicketAssumption == MaxTicket \in Nat /\ MaxTicket + N <= TICKET_RANGE

CPU == 0 .. N - 1
NO_OWNER == -1

VARIABLES
    owner,        (* bakery->owner                                       *)
    entering,     (* bakery->entering[cpu]                               *)
    number,       (* bakery->number[cpu]                                 *)
    event,        (* the event register that sev sets and wfe consumes   *)
    pc,           (* where in bakery_lock_get / bakery_lock_release      *)
    they,         (* local: loop index of the scan or of the wait loop   *)
    my_ticket,    (* local: largest ticket seen, then the own ticket     *)
    their_ticket  (* local: the ticket that is being waited on           *)

shared == <<owner, entering, number>>
locals == <<they, my_ticket, their_ticket>>
vars == <<owner, entering, number, event, pc, they, my_ticket, their_ticket>>

Waiting  == {"await_entry", "sleep_entry", "compare", "sleep_ticket", "recheck"}
Owning   == {"held", "drop"}
PC == {"out", "scan", "clear", "signal", "wake"} \cup Waiting \cup Owning

(* Mutant: the position before the ticket.                                 *)
PriorityByPosition(t, pos) == pos * TICKET_RANGE + t

(* PRIORITY(t, pos), ((t) << 8) | (pos) in 32 bits: a smaller value is a   *)
(* higher priority.                                                        *)
Priority(t, pos) == (t % TICKET_RANGE) * 256 + pos

(* Mutant: skips the position after the own one.                           *)
NextContenderLate(me, i) == IF i = me THEN i + 2 ELSE i + 1

(* The contender after index i in the wait loop, the own position skipped. *)
NextContender(me, i) == IF i + 1 = me THEN i + 2 ELSE i + 1

Sev == event' = [c \in CPU |-> TRUE]

(* wfe returns when the event register is set, and clears it.              *)
Wfe(me) == event[me] /\ event' = [event EXCEPT ![me] = FALSE]

Goto(me, label) == pc' = [pc EXCEPT ![me] = label]

-----------------------------------------------------------------------------
(* bakery_lock_init: no owner, every ticket zero.                          *)
Init ==
    /\ owner = NO_OWNER
    /\ entering = [c \in CPU |-> FALSE]
    /\ number = [c \in CPU |-> 0]
    /\ event = [c \in CPU |-> FALSE]
    /\ pc = [c \in CPU |-> "out"]
    /\ they = [c \in CPU |-> 0]
    /\ my_ticket = [c \in CPU |-> 0]
    /\ their_ticket = [c \in CPU |-> 0]

(* A CPU calls bakery_lock_get and announces that it is taking a ticket.   *)
Contend(me) ==
    /\ pc[me] = "out"
    /\ \A c \in CPU : number[c] < MaxTicket /\ my_ticket[c] < MaxTicket
    /\ my_ticket' = [my_ticket EXCEPT ![me] = 0]
    /\ entering' = [entering EXCEPT ![me] = TRUE]
    /\ they' = [they EXCEPT ![me] = 0]
    /\ Goto(me, "scan")
    /\ UNCHANGED <<owner, number, event, their_ticket>>

(* Mutant: the increment is inside the loop.                               *)
ScanTicketCounting(me) ==
    /\ pc[me] = "scan"
    /\ they[me] < N
    /\ my_ticket' = [my_ticket EXCEPT ![me] =
                       IF number[they[me]] > @ THEN number[they[me]] + 1 ELSE @ + 1]
    /\ they' = [they EXCEPT ![me] = @ + 1]
    /\ UNCHANGED <<owner, entering, number, event, pc, their_ticket>>

(* One turn of the loop that looks for the largest ticket that is out.     *)
ScanTicket(me) ==
    /\ pc[me] = "scan"
    /\ they[me] < N
    /\ my_ticket' = [my_ticket EXCEPT ![me] =
                       IF number[they[me]] > @ THEN number[they[me]] ELSE @]
    /\ they' = [they EXCEPT ![me] = @ + 1]
    /\ UNCHANGED <<owner, entering, number, event, pc, their_ticket>>

(* ++my_ticket; bakery->number[me] = my_ticket.                            *)
TakeTicket(me) ==
    /\ pc[me] = "scan"
    /\ they[me] = N
    /\ my_ticket' = [my_ticket EXCEPT ![me] = @ + 1]
    /\ number' = [number EXCEPT ![me] = my_ticket[me] + 1]
    /\ they' = [they EXCEPT ![me] = 0]
    /\ Goto(me, "clear")
    /\ UNCHANGED <<owner, entering, event, their_ticket>>

(* bakery->entering[me] = 0.                                               *)
LeaveDoorway(me) ==
    /\ pc[me] = "clear"
    /\ entering' = [entering EXCEPT ![me] = FALSE]
    /\ Goto(me, "signal")
    /\ UNCHANGED <<owner, number, event, locals>>

(* The sev that ends bakery_get_ticket; the wait loop starts.              *)
SignalTicket(me) ==
    /\ pc[me] = "signal"
    /\ Sev
    /\ they' = [they EXCEPT ![me] = NextContender(me, -1)]
    /\ Goto(me, "await_entry")
    /\ UNCHANGED <<shared, my_ticket, their_ticket>>

(* Mutant: does not wait for a contender that is taking its ticket.        *)
AwaitNoEntry(me) ==
    /\ pc[me] = "await_entry"
    /\ they[me] < N
    /\ Goto(me, "compare")
    /\ UNCHANGED <<shared, event, locals>>

(* while (bakery->entering[they]): one evaluation of the condition.        *)
AwaitEntry(me) ==
    /\ pc[me] = "await_entry"
    /\ they[me] < N
    /\ Goto(me, IF entering[they[me]] THEN "sleep_entry" ELSE "compare")
    /\ UNCHANGED <<shared, event, locals>>

SleepEntry(me) ==
    /\ pc[me] = "sleep_entry"
    /\ Wfe(me)
    /\ Goto(me, "await_entry")
    /\ UNCHANGED <<shared, locals>>

(* Read their ticket; wait on it if it is out and has the higher priority. *)
Compare(me) ==
    /\ pc[me] = "compare"
    /\ LET t == number[they[me]]
       IN  IF t # 0 /\ Priority(t, they[me]) < Priority(my_ticket[me], me)
           THEN /\ their_ticket' = [their_ticket EXCEPT ![me] = t]
                /\ Goto(me, "sleep_ticket")
                /\ UNCHANGED they
           ELSE /\ they' = [they EXCEPT ![me] = NextContender(me, @)]
                /\ Goto(me, "await_entry")
                /\ UNCHANGED their_ticket
    /\ UNCHANGED <<shared, event, my_ticket>>

SleepTicket(me) ==
    /\ pc[me] = "sleep_ticket"
    /\ Wfe(me)
    /\ Goto(me, "recheck")
    /\ UNCHANGED <<shared, locals>>

(* while (their_ticket == bakery->number[they]).                           *)
Recheck(me) ==
    /\ pc[me] = "recheck"
    /\ IF number[they[me]] = their_ticket[me]
       THEN Goto(me, "sleep_ticket") /\ UNCHANGED <<they, their_ticket>>
       ELSE /\ they' = [they EXCEPT ![me] = NextContender(me, @)]
            /\ their_ticket' = [their_ticket EXCEPT ![me] = 0]
            /\ Goto(me, "await_entry")
    /\ UNCHANGED <<shared, event, my_ticket>>

(* Every contender was passed: bakery->owner = me, and bakery_lock_get     *)
(* returns, its locals with it.                                            *)
Acquire(me) ==
    /\ pc[me] = "await_entry"
    /\ they[me] = N
    /\ owner' = me
    /\ they' = [they EXCEPT ![me] = 0]
    /\ my_ticket' = [my_ticket EXCEPT ![me] = 0]
    /\ Goto(me, "held")
    /\ UNCHANGED <<entering, number, event, their_ticket>>

(* Mutant: the owner is reset only after the ticket was dropped.           *)
ResetOwnerLate(me) ==
    /\ pc[me] = "held"
    /\ number' = [number EXCEPT ![me] = 0]
    /\ Goto(me, "drop")
    /\ UNCHANGED <<owner, entering, event, locals>>

(* bakery_lock_release: the owner is reset before the ticket is.           *)
ResetOwner(me) ==
    /\ pc[me] = "held"
    /\ owner' = NO_OWNER
    /\ Goto(me, "drop")
    /\ UNCHANGED <<entering, number, event, locals>>

DropTicket(me) ==
    /\ pc[me] = "drop"
    /\ number' = [number EXCEPT ![me] = 0]
    /\ Goto(me, "wake")
    /\ UNCHANGED <<owner, entering, event, locals>>

(* Mutant: the release does not signal the waiting CPUs.                   *)
SilentRelease(me) ==
    /\ pc[me] = "wake"
    /\ Goto(me, "out")
    /\ UNCHANGED <<shared, event, locals>>

SignalRelease(me) ==
    /\ pc[me] = "wake"
    /\ Sev
    /\ Goto(me, "out")
    /\ UNCHANGED <<shared, locals>>

-----------------------------------------------------------------------------
(* The steps a CPU takes once it has called bakery_lock_get.               *)
Proceed(me) ==
    \/ ScanTicket(me)   \/ TakeTicket(me)  \/ LeaveDoorway(me)
    \/ SignalTicket(me) \/ AwaitEntry(me)  \/ SleepEntry(me)
    \/ Compare(me)      \/ SleepTicket(me) \/ Recheck(me)
    \/ Acquire(me)      \/ ResetOwner(me)  \/ DropTicket(me)
    \/ SignalRelease(me)

Next == \E me \in CPU : Contend(me) \/ Proceed(me)

Spec == Init /\ [][Next]_vars

(* EL3 runs with interrupts masked: a CPU inside the lock code keeps       *)
(* executing.  Nothing makes a CPU call bakery_lock_get.                   *)
Fairness == \A me \in CPU : WF_vars(Proceed(me))

FairSpec == Spec /\ Fairness

-----------------------------------------------------------------------------
TypeOK ==
    /\ owner \in CPU \cup {NO_OWNER}
    /\ entering \in [CPU -> BOOLEAN]
    /\ number \in [CPU -> Nat]
    /\ event \in [CPU -> BOOLEAN]
    /\ pc \in [CPU -> PC]
    /\ they \in [CPU -> 0..N]
    /\ my_ticket \in [CPU -> Nat]
    /\ their_ticket \in [CPU -> Nat]

(* At most one CPU is past the wait loop of bakery_lock_get and has not    *)
(* dropped its ticket: the code "implement[s] Bakery Algorithm for mutual  *)
(* exclusion".                                                             *)
MutualExclusion ==
    \A c, d \in CPU : pc[c] \in Owning /\ pc[d] \in Owning => c = d

(* The owner field names the CPU that holds the lock, and no one else:     *)
(* the assertions owner != me of bakery_lock_get and owner == me of        *)
(* bakery_lock_release can never fire, whatever the other CPUs write to    *)
(* the field meanwhile.                                                    *)
OwnerIsHolder == \A c \in CPU : owner = c <=> pc[c] = "held"

(* While contenders keep arriving tickets only grow, yet none outgrows the *)
(* bits PRIORITY keeps: the N CPUs that can be in the doorway when the     *)
(* last ticket below MaxTicket is out push the tickets at most N higher.   *)
TicketFits == \A c \in CPU : number[c] < MaxTicket + N /\ my_ticket[c] < MaxTicket + N

(* Every CPU that asks for the lock gets it: no ticket is waited on for    *)
(* ever and no sev is missed between a check and the wfe that follows it.  *)
StarvationFree == \A c \in CPU : (pc[c] = "scan") ~> (pc[c] = "held")
=============================================================================
