----------------------------- MODULE BakeryFcfs -----------------------------
(***************************************************************************)
(* The bakery lock implements FcfsLock.  The order of arrival is not in    *)
(* the code's state: the history variable ahead records, when a CPU starts *)
(* to take a ticket, who had drawn one and not given it back.              *)
(***************************************************************************)
EXTENDS BakeryLock

VARIABLE ahead

(* A ticket is drawn once the entering flag is down again, and is held     *)
(* until DropTicket: between the two resets of bakery_lock_release the     *)
(* lock is still taken.                                                    *)
Phase(c) ==
    CASE pc[c] \in {"out", "wake"}             -> "idle"
      [] pc[c] \in {"scan", "clear"}           -> "doorway"
      [] pc[c] \in Waiting \cup {"signal"}     -> "waiting"
      [] pc[c] \in Owning                      -> "holding"

phase == [c \in CPU |-> Phase(c)]

Promise == INSTANCE FcfsLock WITH Procs <- CPU

HInit == Init /\ ahead = [c \in CPU |-> {}]

HContend(c) ==
    /\ Contend(c)
    /\ ahead' = [ahead EXCEPT ![c] =
                   {d \in CPU : Phase(d) \in {"waiting", "holding"}}]

HDropTicket(c) ==
    /\ DropTicket(c)
    /\ ahead' = [d \in CPU |-> ahead[d] \ {c}]

HOther(c) == Proceed(c) /\ ~ DropTicket(c) /\ UNCHANGED ahead

HNext == \E c \in CPU : HContend(c) \/ HDropTicket(c) \/ HOther(c)

HSpec == HInit /\ [][HNext]_<<vars, ahead>>

(* The fairness of FairSpec: a core inside the lock keeps executing.       *)
HFairSpec ==
    HSpec /\ \A c \in CPU : WF_<<vars, ahead>>(HDropTicket(c) \/ HOther(c))

(* The lock is a mutual exclusion lock that serves CPUs in the order in    *)
(* which they drew their tickets: a CPU that starts bakery_get_ticket      *)
(* after another has finished it never gets in first.                      *)
FirstComeFirstServed == Promise!Spec
=============================================================================
