------------------------------ MODULE FcfsLock ------------------------------
(***************************************************************************)
(* What a bakery lock promises its users: one holder at a time, and first  *)
(* come first served.  A CPU that calls the lock while others are already  *)
(* waiting (their doorway is behind them) or hold it gets it after them.   *)
(***************************************************************************)
CONSTANT Procs

VARIABLES
    phase,   (* "idle", "doorway", "waiting" or "holding"                *)
    ahead    (* the CPUs that must have left before this one gets in     *)

vars == <<phase, ahead>>

Init ==
    /\ phase = [c \in Procs |-> "idle"]
    /\ ahead = [c \in Procs |-> {}]

Arrive(c) ==
    /\ phase[c] = "idle"
    /\ phase' = [phase EXCEPT ![c] = "doorway"]
    /\ ahead' = [ahead EXCEPT ![c] =
                   {d \in Procs : phase[d] \in {"waiting", "holding"}}]

Queue(c) ==
    /\ phase[c] = "doorway"
    /\ phase' = [phase EXCEPT ![c] = "waiting"]
    /\ UNCHANGED ahead

Hold(c) ==
    /\ phase[c] = "waiting"
    /\ ahead[c] = {}
    /\ \A d \in Procs : phase[d] # "holding"
    /\ phase' = [phase EXCEPT ![c] = "holding"]
    /\ UNCHANGED ahead

Leave(c) ==
    /\ phase[c] = "holding"
    /\ phase' = [phase EXCEPT ![c] = "idle"]
    /\ ahead' = [d \in Procs |-> ahead[d] \ {c}]

Next == \E c \in Procs : Arrive(c) \/ Queue(c) \/ Hold(c) \/ Leave(c)

Spec == Init /\ [][Next]_vars
=============================================================================
