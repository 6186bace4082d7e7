---------------------------- MODULE PowerStates ----------------------------
(***************************************************************************)
(* What PSCI promises the OS about CPU states.  A CPU runs the OS or       *)
(* serves a call of it in the firmware; only a CPU that is ON does either, *)
(* and only such a CPU changes a state: its own when it leaves, that of an *)
(* OFF CPU when it turns it on.  A CPU comes back once per time it left.   *)
(***************************************************************************)
CONSTANTS CPU, Primary

VARIABLES
    state,     (* "OFF", "ON_PENDING", "ON", "SUSPEND"                   *)
    running,   (* the CPUs that execute the OS                           *)
    accepted   (* the CPUs whose CPU_ON is about to return SUCCESS       *)

vars == <<state, running, accepted>>

Init ==
    /\ state = [c \in CPU |-> IF c = Primary THEN "ON" ELSE "OFF"]
    /\ running = {Primary}
    /\ accepted = {}

Serving(c) == state[c] = "ON" /\ c \notin running

(* An SMC, and the return from one.                                        *)
Enter(c) ==
    /\ c \in running
    /\ running' = running \ {c}
    /\ UNCHANGED <<state, accepted>>

Return(c) ==
    /\ Serving(c) /\ c \notin accepted
    /\ running' = running \cup {c}
    /\ UNCHANGED <<state, accepted>>

(* CPU_ON: SUCCESS and the step out of OFF are one.  The answer goes to   *)
(* the OS before the CPU does anything else.                               *)
TurnOn(c, t) ==
    /\ Serving(c) /\ c \notin accepted /\ state[t] = "OFF"
    /\ state' = [state EXCEPT ![t] = "ON_PENDING"]
    /\ accepted' = accepted \cup {c}
    /\ UNCHANGED running

Answer(c) ==
    /\ c \in accepted
    /\ accepted' = accepted \ {c}
    /\ running' = running \cup {c}
    /\ UNCHANGED state

Leave(c) ==
    /\ Serving(c) /\ c \notin accepted
    /\ \E s \in {"OFF", "SUSPEND"} : state' = [state EXCEPT ![c] = s]
    /\ UNCHANGED <<running, accepted>>

ComeUp(c) ==
    /\ state[c] \in {"ON_PENDING", "SUSPEND"}
    /\ state' = [state EXCEPT ![c] = "ON"]
    /\ UNCHANGED <<running, accepted>>

Next == \E c \in CPU : \/ Enter(c) \/ Return(c) \/ Answer(c)
                       \/ Leave(c) \/ ComeUp(c)
                       \/ \E t \in CPU : TurnOn(c, t)

Spec == Init /\ [][Next]_vars
=============================================================================
