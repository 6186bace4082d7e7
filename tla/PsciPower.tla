----------------------------- MODULE PsciPower -----------------------------
(* Psci implements PowerStates: the states are those of the CPU nodes, and *)
(* a CPU executes the OS where its program counter says so.                *)
EXTENDS Psci

States == INSTANCE PowerStates
            WITH state <- affState,
                 running <- {c \in CPU : pc[c] = "ns"},
                 accepted <- {c \in CPU : /\ op[c].kind = "on"
                                          /\ op[c].rc = "success"
                                          /\ pc[c] \in {"unlock1", "unlock0"}}

(* Of all the CPUs that turn on the same CPU only one gets SUCCESS, a CPU  *)
(* returns to the OS only in state ON, and no CPU's state changes while it *)
(* executes the OS.                                                        *)
KeepsStatePromise == States!Spec
=============================================================================
