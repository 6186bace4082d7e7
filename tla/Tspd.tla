-------------------------------- MODULE Tspd --------------------------------
(***************************************************************************)
(* The dispatcher of the test secure payload (services/spd/tspd) between   *)
(* the operating system and the payload (bl32/tsp), on every core: calls   *)
(* that run to completion (fast), calls that an interrupt of the normal    *)
(* world takes the core from and that are resumed (standard), secure       *)
(* interrupts that arrive while the normal world runs, and the hooks the   *)
(* power management calls around CPU_ON, CPU_OFF, CPU_SUSPEND, SYSTEM_OFF  *)
(* and SYSTEM_RESET.                                                       *)
(*                                                                         *)
(* One action is one pass through the monitor: from the exception that     *)
(* enters EL3 to the ERET that leaves it.  EL3 runs with interrupts masked *)
(* and every variable belongs to one core, except tsp_vectors, which is    *)
(* written once before any other core runs.                                *)
(***************************************************************************)
EXTENDS Naturals

CONSTANTS
    Core,      \* cores of the machine
    Primary,   \* the core that boots cold
    Arg,       \* operands of a call (x1, x2)
    None,      \* no operands
    DEBUG,     \* the build has its assertions and checks (DEBUG of the Makefile)
    Regs       \* contents of the EL1 system registers

VARIABLES
    at,           \* what the core executes
    tsp_vectors,  \* the payload has announced its entry points
    pstate,       \* tsp_context_t.state, power state field
    std_active,   \* tsp_context_t.state, STD_SMC_ACTIVE flag
    elr,          \* ELR_EL3 and SPSR_EL3 in the secure context
    saved_elr,    \* saved_elr_el3 and saved_spsr_el3 of tsp_context_t
    saved_args,   \* saved_tsp_args of tsp_context_t
    el1,          \* the EL1 system registers the core holds
    ctx,          \* their copies in the two cpu contexts of the core
    own,          \* what each world last had in them
    job,          \* the call the payload's stack holds: x1/x2, TSP_GET_ARGS
    asked,        \* operands of the call the normal world last had accepted
    reply,        \* x0-x3 the normal world was last given
    refused       \* since the core came up a CPU_SUSPEND was refused after its hook

vars == <<at, tsp_vectors, pstate, std_active, elr, saved_elr, saved_args,
          el1, ctx, own, job, asked, reply, refused>>

World == {"NS", "S"}

\* tsp_vector_table, and the entry point of the image itself.
Entry == {"main", "std_smc", "fast_smc", "cpu_on", "cpu_off", "cpu_resume",
          "cpu_suspend", "fiq", "system_off", "system_reset"}

\* Entry points entered by a call of the EL3 C code that waits for the answer.
SyncEntry == Entry \ {"std_smc", "fast_smc", "fiq"}

\* "spin" is a loop of the payload that nothing leaves; "off" and "asleep" are
\* the core without power, "halted" the whole machine.
Place == Entry \cup {"ns", "spin", "off", "asleep", "halted"}

\* The instruction after the SMC that ends an entry point: the next entry of
\* the table or an endless loop.  "preempted" is the instruction after the SMC
\* of irq_sp_elx and fiq_sp_elx.
Follows == [cpu_off |-> "system_off", system_off |-> "system_reset",
            system_reset |-> "cpu_on", cpu_suspend |-> "fiq"]
AfterSmc == [e \in Entry |-> IF e \in DOMAIN Follows THEN Follows[e] ELSE "spin"]

Point == Entry \cup {"preempted", "spin"}

\* saved_elr_el3 before it is first written: zeroed memory, no place of the
\* payload.
Unset == "unset"

\* Registers carry the world they belong to, so that one world finding the
\* other's is told from finding its own.
El1 == {"NS", "S", "lost"} \X Regs

ResetRegs == CHOOSE r \in Regs : TRUE
Reset(w) == <<w, ResetRegs>>

NoJob == [x |-> None, got |-> None]
Job == [x : Arg \cup {None}, got : Arg \cup {None}]

\* What the registers of the normal world say after a return: a code alone, or
\* the result of a call.
Code == {"none", "SMC_UNK", "SMC_PREEMPTED", "TSP_EL3_FIQ", "INVALID_PARAMS"}
Notice(code) == [code |-> code, x |-> None, got |-> None]
Result(j) == [code |-> "result", x |-> j.x, got |-> j.got]
Reply == [code : Code \cup {"result"}, x : Arg \cup {None}, got : Arg \cup {None}]

ASSUME PrimaryIsACore == Primary \in Core
ASSUME RegsExist == Regs # {}
ASSUME NoneIsNoArg == None \notin Arg
ASSUME DebugOrNot == DEBUG \in BOOLEAN

Types ==
    /\ at \in [Core -> Place]
    /\ tsp_vectors \in BOOLEAN
    /\ pstate \in [Core -> {"OFF", "ON", "SUSPEND"}]
    /\ std_active \in [Core -> BOOLEAN]
    /\ elr \in [Core -> Point \cup {Unset}]
    /\ saved_elr \in [Core -> Point \cup {Unset}]
    /\ saved_args \in [Core -> Arg \cup {None}]
    /\ el1 \in [Core -> El1]
    /\ ctx \in [Core -> [World -> El1]]
    /\ own \in [Core -> [World -> El1]]
    /\ job \in [Core -> Job]
    /\ asked \in [Core -> Arg \cup {None}]
    /\ reply \in [Core -> Reply]
    /\ refused \in [Core -> BOOLEAN]

TypeOK ==
    /\ Types
    /\ \A c \in Core : elr[c] = Unset => refused[c]

\* tspd_setup has prepared the entry of the image on the primary core and
\* tspd_init has entered it; the other cores have no power.
Init ==
    /\ at = [c \in Core |-> IF c = Primary THEN "main" ELSE "off"]
    /\ tsp_vectors = FALSE
    /\ pstate = [c \in Core |-> "OFF"]
    /\ std_active = [c \in Core |-> FALSE]
    /\ elr = [c \in Core |-> "main"]
    /\ saved_elr = [c \in Core |-> Unset]
    /\ saved_args = [c \in Core |-> None]
    /\ el1 = [c \in Core |-> Reset("S")]
    /\ ctx = [c \in Core |-> [w \in World |-> Reset(w)]]
    /\ own = [c \in Core |-> [w \in World |-> Reset(w)]]
    /\ job = [c \in Core |-> NoJob]
    /\ asked = [c \in Core |-> None]
    /\ reply = [c \in Core |-> Notice("none")]
    /\ refused = [c \in Core |-> FALSE]

-----------------------------------------------------------------------------
(* Context management (bl31/context_mgmt.c).                               *)

\* Mutant: the registers are not stored.
SavedNothing(c, w) == ctx

\* cm_el1_sysregs_context_save
Saved(c, w) == [ctx EXCEPT ![c][w] = el1[c]]

\* cm_el1_sysregs_context_restore and cm_set_next_eret_context, after any save.
Restored(c, w, saved) == [el1 EXCEPT ![c] = saved[c][w]]

\* Leave world "from", which saves its registers, and return to world "to".
SwitchSaving(c, from, to) ==
    /\ ctx' = Saved(c, from)
    /\ el1' = Restored(c, to, Saved(c, from))
    /\ own' = own

\* Return to world "to" without keeping the registers of the one left.
SwitchDropping(c, to) ==
    /\ el1' = Restored(c, to, ctx)
    /\ UNCHANGED <<ctx, own>>

\* cm_init_context and cm_prepare_el3_exit of the normal world's context: it
\* starts with fresh registers.  The secure ones have been saved before.
EnterFreshNS(c) ==
    /\ ctx' = [ctx EXCEPT ![c]["S"] = el1[c], ![c]["NS"] = Reset("NS")]
    /\ el1' = [el1 EXCEPT ![c] = Reset("NS")]
    /\ own' = [own EXCEPT ![c]["NS"] = Reset("NS")]

\* The exception entry of an SMC leaves the address behind it in the context.
SmcFrom(c, e) == at[c] = e /\ elr' = [elr EXCEPT ![c] = AfterSmc[e]]

Goto(c, p) == at' = [at EXCEPT ![c] = p]

\* The ERET into the secure world goes where the secure context says; behind
\* "preempted" is the standard call that was interrupted, and at address 0 the
\* payload's exception vectors loop.
Eret(c, point) == Goto(c, CASE point = "preempted" -> "std_smc"
                            [] point = Unset -> "spin"
                            [] OTHER -> point)

-----------------------------------------------------------------------------
(* The worlds run.                                                         *)

\* The code of a world changes its own EL1 registers.  The interrupt entry of
\* the payload preserves them.
WriteRegisters(c, w) ==
    /\ at[c] \in IF w = "NS" THEN {"ns"} ELSE {"std_smc", "fast_smc"}
    /\ \E r \in Regs :
        /\ el1' = [el1 EXCEPT ![c] = <<w, r>>]
        /\ own' = [own EXCEPT ![c][w] = <<w, r>>]
    /\ UNCHANGED <<at, tsp_vectors, pstate, std_active, elr, saved_elr,
                   saved_args, ctx, job, asked, reply, refused>>

\* TSP_ENTRY_DONE: the entry points are stored, the power management hooks and
\* the handler of secure interrupts registered, and tspd_init returns to the
\* boot code, which enters the normal world.
EntryDone(c) ==
    /\ SmcFrom(c, "main")
    /\ ~tsp_vectors
    /\ tsp_vectors' = TRUE
    /\ pstate' = [pstate EXCEPT ![c] = "ON"]
    /\ EnterFreshNS(c)
    /\ Goto(c, "ns")
    /\ UNCHANGED <<std_active, saved_elr, saved_args, job, asked, reply, refused>>

\* Mutant: a request is taken whether or not a standard call is unfinished.
RequestAnyTime(c, e, a) ==
    /\ at[c] = "ns"
    /\ SwitchSaving(c, "NS", "S")
    /\ saved_args' = [saved_args EXCEPT ![c] = a]
    /\ std_active' = [std_active EXCEPT ![c] = @ \/ e = "std_smc"]
    /\ elr' = [elr EXCEPT ![c] = e]
    /\ Eret(c, e)
    /\ job' = [job EXCEPT ![c] = [x |-> a, got |-> None]]
    /\ asked' = [asked EXCEPT ![c] = a]
    /\ reply' = [reply EXCEPT ![c] = Notice("none")]
    /\ UNCHANGED <<tsp_vectors, pstate, saved_elr, refused>>

\* A fast or standard call of the normal world.  While a standard call is
\* unfinished nothing is touched and the answer is SMC_UNK.
Request(c, e, a) ==
    /\ at[c] = "ns"
    /\ ~std_active[c]
    /\ SwitchSaving(c, "NS", "S")
    /\ saved_args' = [saved_args EXCEPT ![c] = a]
    /\ std_active' = [std_active EXCEPT ![c] = @ \/ e = "std_smc"]
    /\ elr' = [elr EXCEPT ![c] = e]
    /\ Eret(c, e)
    /\ job' = [job EXCEPT ![c] = [x |-> a, got |-> None]]
    /\ asked' = [asked EXCEPT ![c] = a]
    /\ reply' = [reply EXCEPT ![c] = Notice("none")]
    /\ UNCHANGED <<tsp_vectors, pstate, saved_elr, refused>>

\* Mutant: the operands are stored before the flag is looked at.
RejectRequestStoring(c) ==
    /\ at[c] = "ns"
    /\ std_active[c]
    /\ \E a \in Arg : saved_args' = [saved_args EXCEPT ![c] = a]
    /\ reply' = [reply EXCEPT ![c] = Notice("SMC_UNK")]
    /\ UNCHANGED <<at, tsp_vectors, pstate, std_active, elr, saved_elr,
                   el1, ctx, own, job, asked, refused>>

RejectRequest(c) ==
    /\ at[c] = "ns"
    /\ std_active[c]
    /\ reply' = [reply EXCEPT ![c] = Notice("SMC_UNK")]
    /\ UNCHANGED <<at, tsp_vectors, pstate, std_active, elr, saved_elr,
                   saved_args, el1, ctx, own, job, asked, refused>>

\* Mutant: the flag is tested the wrong way round.
ResumeInverted(c) ==
    /\ at[c] = "ns"
    /\ ~std_active[c]
    /\ SwitchSaving(c, "NS", "S")
    /\ Eret(c, elr[c])
    /\ UNCHANGED <<tsp_vectors, pstate, std_active, elr, saved_elr,
                   saved_args, job, asked, reply, refused>>

\* TSP_FID_RESUME: back to wherever the secure context points.
Resume(c) ==
    /\ at[c] = "ns"
    /\ std_active[c]
    /\ SwitchSaving(c, "NS", "S")
    /\ Eret(c, elr[c])
    /\ UNCHANGED <<tsp_vectors, pstate, std_active, elr, saved_elr,
                   saved_args, job, asked, reply, refused>>

RejectResume(c) ==
    /\ at[c] = "ns"
    /\ ~std_active[c]
    /\ reply' = [reply EXCEPT ![c] = Notice("SMC_UNK")]
    /\ UNCHANGED <<at, tsp_vectors, pstate, std_active, elr, saved_elr,
                   saved_args, el1, ctx, own, job, asked, refused>>

\* Mutant: the operands are refused to a standard call.
GetArgsFastOnly(c) ==
    /\ at[c] = "fast_smc"
    /\ job[c].got = None
    /\ job' = [job EXCEPT ![c].got = saved_args[c]]
    /\ UNCHANGED <<at, tsp_vectors, pstate, std_active, elr, saved_elr,
                   saved_args, el1, ctx, own, asked, reply, refused>>

\* TSP_GET_ARGS: the service asks for the operands stored with the call.
GetArgs(c) ==
    /\ at[c] \in {"std_smc", "fast_smc"}
    /\ job[c].got = None
    /\ job' = [job EXCEPT ![c].got = saved_args[c]]
    /\ UNCHANGED <<at, tsp_vectors, pstate, std_active, elr, saved_elr,
                   saved_args, el1, ctx, own, asked, reply, refused>>

\* TSP_ADD .. TSP_DIV from the payload: the service has its result, made of
\* the operands it was called with and those it fetched.
Finish(c, e) ==
    /\ e \in {"std_smc", "fast_smc"}
    /\ SmcFrom(c, e)
    /\ job[c].got # None
    /\ SwitchSaving(c, "S", "NS")
    /\ std_active' = [std_active EXCEPT ![c] = @ /\ e # "std_smc"]
    /\ reply' = [reply EXCEPT ![c] = Result(job[c])]
    /\ job' = [job EXCEPT ![c] = NoJob]
    /\ Goto(c, "ns")
    /\ UNCHANGED <<tsp_vectors, pstate, saved_elr, saved_args, asked, refused>>

\* Mutant: a preempted call is treated as a finished one.
YieldForgetting(c, why) ==
    /\ at[c] = "std_smc"
    /\ SwitchSaving(c, "S", "NS")
    /\ elr' = [elr EXCEPT ![c] = "preempted"]
    /\ reply' = [reply EXCEPT ![c] = Notice(why)]
    /\ std_active' = [std_active EXCEPT ![c] = FALSE]
    /\ Goto(c, "ns")
    /\ UNCHANGED <<tsp_vectors, pstate, saved_elr, saved_args, job, asked, refused>>

\* TSP_PREEMPTED and TSP_EL3_FIQ: an interrupt that is not the payload's ends
\* its time slice.  Only the standard entry runs with interrupts unmasked.
Yield(c, why) ==
    /\ at[c] = "std_smc"
    /\ SwitchSaving(c, "S", "NS")
    /\ elr' = [elr EXCEPT ![c] = "preempted"]
    /\ reply' = [reply EXCEPT ![c] = Notice(why)]
    /\ Goto(c, "ns")
    /\ UNCHANGED <<tsp_vectors, pstate, std_active, saved_elr, saved_args,
                   job, asked, refused>>

\* tspd_sel1_interrupt_handler: a secure interrupt while the normal world runs.
SecureInterrupt(c) ==
    /\ at[c] = "ns"
    /\ SwitchSaving(c, "NS", "S")
    /\ saved_elr' = IF std_active[c] THEN [saved_elr EXCEPT ![c] = elr[c]]
                                     ELSE saved_elr
    /\ elr' = [elr EXCEPT ![c] = "fiq"]
    /\ Eret(c, "fiq")
    /\ UNCHANGED <<tsp_vectors, pstate, std_active, saved_args, job, asked,
                   reply, refused>>

\* Mutant: the saved point is put back whether or not one was saved.
InterruptHandledAlways(c) ==
    /\ at[c] = "fiq"
    /\ elr' = [elr EXCEPT ![c] = saved_elr[c]]
    /\ SwitchDropping(c, "NS")
    /\ Goto(c, "ns")
    /\ UNCHANGED <<tsp_vectors, pstate, std_active, saved_elr, saved_args,
                   job, asked, reply, refused>>

\* TSP_HANDLED_S_EL1_FIQ: the interrupted code goes on with its registers.
InterruptHandled(c) ==
    /\ at[c] = "fiq"
    /\ elr' = [elr EXCEPT ![c] = IF std_active[c] THEN saved_elr[c]
                                                  ELSE AfterSmc["fiq"]]
    /\ SwitchDropping(c, "NS")
    /\ Goto(c, "ns")
    /\ UNCHANGED <<tsp_vectors, pstate, std_active, saved_elr, saved_args,
                   job, asked, reply, refused>>

-----------------------------------------------------------------------------
(* The power management hooks (tspd_pm.c).  PSCI calls them on the core    *)
(* concerned; the normal world does not get its registers back afterwards. *)

\* tspd_synchronous_sp_entry after the hook has programmed the entry point.
EnterForPower(c, e) ==
    /\ elr' = [elr EXCEPT ![c] = e]
    /\ SwitchDropping(c, "S")
    /\ Eret(c, e)

\* CPU_OFF, CPU_SUSPEND, SYSTEM_OFF, SYSTEM_RESET, each with its hook.
PowerDown(c, e) ==
    /\ at[c] = "ns"
    /\ e \in {"cpu_off", "cpu_suspend", "system_off", "system_reset"}
    /\ EnterForPower(c, e)
    /\ UNCHANGED <<tsp_vectors, pstate, std_active, saved_elr, saved_args,
                   job, asked, reply, refused>>

\* The end of a hook, back in tspd_synchronous_sp_exit: the secure registers
\* are saved, the hook notes the state and the core loses power.
LosePower(c) ==
    /\ ctx' = Saved(c, "S")
    /\ el1' = [el1 EXCEPT ![c] = <<"lost", ResetRegs>>]
    /\ own' = own

OffDone(c) ==
    /\ SmcFrom(c, "cpu_off")
    /\ LosePower(c)
    /\ pstate' = [pstate EXCEPT ![c] = "OFF"]
    /\ Goto(c, "off")
    /\ UNCHANGED <<tsp_vectors, std_active, saved_elr, saved_args, job,
                   asked, reply, refused>>

\* Mutant: the hook does not note the state.
SuspendDoneSilently(c) ==
    /\ SmcFrom(c, "cpu_suspend")
    /\ LosePower(c)
    /\ Goto(c, "asleep")
    /\ UNCHANGED <<tsp_vectors, pstate, std_active, saved_elr, saved_args, job,
                   asked, reply, refused>>

SuspendDone(c) ==
    /\ SmcFrom(c, "cpu_suspend")
    /\ LosePower(c)
    /\ pstate' = [pstate EXCEPT ![c] = "SUSPEND"]
    /\ Goto(c, "asleep")
    /\ UNCHANGED <<tsp_vectors, std_active, saved_elr, saved_args, job,
                   asked, reply, refused>>

\* psci_save_ns_entry refuses the entry point after the hook: CPU_SUSPEND writes
\* its answer for the normal world, but the next ERET is still into the secure
\* context, behind the SMC that ended the hook.  There is the entry for secure
\* interrupts: a debug build finds no TSP_HANDLE_FIQ_AND_RETURN in x0 and loops;
\* the other one handles a timer interrupt that is pending, or loops.
SuspendRefused(c) ==
    /\ SmcFrom(c, "cpu_suspend")
    /\ ctx' = Saved(c, "S")
    /\ pstate' = [pstate EXCEPT ![c] = "SUSPEND"]
    /\ reply' = [reply EXCEPT ![c] = Notice("INVALID_PARAMS")]
    /\ refused' = [refused EXCEPT ![c] = TRUE]
    /\ \E place \in IF DEBUG THEN {"spin"} ELSE {"spin", "fiq"} : Goto(c, place)
    /\ UNCHANGED <<tsp_vectors, std_active, saved_elr, saved_args, el1, own, job,
                   asked>>

\* The platform cuts the power of every core.
SystemDone(c, e) ==
    /\ e \in {"system_off", "system_reset"}
    /\ SmcFrom(c, e)
    /\ at' = [d \in Core |-> "halted"]
    /\ LosePower(c)
    /\ UNCHANGED <<tsp_vectors, pstate, std_active, saved_elr, saved_args,
                   job, asked, reply, refused>>

\* Mutant: the state of the context survives the reset of the core.
CpuOnKeepingState(c) ==
    /\ at[c] = "off"
    /\ tsp_vectors
    /\ ctx' = [ctx EXCEPT ![c]["S"] = Reset("S")]
    /\ own' = [own EXCEPT ![c]["S"] = Reset("S")]
    /\ el1' = [el1 EXCEPT ![c] = Reset("S")]
    /\ elr' = [elr EXCEPT ![c] = "cpu_on"]
    /\ Eret(c, "cpu_on")
    /\ job' = [job EXCEPT ![c] = NoJob]
    /\ UNCHANGED <<tsp_vectors, pstate, std_active, saved_elr, saved_args,
                   asked, reply, refused>>

\* The core reports at reset after another core's CPU_ON: tspd_cpu_on_finish_handler makes
\* a fresh secure context and a fresh tsp_context_t, the payload a new stack.
CpuOn(c) ==
    /\ at[c] = "off"
    /\ tsp_vectors
    /\ pstate' = [pstate EXCEPT ![c] = "OFF"]
    /\ std_active' = [std_active EXCEPT ![c] = FALSE]
    /\ ctx' = [ctx EXCEPT ![c]["S"] = Reset("S")]
    /\ own' = [own EXCEPT ![c]["S"] = Reset("S")]
    /\ el1' = [el1 EXCEPT ![c] = Reset("S")]
    /\ elr' = [elr EXCEPT ![c] = "cpu_on"]
    /\ Eret(c, "cpu_on")
    /\ job' = [job EXCEPT ![c] = NoJob]
    /\ UNCHANGED <<tsp_vectors, saved_elr, saved_args, asked, reply, refused>>

\* An interrupt wakes the core: tspd_cpu_suspend_finish_handler.
WakeUp(c) ==
    /\ at[c] = "asleep"
    /\ EnterForPower(c, "cpu_resume")
    /\ UNCHANGED <<tsp_vectors, pstate, std_active, saved_elr, saved_args,
                   job, asked, reply, refused>>

\* TSP_ON_DONE and TSP_RESUME_DONE: PSCI enters the normal world.
UpDone(c, e) ==
    /\ e \in {"cpu_on", "cpu_resume"}
    /\ SmcFrom(c, e)
    /\ pstate' = [pstate EXCEPT ![c] = "ON"]
    /\ EnterFreshNS(c)
    /\ reply' = [reply EXCEPT ![c] = Notice("none")]
    /\ Goto(c, "ns")
    /\ refused' = [refused EXCEPT ![c] = FALSE]
    /\ UNCHANGED <<tsp_vectors, std_active, saved_elr, saved_args, job, asked>>

-----------------------------------------------------------------------------
\* What the payload does by itself once it has been entered.
PayloadStep(c) ==
    \/ EntryDone(c)
    \/ GetArgs(c)
    \/ \E e \in {"std_smc", "fast_smc"} : Finish(c, e)
    \/ InterruptHandled(c)
    \/ OffDone(c)
    \/ SuspendDone(c)
    \/ SuspendRefused(c)
    \/ \E e \in {"system_off", "system_reset"} : SystemDone(c, e)
    \/ \E e \in {"cpu_on", "cpu_resume"} : UpDone(c, e)

\* What the normal world and the interrupt controller do.
OutsideStep(c) ==
    \/ \E w \in World : WriteRegisters(c, w)
    \/ \E e \in {"std_smc", "fast_smc"}, a \in Arg : Request(c, e, a)
    \/ RejectRequest(c)
    \/ Resume(c)
    \/ RejectResume(c)
    \/ \E why \in {"SMC_PREEMPTED", "TSP_EL3_FIQ"} : Yield(c, why)
    \/ SecureInterrupt(c)
    \/ \E e \in Entry : PowerDown(c, e)
    \/ CpuOn(c)
    \/ WakeUp(c)

Next == \E c \in Core : PayloadStep(c) \/ OutsideStep(c)

Spec == Init /\ [][Next]_vars

-----------------------------------------------------------------------------
(* Fairness: the payload is not stopped while it runs, so a step of it that *)
(* stays possible happens.  For the calls to end the normal world must also *)
(* resume what it interrupted (SMC_PREEMPTED asks for that), and every time *)
(* slice advances a handler that is finite, so that it ends after finitely  *)
(* many of them.                                                            *)

Fairness ==
    \A c \in Core :
        /\ WF_vars(PayloadStep(c))
        /\ SF_vars(\E e \in {"std_smc", "fast_smc"} : Finish(c, e))
        /\ SF_vars(GetArgs(c))
        /\ SF_vars(Resume(c))

LiveSpec == Spec /\ Fairness
-----------------------------------------------------------------------------
(* Properties.                                                             *)

\* A result belongs to its own request: what the normal world is given was
\* computed from the operands it passed, both those in the registers and those
\* the payload fetched later from saved_tsp_args, however often the call was
\* preempted and whatever other requests were refused meanwhile.
AnswersOwn ==
    \A c \in Core : reply[c].code = "result" =>
        reply[c] = Result([x |-> asked[c], got |-> asked[c]])

\* Each world always runs with the EL1 registers it last had (or fresh ones
\* after power up), through preemption, interrupts and power management.  The
\* normal world can count on it until a CPU_SUSPEND of its is refused after the
\* hook, which left with the secure registers; the payload always.
LiveRegisters ==
    \A c \in Core :
        /\ at[c] = "ns" /\ ~refused[c] => el1[c] = own[c]["NS"]
        /\ at[c] \in Entry => el1[c] = own[c]["S"]

\* The STD_SMC_ACTIVE flag says whether the payload's stack holds an unfinished
\* standard call, on every core that has power.
FlagMeansCall ==
    \A c \in Core : at[c] \in {"ns", "fiq", "std_smc", "asleep"} \cup SyncEntry =>
        (std_active[c] <=> job[c] # NoJob)

\* The power state kept for the payload agrees with where the core is: the
\* assertions at the head of every hook hold in the build that has them, and a
\* secure interrupt or a call of the normal world only ever enters a payload that
\* is up on this core.  Where nothing is asserted a core can run on after a
\* refused CPU_SUSPEND, and only then the state is wrong: it stays SUSPEND.
PstateFollows ==
    \A c \in Core :
        /\ at[c] \in {"ns", "std_smc", "fast_smc", "fiq", "cpu_off",
                      "cpu_suspend", "system_off", "system_reset"} =>
               /\ tsp_vectors
               /\ pstate[c] = IF refused[c] THEN "SUSPEND" ELSE "ON"
               /\ DEBUG => ~refused[c]
        /\ at[c] \in {"asleep", "cpu_resume"} => pstate[c] = "SUSPEND"
        /\ at[c] \in {"off", "cpu_on"} => pstate[c] = "OFF"

\* The place a preempted call will continue at, wherever it is kept.
ContinuesAt(c) == IF at[c] = "fiq" THEN saved_elr[c] ELSE elr[c]

Yielded(c) == std_active[c] /\ ContinuesAt(c) = "preempted"

\* Only power management ever takes away the point where a preempted call
\* continues: a refused request, a secure interrupt or anything that happens on
\* another core leaves it, and else the step is the one that resumes the call.
PreemptedCallKept ==
    [][\A c \in Core : Yielded(c) /\ at[c] # "std_smc" =>
         \/ Yielded(c)'
         \/ at'[c] \in SyncEntry \cup {"halted"}]_vars

\* The comment at STD_SMC_ACTIVE_FLAG (tspd_private.h): whatever request
\* arrives while a call is preempted, the previous context is not corrupted.
ContextNotCorrupted ==
    \A c \in Core : at[c] = "ns" /\ std_active[c] => elr[c] = "preempted"

\* A core that is in the secure world comes back to the normal world, unless
\* it loses its power or the payload spins.
SecureReturns ==
    \A c \in Core : at[c] \in Entry ~>
        at[c] \in {"ns", "off", "asleep", "halted", "spin"}

\* A standard call ends, unless the core loses its power or the payload spins.
StandardCallEnds ==
    \A c \in Core : std_active[c] ~>
        \/ ~std_active[c]
        \/ at[c] \in {"off", "asleep", "halted", "spin"}

\* The dispatcher as the normal world sees it on one core.
CallState(c) ==
    IF at[c] \in {"off", "halted"} THEN "off"
    ELSE IF at[c] \in {"std_smc", "fast_smc"} THEN "running"
    ELSE IF std_active[c] THEN "yielded" ELSE "idle"

Caller == INSTANCE YieldingCall WITH
    call <- [c \in Core |-> CallState(c)], arg <- asked,
    Notices <- {Notice(code) : code \in Code}

\* On every core the dispatcher keeps the promise of YieldingCall.
KeepsCalls == Caller!Spec
=============================================================================
