---------------------------- MODULE TspdProofs ----------------------------
(***************************************************************************)
(* What the dispatcher guarantees for every number of cores, all operands  *)
(* and all register contents.  Every fact is local to a core, so the       *)
(* inductive invariant is a predicate CoreInv(c) of one core; a step of    *)
(* another core leaves it (FrameKeeps), a step of the core itself has one  *)
(* lemma per group of actions.                                             *)
(***************************************************************************)
EXTENDS Tspd, TLAPS

Calls == {"std_smc", "fast_smc"}

\* The places at which the stack of the payload of core c is alive.
Alive == {"ns", "fiq", "std_smc", "asleep"} \cup SyncEntry

RegsInv(c) ==
    /\ at[c] = "ns" /\ ~refused[c] => el1[c] = own[c]["NS"]
    /\ at[c] \in Entry => el1[c] = own[c]["S"]
    /\ at[c] \in {"std_smc", "fast_smc", "fiq"} /\ ~refused[c] =>
           ctx[c]["NS"] = own[c]["NS"]
    /\ at[c] \in {"ns", "fiq", "asleep"} => ctx[c]["S"] = own[c]["S"]

PowerInv(c) ==
    /\ at[c] \in {"ns", "std_smc", "fast_smc", "fiq", "cpu_off",
                  "cpu_suspend", "system_off", "system_reset"} =>
           /\ tsp_vectors
           /\ pstate[c] = IF refused[c] THEN "SUSPEND" ELSE "ON"
           /\ DEBUG => ~refused[c]
    /\ at[c] \in {"asleep", "cpu_resume"} => pstate[c] = "SUSPEND" /\ tsp_vectors
    /\ at[c] \in {"off", "cpu_on"} => pstate[c] = "OFF"
    /\ at[c] = "cpu_on" => tsp_vectors
    /\ at[c] = "main" => ~refused[c]

\* A call that is not finished has the operands it was accepted with.
OperandsKept(c) ==
    /\ asked[c] \in Arg
    /\ job[c].x = asked[c]
    /\ saved_args[c] = asked[c]
    /\ job[c].got \in {None, asked[c]}

CallInv(c) ==
    /\ at[c] = "std_smc" => std_active[c]
    /\ at[c] = "fast_smc" => ~std_active[c] /\ OperandsKept(c)
    /\ at[c] \in Alive => (std_active[c] <=> job[c] # NoJob)
    /\ at[c] \in Alive /\ std_active[c] => OperandsKept(c)
    /\ reply[c].code = "result" =>
           reply[c] = Result([x |-> asked[c], got |-> asked[c]])

\* A preempted call continues where it was interrupted, or not at all; at
\* address 0 only after a refused CPU_SUSPEND.
PointInv(c) ==
    /\ at[c] = "ns" /\ std_active[c] => elr[c] \in {"preempted", "spin", Unset}
    /\ saved_elr[c] \in {"preempted", "spin", Unset}
    /\ elr[c] = Unset => refused[c]
    /\ at[c] = "fiq" /\ std_active[c] /\ saved_elr[c] = Unset => refused[c]
    /\ at[c] \in SyncEntry \cup {"asleep"} => elr[c] # "preempted"

CoreInv(c) == RegsInv(c) /\ PowerInv(c) /\ CallInv(c) /\ PointInv(c)

Inv == Types /\ \A c \in Core : CoreInv(c)

-----------------------------------------------------------------------------
(* Where the instruction behind an SMC is.                                  *)

LEMMA Behind ==
    /\ AfterSmc \in [Entry -> Point]
    /\ \A e \in Entry \ {"cpu_off", "system_off", "system_reset", "cpu_suspend"} :
           AfterSmc[e] = "spin"
BY DEF AfterSmc, Follows, Entry, Point

\* What a step does to the place of the core is within the places there are.
LEMMA Places ==
    /\ Entry \subseteq Place /\ Entry \subseteq Point /\ SyncEntry \subseteq Entry
    /\ {"ns", "spin", "off", "asleep", "halted", "std_smc", "fast_smc", "fiq"} \subseteq Place
    /\ \A p \in Point : p = "preempted" \/ p \in Place
    /\ Unset \notin Point
    /\ Calls \subseteq Entry
BY DEF Entry, Place, Point, SyncEntry, Calls, Unset

LEMMA NoticesAreReplies ==
    /\ \A code \in Code : Notice(code) \in Reply /\ Notice(code).code = code
    /\ \A j \in Job : Result(j) \in Reply /\ Result(j).code = "result"
    /\ {"none", "SMC_UNK", "SMC_PREEMPTED", "TSP_EL3_FIQ", "INVALID_PARAMS"} = Code
    /\ "result" \notin Code
    /\ NoJob \in Job
BY DEF Notice, Result, Reply, Code, Job, NoJob

LEMMA ResetTyped == \A w \in World : Reset(w) \in El1
BY RegsExist DEF Reset, ResetRegs, El1, World

-----------------------------------------------------------------------------
(* The switches of the EL1 registers.                                       *)

RegsTyped ==
    /\ el1 \in [Core -> El1]
    /\ ctx \in [Core -> [World -> El1]]
    /\ own \in [Core -> [World -> El1]]

LEMMA SavingDoes ==
    ASSUME RegsTyped, NEW c \in Core, NEW from \in World, NEW to \in World,
           from # to, SwitchSaving(c, from, to)
    PROVE  /\ RegsTyped'
           /\ el1'[c] = ctx[c][to]
           /\ ctx'[c][from] = el1[c] /\ ctx'[c][to] = ctx[c][to]
           /\ own' = own
           /\ \A d \in Core \ {c} : el1'[d] = el1[d] /\ ctx'[d] = ctx[d]
BY DEF SwitchSaving, Saved, Restored, RegsTyped

LEMMA DroppingDoes ==
    ASSUME RegsTyped, NEW c \in Core, NEW to \in World, SwitchDropping(c, to)
    PROVE  /\ RegsTyped'
           /\ el1'[c] = ctx[c][to]
           /\ ctx' = ctx /\ own' = own
           /\ \A d \in Core \ {c} : el1'[d] = el1[d]
BY DEF SwitchDropping, Restored, RegsTyped

LEMMA FreshDoes ==
    ASSUME RegsTyped, NEW c \in Core, EnterFreshNS(c)
    PROVE  /\ RegsTyped'
           /\ el1'[c] = Reset("NS") /\ own'[c]["NS"] = Reset("NS")
           /\ ctx'[c]["S"] = el1[c] /\ own'[c]["S"] = own[c]["S"]
           /\ \A d \in Core \ {c} : el1'[d] = el1[d] /\ ctx'[d] = ctx[d] /\ own'[d] = own[d]
<1>1. Reset("NS") \in El1 /\ World = {"NS", "S"}
  BY ResetTyped DEF World
<1>. QED BY <1>1 DEF EnterFreshNS, RegsTyped

LEMMA LosingDoes ==
    ASSUME RegsTyped, NEW c \in Core, LosePower(c)
    PROVE  /\ RegsTyped'
           /\ ctx'[c]["S"] = el1[c] /\ own' = own
           /\ \A d \in Core \ {c} : el1'[d] = el1[d] /\ ctx'[d] = ctx[d]
<1>1. <<"lost", ResetRegs>> \in El1 /\ World = {"NS", "S"}
  BY RegsExist DEF El1, ResetRegs, World
<1>. QED BY <1>1 DEF LosePower, Saved, RegsTyped

-----------------------------------------------------------------------------
(* What a step of core c leaves alone on the others.                        *)

SameOn(d) ==
    /\ at'[d] = at[d] /\ pstate'[d] = pstate[d] /\ std_active'[d] = std_active[d]
    /\ elr'[d] = elr[d] /\ saved_elr'[d] = saved_elr[d]
    /\ saved_args'[d] = saved_args[d] /\ el1'[d] = el1[d] /\ ctx'[d] = ctx[d]
    /\ own'[d] = own[d] /\ job'[d] = job[d] /\ asked'[d] = asked[d]
    /\ reply'[d] = reply[d] /\ refused'[d] = refused[d]

Local(c) == (tsp_vectors => tsp_vectors') /\ \A d \in Core \ {c} : SameOn(d)

\* What a step promises the caller on its core, and that it keeps the point
\* where a preempted call continues.
Promise(c) ==
    \/ Caller!Start(c) \/ Caller!Yield(c) \/ Caller!Continue(c) \/ Caller!Finish(c)
    \/ Caller!Notify(c) \/ Caller!Abandon(c) \/ Caller!PowerOn(c)
    \/ Caller!Same(c)

Kept(c) ==
    Yielded(c) /\ at[c] # "std_smc" =>
        Yielded(c)' \/ at'[c] \in SyncEntry \cup {"halted"}

LEMMA FrameKeeps ==
    ASSUME NEW d \in Core, CoreInv(d), SameOn(d), tsp_vectors => tsp_vectors'
    PROVE  CoreInv(d)'
<1>1. RegsInv(d)'
  BY DEF CoreInv, RegsInv, SameOn
<1>2. PowerInv(d)'
  BY DEF CoreInv, PowerInv, SameOn
<1>3. OperandsKept(d) => OperandsKept(d)'
  BY DEF OperandsKept, SameOn
<1>4. CallInv(d)'
  BY <1>3 DEF CoreInv, CallInv, SameOn
<1>5. PointInv(d)'
  BY DEF CoreInv, PointInv, SameOn
<1>. QED BY <1>1, <1>2, <1>4, <1>5 DEF CoreInv

-----------------------------------------------------------------------------
(* The steps, one lemma each: types, the other cores, the core itself.      *)

LEMMA EntryDoneKeeps ==
    ASSUME Types, NEW c \in Core, CoreInv(c), EntryDone(c)
    PROVE  Types' /\ Local(c) /\ CoreInv(c)' /\ Promise(c) /\ Kept(c)
<1>. RegsTyped
  BY DEF Types, RegsTyped
<1>. RegsTyped' /\ el1'[c] = Reset("NS") /\ own'[c]["NS"] = Reset("NS")
       /\ ctx'[c]["S"] = el1[c] /\ own'[c]["S"] = own[c]["S"]
       /\ \A d \in Core \ {c} : el1'[d] = el1[d] /\ ctx'[d] = ctx[d] /\ own'[d] = own[d]
  <2>1. EnterFreshNS(c)
    BY DEF EntryDone
  <2>. QED BY <2>1, FreshDoes
<1>1. /\ at[c] = "main" /\ at'[c] = "ns" /\ pstate'[c] = "ON" /\ tsp_vectors' = TRUE /\ elr'[c] = "spin"
      /\ UNCHANGED <<std_active, saved_elr, saved_args, job, asked, reply, refused>>
  BY Places, Behind DEF Types, EntryDone, SmcFrom, Goto, Entry
<1>2. Types'
  <2>1. tsp_vectors' \in BOOLEAN
    BY DEF Types, EntryDone, SmcFrom, Goto
  <2>2. pstate' \in [Core -> {"OFF", "ON", "SUSPEND"}]
    BY DEF Types, EntryDone, SmcFrom, Goto
  <2>3. elr' \in [Core -> Point \cup {Unset}]
    BY Places, Behind DEF Types, EntryDone, SmcFrom, Goto, Point, Entry
  <2>4. at' \in [Core -> Place]
    BY Places, Behind DEF Types, EntryDone, SmcFrom, Goto, Point, Entry, SyncEntry
  <2>. QED BY <1>1, <2>1, <2>2, <2>3, <2>4 DEF Types, RegsTyped
<1>3. Local(c)
  BY <1>1 DEF Types, Local, SameOn, EntryDone, SmcFrom, Goto
<1>4. RegsInv(c)'
  BY <1>1 DEF CoreInv, RegsInv, PointInv, Entry, Calls
<1>5. PowerInv(c)'
  BY <1>1 DEF CoreInv, PowerInv, PointInv, Calls
<1>6. CallInv(c)'
  BY <1>1, NoticesAreReplies DEF CoreInv, CallInv, PointInv, OperandsKept, Alive,
     SyncEntry, Entry, Calls, Types, Job, NoJob, Result
<1>7. PointInv(c)'
  BY <1>1 DEF CoreInv, PointInv, CallInv, SyncEntry, Entry, Calls, Unset
<1>8. Caller!Same(c)
  BY <1>1, NoticesAreReplies DEF CoreInv, CallInv, PointInv, OperandsKept,
     Caller!Same, CallState, Alive, SyncEntry, Entry, Calls
<1>9. Kept(c)
  BY <1>1 DEF CoreInv, CallInv, PointInv, Kept, Yielded, ContinuesAt, SyncEntry,
     Entry, Calls
<1>. QED BY <1>2, <1>3, <1>4, <1>5, <1>6, <1>7, <1>8, <1>9 DEF CoreInv, Promise

LEMMA RequestKeeps ==
    ASSUME Types, NEW c \in Core, CoreInv(c), NEW e \in Calls, NEW a \in Arg, Request(c, e, a)
    PROVE  Types' /\ Local(c) /\ CoreInv(c)' /\ Promise(c) /\ Kept(c)
<1>. RegsTyped
  BY DEF Types, RegsTyped
<1>. RegsTyped'
       /\ el1'[c] = ctx[c]["S"] /\ ctx'[c]["NS"] = el1[c] /\ ctx'[c]["S"] = ctx[c]["S"]
       /\ own' = own /\ \A d \in Core \ {c} : el1'[d] = el1[d] /\ ctx'[d] = ctx[d]
  <2>1. SwitchSaving(c, "NS", "S")
    BY DEF Request
  <2>. QED BY <2>1, SavingDoes DEF World
<1>1. /\ at[c] = "ns" /\ ~std_active[c] /\ at'[c] = e /\ elr'[c] = e /\ saved_args'[c] = a /\ asked'[c] = a
      /\ (std_active'[c] <=> e = "std_smc") /\ job'[c] = [x |-> a, got |-> None] /\ reply'[c] = Notice("none")
      /\ UNCHANGED <<tsp_vectors, pstate, saved_elr, refused>>
  BY Places, Behind DEF Types, Request, Eret, Unset, Goto, Calls, Job
<1>2. Types'
  <2>1. at' \in [Core -> Place]
    BY Places, Behind DEF Types, Request, Eret, Unset, Goto, Calls, Point, Entry, SyncEntry
  <2>2. saved_args' \in [Core -> Arg \cup {None}]
    BY DEF Types, Request, Eret, Unset, Goto, Calls
  <2>3. std_active' \in [Core -> BOOLEAN]
    BY DEF Types, Request, Eret, Unset, Goto, Calls
  <2>4. elr' \in [Core -> Point \cup {Unset}]
    BY Places, Behind DEF Types, Request, Eret, Unset, Goto, Calls, Point, Entry
  <2>5. job' \in [Core -> Job]
    BY DEF Types, Request, Eret, Unset, Goto, Calls, Job, NoJob
  <2>6. asked' \in [Core -> Arg \cup {None}]
    BY DEF Types, Request, Eret, Unset, Goto, Calls
  <2>7. reply' \in [Core -> Reply]
    BY NoticesAreReplies DEF Types, Request, Eret, Unset, Goto, Calls
  <2>. QED BY <1>1, <2>1, <2>2, <2>3, <2>4, <2>5, <2>6, <2>7 DEF Types, RegsTyped
<1>3. Local(c)
  BY <1>1 DEF Types, Local, SameOn, Request, Eret, Unset, Goto, Calls
<1>4. RegsInv(c)'
  BY <1>1 DEF CoreInv, RegsInv, PointInv, Entry, Calls
<1>5. PowerInv(c)'
  BY <1>1 DEF CoreInv, PowerInv, PointInv, Calls
<1>10. OperandsKept(c)'
  BY <1>1 DEF OperandsKept
<1>11. job'[c] # NoJob
  BY <1>1, NoneIsNoArg DEF NoJob
<1>6. CallInv(c)'
  BY <1>1, <1>10, <1>11, NoticesAreReplies DEF CoreInv, CallInv, PointInv,
     OperandsKept, Alive, SyncEntry, Entry, Calls, Types, Job, NoJob, Result
<1>7. PointInv(c)'
  BY <1>1 DEF CoreInv, PointInv, CallInv, SyncEntry, Entry, Calls, Unset
<1>8. Caller!Start(c)
  BY <1>1, NoticesAreReplies DEF CoreInv, CallInv, PointInv, OperandsKept,
     Caller!Start, CallState, Alive, SyncEntry, Entry, Calls
<1>9. Kept(c)
  BY <1>1 DEF CoreInv, CallInv, PointInv, Kept, Yielded, ContinuesAt, SyncEntry,
     Entry, Calls
<1>. QED BY <1>2, <1>3, <1>4, <1>5, <1>6, <1>7, <1>8, <1>9 DEF CoreInv, Promise

LEMMA RejectRequestKeeps ==
    ASSUME Types, NEW c \in Core, CoreInv(c), RejectRequest(c)
    PROVE  Types' /\ Local(c) /\ CoreInv(c)' /\ Promise(c) /\ Kept(c)
<1>. RegsTyped
  BY DEF Types, RegsTyped
<1>. RegsTyped' /\ el1' = el1 /\ ctx' = ctx /\ own' = own
  BY DEF RejectRequest, RegsTyped
<1>1. /\ at[c] = "ns" /\ reply'[c] = Notice("SMC_UNK")
      /\ UNCHANGED <<at, tsp_vectors, pstate, std_active, elr, saved_elr, saved_args, job, asked, refused>>
  BY Places, Behind DEF Types, RejectRequest
<1>2. Types'
  <2>1. reply' \in [Core -> Reply]
    BY NoticesAreReplies DEF Types, RejectRequest
  <2>. QED BY <1>1, <2>1 DEF Types, RegsTyped
<1>3. Local(c)
  BY <1>1 DEF Types, Local, SameOn, RejectRequest
<1>4. RegsInv(c)'
  BY <1>1 DEF CoreInv, RegsInv, PointInv, Entry, Calls
<1>5. PowerInv(c)'
  BY <1>1 DEF CoreInv, PowerInv, PointInv, Calls
<1>6. CallInv(c)'
  BY <1>1, NoticesAreReplies DEF CoreInv, CallInv, PointInv, OperandsKept, Alive,
     SyncEntry, Entry, Calls, Types, Job, NoJob, Result
<1>7. PointInv(c)'
  BY <1>1 DEF CoreInv, PointInv, CallInv, SyncEntry, Entry, Calls, Unset
<1>8. Caller!Notify(c)
  BY <1>1, NoticesAreReplies DEF CoreInv, CallInv, PointInv, OperandsKept,
     Caller!Notify, CallState, Alive, SyncEntry, Entry, Calls
<1>9. Kept(c)
  BY <1>1 DEF CoreInv, CallInv, PointInv, Kept, Yielded, ContinuesAt, SyncEntry,
     Entry, Calls
<1>. QED BY <1>2, <1>3, <1>4, <1>5, <1>6, <1>7, <1>8, <1>9 DEF CoreInv, Promise

LEMMA ResumeKeeps ==
    ASSUME Types, NEW c \in Core, CoreInv(c), Resume(c)
    PROVE  Types' /\ Local(c) /\ CoreInv(c)' /\ Promise(c) /\ Kept(c)
<1>. RegsTyped
  BY DEF Types, RegsTyped
<1>. RegsTyped'
       /\ el1'[c] = ctx[c]["S"] /\ ctx'[c]["NS"] = el1[c] /\ ctx'[c]["S"] = ctx[c]["S"]
       /\ own' = own /\ \A d \in Core \ {c} : el1'[d] = el1[d] /\ ctx'[d] = ctx[d]
  <2>1. SwitchSaving(c, "NS", "S")
    BY DEF Resume
  <2>. QED BY <2>1, SavingDoes DEF World
<1>1. /\ at[c] = "ns" /\ std_active[c] /\ elr[c] \in {"preempted", "spin", Unset}
      /\ at'[c] = IF elr[c] = "preempted" THEN "std_smc" ELSE "spin"
      /\ UNCHANGED <<tsp_vectors, pstate, std_active, elr, saved_elr, saved_args, job, asked, reply, refused>>
  BY Places DEF Types, Resume, Eret, Unset, Goto, CoreInv, PointInv
<1>2. Types'
  <2>1. at' \in [Core -> Place]
    BY Places, Behind DEF Types, Resume, Eret, Unset, Goto, Point, Entry, SyncEntry
  <2>. QED BY <1>1, <2>1 DEF Types, RegsTyped
<1>3. Local(c)
  BY <1>1 DEF Types, Local, SameOn, Resume, Eret, Unset, Goto
<1>4. RegsInv(c)'
  BY <1>1 DEF CoreInv, RegsInv, PointInv, Entry, Calls
<1>5. PowerInv(c)'
  BY <1>1 DEF CoreInv, PowerInv, PointInv, Calls
<1>6. CallInv(c)'
  BY <1>1, NoticesAreReplies DEF CoreInv, CallInv, PointInv, OperandsKept, Alive,
     SyncEntry, Entry, Calls, Types, Job, NoJob, Result
<1>7. PointInv(c)'
  BY <1>1 DEF CoreInv, PointInv, CallInv, SyncEntry, Entry, Calls, Unset
<1>8. Caller!Continue(c) \/ Caller!Same(c)
  BY <1>1, NoticesAreReplies DEF CoreInv, CallInv, PointInv, OperandsKept,
     Caller!Continue, Caller!Same, CallState, Alive, SyncEntry, Entry, Calls
<1>9. Kept(c)
  BY <1>1 DEF CoreInv, CallInv, PointInv, Kept, Yielded, ContinuesAt, SyncEntry,
     Entry, Calls
<1>. QED BY <1>2, <1>3, <1>4, <1>5, <1>6, <1>7, <1>8, <1>9 DEF CoreInv, Promise

LEMMA RejectResumeKeeps ==
    ASSUME Types, NEW c \in Core, CoreInv(c), RejectResume(c)
    PROVE  Types' /\ Local(c) /\ CoreInv(c)' /\ Promise(c) /\ Kept(c)
<1>. RegsTyped
  BY DEF Types, RegsTyped
<1>. RegsTyped' /\ el1' = el1 /\ ctx' = ctx /\ own' = own
  BY DEF RejectResume, RegsTyped
<1>1. /\ at[c] = "ns" /\ reply'[c] = Notice("SMC_UNK")
      /\ UNCHANGED <<at, tsp_vectors, pstate, std_active, elr, saved_elr, saved_args, job, asked, refused>>
  BY Places, Behind DEF Types, RejectResume
<1>2. Types'
  <2>1. reply' \in [Core -> Reply]
    BY NoticesAreReplies DEF Types, RejectResume
  <2>. QED BY <1>1, <2>1 DEF Types, RegsTyped
<1>3. Local(c)
  BY <1>1 DEF Types, Local, SameOn, RejectResume
<1>4. RegsInv(c)'
  BY <1>1 DEF CoreInv, RegsInv, PointInv, Entry, Calls
<1>5. PowerInv(c)'
  BY <1>1 DEF CoreInv, PowerInv, PointInv, Calls
<1>6. CallInv(c)'
  BY <1>1, NoticesAreReplies DEF CoreInv, CallInv, PointInv, OperandsKept, Alive,
     SyncEntry, Entry, Calls, Types, Job, NoJob, Result
<1>7. PointInv(c)'
  BY <1>1 DEF CoreInv, PointInv, CallInv, SyncEntry, Entry, Calls, Unset
<1>8. Caller!Notify(c)
  BY <1>1, NoticesAreReplies DEF CoreInv, CallInv, PointInv, OperandsKept,
     Caller!Notify, CallState, Alive, SyncEntry, Entry, Calls
<1>9. Kept(c)
  BY <1>1 DEF CoreInv, CallInv, PointInv, Kept, Yielded, ContinuesAt, SyncEntry,
     Entry, Calls
<1>. QED BY <1>2, <1>3, <1>4, <1>5, <1>6, <1>7, <1>8, <1>9 DEF CoreInv, Promise

LEMMA GetArgsKeeps ==
    ASSUME Types, NEW c \in Core, CoreInv(c), GetArgs(c)
    PROVE  Types' /\ Local(c) /\ CoreInv(c)' /\ Promise(c) /\ Kept(c)
<1>. RegsTyped
  BY DEF Types, RegsTyped
<1>. RegsTyped' /\ el1' = el1 /\ ctx' = ctx /\ own' = own
  BY DEF GetArgs, RegsTyped
<1>1. /\ at[c] \in Calls /\ job'[c] = [x |-> job[c].x, got |-> saved_args[c]]
      /\ UNCHANGED <<at, tsp_vectors, pstate, std_active, elr, saved_elr, saved_args, asked, reply, refused>>
  BY Places, Behind DEF Types, GetArgs, Calls, Job
<1>2. Types'
  <2>1. job' \in [Core -> Job]
    <3>1. [job[c] EXCEPT !.got = saved_args[c]] \in Job
      BY DEF Types, Job
    <3>. QED BY <3>1 DEF Types, GetArgs
  <2>. QED BY <1>1, <2>1 DEF Types, RegsTyped
<1>3. Local(c)
  BY <1>1 DEF Types, Local, SameOn, GetArgs, Calls
<1>4. RegsInv(c)'
  BY <1>1 DEF CoreInv, RegsInv, PointInv, Entry, Calls
<1>5. PowerInv(c)'
  BY <1>1 DEF CoreInv, PowerInv, PointInv, Calls
<1>6. CallInv(c)'
  BY <1>1, NoticesAreReplies DEF CoreInv, CallInv, PointInv, OperandsKept, Alive,
     SyncEntry, Entry, Calls, Types, Job, NoJob, Result
<1>7. PointInv(c)'
  BY <1>1 DEF CoreInv, PointInv, CallInv, SyncEntry, Entry, Calls, Unset
<1>8. Caller!Same(c)
  BY <1>1, NoticesAreReplies DEF CoreInv, CallInv, PointInv, OperandsKept,
     Caller!Same, CallState, Alive, SyncEntry, Entry, Calls
<1>9. Kept(c)
  BY <1>1 DEF CoreInv, CallInv, PointInv, Kept, Yielded, ContinuesAt, SyncEntry,
     Entry, Calls
<1>. QED BY <1>2, <1>3, <1>4, <1>5, <1>6, <1>7, <1>8, <1>9 DEF CoreInv, Promise

LEMMA FinishKeeps ==
    ASSUME Types, NEW c \in Core, CoreInv(c), NEW e \in Calls, Finish(c, e)
    PROVE  Types' /\ Local(c) /\ CoreInv(c)' /\ Promise(c) /\ Kept(c)
<1>. RegsTyped
  BY DEF Types, RegsTyped
<1>. RegsTyped'
       /\ el1'[c] = ctx[c]["NS"] /\ ctx'[c]["S"] = el1[c] /\ ctx'[c]["NS"] = ctx[c]["NS"]
       /\ own' = own /\ \A d \in Core \ {c} : el1'[d] = el1[d] /\ ctx'[d] = ctx[d]
  <2>1. SwitchSaving(c, "S", "NS")
    BY DEF Finish
  <2>. QED BY <2>1, SavingDoes DEF World
<1>1. /\ at[c] = e /\ at'[c] = "ns" /\ elr'[c] = "spin" /\ job[c].got # None /\ job'[c] = NoJob /\ reply'[c] = Result(job[c])
      /\ (std_active'[c] <=> std_active[c] /\ e # "std_smc")
      /\ UNCHANGED <<tsp_vectors, pstate, saved_elr, saved_args, asked, refused>>
  BY Places, Behind DEF Types, Finish, SmcFrom, Goto, Calls, Entry, Job
<1>2. Types'
  <2>1. at' \in [Core -> Place]
    BY Places, Behind DEF Types, Finish, SmcFrom, Goto, Calls, Point, Entry, SyncEntry
  <2>2. elr' \in [Core -> Point \cup {Unset}]
    BY Places, Behind DEF Types, Finish, SmcFrom, Goto, Calls, Point, Entry
  <2>3. std_active' \in [Core -> BOOLEAN]
    BY DEF Types, Finish, SmcFrom, Goto, Calls
  <2>4. reply' \in [Core -> Reply]
    BY NoticesAreReplies DEF Types, Finish, SmcFrom, Goto, Calls
  <2>5. job' \in [Core -> Job]
    BY DEF Types, Finish, SmcFrom, Goto, Calls, Job, NoJob
  <2>. QED BY <1>1, <2>1, <2>2, <2>3, <2>4, <2>5 DEF Types, RegsTyped
<1>3. Local(c)
  BY <1>1 DEF Types, Local, SameOn, Finish, SmcFrom, Goto, Calls
<1>4. RegsInv(c)'
  BY <1>1 DEF CoreInv, RegsInv, PointInv, Entry, Calls
<1>5. PowerInv(c)'
  BY <1>1 DEF CoreInv, PowerInv, PointInv, Calls
<1>6. CallInv(c)'
  BY <1>1, NoticesAreReplies DEF CoreInv, CallInv, PointInv, OperandsKept, Alive,
     SyncEntry, Entry, Calls, Types, Job, NoJob, Result
<1>7. PointInv(c)'
  BY <1>1 DEF CoreInv, PointInv, CallInv, SyncEntry, Entry, Calls, Unset
<1>8. Caller!Finish(c)
  BY <1>1, NoticesAreReplies DEF CoreInv, CallInv, PointInv, OperandsKept,
     Caller!Finish, CallState, Alive, SyncEntry, Entry, Calls, Result
<1>9. Kept(c)
  BY <1>1 DEF CoreInv, CallInv, PointInv, Kept, Yielded, ContinuesAt, SyncEntry,
     Entry, Calls
<1>. QED BY <1>2, <1>3, <1>4, <1>5, <1>6, <1>7, <1>8, <1>9 DEF CoreInv, Promise

LEMMA YieldKeeps ==
    ASSUME Types, NEW c \in Core, CoreInv(c), NEW why \in {"SMC_PREEMPTED", "TSP_EL3_FIQ"}, Yield(c, why)
    PROVE  Types' /\ Local(c) /\ CoreInv(c)' /\ Promise(c) /\ Kept(c)
<1>. RegsTyped
  BY DEF Types, RegsTyped
<1>. RegsTyped'
       /\ el1'[c] = ctx[c]["NS"] /\ ctx'[c]["S"] = el1[c] /\ ctx'[c]["NS"] = ctx[c]["NS"]
       /\ own' = own /\ \A d \in Core \ {c} : el1'[d] = el1[d] /\ ctx'[d] = ctx[d]
  <2>1. SwitchSaving(c, "S", "NS")
    BY DEF Yield
  <2>. QED BY <2>1, SavingDoes DEF World
<1>1. /\ at[c] = "std_smc" /\ at'[c] = "ns" /\ elr'[c] = "preempted" /\ reply'[c] = Notice(why)
      /\ UNCHANGED <<tsp_vectors, pstate, std_active, saved_elr, saved_args, job, asked, refused>>
  BY Places, Behind DEF Types, Yield, Goto
<1>2. Types'
  <2>1. at' \in [Core -> Place]
    BY Places, Behind DEF Types, Yield, Goto, Point, Entry, SyncEntry
  <2>2. elr' \in [Core -> Point \cup {Unset}]
    BY Places, Behind DEF Types, Yield, Goto, Point, Entry
  <2>3. reply' \in [Core -> Reply]
    BY NoticesAreReplies DEF Types, Yield, Goto
  <2>. QED BY <1>1, <2>1, <2>2, <2>3 DEF Types, RegsTyped
<1>3. Local(c)
  BY <1>1 DEF Types, Local, SameOn, Yield, Goto
<1>4. RegsInv(c)'
  BY <1>1 DEF CoreInv, RegsInv, PointInv, Entry, Calls
<1>5. PowerInv(c)'
  BY <1>1 DEF CoreInv, PowerInv, PointInv, Calls
<1>6. CallInv(c)'
  BY <1>1, NoticesAreReplies DEF CoreInv, CallInv, PointInv, OperandsKept, Alive,
     SyncEntry, Entry, Calls, Types, Job, NoJob, Result
<1>7. PointInv(c)'
  BY <1>1 DEF CoreInv, PointInv, CallInv, SyncEntry, Entry, Calls, Unset
<1>8. Caller!Yield(c)
  BY <1>1, NoticesAreReplies DEF CoreInv, CallInv, PointInv, OperandsKept,
     Caller!Yield, CallState, Alive, SyncEntry, Entry, Calls
<1>9. Kept(c)
  BY <1>1 DEF CoreInv, CallInv, PointInv, Kept, Yielded, ContinuesAt, SyncEntry,
     Entry, Calls
<1>. QED BY <1>2, <1>3, <1>4, <1>5, <1>6, <1>7, <1>8, <1>9 DEF CoreInv, Promise

LEMMA SecureInterruptKeeps ==
    ASSUME Types, NEW c \in Core, CoreInv(c), SecureInterrupt(c)
    PROVE  Types' /\ Local(c) /\ CoreInv(c)' /\ Promise(c) /\ Kept(c)
<1>. RegsTyped
  BY DEF Types, RegsTyped
<1>. RegsTyped'
       /\ el1'[c] = ctx[c]["S"] /\ ctx'[c]["NS"] = el1[c] /\ ctx'[c]["S"] = ctx[c]["S"]
       /\ own' = own /\ \A d \in Core \ {c} : el1'[d] = el1[d] /\ ctx'[d] = ctx[d]
  <2>1. SwitchSaving(c, "NS", "S")
    BY DEF SecureInterrupt
  <2>. QED BY <2>1, SavingDoes DEF World
<1>1. /\ at[c] = "ns" /\ at'[c] = "fiq" /\ elr'[c] = "fiq" /\ saved_elr'[c] = (IF std_active[c] THEN elr[c] ELSE saved_elr[c])
      /\ UNCHANGED <<tsp_vectors, pstate, std_active, saved_args, job, asked, reply, refused>>
  BY Places, Behind DEF Types, SecureInterrupt, Eret, Unset, Goto
<1>2. Types'
  <2>1. at' \in [Core -> Place]
    BY Places, Behind DEF Types, SecureInterrupt, Eret, Unset, Goto, Point, Entry, SyncEntry
  <2>2. saved_elr' \in [Core -> Point \cup {Unset}]
    BY Places, Behind DEF Types, SecureInterrupt, Eret, Unset, Goto
  <2>3. elr' \in [Core -> Point \cup {Unset}]
    BY Places, Behind DEF Types, SecureInterrupt, Eret, Unset, Goto, Point, Entry
  <2>. QED BY <1>1, <2>1, <2>2, <2>3 DEF Types, RegsTyped
<1>3. Local(c)
  BY <1>1 DEF Types, Local, SameOn, SecureInterrupt, Eret, Unset, Goto
<1>4. RegsInv(c)'
  BY <1>1 DEF CoreInv, RegsInv, PointInv, Entry, Calls
<1>5. PowerInv(c)'
  BY <1>1 DEF CoreInv, PowerInv, PointInv, Calls
<1>6. CallInv(c)'
  BY <1>1, NoticesAreReplies DEF CoreInv, CallInv, PointInv, OperandsKept, Alive,
     SyncEntry, Entry, Calls, Types, Job, NoJob, Result
<1>7. PointInv(c)'
  BY <1>1 DEF CoreInv, PointInv, CallInv, SyncEntry, Entry, Calls, Unset
<1>8. Caller!Same(c)
  BY <1>1, NoticesAreReplies DEF CoreInv, CallInv, PointInv, OperandsKept,
     Caller!Same, CallState, Alive, SyncEntry, Entry, Calls
<1>9. Kept(c)
  BY <1>1 DEF CoreInv, CallInv, PointInv, Kept, Yielded, ContinuesAt, SyncEntry,
     Entry, Calls
<1>. QED BY <1>2, <1>3, <1>4, <1>5, <1>6, <1>7, <1>8, <1>9 DEF CoreInv, Promise

LEMMA InterruptHandledKeeps ==
    ASSUME Types, NEW c \in Core, CoreInv(c), InterruptHandled(c)
    PROVE  Types' /\ Local(c) /\ CoreInv(c)' /\ Promise(c) /\ Kept(c)
<1>. RegsTyped
  BY DEF Types, RegsTyped
<1>. RegsTyped' /\ el1'[c] = ctx[c]["NS"] /\ ctx' = ctx /\ own' = own
       /\ \A d \in Core \ {c} : el1'[d] = el1[d]
  <2>1. SwitchDropping(c, "NS")
    BY DEF InterruptHandled
  <2>. QED BY <2>1, DroppingDoes DEF World
<1>1. /\ at[c] = "fiq" /\ AfterSmc["fiq"] = "spin" /\ at'[c] = "ns" /\ elr'[c] = (IF std_active[c] THEN saved_elr[c] ELSE AfterSmc["fiq"])
      /\ UNCHANGED <<tsp_vectors, pstate, std_active, saved_elr, saved_args, job, asked, reply, refused>>
  BY Places, Behind DEF Types, InterruptHandled, Goto, Entry
<1>2. Types'
  <2>1. at' \in [Core -> Place]
    BY Places, Behind DEF Types, InterruptHandled, Goto, Point, Entry, SyncEntry
  <2>2. elr' \in [Core -> Point \cup {Unset}]
    <3>1. saved_elr[c] \in Point \cup {Unset}
      BY DEF Types
    <3>2. AfterSmc["fiq"] \in Point
      BY Behind DEF Entry
    <3>. QED BY <3>1, <3>2 DEF Types, InterruptHandled
  <2>. QED BY <1>1, <2>1, <2>2 DEF Types, RegsTyped
<1>3. Local(c)
  BY <1>1 DEF Types, Local, SameOn, InterruptHandled, Goto
<1>4. RegsInv(c)'
  BY <1>1 DEF CoreInv, RegsInv, PointInv, Entry, Calls
<1>5. PowerInv(c)'
  BY <1>1 DEF CoreInv, PowerInv, PointInv, Calls
<1>6. CallInv(c)'
  BY <1>1, NoticesAreReplies DEF CoreInv, CallInv, PointInv, OperandsKept, Alive,
     SyncEntry, Entry, Calls, Types, Job, NoJob, Result
<1>7. PointInv(c)'
  BY <1>1 DEF CoreInv, PointInv, CallInv, SyncEntry, Entry, Calls, Unset
<1>8. Caller!Same(c)
  BY <1>1, NoticesAreReplies DEF CoreInv, CallInv, PointInv, OperandsKept,
     Caller!Same, CallState, Alive, SyncEntry, Entry, Calls
<1>9. Kept(c)
  BY <1>1 DEF CoreInv, CallInv, PointInv, Kept, Yielded, ContinuesAt, SyncEntry,
     Entry, Calls
<1>. QED BY <1>2, <1>3, <1>4, <1>5, <1>6, <1>7, <1>8, <1>9 DEF CoreInv, Promise

LEMMA PowerDownKeeps ==
    ASSUME Types, NEW c \in Core, CoreInv(c), NEW e \in Entry, PowerDown(c, e)
    PROVE  Types' /\ Local(c) /\ CoreInv(c)' /\ Promise(c) /\ Kept(c)
<1>. RegsTyped
  BY DEF Types, RegsTyped
<1>. RegsTyped' /\ el1'[c] = ctx[c]["S"] /\ ctx' = ctx /\ own' = own
       /\ \A d \in Core \ {c} : el1'[d] = el1[d]
  <2>1. SwitchDropping(c, "S")
    BY DEF PowerDown, EnterForPower
  <2>. QED BY <2>1, DroppingDoes DEF World
<1>1. /\ at[c] = "ns" /\ e \in {"cpu_off", "cpu_suspend", "system_off", "system_reset"} /\ at'[c] = e /\ elr'[c] = e
      /\ UNCHANGED <<tsp_vectors, pstate, std_active, saved_elr, saved_args, job, asked, reply, refused>>
  BY Places, Behind DEF Types, PowerDown, EnterForPower, Eret, Unset, Goto
<1>2. Types'
  <2>1. at' \in [Core -> Place]
    BY Places, Behind DEF Types, PowerDown, EnterForPower, Eret, Unset, Goto, Point,
       Entry, SyncEntry
  <2>2. elr' \in [Core -> Point \cup {Unset}]
    BY Places, Behind DEF Types, PowerDown, EnterForPower, Eret, Unset, Goto, Point, Entry
  <2>. QED BY <1>1, <2>1, <2>2 DEF Types, RegsTyped
<1>3. Local(c)
  BY <1>1 DEF Types, Local, SameOn, PowerDown, EnterForPower, Eret, Unset, Goto
<1>4. RegsInv(c)'
  BY <1>1 DEF CoreInv, RegsInv, PointInv, Entry, Calls
<1>5. PowerInv(c)'
  BY <1>1 DEF CoreInv, PowerInv, PointInv, Calls
<1>6. CallInv(c)'
  BY <1>1, NoticesAreReplies DEF CoreInv, CallInv, PointInv, OperandsKept, Alive,
     SyncEntry, Entry, Calls, Types, Job, NoJob, Result
<1>7. PointInv(c)'
  BY <1>1 DEF CoreInv, PointInv, CallInv, SyncEntry, Entry, Calls, Unset
<1>8. Caller!Same(c)
  BY <1>1, NoticesAreReplies DEF CoreInv, CallInv, PointInv, OperandsKept,
     Caller!Same, CallState, Alive, SyncEntry, Entry, Calls
<1>9. Kept(c)
  BY <1>1 DEF CoreInv, CallInv, PointInv, Kept, Yielded, ContinuesAt, SyncEntry,
     Entry, Calls
<1>. QED BY <1>2, <1>3, <1>4, <1>5, <1>6, <1>7, <1>8, <1>9 DEF CoreInv, Promise

LEMMA OffDoneKeeps ==
    ASSUME Types, NEW c \in Core, CoreInv(c), OffDone(c)
    PROVE  Types' /\ Local(c) /\ CoreInv(c)' /\ Promise(c) /\ Kept(c)
<1>. RegsTyped
  BY DEF Types, RegsTyped
<1>. RegsTyped' /\ ctx'[c]["S"] = el1[c] /\ own' = own
       /\ \A d \in Core \ {c} : el1'[d] = el1[d] /\ ctx'[d] = ctx[d]
  <2>1. LosePower(c)
    BY DEF OffDone
  <2>. QED BY <2>1, LosingDoes
<1>1. /\ at[c] = "cpu_off" /\ at'[c] = "off" /\ elr'[c] = "system_off" /\ pstate'[c] = "OFF"
      /\ UNCHANGED <<tsp_vectors, std_active, saved_elr, saved_args, job, asked, reply, refused>>
  BY Places, Behind DEF Types, OffDone, SmcFrom, Goto, AfterSmc, Follows, Entry
<1>2. Types'
  <2>1. at' \in [Core -> Place]
    BY Places, Behind DEF Types, OffDone, SmcFrom, Goto, Point, Entry, SyncEntry
  <2>2. elr' \in [Core -> Point \cup {Unset}]
    BY Places, Behind DEF Types, OffDone, SmcFrom, Goto, Point, Entry
  <2>3. pstate' \in [Core -> {"OFF", "ON", "SUSPEND"}]
    BY DEF Types, OffDone, SmcFrom, Goto
  <2>. QED BY <1>1, <2>1, <2>2, <2>3 DEF Types, RegsTyped
<1>3. Local(c)
  BY <1>1 DEF Types, Local, SameOn, OffDone, SmcFrom, Goto
<1>4. RegsInv(c)'
  BY <1>1 DEF CoreInv, RegsInv, PointInv, Entry, Calls
<1>5. PowerInv(c)'
  BY <1>1 DEF CoreInv, PowerInv, PointInv, Calls
<1>6. CallInv(c)'
  BY <1>1, NoticesAreReplies DEF CoreInv, CallInv, PointInv, OperandsKept, Alive,
     SyncEntry, Entry, Calls, Types, Job, NoJob, Result
<1>7. PointInv(c)'
  BY <1>1 DEF CoreInv, PointInv, CallInv, SyncEntry, Entry, Calls, Unset
<1>8. Caller!Abandon(c)
  BY <1>1, NoticesAreReplies DEF CoreInv, CallInv, PointInv, OperandsKept,
     Caller!Abandon, CallState, Alive, SyncEntry, Entry, Calls
<1>9. Kept(c)
  BY <1>1 DEF CoreInv, CallInv, PointInv, Kept, Yielded, ContinuesAt, SyncEntry,
     Entry, Calls
<1>. QED BY <1>2, <1>3, <1>4, <1>5, <1>6, <1>7, <1>8, <1>9 DEF CoreInv, Promise

LEMMA SuspendDoneKeeps ==
    ASSUME Types, NEW c \in Core, CoreInv(c), SuspendDone(c)
    PROVE  Types' /\ Local(c) /\ CoreInv(c)' /\ Promise(c) /\ Kept(c)
<1>. RegsTyped
  BY DEF Types, RegsTyped
<1>. RegsTyped' /\ ctx'[c]["S"] = el1[c] /\ own' = own
       /\ \A d \in Core \ {c} : el1'[d] = el1[d] /\ ctx'[d] = ctx[d]
  <2>1. LosePower(c)
    BY DEF SuspendDone
  <2>. QED BY <2>1, LosingDoes
<1>1. /\ at[c] = "cpu_suspend" /\ at'[c] = "asleep" /\ elr'[c] = "fiq" /\ pstate'[c] = "SUSPEND"
      /\ UNCHANGED <<tsp_vectors, std_active, saved_elr, saved_args, job, asked, reply, refused>>
  BY Places, Behind DEF Types, SuspendDone, SmcFrom, Goto, AfterSmc, Follows, Entry
<1>2. Types'
  <2>1. at' \in [Core -> Place]
    BY Places, Behind DEF Types, SuspendDone, SmcFrom, Goto, Point, Entry, SyncEntry
  <2>2. elr' \in [Core -> Point \cup {Unset}]
    BY Places, Behind DEF Types, SuspendDone, SmcFrom, Goto, Point, Entry
  <2>3. pstate' \in [Core -> {"OFF", "ON", "SUSPEND"}]
    BY DEF Types, SuspendDone, SmcFrom, Goto
  <2>. QED BY <1>1, <2>1, <2>2, <2>3 DEF Types, RegsTyped
<1>3. Local(c)
  BY <1>1 DEF Types, Local, SameOn, SuspendDone, SmcFrom, Goto
<1>4. RegsInv(c)'
  BY <1>1 DEF CoreInv, RegsInv, PointInv, Entry, Calls
<1>5. PowerInv(c)'
  BY <1>1 DEF CoreInv, PowerInv, PointInv, Calls
<1>6. CallInv(c)'
  BY <1>1, NoticesAreReplies DEF CoreInv, CallInv, PointInv, OperandsKept, Alive,
     SyncEntry, Entry, Calls, Types, Job, NoJob, Result
<1>7. PointInv(c)'
  BY <1>1 DEF CoreInv, PointInv, CallInv, SyncEntry, Entry, Calls, Unset
<1>8. Caller!Same(c)
  BY <1>1, NoticesAreReplies DEF CoreInv, CallInv, PointInv, OperandsKept,
     Caller!Same, CallState, Alive, SyncEntry, Entry, Calls
<1>9. Kept(c)
  BY <1>1 DEF CoreInv, CallInv, PointInv, Kept, Yielded, ContinuesAt, SyncEntry,
     Entry, Calls
<1>. QED BY <1>2, <1>3, <1>4, <1>5, <1>6, <1>7, <1>8, <1>9 DEF CoreInv, Promise

LEMMA SuspendRefusedKeeps ==
    ASSUME Types, NEW c \in Core, CoreInv(c), SuspendRefused(c)
    PROVE  Types' /\ Local(c) /\ CoreInv(c)' /\ Promise(c) /\ Kept(c)
<1>. RegsTyped
  BY DEF Types, RegsTyped
<1>. RegsTyped' /\ el1' = el1 /\ ctx'[c]["S"] = el1[c] /\ own' = own
       /\ \A d \in Core \ {c} : ctx'[d] = ctx[d]
  <2>1. World = {"NS", "S"}
    BY DEF World
  <2>. QED BY <2>1 DEF SuspendRefused, Saved, RegsTyped
<1>1. /\ at[c] = "cpu_suspend" /\ at'[c] \in {"spin", "fiq"} /\ elr'[c] = "fiq"
      /\ DEBUG => at'[c] = "spin"
      /\ pstate'[c] = "SUSPEND" /\ reply'[c] = Notice("INVALID_PARAMS") /\ refused'[c] = TRUE
      /\ UNCHANGED <<tsp_vectors, std_active, saved_elr, saved_args, job, asked>>
  BY DebugOrNot DEF Types, SuspendRefused, SmcFrom, Goto, AfterSmc, Follows, Entry
<1>2. Types'
  <2>1. at' \in [Core -> Place]
    BY Places, Behind DEF Types, SuspendRefused, SmcFrom, Goto, Point, Entry, SyncEntry
  <2>2. elr' \in [Core -> Point \cup {Unset}]
    BY Places, Behind DEF Types, SuspendRefused, SmcFrom, Goto, Point, Entry
  <2>3. pstate' \in [Core -> {"OFF", "ON", "SUSPEND"}]
    BY DEF Types, SuspendRefused, SmcFrom, Goto
  <2>4. reply' \in [Core -> Reply]
    BY NoticesAreReplies DEF Types, SuspendRefused, SmcFrom, Goto
  <2>5. refused' \in [Core -> BOOLEAN]
    BY DEF Types, SuspendRefused, SmcFrom, Goto
  <2>. QED BY <1>1, <2>1, <2>2, <2>3, <2>4, <2>5 DEF Types, RegsTyped
<1>3. Local(c)
  BY <1>1 DEF Types, Local, SameOn, SuspendRefused, SmcFrom, Goto
<1>4. RegsInv(c)'
  BY <1>1 DEF CoreInv, RegsInv, PointInv, Entry, Calls
<1>5. PowerInv(c)'
  BY <1>1 DEF CoreInv, PowerInv, PointInv, Calls
<1>6. CallInv(c)'
  BY <1>1, NoticesAreReplies DEF CoreInv, CallInv, PointInv, OperandsKept, Alive,
     SyncEntry, Entry, Calls, Types, Job, NoJob, Result
<1>7. PointInv(c)'
  BY <1>1 DEF CoreInv, PointInv, CallInv, SyncEntry, Entry, Calls, Unset
<1>8. Caller!Notify(c)
  BY <1>1, NoticesAreReplies DEF CoreInv, CallInv, PointInv, OperandsKept,
     Caller!Notify, CallState, Alive, SyncEntry, Entry, Calls
<1>9. Kept(c)
  BY <1>1 DEF CoreInv, CallInv, PointInv, Kept, Yielded, ContinuesAt, SyncEntry,
     Entry, Calls
<1>. QED BY <1>2, <1>3, <1>4, <1>5, <1>6, <1>7, <1>8, <1>9 DEF CoreInv, Promise

LEMMA CpuOnKeeps ==
    ASSUME Types, NEW c \in Core, CoreInv(c), CpuOn(c)
    PROVE  Types' /\ Local(c) /\ CoreInv(c)' /\ Promise(c) /\ Kept(c)
<1>. RegsTyped
  BY DEF Types, RegsTyped
<1>. RegsTyped' /\ el1'[c] = Reset("S") /\ own'[c]["S"] = Reset("S")
       /\ \A d \in Core \ {c} : el1'[d] = el1[d] /\ ctx'[d] = ctx[d] /\ own'[d] = own[d]
  <2>1. Reset("S") \in El1 /\ World = {"NS", "S"}
    BY ResetTyped DEF World
  <2>. QED BY <2>1 DEF CpuOn, RegsTyped
<1>1. /\ at[c] = "off" /\ tsp_vectors /\ at'[c] = "cpu_on" /\ elr'[c] = "cpu_on" /\ pstate'[c] = "OFF" /\ std_active'[c] = FALSE /\ job'[c] = NoJob
      /\ UNCHANGED <<tsp_vectors, saved_elr, saved_args, asked, reply, refused>>
  BY Places, Behind DEF Types, CpuOn, Eret, Unset, Goto, Job
<1>2. Types'
  <2>1. at' \in [Core -> Place]
    BY Places, Behind DEF Types, CpuOn, Eret, Unset, Goto, Point, Entry, SyncEntry
  <2>2. pstate' \in [Core -> {"OFF", "ON", "SUSPEND"}]
    BY DEF Types, CpuOn, Eret, Unset, Goto
  <2>3. std_active' \in [Core -> BOOLEAN]
    BY DEF Types, CpuOn, Eret, Unset, Goto
  <2>4. elr' \in [Core -> Point \cup {Unset}]
    BY Places, Behind DEF Types, CpuOn, Eret, Unset, Goto, Point, Entry
  <2>5. job' \in [Core -> Job]
    BY DEF Types, CpuOn, Eret, Unset, Goto, Job, NoJob
  <2>. QED BY <1>1, <2>1, <2>2, <2>3, <2>4, <2>5 DEF Types, RegsTyped
<1>3. Local(c)
  BY <1>1 DEF Types, Local, SameOn, CpuOn, Eret, Unset, Goto
<1>4. RegsInv(c)'
  BY <1>1 DEF CoreInv, RegsInv, PointInv, Entry, Calls
<1>5. PowerInv(c)'
  BY <1>1 DEF CoreInv, PowerInv, PointInv, Calls
<1>6. CallInv(c)'
  BY <1>1, NoticesAreReplies DEF CoreInv, CallInv, PointInv, OperandsKept, Alive,
     SyncEntry, Entry, Calls, Types, Job, NoJob, Result
<1>7. PointInv(c)'
  BY <1>1 DEF CoreInv, PointInv, CallInv, SyncEntry, Entry, Calls, Unset
<1>8. Caller!PowerOn(c)
  BY <1>1, NoticesAreReplies DEF CoreInv, CallInv, PointInv, OperandsKept,
     Caller!PowerOn, CallState, Alive, SyncEntry, Entry, Calls
<1>9. Kept(c)
  BY <1>1 DEF CoreInv, CallInv, PointInv, Kept, Yielded, ContinuesAt, SyncEntry,
     Entry, Calls
<1>. QED BY <1>2, <1>3, <1>4, <1>5, <1>6, <1>7, <1>8, <1>9 DEF CoreInv, Promise

LEMMA WakeUpKeeps ==
    ASSUME Types, NEW c \in Core, CoreInv(c), WakeUp(c)
    PROVE  Types' /\ Local(c) /\ CoreInv(c)' /\ Promise(c) /\ Kept(c)
<1>. RegsTyped
  BY DEF Types, RegsTyped
<1>. RegsTyped' /\ el1'[c] = ctx[c]["S"] /\ ctx' = ctx /\ own' = own
       /\ \A d \in Core \ {c} : el1'[d] = el1[d]
  <2>1. SwitchDropping(c, "S")
    BY DEF WakeUp, EnterForPower
  <2>. QED BY <2>1, DroppingDoes DEF World
<1>1. /\ at[c] = "asleep" /\ at'[c] = "cpu_resume" /\ elr'[c] = "cpu_resume"
      /\ UNCHANGED <<tsp_vectors, pstate, std_active, saved_elr, saved_args, job, asked, reply, refused>>
  BY Places, Behind DEF Types, WakeUp, EnterForPower, Eret, Unset, Goto
<1>2. Types'
  <2>1. at' \in [Core -> Place]
    BY Places, Behind DEF Types, WakeUp, EnterForPower, Eret, Unset, Goto, Point, Entry, SyncEntry
  <2>2. elr' \in [Core -> Point \cup {Unset}]
    BY Places, Behind DEF Types, WakeUp, EnterForPower, Eret, Unset, Goto, Point, Entry
  <2>. QED BY <1>1, <2>1, <2>2 DEF Types, RegsTyped
<1>3. Local(c)
  BY <1>1 DEF Types, Local, SameOn, WakeUp, EnterForPower, Eret, Unset, Goto
<1>4. RegsInv(c)'
  BY <1>1 DEF CoreInv, RegsInv, PointInv, Entry, Calls
<1>5. PowerInv(c)'
  BY <1>1 DEF CoreInv, PowerInv, PointInv, Calls
<1>6. CallInv(c)'
  BY <1>1, NoticesAreReplies DEF CoreInv, CallInv, PointInv, OperandsKept, Alive,
     SyncEntry, Entry, Calls, Types, Job, NoJob, Result
<1>7. PointInv(c)'
  BY <1>1 DEF CoreInv, PointInv, CallInv, SyncEntry, Entry, Calls, Unset
<1>8. Caller!Same(c)
  BY <1>1, NoticesAreReplies DEF CoreInv, CallInv, PointInv, OperandsKept,
     Caller!Same, CallState, Alive, SyncEntry, Entry, Calls
<1>9. Kept(c)
  BY <1>1 DEF CoreInv, CallInv, PointInv, Kept, Yielded, ContinuesAt, SyncEntry,
     Entry, Calls
<1>. QED BY <1>2, <1>3, <1>4, <1>5, <1>6, <1>7, <1>8, <1>9 DEF CoreInv, Promise

LEMMA UpDoneKeeps ==
    ASSUME Types, NEW c \in Core, CoreInv(c), NEW e \in {"cpu_on", "cpu_resume"}, UpDone(c, e)
    PROVE  Types' /\ Local(c) /\ CoreInv(c)' /\ Promise(c) /\ Kept(c)
<1>. RegsTyped
  BY DEF Types, RegsTyped
<1>. RegsTyped' /\ el1'[c] = Reset("NS") /\ own'[c]["NS"] = Reset("NS")
       /\ ctx'[c]["S"] = el1[c] /\ own'[c]["S"] = own[c]["S"]
       /\ \A d \in Core \ {c} : el1'[d] = el1[d] /\ ctx'[d] = ctx[d] /\ own'[d] = own[d]
  <2>1. EnterFreshNS(c)
    BY DEF UpDone
  <2>. QED BY <2>1, FreshDoes
<1>1. /\ at[c] = e /\ at'[c] = "ns" /\ pstate'[c] = "ON" /\ reply'[c] = Notice("none") /\ elr'[c] = "spin"
      /\ refused'[c] = FALSE
      /\ UNCHANGED <<tsp_vectors, std_active, saved_elr, saved_args, job, asked>>
  BY Places, Behind DEF Types, UpDone, SmcFrom, Goto, Entry
<1>2. Types'
  <2>1. at' \in [Core -> Place]
    BY Places, Behind DEF Types, UpDone, SmcFrom, Goto, Point, Entry, SyncEntry
  <2>2. elr' \in [Core -> Point \cup {Unset}]
    BY Places, Behind DEF Types, UpDone, SmcFrom, Goto, Point, Entry
  <2>3. pstate' \in [Core -> {"OFF", "ON", "SUSPEND"}]
    BY DEF Types, UpDone, SmcFrom, Goto
  <2>4. reply' \in [Core -> Reply]
    BY NoticesAreReplies DEF Types, UpDone, SmcFrom, Goto
  <2>5. refused' \in [Core -> BOOLEAN]
    BY DEF Types, UpDone, SmcFrom, Goto
  <2>. QED BY <1>1, <2>1, <2>2, <2>3, <2>4, <2>5 DEF Types, RegsTyped
<1>3. Local(c)
  BY <1>1 DEF Types, Local, SameOn, UpDone, SmcFrom, Goto
<1>4. RegsInv(c)'
  BY <1>1 DEF CoreInv, RegsInv, PointInv, Entry, Calls
<1>5. PowerInv(c)'
  BY <1>1 DEF CoreInv, PowerInv, PointInv, Calls
<1>6. CallInv(c)'
  BY <1>1, NoticesAreReplies DEF CoreInv, CallInv, PointInv, OperandsKept, Alive,
     SyncEntry, Entry, Calls, Types, Job, NoJob, Result
<1>7. PointInv(c)'
  BY <1>1 DEF CoreInv, PointInv, CallInv, SyncEntry, Entry, Calls, Unset
<1>8. Caller!Notify(c)
  BY <1>1, NoticesAreReplies DEF CoreInv, CallInv, PointInv, OperandsKept,
     Caller!Notify, CallState, Alive, SyncEntry, Entry, Calls
<1>9. Kept(c)
  BY <1>1 DEF CoreInv, CallInv, PointInv, Kept, Yielded, ContinuesAt, SyncEntry,
     Entry, Calls
<1>. QED BY <1>2, <1>3, <1>4, <1>5, <1>6, <1>7, <1>8, <1>9 DEF CoreInv, Promise

LEMMA WriteRegistersKeeps ==
    ASSUME Types, NEW c \in Core, CoreInv(c), NEW w \in World, WriteRegisters(c, w)
    PROVE  Types' /\ Local(c) /\ CoreInv(c)' /\ Promise(c) /\ Kept(c)
<1>1. PICK r \in Regs : /\ el1' = [el1 EXCEPT ![c] = <<w, r>>]
                        /\ own' = [own EXCEPT ![c][w] = <<w, r>>]
  BY DEF WriteRegisters
<1>2. <<w, r>> \in El1 /\ World = {"NS", "S"}
  BY DEF El1, World
<1>3. /\ RegsTyped'
      /\ el1'[c] = own'[c][w]
      /\ \A v \in World \ {w} : own'[c][v] = own[c][v]
      /\ \A d \in Core \ {c} : el1'[d] = el1[d] /\ own'[d] = own[d]
  BY <1>1, <1>2 DEF Types, RegsTyped, WriteRegisters
<1>4. /\ at[c] \in IF w = "NS" THEN {"ns"} ELSE Calls
      /\ UNCHANGED <<at, tsp_vectors, pstate, std_active, elr, saved_elr,
                     saved_args, ctx, job, asked, reply, refused>>
  BY DEF WriteRegisters, Calls
<1>5. Types'
  BY <1>3, <1>4 DEF Types, RegsTyped
<1>6. Local(c)
  BY <1>3, <1>4 DEF Local, SameOn
<1>7. RegsInv(c)'
  BY <1>2, <1>3, <1>4 DEF CoreInv, RegsInv, Calls, Entry
<1>8. PowerInv(c)' /\ CallInv(c)' /\ PointInv(c)'
  BY <1>4 DEF CoreInv, PowerInv, CallInv, PointInv, OperandsKept
<1>9. Caller!Same(c)
  BY <1>4 DEF Caller!Same, CallState
<1>10. Kept(c)
  BY <1>4 DEF Kept, Yielded, ContinuesAt
<1>. QED BY <1>5, <1>6, <1>7, <1>8, <1>9, <1>10 DEF CoreInv, Promise

\* A core that is halted satisfies everything that is required of one.
LEMMA SystemDoneKeeps ==
    ASSUME Types, \A d \in Core : CoreInv(d), NEW c \in Core,
           NEW e \in {"system_off", "system_reset"}, SystemDone(c, e)
    PROVE  /\ Types'
           /\ \A d \in Core : CoreInv(d)' /\ Promise(d) /\ Kept(d)
<1>. RegsTyped
  BY DEF Types, RegsTyped
<1>1. RegsTyped'
  BY LosingDoes DEF SystemDone
<1>2. /\ \A d \in Core : at'[d] = "halted" /\ (elr'[d] = elr[d] \/ elr'[d] \in Point)
      /\ UNCHANGED <<tsp_vectors, pstate, std_active, saved_elr, saved_args,
                     job, asked, reply, refused>>
  BY Behind DEF Types, SystemDone, SmcFrom, Entry
<1>3. Types'
  <2>1. at' \in [Core -> Place]
    BY Places DEF SystemDone
  <2>2. elr' \in [Core -> Point \cup {Unset}]
    BY Behind DEF Types, SystemDone, SmcFrom, Entry
  <2>. QED BY <1>1, <1>2, <2>1, <2>2 DEF Types, RegsTyped
<1>. SUFFICES ASSUME NEW d \in Core
              PROVE  CoreInv(d)' /\ Promise(d) /\ Kept(d)
  BY <1>3
<1>4. RegsInv(d)' /\ PowerInv(d)' /\ PointInv(d)'
  BY <1>2, Places DEF CoreInv, RegsInv, PowerInv, PointInv, Entry, SyncEntry
<1>5. CallInv(d)'
  BY <1>2 DEF CoreInv, CallInv, Alive, SyncEntry, Entry
<1>6. Caller!Abandon(d)
  BY <1>2 DEF Caller!Abandon, CallState
<1>7. Kept(d)
  BY <1>2 DEF Kept
<1>. QED BY <1>4, <1>5, <1>6, <1>7 DEF CoreInv, Promise

-----------------------------------------------------------------------------
(* The invariant is inductive, and every step is one the caller may see.    *)

LEMMA InitInv == Init => Inv
<1>. SUFFICES ASSUME Init PROVE Inv
  OBVIOUS
<1>1. Types
  BY ResetTyped, Places, NoticesAreReplies, PrimaryIsACore
     DEF Init, Types, World, Point, Entry
<1>. SUFFICES ASSUME NEW c \in Core PROVE CoreInv(c)
  BY <1>1 DEF Inv
<1>2. /\ at[c] \in {"main", "off"} /\ std_active[c] = FALSE /\ pstate[c] = "OFF"
      /\ elr[c] = "main" /\ job[c] = NoJob /\ reply[c] = Notice("none")
      /\ el1[c] = Reset("S") /\ own[c]["S"] = Reset("S")
      /\ saved_elr[c] = Unset /\ refused[c] = FALSE
  BY DEF Init, World
<1>3. RegsInv(c) /\ PowerInv(c) /\ PointInv(c)
  BY <1>2 DEF CoreInv, RegsInv, PowerInv, PointInv, Entry, SyncEntry, Unset
<1>4. CallInv(c)
  BY <1>2, NoticesAreReplies DEF CallInv
<1>. QED BY <1>3, <1>4 DEF CoreInv

\* Every step of a core but the end of SYSTEM_OFF or SYSTEM_RESET.
LEMMA StepKeeps ==
    ASSUME Types, NEW c \in Core, CoreInv(c), PayloadStep(c) \/ OutsideStep(c)
    PROVE  \/ \E e \in {"system_off", "system_reset"} : SystemDone(c, e)
           \/ Types' /\ Local(c) /\ CoreInv(c)' /\ Promise(c) /\ Kept(c)
<1>1. CASE PayloadStep(c)
  BY <1>1, EntryDoneKeeps, GetArgsKeeps, FinishKeeps, InterruptHandledKeeps,
     OffDoneKeeps, SuspendDoneKeeps, SuspendRefusedKeeps,
     UpDoneKeeps DEF PayloadStep, Calls
<1>2. CASE OutsideStep(c)
  BY <1>2, WriteRegistersKeeps, RequestKeeps, RejectRequestKeeps, ResumeKeeps,
     RejectResumeKeeps, YieldKeeps, SecureInterruptKeeps, PowerDownKeeps,
     CpuOnKeeps, WakeUpKeeps DEF OutsideStep, Calls
<1>. QED BY <1>1, <1>2

\* A core that takes no step keeps its promise and its preempted call.
LEMMA RestKeeps ==
    ASSUME NEW d \in Core, SameOn(d)
    PROVE  Promise(d) /\ Kept(d)
<1>1. Caller!Same(d)
  BY DEF SameOn, Caller!Same, CallState
<1>2. Kept(d)
  BY DEF SameOn, Kept, Yielded, ContinuesAt
<1>. QED BY <1>1, <1>2 DEF Promise

LEMMA NextKeeps ==
    ASSUME Inv, [Next]_vars
    PROVE  Inv' /\ \A d \in Core : Promise(d) /\ Kept(d)
<1>1. CASE UNCHANGED vars
  <2>1. \A d \in Core : SameOn(d) /\ (tsp_vectors => tsp_vectors')
    BY <1>1 DEF vars, SameOn
  <2>2. Types'
    BY <1>1 DEF Inv, Types, vars
  <2>. QED BY <2>1, <2>2, FrameKeeps, RestKeeps DEF Inv
<1>2. CASE Next
  <2>1. PICK c \in Core : PayloadStep(c) \/ OutsideStep(c)
    BY <1>2 DEF Next
  <2>2. CASE \E e \in {"system_off", "system_reset"} : SystemDone(c, e)
    BY <2>2, SystemDoneKeeps DEF Inv
  <2>3. CASE Types' /\ Local(c) /\ CoreInv(c)' /\ Promise(c) /\ Kept(c)
    <3>1. \A d \in Core \ {c} : CoreInv(d)' /\ Promise(d) /\ Kept(d)
      BY <2>3, FrameKeeps, RestKeeps DEF Inv, Local
    <3>. QED BY <2>3, <3>1 DEF Inv
  <2>. QED BY <2>1, <2>2, <2>3, StepKeeps DEF Inv
<1>. QED BY <1>1, <1>2

LEMMA Invariance == Spec => []Inv
<1>1. Inv /\ [Next]_vars => Inv'
  BY NextKeeps
<1>. QED BY <1>1, InitInv, PTL DEF Spec

-----------------------------------------------------------------------------
\* Every variable keeps its type: in particular the secure context never points
\* anywhere but into the payload, and saved_elr_el3 is never used before it is
\* set, unless a CPU_SUSPEND was refused after its hook.
THEOREM TypesKept == Spec => []TypeOK
<1>1. Inv => TypeOK
  BY DEF Inv, CoreInv, PointInv, TypeOK
<1>. QED BY <1>1, Invariance, PTL

\* tspd_smc_handler and the TSP_GET_ARGS path: a result is computed from the
\* operands of its own request alone.
THEOREM ResultsAreOwn == Spec => []AnswersOwn
<1>1. Inv => AnswersOwn
  BY DEF Inv, CoreInv, CallInv, AnswersOwn
<1>. QED BY <1>1, Invariance, PTL

\* cm_el1_sysregs_context_save and _restore around every switch: the payload
\* never runs with registers that are not the ones it last had, the normal world
\* not before a CPU_SUSPEND of its is refused after the hook.
THEOREM RegistersAreLive == Spec => []LiveRegisters
<1>1. Inv => LiveRegisters
  BY DEF Inv, CoreInv, RegsInv, LiveRegisters
<1>. QED BY <1>1, Invariance, PTL

\* STD_SMC_ACTIVE_FLAG tells whether the payload has an unfinished call.
THEOREM FlagIsExact == Spec => []FlagMeansCall
<1>1. Inv => FlagMeansCall
  BY DEF Inv, CoreInv, CallInv, Alive, FlagMeansCall
<1>. QED BY <1>1, Invariance, PTL

\* The assertions at the head of the power management hooks cannot fire in the
\* build that has them: there a core does not run on after a refused CPU_SUSPEND.
\* In the other build one that does has the state SUSPEND, any other its own.
THEOREM PowerStateFollows == Spec => []PstateFollows
<1>1. Inv => PstateFollows
  BY DEF Inv, CoreInv, PowerInv, PstateFollows
<1>. QED BY <1>1, Invariance, PTL

\* Only the power management hooks overwrite the point a preempted call
\* continues at.
THEOREM PreemptedCallIsKept == Spec => PreemptedCallKept
<1>1. Inv /\ [Next]_vars => [\A c \in Core : Yielded(c) /\ at[c] # "std_smc" =>
                                 \/ Yielded(c)'
                                 \/ at'[c] \in SyncEntry \cup {"halted"}]_vars
  BY NextKeeps DEF Kept
<1>. QED BY <1>1, Invariance, PTL DEF Spec, PreemptedCallKept

\* On every core the dispatcher implements the call interface YieldingCall
\* promises the normal world.
THEOREM ImplementsYieldingCall == Spec => KeepsCalls
<1>1. Init => Caller!Init
  <2>. SUFFICES ASSUME Init, NEW c \in Core
                PROVE  /\ CallState(c) \in {"idle", "off"} /\ asked[c] \notin Arg
                       /\ reply[c] \in {Notice(code) : code \in Code}
    BY DEF Caller!Init
  <2>. QED BY NoneIsNoArg DEF Init, CallState, Code
<1>2. Inv /\ [Next]_vars => [Caller!Next]_(Caller!vars)
  BY NextKeeps DEF Promise, Caller!Next
<1>. QED BY <1>1, <1>2, Invariance, PTL DEF Spec, KeepsCalls, Caller!Spec

=============================================================================
