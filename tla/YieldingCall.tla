---------------------------- MODULE YieldingCall ----------------------------
(***************************************************************************)
(* What the normal world may rely on when it calls the secure payload on a *)
(* core: one call at a time, which keeps its operands while it yields and  *)
(* is resumed, whose result is made of those operands and of nothing else, *)
(* and which only its own end or the loss of the core's power removes.     *)
(* The cores are independent; one step may be a step of several of them.   *)
(***************************************************************************)
CONSTANTS Core, Arg, Notices

VARIABLES
    call,    \* "idle", "running" or "yielded"; "off" without power
    arg,     \* operands of the call that is not idle, or of the last one
    reply    \* what the caller was last told

vars == <<call, arg, reply>>

Init ==
    \A c \in Core :
        call[c] \in {"idle", "off"} /\ arg[c] \notin Arg /\ reply[c] \in Notices

Start(c) ==
    /\ call[c] = "idle"
    /\ call'[c] = "running"
    /\ arg'[c] \in Arg
    /\ reply'[c] \in Notices

Yield(c) ==
    /\ call[c] = "running"
    /\ call'[c] = "yielded"
    /\ arg'[c] = arg[c]
    /\ reply'[c] \in Notices

Continue(c) ==
    /\ call[c] = "yielded"
    /\ call'[c] = "running"
    /\ arg'[c] = arg[c]
    /\ reply'[c] = reply[c]

Finish(c) ==
    /\ call[c] = "running"
    /\ call'[c] = "idle"
    /\ arg'[c] = arg[c]
    /\ reply'[c] = [code |-> "result", x |-> arg[c], got |-> arg[c]]

\* A notice of something else: a refused request, or a core that starts afresh.
Notify(c) ==
    /\ call[c] # "running"
    /\ call'[c] = call[c]
    /\ arg'[c] = arg[c]
    /\ reply'[c] \in Notices

\* The core loses its power, and with it the call, and gets it back.
Abandon(c) ==
    /\ call'[c] = "off"
    /\ arg'[c] = arg[c]
    /\ reply'[c] = reply[c]

PowerOn(c) ==
    /\ call[c] = "off"
    /\ call'[c] = "idle"
    /\ arg'[c] = arg[c]
    /\ reply'[c] = reply[c]

Same(c) == call'[c] = call[c] /\ arg'[c] = arg[c] /\ reply'[c] = reply[c]

Next ==
    \A c \in Core :
        \/ Start(c) \/ Yield(c) \/ Continue(c) \/ Finish(c)
        \/ Notify(c) \/ Abandon(c) \/ PowerOn(c) \/ Same(c)

Spec == Init /\ [][Next]_vars
=============================================================================
