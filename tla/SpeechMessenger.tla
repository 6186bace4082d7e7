-------------------------- MODULE SpeechMessenger --------------------------
(***************************************************************************)
(* The messenger between the audio HAL and the speech task of the modem    *)
(* (SpeechMessengerECCCI, driven by SpeechDriverLAD): callers that switch  *)
(* functions of the modem on and off, set gains and speech parameters; the *)
(* thread that reads what the modem sends; and the thread that sends the   *)
(* parameters again after a modem reset.                                   *)
(*                                                                         *)
(* A message that the modem acknowledges stays at the head of a queue      *)
(* until its ack is read, and what callers send meanwhile waits behind it. *)
(* One lock protects the queue; the share buffer that carries parameters   *)
(* has its own; the status words and mWaitAckMessageID have none.  An      *)
(* action ends where another thread can first tell the difference.         *)
(***************************************************************************)
EXTENDS Naturals, Sequences, FiniteSets

CONSTANTS
    Func,      \* functions of the modem, each switched by its own caller
    Sph,       \* the phone call, without which no other function runs
    Reader,    \* CCCIReadThread
    Para,      \* SendSphParaThread
    None,      \* no thread, no message
    QueueNum,  \* CCCI_MAX_QUEUE_NUM
    MaxCalls,  \* bound: no caller starts a call after so many messages
    MaxFaults  \* bound: modem resets, power-offs and failed writes

VARIABLES
    pc, msg, back,  \* per thread: next step, message in hand, who called SendMessage
    got,            \* message the reader handles
    queue,          \* pQueue between iQRead and iQWrite
    qlock,          \* holder of mCCCIMessageQueueMutex
    waitAck,        \* mWaitAckMessageID
    resetInCall,    \* mIsModemResetDuringPhoneCall
    mdReset,        \* mIsModemReset
    epof,           \* mIsModemEPOF
    modemSide,      \* mModemSideModemStatus
    apSide,         \* mApSideModemStatus
    seen,           \* per caller: what it has read of apSide to change it
    wanted,         \* history: the functions that the callers last switched on
    bufHeld,        \* mA2MShareBufMutex is locked
    buffer,         \* whose data the share buffer holds
    payload,        \* whose data SendMessage has copied from it
    modem,          \* state of the modem: "up", "leaving" (EPOF sent) or "down"
    running,        \* functions the modem really runs
    outbox, inbox,  \* messages on their way to and from the modem
    sent,           \* last queued message written: its stamp, sender and data
    accepted,       \* messages accepted so far: the stamp of the last
    faults          \* faults so far

threadVars == <<pc, msg, back, got>>
queueVars == <<queue, qlock, waitAck, accepted>>
statusVars == <<resetInCall, mdReset, epof, modemSide, apSide, seen, wanted>>
bufVars == <<bufHeld, buffer, payload>>
modemVars == <<modem, running, outbox, inbox, sent, faults>>
vars == <<threadVars, queueVars, statusVars, bufVars, modemVars>>

ASSUME SphIsAFunction == Sph \in Func
ASSUME ThreadsDiffer == Reader \notin Func /\ Para \notin Func /\ Reader # Para
ASSUME NoneIsNoThread == None \notin Func \cup {Reader, Para}
ASSUME BoundsAreNumbers == QueueNum \in Nat \ {0, 1} /\ MaxCalls \in Nat /\ MaxFaults \in Nat

Thread == Func \cup {Reader, Para}

\* on and off: MSG_A2M_SPH_ON, MSG_A2M_PCM_REC_OFF ...; param: the messages with
\* speech parameters in the share buffer; note: gains, masks and dumps, which
\* the modem does not acknowledge; the others answer the modem.
Kind == {"on", "off", "param", "note", "readAck", "epofAck"}
Message == [kind : Kind \ {"on", "off"}, by : Thread, n : Nat]
           \cup [kind : {"on", "off"}, by : Func, n : Nat]
NoMessage == [kind |-> "note", by |-> Reader, n |-> 0]
New(kind, t) == [kind |-> kind, by |-> t, n |-> 0]

\* JudgeAckOfMsg and IsModemFunctionOnOffMessage
NeedAck(m) == m.kind \in {"on", "off", "param"}
OnOff(m) == m.kind \in {"on", "off"}

\* GetMessageID: all parameters share one identifier, on and off are those of
\* a function.
Id(m) == <<m.kind, IF OnOff(m) THEN m.by ELSE None>>
AckId == ({"on", "off"} \X Func) \cup {<<"param", None>>}

\* What the modem sends: an ack, recorded data, MSG_M2A_EM_DATA_REQUEST after a
\* reset, MSG_M2A_EPOF_NOTIFY before it powers off.
Incoming == AckId \cup ({"data"} \X Func)
            \cup {<<"request", None>>, <<"epofNotify", None>>}

ASSUME NoneIsNotSent == None \notin Incoming

Step == {"idle", "status", "lock", "enter", "send", "down", "write", "skip", "fail",
         "handle", "match", "matched", "consume", "pop", "epof",
         "check", "flush", "ready", "param"}

ThreadTypes ==
    /\ pc \in [Thread -> Step]
    /\ msg \in [Thread -> Message]
    /\ back \in [Thread -> {"enter", "consume", "bare"}]
    /\ got \in Incoming \cup {None}

QueueTypes ==
    /\ queue \in Seq(Message)
    /\ qlock \in Thread \cup {None}
    /\ waitAck \in AckId \cup {None}
    /\ accepted \in Nat

FlagTypes ==
    /\ resetInCall \in BOOLEAN /\ mdReset \in BOOLEAN
    /\ epof \in BOOLEAN /\ bufHeld \in BOOLEAN

StatusTypes ==
    /\ modemSide \subseteq Func /\ apSide \subseteq Func
    /\ seen \in [Func -> SUBSET Func] /\ wanted \subseteq Func
    /\ buffer \in Thread \cup {None} /\ payload \in Thread \cup {None}

ModemTypes ==
    /\ modem \in {"up", "leaving", "down"}
    /\ running \subseteq Func
    /\ outbox \in Seq(AckId) /\ inbox \in Seq(Incoming)
    /\ sent \in [n : Nat, by : Thread, data : Thread \cup {None}]
    /\ faults \in Nat

TypeOK == ThreadTypes /\ QueueTypes /\ FlagTypes /\ StatusTypes /\ ModemTypes

\* SpeechMessengerECCCI() and Initial() with the modem already running and its
\* status property at "0".
Init ==
    /\ pc = [t \in Thread |-> "idle"]
    /\ msg = [t \in Thread |-> NoMessage]
    /\ back = [t \in Thread |-> "bare"]
    /\ got = None
    /\ queue = <<>> /\ qlock = None /\ waitAck = None /\ accepted = 0
    /\ resetInCall = FALSE /\ mdReset = FALSE /\ epof = FALSE
    /\ modemSide = {} /\ apSide = {} /\ seen = [f \in Func |-> {}] /\ wanted = {}
    /\ bufHeld = FALSE /\ buffer = None /\ payload = None
    /\ modem = "up" /\ running = {} /\ outbox = <<>> /\ inbox = <<>>
    /\ sent = [n |-> 0, by |-> Reader, data |-> Reader]
    /\ faults = 0

-----------------------------------------------------------------------------
Goto(t, a, b) == pc[t] = a /\ pc' = [pc EXCEPT ![t] = b]

\* GetModemCurrentStatus() == MODEM_STATUS_READY
Ready == modem # "down" /\ ~epof

\* Mutant: the status word takes the message's identifier for the function.
AckedById(status, id) == status \cup {id}

\* Mutant: acks of off messages leave the status.
AckedOn(status, id) == IF id[1] = "on" THEN status \cup {id[2]} ELSE status

\* The status of the modem's functions after the ack of <<kind, f>>.
Acked(status, id) ==
    IF id[1] = "on" THEN status \cup {id[2]}
    ELSE IF id[1] = "off" THEN status \ {id[2]}
    ELSE status

\* A2MBufUnLock for the messages that carry parameters: it releases the lock
\* whoever holds it.
BufUnlocked(m) == bufHeld /\ m.kind # "param"

\* SendMsgFailErrorHandling: do what the ack would have done.
ErrorHandling(m) ==
    /\ modemSide' = Acked(modemSide, Id(m))
    /\ bufHeld' = BufUnlocked(m)

-----------------------------------------------------------------------------
(* Callers (SpeechDriverLAD).  The wait for Signal() after SpeechOff ends   *)
(* by its timeout at the latest and changes nothing, so it is left out.     *)

Called(t) == t \in Func /\ pc[t] = "idle" /\ accepted < MaxCalls

Call(t, kind, to) ==
    /\ Called(t)
    /\ Goto(t, "idle", to)
    /\ msg' = [msg EXCEPT ![t] = New(kind, t)]
    /\ UNCHANGED <<back, got, queueVars, bufVars, modemVars>>

\* The first half of SetApSideModemStatus and ResetApSideModemStatus: the word is
\* read to be changed, and no lock is held.  Only the callers' own books say what
\* is on when they start the call: each switches its own function.
ReadStatus(t, kind) ==
    /\ Call(t, kind, "status")
    /\ seen' = [seen EXCEPT ![t] = apSide]
    /\ UNCHANGED <<resetInCall, mdReset, epof, apSide>>

\* SpeechOn, RecordOn ...; the parameters some builds set before SpeechOn are a
\* SetParam of their own.
TurnOn(t) ==
    /\ IF t = Sph THEN wanted = {} ELSE Sph \in wanted /\ t \notin wanted
    /\ wanted' = wanted \cup {t}
    /\ ReadStatus(t, "on")
    /\ UNCHANGED modemSide

\* Mutant: switching off clears the modem's side at once.
TurnOffBothSides(t) ==
    /\ IF t = Sph THEN wanted = {Sph} ELSE t \in wanted
    /\ wanted' = wanted \ {t}
    /\ ReadStatus(t, "off")
    /\ modemSide' = modemSide \ {t}

\* SpeechOff, RecordOff ...
TurnOff(t) ==
    /\ IF t = Sph THEN wanted = {Sph} ELSE t \in wanted
    /\ wanted' = wanted \ {t}
    /\ ReadStatus(t, "off")
    /\ UNCHANGED modemSide

\* The second half: the word is written back with the bit of t set or cleared, and
\* without what other callers have written in between.
WriteStatus(t) ==
    /\ Goto(t, "status", "enter")
    /\ apSide' = IF msg[t].kind = "on" THEN seen[t] \cup {t} ELSE seen[t] \ {t}
    /\ seen' = [seen EXCEPT ![t] = {}]
    /\ UNCHANGED <<msg, back, got, queueVars, resetInCall, mdReset, epof, modemSide, wanted,
                   bufVars, modemVars>>

\* SetDownlinkGain and the other settings without an ack
SetGain(t) == Call(t, "note", "enter") /\ UNCHANGED statusVars

\* SetVariousKindsOfSpeechParameters: skipped while the modem is reset.
SetParam(t) == ~mdReset /\ Call(t, "param", "lock") /\ UNCHANGED statusVars

\* A2MBufLock, then the parameters are written to the share buffer.
LockBuffer(t) ==
    /\ Goto(t, "lock", "enter")
    /\ ~bufHeld
    /\ bufHeld' = TRUE
    /\ buffer' = t
    /\ UNCHANGED <<payload, msg, back, got, queueVars, statusVars, modemVars>>

\* A2MBufLock gives up after 3 seconds.  The parameters thread goes on with the
\* enhancement mask.
LockTimeout(t) ==
    /\ bufHeld
    /\ Goto(t, "lock", IF t = Para THEN "enter" ELSE "idle")
    /\ msg' = [msg EXCEPT ![t] = IF t = Para THEN New("note", t) ELSE NoMessage]
    /\ UNCHANGED <<back, got, queueVars, statusVars, bufVars, modemVars>>

-----------------------------------------------------------------------------
(* SendMessageInQueue and SendMessage.                                      *)

\* What follows in the thread that called SendMessageInQueue, or SendMessage
\* itself: the parameters thread sends the mask after the parameters, the
\* reader's handlers go on.
NextStep(t) ==
    IF t = Para /\ msg[t].kind = "param" THEN "enter"
    ELSE IF t = Reader /\ msg[t].kind = "note" THEN "match"
    ELSE IF t = Reader /\ msg[t].kind = "epofAck" THEN "epof"
    ELSE "idle"

Resume(t) ==
    /\ pc' = [pc EXCEPT ![t] = NextStep(t)]
    /\ msg' = [msg EXCEPT ![t] =
                  IF t = Para /\ @.kind = "param" THEN New("note", t) ELSE NoMessage]
    /\ back' = [back EXCEPT ![t] = "bare"]
    /\ got' = IF t = Reader /\ msg[t].kind # "note" THEN None ELSE got

\* The queue after one more element; the ring of QueueNum elements is taken for
\* empty when iQWrite catches up with iQRead.
Enqueued(m) == IF Len(queue) = QueueNum - 1 THEN <<>> ELSE Append(queue, m)

Stamped(t) == [msg[t] EXCEPT !.n = accepted + 1]

\* Mutant: a message that needs no ack overtakes the queue.
Overtakes(t) == IF NeedAck(msg[t]) THEN queue # <<>> ELSE FALSE

\* queue is not empty, must queue the element
MustQueue(t) == queue # <<>>

\* Mutant: the share buffer is released when the message is queued.
EnterQueueReleasing(t) ==
    /\ pc[t] = "enter" /\ qlock = None
    /\ MustQueue(t)
    /\ queue' = Enqueued(Stamped(t))
    /\ accepted' = accepted + 1
    /\ bufHeld' = BufUnlocked(msg[t])
    /\ Resume(t)
    /\ UNCHANGED <<qlock, waitAck, statusVars, buffer, payload, modemVars>>

EnterQueue(t) ==
    /\ pc[t] = "enter" /\ qlock = None
    /\ MustQueue(t)
    /\ queue' = Enqueued(Stamped(t))
    /\ accepted' = accepted + 1
    /\ Resume(t)
    /\ UNCHANGED <<qlock, waitAck, statusVars, bufVars, modemVars>>

\* queue is empty: only a message that needs an ack is put there, then it is
\* sent with the lock held
EnterEmpty(t) ==
    /\ Goto(t, "enter", "send")
    /\ qlock = None
    /\ ~MustQueue(t)
    /\ qlock' = t
    /\ accepted' = accepted + 1
    /\ msg' = [msg EXCEPT ![t] = Stamped(t)]
    /\ back' = [back EXCEPT ![t] = "enter"]
    /\ queue' = IF NeedAck(msg[t]) THEN <<Stamped(t)>> ELSE queue
    /\ UNCHANGED <<got, waitAck, statusVars, bufVars, modemVars>>

\* Mutant: ConsumeMessageInQueue stops at the first message it sends.
FinishStopsAlways(t, ok) ==
    \/ /\ back[t] = "enter"
       /\ queue' = IF NeedAck(msg[t]) /\ ~ok THEN Tail(queue) ELSE queue
       /\ qlock' = None
       /\ Resume(t)
    \/ /\ back[t] = "consume"
       /\ pc' = [pc EXCEPT ![t] = IF ok THEN "idle" ELSE "pop"]
       /\ qlock' = IF ok THEN None ELSE qlock
       /\ msg' = [msg EXCEPT ![t] = NoMessage]
       /\ back' = [back EXCEPT ![t] = "bare"]
       /\ UNCHANGED <<queue, got>>
    \/ /\ back[t] = "bare"
       /\ Resume(t)
       /\ UNCHANGED <<queue, qlock>>

\* Mutant: SendMessageInQueue keeps the lock when its message was not sent.
FinishKeepingLock(t, ok) ==
    \/ /\ back[t] = "enter"
       /\ queue' = IF NeedAck(msg[t]) /\ ~ok THEN Tail(queue) ELSE queue
       /\ qlock' = IF ok THEN None ELSE qlock
       /\ Resume(t)
    \/ /\ back[t] = "consume"
       /\ pc' = [pc EXCEPT ![t] = IF NeedAck(msg[t]) /\ ok THEN "idle" ELSE "pop"]
       /\ qlock' = IF NeedAck(msg[t]) /\ ok THEN None ELSE qlock
       /\ msg' = [msg EXCEPT ![t] = NoMessage]
       /\ back' = [back EXCEPT ![t] = "bare"]
       /\ UNCHANGED <<queue, got>>
    \/ /\ back[t] = "bare"
       /\ Resume(t)
       /\ UNCHANGED <<queue, qlock>>

\* SendMessage returns: to SendMessageInQueue, which skips a message that needs
\* an ack and was not sent; to ConsumeMessageInQueue, which stops at one that
\* was; or to a handler of the reader.
Finish(t, ok) ==
    \/ /\ back[t] = "enter"
       /\ queue' = IF NeedAck(msg[t]) /\ ~ok THEN Tail(queue) ELSE queue
       /\ qlock' = None
       /\ Resume(t)
    \/ /\ back[t] = "consume"
       /\ pc' = [pc EXCEPT ![t] = IF NeedAck(msg[t]) /\ ok THEN "idle" ELSE "pop"]
       /\ qlock' = IF NeedAck(msg[t]) /\ ok THEN None ELSE qlock
       /\ msg' = [msg EXCEPT ![t] = NoMessage]
       /\ back' = [back EXCEPT ![t] = "bare"]
       /\ UNCHANGED <<queue, got>>
    \/ /\ back[t] = "bare"
       /\ Resume(t)
       /\ UNCHANGED <<queue, qlock>>

\* save ack info before write, and copy the parameters
StartWrite(t) ==
    /\ pc' = [pc EXCEPT ![t] = "write"]
    /\ waitAck' = IF NeedAck(msg[t]) THEN Id(msg[t]) ELSE waitAck
    /\ payload' = IF msg[t].kind = "param" THEN buffer ELSE payload
    /\ UNCHANGED <<msg, back, got, queue, qlock, accepted, modemSide, apSide, seen, wanted, epof,
                   bufHeld, buffer, modemVars>>

\* Do not send any on/off message when mIsModemResetDuringPhoneCall is true; a
\* dropped SPH_OFF ends the call and clears it.
Drop(t) ==
    /\ ErrorHandling(msg[t])
    /\ Finish(t, FALSE)
    /\ UNCHANGED <<waitAck, accepted, apSide, seen, wanted, epof, buffer, payload, modemVars>>

Send(t) ==
    /\ pc[t] = "send" /\ Ready
    /\ ~(resetInCall /\ OnOff(msg[t]))
    /\ StartWrite(t)
    /\ UNCHANGED <<resetInCall, mdReset>>

SendDropped(t) ==
    /\ pc[t] = "send" /\ Ready
    /\ resetInCall /\ OnOff(msg[t])
    /\ Drop(t)
    /\ resetInCall' = (Id(msg[t]) # <<"off", Sph>>)
    /\ UNCHANGED mdReset

\* modem_status != MODEM_STATUS_READY
SendNotReady(t) ==
    /\ Goto(t, "send", "down")
    /\ ~Ready
    /\ UNCHANGED <<msg, back, got, queueVars, statusVars, bufVars, modemVars>>

SendDown(t) ==
    /\ pc[t] = "down"
    /\ mdReset' = TRUE
    /\ resetInCall' = (Id(msg[t]) # <<"off", Sph>>)
    /\ IF OnOff(msg[t]) THEN Drop(t) ELSE StartWrite(t)

\* write() takes the message; the share buffer is released
WriteDone(t) ==
    /\ pc[t] = "write" /\ modem # "down"
    /\ outbox' = IF NeedAck(msg[t]) THEN Append(outbox, Id(msg[t])) ELSE outbox
    /\ sent' = IF msg[t].n = 0 THEN sent
               ELSE [n |-> msg[t].n, by |-> msg[t].by,
                     data |-> IF msg[t].kind = "param" THEN payload ELSE msg[t].by]
    /\ bufHeld' = BufUnlocked(msg[t])
    /\ Finish(t, TRUE)
    /\ payload' = IF msg[t].kind = "param" THEN None ELSE payload
    /\ UNCHANGED <<waitAck, accepted, statusVars, buffer, modem, running, inbox, faults>>

\* write() fails although the modem is ready: the message is tried again, and the
\* share buffer has been released all the same.  (Another try of a message without
\* parameters changes nothing.)
WriteRetry(t) ==
    /\ pc[t] = "write" /\ Ready /\ faults < MaxFaults
    /\ msg[t].kind = "param"
    /\ bufHeld' = FALSE
    /\ faults' = faults + 1
    /\ UNCHANGED <<threadVars, queueVars, statusVars, buffer, payload, modem, running,
                   outbox, inbox, sent>>

\* 150 tries have failed
WriteGivesUp(t) ==
    /\ Goto(t, "write", "fail")
    /\ Ready /\ faults < MaxFaults
    /\ bufHeld' = BufUnlocked(msg[t])
    /\ faults' = faults + 1
    /\ UNCHANGED <<msg, back, got, queueVars, statusVars, buffer, payload, modem, running,
                   outbox, inbox, sent>>

\* md reset cause ccci message fail
WriteSkipped(t) ==
    /\ Goto(t, "write", "skip")
    /\ modem = "down"
    /\ bufHeld' = BufUnlocked(msg[t])
    /\ UNCHANGED <<msg, back, got, queueVars, statusVars, buffer, payload, modemVars>>

\* error handling for ack message
SendFails(t) ==
    /\ pc[t] \in {"skip", "fail"}
    /\ mdReset' = (mdReset \/ pc[t] = "skip")
    /\ resetInCall' = (resetInCall \/ (pc[t] = "skip" /\ Id(msg[t]) # <<"off", Sph>>))
    /\ waitAck' = IF NeedAck(msg[t]) THEN None ELSE waitAck
    /\ ErrorHandling(msg[t])
    /\ Finish(t, FALSE)
    /\ payload' = IF msg[t].kind = "param" THEN None ELSE payload
    /\ UNCHANGED <<accepted, apSide, seen, wanted, epof, buffer, modemVars>>

-----------------------------------------------------------------------------
(* CCCIReadThread.                                                          *)

readerRest == <<back, queueVars, bufVars>>

\* What was read is kept until its handler and the test of its ack are done.
Handled(done) == got' = IF done THEN None ELSE got

\* ReadMessage drops what it reads while the modem is not ready; a request for
\* the parameters ends the wait for a modem that has announced its power-off.
Read ==
    /\ pc[Reader] = "idle" /\ inbox # <<>>
    /\ inbox' = Tail(inbox)
    /\ epof' = (epof /\ Head(inbox) # <<"request", None>>)
    /\ IF modem = "down" \/ epof'
       THEN UNCHANGED <<pc, got>>
       ELSE pc' = [pc EXCEPT ![Reader] = "handle"] /\ got' = Head(inbox)
    /\ UNCHANGED <<msg, readerRest, resetInCall, mdReset, modemSide, apSide, seen, wanted,
                   modem, running, outbox, sent, faults>>

\* The acks set or clear the function's status; the ack of SPH_ON also has the
\* modem dump its parameters (ModemDumpSpeechParam).
HandleAck ==
    /\ got \in AckId
    /\ Goto(Reader, "handle", IF got = <<"on", Sph>> THEN "enter" ELSE "match")
    /\ msg' = [msg EXCEPT ![Reader] =
                  IF got = <<"on", Sph>> THEN New("note", Reader) ELSE @]
    /\ modemSide' = Acked(modemSide, got)
    /\ UNCHANGED <<got, readerRest, resetInCall, mdReset, epof, apSide, seen, wanted, modemVars>>

\* MSG_M2A_PCM_REC_DATA_NOTIFY: data that comes after the AP side has turned the
\* record off is dropped without an answer.
HandleData ==
    /\ got \in {"data"} \X Func
    /\ Goto(Reader, "handle", IF got[2] \in apSide THEN "send" ELSE "idle")
    /\ msg' = [msg EXCEPT ![Reader] = IF got[2] \in apSide THEN New("readAck", Reader) ELSE @]
    /\ Handled(got[2] \notin apSide)
    /\ UNCHANGED <<readerRest, statusVars, modemVars>>

\* Mutant: the parameters thread starts without emptying the queue.
RequestKeepingQueue ==
    /\ got = <<"request", None>>
    /\ pc[Reader] = "handle" /\ pc[Para] = "idle"
    /\ pc' = [pc EXCEPT ![Reader] = "idle", ![Para] = "ready"]
    /\ waitAck' = None
    /\ resetInCall' = FALSE /\ mdReset' = FALSE /\ epof' = FALSE
    /\ Handled(TRUE)
    /\ UNCHANGED <<msg, back, queue, qlock, accepted, modemSide, apSide, seen, wanted, bufVars,
                   modemVars>>

\* MSG_M2A_EM_DATA_REQUEST: the modem has been reset.  Bound: one thread sends
\* parameters at a time.
HandleRequest ==
    /\ got = <<"request", None>>
    /\ pc[Reader] = "handle" /\ pc[Para] = "idle"
    /\ pc' = [pc EXCEPT ![Reader] = "idle", ![Para] = "check"]
    /\ waitAck' = None
    /\ resetInCall' = FALSE /\ mdReset' = FALSE /\ epof' = FALSE
    /\ Handled(TRUE)
    /\ UNCHANGED <<msg, back, queue, qlock, accepted, modemSide, apSide, seen, wanted, bufVars,
                   modemVars>>

\* MSG_M2A_EPOF_NOTIFY: the queue is emptied, the modem gets its answer, and
\* from then on counts as not ready.
HandleEpof ==
    /\ got = <<"epofNotify", None>>
    /\ Goto(Reader, "handle", "check")
    /\ UNCHANGED <<msg, got, readerRest, statusVars, modemVars>>

EpofDone ==
    /\ Goto(Reader, "epof", "idle")
    /\ epof' = TRUE
    /\ UNCHANGED <<msg, readerRest, got, resetInCall, mdReset, modemSide, apSide, seen, wanted,
                   modemVars>>

\* If AP side is waiting for this ack, then consume message queue
MatchAck ==
    /\ Goto(Reader, "match", IF got = waitAck THEN "matched" ELSE "idle")
    /\ Handled(TRUE)
    /\ UNCHANGED <<msg, readerRest, statusVars, modemVars>>

ClearWaitAck ==
    /\ Goto(Reader, "matched", "consume")
    /\ waitAck' = None
    /\ UNCHANGED <<msg, back, got, queue, qlock, accepted, statusVars, bufVars, modemVars>>

\* ConsumeMessageInQueue
Consume ==
    /\ Goto(Reader, "consume", IF queue = <<>> THEN "idle" ELSE "pop")
    /\ qlock = None
    /\ qlock' = IF queue = <<>> THEN None ELSE Reader
    /\ UNCHANGED <<msg, back, got, queue, waitAck, accepted, statusVars, bufVars, modemVars>>

\* One turn of its loop: drop the first message, send the next.
PopLast ==
    /\ Goto(Reader, "pop", "idle")
    /\ Len(queue) = 1
    /\ queue' = <<>>
    /\ qlock' = None
    /\ UNCHANGED <<msg, back, got, waitAck, accepted, statusVars, bufVars, modemVars>>

PopAndSend ==
    /\ Goto(Reader, "pop", "send")
    /\ Len(queue) > 1
    /\ queue' = Tail(queue)
    /\ msg' = [msg EXCEPT ![Reader] = Head(Tail(queue))]
    /\ back' = [back EXCEPT ![Reader] = "consume"]
    /\ UNCHANGED <<got, qlock, waitAck, accepted, statusVars, bufVars, modemVars>>

-----------------------------------------------------------------------------
(* Modem reset: the queue is emptied by the reader (EPOF) or by             *)
(* SendSphParaThread, which then sends the parameters again.                *)

Queued(kinds, f) == {i \in DOMAIN queue : queue[i].kind \in kinds /\ queue[i].by = f}
Latest(f, i) == \A j \in Queued({"on", "off"}, f) : j <= i

\* MDReset_CheckMessageInQueue: the error handling of every message that needs
\* an ack, in order, so the last on or off of a function decides its status.
CheckQueue(t) ==
    /\ Goto(t, "check", "flush")
    /\ qlock = None
    /\ modemSide' = {f \in Func :
          \/ \E i \in Queued({"on"}, f) : Latest(f, i)
          \/ f \in modemSide /\ Queued({"on", "off"}, f) = {}}
    /\ bufHeld' = (bufHeld /\ \A i \in DOMAIN queue : queue[i].kind # "param")
    /\ queue' = <<>>
    /\ UNCHANGED <<msg, back, got, qlock, waitAck, accepted, resetInCall, mdReset, epof,
                   apSide, seen, wanted, buffer, payload, modemVars>>

\* MDReset_FlushMessageInQueue
FlushQueue(t) ==
    /\ Goto(t, "flush", IF t = Reader THEN "send" ELSE "ready")
    /\ qlock = None
    /\ queue' = <<>>
    /\ msg' = [msg EXCEPT ![t] = IF t = Reader THEN New("epofAck", Reader) ELSE @]
    /\ UNCHANGED <<back, got, qlock, waitAck, accepted, statusVars, bufVars, modemVars>>

\* WaitUntilModemReady: up to 2.5 seconds.
ModemReady ==
    /\ Goto(Para, "ready", "param")
    /\ Ready
    /\ UNCHANGED <<msg, back, got, queueVars, statusVars, bufVars, modemVars>>

ModemNotReady ==
    /\ Goto(Para, "ready", "idle")
    /\ ~Ready
    /\ UNCHANGED <<msg, back, got, queueVars, statusVars, bufVars, modemVars>>

\* SetAllSpeechEnhancementInfoToModem: parameters, unless the modem is reset
\* again, then the enhancement mask.
SendAllParams ==
    /\ Goto(Para, "param", IF mdReset THEN "enter" ELSE "lock")
    /\ msg' = [msg EXCEPT ![Para] = New(IF mdReset THEN "note" ELSE "param", Para)]
    /\ UNCHANGED <<back, got, queueVars, statusVars, bufVars, modemVars>>

-----------------------------------------------------------------------------
(* The modem, as the code expects it: it takes messages and answers them in *)
(* order, sends recorded data one block at a time, may reset or announce a  *)
(* power-off, and asks for the parameters whenever it has started.          *)

threadRest == <<threadVars, queueVars, statusVars, bufVars>>

Answer ==
    /\ modem # "down" /\ outbox # <<>>
    /\ running' = Acked(running, Head(outbox))
    /\ inbox' = Append(inbox, Head(outbox))
    /\ outbox' = Tail(outbox)
    /\ UNCHANGED <<threadRest, modem, sent, faults>>

RecordData(f) ==
    /\ modem # "down" /\ f \in running \ {Sph}
    /\ \A i \in DOMAIN inbox : inbox[i] \notin {"data"} \X Func
    /\ inbox' = Append(inbox, <<"data", f>>)
    /\ UNCHANGED <<threadRest, modem, running, outbox, sent, faults>>

StopsRunning ==
    /\ modem' = "down"
    /\ running' = {} /\ outbox' = <<>>
    /\ UNCHANGED <<threadRest, inbox, sent>>

ModemReset == modem = "up" /\ faults < MaxFaults /\ faults' = faults + 1 /\ StopsRunning

AnnouncePowerOff ==
    /\ modem = "up" /\ faults < MaxFaults
    /\ faults' = faults + 1
    /\ modem' = "leaving"
    /\ inbox' = Append(inbox, <<"epofNotify", None>>)
    /\ UNCHANGED <<threadRest, running, outbox, sent>>

PowerOff == modem = "leaving" /\ StopsRunning /\ UNCHANGED faults

ModemBoot ==
    /\ modem = "down"
    /\ modem' = "up"
    /\ inbox' = Append(inbox, <<"request", None>>)
    /\ UNCHANGED <<threadRest, running, outbox, sent, faults>>

-----------------------------------------------------------------------------
StartCall(t) == TurnOn(t) \/ TurnOff(t) \/ SetGain(t) \/ SetParam(t)

SendStep(t) ==
    \/ LockBuffer(t) \/ LockTimeout(t) \/ EnterQueue(t) \/ EnterEmpty(t)
    \/ Send(t) \/ SendDropped(t) \/ SendNotReady(t) \/ SendDown(t)
    \/ WriteDone(t) \/ WriteRetry(t) \/ WriteGivesUp(t) \/ WriteSkipped(t) \/ SendFails(t)

ResetStep(t) == CheckQueue(t) \/ FlushQueue(t)

ReaderStep ==
    \/ Read \/ HandleAck \/ HandleData \/ HandleRequest \/ HandleEpof \/ EpofDone
    \/ MatchAck \/ ClearWaitAck \/ Consume \/ PopLast \/ PopAndSend

ParaStep == ModemReady \/ ModemNotReady \/ SendAllParams

ModemStep ==
    \/ Answer \/ (\E f \in Func : RecordData(f))
    \/ ModemReset \/ AnnouncePowerOff \/ PowerOff \/ ModemBoot

Next ==
    \/ \E t \in Func : StartCall(t) \/ WriteStatus(t)
    \/ \E t \in Thread : SendStep(t) \/ ResetStep(t)
    \/ ReaderStep \/ ParaStep \/ ModemStep

Spec == Init /\ [][Next]_vars

\* Every thread of the HAL runs: it is never for ever at a step it can take.
\* Callers start calls when they like.
Fairness ==
    /\ \A t \in Func : WF_vars(WriteStatus(t))
    /\ \A t \in Thread : WF_vars(SendStep(t) \/ ResetStep(t))
    /\ WF_vars(ReaderStep)
    /\ WF_vars(ParaStep)

\* The modem answers what it has taken, and starts again after it went down.
ModemFairness == WF_vars(Answer) /\ WF_vars(PowerOff) /\ WF_vars(ModemBoot)

LiveSpec == Spec /\ Fairness

-----------------------------------------------------------------------------
\* The modem gets the messages of all callers in the order in which they were
\* accepted, each at most once, whatever is dropped in between: also when the
\* queue is flushed, messages fail and the reader sends what waited.
InOrder == [][sent' # sent => sent'.n > sent.n]_vars

\* With a modem and writes that never fail (MaxFaults = 0), whenever nobody works
\* on the queue, its first message is the one whose ack the reader waits for, and
\* that ack is the only one on its way: no ack makes the reader drop a message
\* that was not sent, and none is missed (the comment in ConsumeMessageInQueue).
AcksComing ==
    Len(outbox) + Cardinality({i \in DOMAIN inbox : inbox[i] \in AckId})
        + Cardinality({got} \cap AckId)

HeadAwaitsAck ==
    queue # <<>> /\ qlock = None /\ pc[Reader] \notin {"matched", "consume"}
        => waitAck = Id(Head(queue)) /\ AcksComing = 1

\* With a modem and writes that never fail, recorded data arrives only while the
\* messenger has the record status on (the ASSERT in the handler of the data
\* notification), also when the callers switch the function faster than the
\* modem answers.
DataExpected ==
    pc[Reader] = "handle" /\ got \in {"data"} \X Func => got[2] \in modemSide

\* Parameters reach the modem as their caller wrote them: nobody overwrites the
\* share buffer before SendMessage has copied it ("get buffer lock to prevent
\* overwrite other's data", SetVariousKindsOfSpeechParameters).  It holds while
\* nothing fails; one failed write is enough to break it.
BufferIntact == sent.data = sent.by

\* With a modem and writes that never fail, when everything is quiet, what the
\* messenger believes the modem runs is what the callers have switched on, however
\* fast they switch and whatever an update that mApSideModemStatus has lost makes
\* of the data in between (that word itself may stay wrong for good).
Quiet ==
    /\ \A t \in Thread : pc[t] = "idle"
    /\ queue = <<>> /\ outbox = <<>>
    /\ \A i \in DOMAIN inbox : inbox[i] \notin AckId

StatusAgrees == Quiet => modemSide = wanted

\* Every call of the driver returns, whether the modem lives or not.
CallsReturn == \A t \in Func : pc[t] # "idle" ~> pc[t] = "idle"

\* With a modem that answers, or comes back when it went down, no message
\* blocks the queue for ever.
QueueDrains == ModemFairness => (queue # <<>> ~> queue = <<>>)
=============================================================================
