-------------------------- MODULE SpeechCalmProofs --------------------------
(***************************************************************************)
(* Proofs about SpeechMessenger with a modem and writes that never fail,   *)
(* for any functions and any number of calls: what the acks, the share     *)
(* buffer and the status words promise each other.                         *)
(***************************************************************************)
EXTENDS SpeechProofs, FiniteSetTheorems, SequenceTheorems

-----------------------------------------------------------------------------
(* Nothing fails.                                                           *)

CalmStep == {"idle", "enter", "send", "write"}
ReadStep == {"handle", "match", "matched", "consume", "pop"}
Data == {"data"} \X Func

\* The modem is up and the messenger knows it.
ModemUp == modem = "up" /\ ~epof /\ ~mdReset /\ ~resetInCall

\* Nobody is at a step that only a fault leads to.
CallerCalm(t) ==
    /\ pc[t] \in CalmStep \cup {"status", "lock"}
    /\ back[t] # "consume"
    /\ pc[t] = "lock" => msg[t].kind = "param"
    /\ pc[t] = "status" => OnOff(msg[t])
    /\ pc[t] \in {"status", "lock", "enter"} => msg[t].by = t

ReaderCalm ==
    /\ pc[Reader] \in CalmStep \cup ReadStep
    /\ pc[Reader] = "enter" => msg[Reader].kind = "note"
    /\ pc[Reader] \in {"send", "write"} /\ back[Reader] = "bare" => msg[Reader].kind = "readAck"
    /\ pc[Reader] \in {"send", "write"} /\ back[Reader] = "enter" => msg[Reader].kind = "note"
    /\ pc[Reader] = "handle" => got # None
    /\ got \in AckId \cup Data \cup {None}
    /\ \A i \in DOMAIN inbox : inbox[i] \in AckId \cup Data

CalmInv ==
    /\ ModemUp
    /\ \A t \in Func : CallerCalm(t)
    /\ ReaderCalm
    /\ pc[Para] = "idle"

\* The steps that remain.
CallerStep(t) ==
    \/ TurnOn(t) \/ TurnOff(t) \/ SetGain(t) \/ SetParam(t)
    \/ WriteStatus(t) \/ LockBuffer(t) \/ LockTimeout(t)

SenderStep(t) == EnterQueue(t) \/ EnterEmpty(t) \/ Send(t) \/ WriteDone(t)

HandlerStep ==
    \/ Read \/ HandleAck \/ HandleData
    \/ MatchAck \/ ClearWaitAck \/ Consume \/ PopLast \/ PopAndSend

CalmNext ==
    \/ \E t \in Func : CallerStep(t)
    \/ \E t \in Func \cup {Reader} : SenderStep(t)
    \/ HandlerStep
    \/ Answer \/ \E f \in Func : RecordData(f)

LEMMA Identifiers ==
    /\ AckId \cap Data = {} /\ None \notin AckId \cup Data
    /\ <<"request", None>> \notin AckId \cup Data
    /\ <<"epofNotify", None>> \notin AckId \cup Data
    /\ None # <<"on", Sph>>
    /\ AckId \cup Data \subseteq Incoming
<1>1. AckId \cup Data \subseteq Incoming /\ <<"on", Sph>> \in AckId
  BY SphIsAFunction DEF Incoming, Data, AckId
<1>2. None \notin AckId \cup Data /\ None # <<"on", Sph>>
  BY <1>1, NoneIsNotSent
<1>3. \A x \in AckId : x[1] \in {"on", "off", "param"}
  BY DEF AckId
<1>4. \A x \in Data : x[1] = "data"
  BY DEF Data
<1>5. QED BY <1>1, <1>2, <1>3, <1>4

LEMMA OnlyCalmSteps ==
    ASSUME MaxFaults = 0, Inv, CalmInv, [Next]_vars
    PROVE CalmNext \/ UNCHANGED vars
<1>f. ~(faults < MaxFaults)
  BY DEF Inv, TypeOK, ModemTypes
<1>t. Thread = Func \cup {Reader, Para} /\ Ready
  BY DEF Thread, Ready, CalmInv, ModemUp
<1>1. CASE \E t \in Func : StartCall(t) \/ WriteStatus(t)
  BY <1>1 DEF StartCall, CalmNext, CallerStep
<1>2. ASSUME NEW t \in Thread, SendStep(t) \/ ResetStep(t) PROVE CalmNext
  <2>1. t # Para
    BY <1>2 DEF SendStep, ResetStep, CalmInv, LockBuffer, LockTimeout, EnterQueue, EnterEmpty,
       Send, SendDropped, SendNotReady, SendDown, WriteDone, WriteRetry, WriteGivesUp,
       WriteSkipped, SendFails, CheckQueue, FlushQueue, Goto
  <2>2. pc[t] \notin {"down", "skip", "fail", "check", "flush"} /\ (t = Reader => pc[t] # "lock")
    BY <2>1, <1>t DEF CalmInv, CallerCalm, ReaderCalm, CalmStep, ReadStep
  <2>3. ~ResetStep(t)
    BY <2>2 DEF ResetStep, CheckQueue, FlushQueue, Goto
  <2>4. ~SendDropped(t) /\ ~SendNotReady(t) /\ ~SendDown(t) /\ ~SendFails(t)
    BY <2>2, <1>t DEF SendDropped, SendNotReady, SendDown, SendFails, CalmInv, ModemUp
  <2>5. ~WriteRetry(t) /\ ~WriteGivesUp(t) /\ ~WriteSkipped(t)
    BY <1>f DEF WriteRetry, WriteGivesUp, WriteSkipped, CalmInv, ModemUp
  <2>6. t = Reader => ~LockBuffer(t) /\ ~LockTimeout(t)
    BY <2>2 DEF LockBuffer, LockTimeout, Goto
  <2>7. QED
    BY <1>2, <1>t, <2>1, <2>3, <2>4, <2>5, <2>6 DEF SendStep, CalmNext, CallerStep, SenderStep
<1>3. CASE ReaderStep
  <2>1. ~HandleRequest /\ ~HandleEpof
    BY Identifiers DEF HandleRequest, HandleEpof, Goto, CalmInv, ReaderCalm
  <2>2. ~EpofDone
    BY DEF EpofDone, Goto, CalmInv, ReaderCalm, CalmStep, ReadStep
  <2>3. QED BY <1>3, <2>1, <2>2 DEF ReaderStep, CalmNext, HandlerStep
<1>4. ~ParaStep
  BY DEF ParaStep, ModemReady, ModemNotReady, SendAllParams, Goto, CalmInv
<1>5. CASE ModemStep
  BY <1>5, <1>f DEF ModemStep, ModemReset, AnnouncePowerOff, PowerOff, ModemBoot, CalmNext,
     CalmInv, ModemUp
<1>6. QED BY <1>1, <1>2, <1>3, <1>4, <1>5 DEF Next

\* What a step of thread t leaves to the others.
LEMMA OthersCalm ==
    ASSUME CalmInv, NEW t \in Func \cup {Reader}, Local(t), ModemUp',
           UNCHANGED inbox, t # Reader => UNCHANGED got,
           t \in Func => CallerCalm(t)', t = Reader => ReaderCalm'
    PROVE CalmInv'
<1>1. /\ \A u \in Func \cup {Reader, Para} :
            u # t => pc'[u] = pc[u] /\ msg'[u] = msg[u] /\ back'[u] = back[u]
      /\ t # Para
  BY ThreadsDiffer DEF Local, Thread
<1>2. ASSUME NEW u \in Func PROVE CallerCalm(u)'
  <2>1. CASE u = t BY <2>1
  <2>2. CASE u # t BY <2>2, <1>1 DEF CalmInv, CallerCalm
  <2>3. QED BY <2>1, <2>2
<1>3. ReaderCalm'
  BY <1>1 DEF CalmInv, ReaderCalm
<1>4. QED BY <1>1, <1>2, <1>3 DEF CalmInv

LEMMA CallerStepCalm ==
    ASSUME Inv, CalmInv, NEW t \in Func, CallerStep(t)
    PROVE CalmInv'
<1>t. ThreadTypes /\ t \in Thread /\ t # Reader /\ CallerCalm(t)
  BY ThreadsDiffer DEF Inv, TypeOK, Thread, CalmInv
<1>1. Local(t) /\ UNCHANGED <<back, got, inbox, modem, epof, mdReset, resetInCall>>
  <2>1. CASE LockBuffer(t)
    BY <2>1, <1>t DEF LockBuffer, Goto, Local, ThreadTypes, statusVars, modemVars
  <2>2. CASE LockTimeout(t)
    BY <2>2, <1>t DEF LockTimeout, Goto, Local, ThreadTypes, statusVars, modemVars
  <2>3. CASE TurnOn(t) \/ TurnOff(t) \/ SetGain(t) \/ SetParam(t)
    BY <2>3, <1>t DEF TurnOn, TurnOff, SetGain, SetParam, Call, Goto, Local, ThreadTypes,
       statusVars, modemVars, ReadStatus
  <2>4. CASE WriteStatus(t)
    BY <2>4, <1>t DEF WriteStatus, Goto, Local, ThreadTypes, modemVars
  <2>5. QED BY <2>1, <2>2, <2>3, <2>4 DEF CallerStep
<1>2. CallerCalm(t)'
  <2>1. CASE LockBuffer(t)
    BY <2>1, <1>t DEF LockBuffer, Goto, ThreadTypes, CallerCalm, CalmStep
  <2>2. CASE LockTimeout(t)
    BY <2>2, <1>t, ThreadsDiffer DEF LockTimeout, Goto, ThreadTypes, CallerCalm, CalmStep
  <2>3. CASE TurnOn(t) \/ TurnOff(t) \/ SetGain(t) \/ SetParam(t)
    BY <2>3, <1>t
       DEF TurnOn, TurnOff, SetGain, SetParam, Call, Goto, ThreadTypes, CallerCalm, CalmStep, New,
           ReadStatus, OnOff
  <2>4. CASE WriteStatus(t)
    BY <2>4, <1>t DEF WriteStatus, Goto, ThreadTypes, CallerCalm, CalmStep
  <2>5. QED BY <2>1, <2>2, <2>3, <2>4 DEF CallerStep
<1>3. ModemUp'
  BY <1>1 DEF CalmInv, ModemUp
<1>4. QED BY <1>t, <1>1, <1>2, <1>3, OthersCalm

\* Where a thread is after SendMessage has sent its message.
LEMMA AfterSend ==
    ASSUME Inv, CalmInv, NEW t \in Func \cup {Reader}, pc[t] = "write", Finish(t, TRUE)
    PROVE /\ Local(t) /\ back'[t] = "bare" /\ msg'[t] = NoMessage
          /\ t # Reader => got' = got /\ pc'[t] = "idle"
          /\ back[t] = "bare" => pc'[t] = "idle" /\ qlock' = qlock
          /\ t = Reader /\ back[t] # "enter" =>
                got' \in {got, None} /\ pc'[t] \in {"idle", "pop"}
          /\ back[t] = "consume" =>
                /\ pc'[t] = IF NeedAck(msg[t]) THEN "idle" ELSE "pop"
                /\ qlock' = IF NeedAck(msg[t]) THEN None ELSE qlock
          /\ back[t] = "enter" => qlock' = None
          /\ pc'[t] \in {"idle", "pop", "match"}
          /\ queue' = queue
          /\ got' \in {got, None}
<1>t. ThreadTypes /\ t \in Thread /\ t # Para /\ (t # Reader => t \in Func)
  BY ThreadsDiffer DEF Inv, TypeOK, Thread
<1>1. back[t] \in {"enter", "consume", "bare"} /\ (t # Reader => back[t] # "consume")
  BY <1>t DEF ThreadTypes, CalmInv, CallerCalm
<1>2. /\ t = Reader /\ back[t] = "bare" => msg[t].kind = "readAck"
      /\ t = Reader /\ back[t] = "enter" => msg[t].kind = "note"
  BY DEF CalmInv, ReaderCalm
<1>3. CASE back[t] = "consume"
  BY <1>3, <1>1, <1>t DEF Finish, Local, ThreadTypes
<1>4. CASE back[t] # "consume"
  <2>1. Resume(t) /\ queue' = queue
    BY <1>4, <1>1 DEF Finish
  <2>2. /\ pc'[t] = NextStep(t) /\ msg'[t] = NoMessage /\ back'[t] = "bare"
        /\ got' \in {got, None} /\ (t # Reader => got' = got) /\ Local(t)
    BY <2>1, <1>t DEF Resume, Local, ThreadTypes
  <2>3. /\ NextStep(t) \in {"idle", "match"} /\ (t # Reader => NextStep(t) = "idle")
        /\ t = Reader /\ back[t] = "bare" => NextStep(t) = "idle"
    BY <1>t, <1>1, <1>2, <1>4 DEF NextStep
  <2>4. QED BY <1>4, <1>1, <2>1, <2>2, <2>3 DEF Finish
<1>5. QED BY <1>3, <1>4

LEMMA SenderStepCalm ==
    ASSUME Inv, CalmInv, NEW t \in Func \cup {Reader}, SenderStep(t)
    PROVE CalmInv'
<1>t. ThreadTypes /\ t \in Thread /\ t # Para /\ (t # Reader => t \in Func)
  BY ThreadsDiffer DEF Inv, TypeOK, Thread
<1>r. /\ t = Reader => t \notin Func
      /\ t \in Func => CallerCalm(t)
      /\ ~Sending(t) => back[t] = "bare"
  BY <1>t, ThreadsDiffer DEF CalmInv, Inv, ThreadInv, BareInv
<1>1. CASE EnterQueue(t)
  <2>1. /\ pc[t] = "enter" /\ Resume(t)
        /\ UNCHANGED <<inbox, modem, epof, mdReset, resetInCall>>
    BY <1>1 DEF EnterQueue, statusVars, modemVars
  <2>2. /\ pc'[t] = NextStep(t) /\ msg'[t] = NoMessage /\ back'[t] = "bare"
        /\ got' = (IF t = Reader /\ msg[t].kind # "note" THEN None ELSE got) /\ Local(t)
    BY <2>1, <1>t DEF Resume, Local, ThreadTypes
  <2>3. IF t = Reader THEN NextStep(t) = "match" /\ got' = got ELSE NextStep(t) = "idle" /\ got' = got
    BY <1>t, <2>1, <2>2 DEF NextStep, CalmInv, ReaderCalm
  <2>4. t \in Func => CallerCalm(t)'
    BY <1>r, <2>2, <2>3 DEF CallerCalm, CalmStep
  <2>5. t = Reader => ReaderCalm'
    BY <2>1, <2>2, <2>3 DEF CalmInv, ReaderCalm, ReadStep
  <2>6. ModemUp'
    BY <2>1 DEF ModemUp, CalmInv
  <2>7. QED BY <2>1, <2>2, <2>3, <2>4, <2>5, <2>6, OthersCalm
<1>2. CASE EnterEmpty(t)
  <2>1. /\ pc[t] = "enter" /\ pc'[t] = "send" /\ back'[t] = "enter"
        /\ msg'[t].kind = msg[t].kind /\ Local(t)
        /\ UNCHANGED <<inbox, got, modem, epof, mdReset, resetInCall>>
    BY <1>2, <1>t
       DEF EnterEmpty, Goto, Stamped, ThreadTypes, Message, Local, statusVars, modemVars
  <2>2. t \in Func => CallerCalm(t)'
    BY <1>r, <2>1 DEF CallerCalm, CalmStep
  <2>3. t = Reader => ReaderCalm'
    BY <2>1 DEF CalmInv, ReaderCalm, CalmStep
  <2>4. ModemUp'
    BY <2>1 DEF ModemUp, CalmInv
  <2>5. QED BY <2>1, <2>2, <2>3, <2>4, OthersCalm
<1>3. CASE Send(t)
  <2>1. /\ pc[t] = "send" /\ pc'[t] = "write" /\ msg' = msg /\ back' = back /\ Local(t)
        /\ UNCHANGED <<inbox, got, modem, epof, mdReset, resetInCall>>
    BY <1>3, <1>t DEF Send, StartWrite, ThreadTypes, Local, modemVars
  <2>2. t \in Func => CallerCalm(t)'
    BY <1>r, <2>1 DEF CallerCalm, CalmStep
  <2>3. t = Reader => ReaderCalm'
    BY <2>1 DEF CalmInv, ReaderCalm, CalmStep
  <2>4. ModemUp'
    BY <2>1 DEF ModemUp, CalmInv
  <2>5. QED BY <2>1, <2>2, <2>3, <2>4, OthersCalm
<1>4. CASE WriteDone(t)
  <2>1. /\ pc[t] = "write" /\ Finish(t, TRUE)
        /\ UNCHANGED <<inbox, modem, epof, mdReset, resetInCall>>
    BY <1>4 DEF WriteDone, statusVars
  <2>2. /\ Local(t) /\ back'[t] = "bare" /\ pc'[t] \in {"idle", "pop", "match"}
        /\ got' \in {got, None} /\ (t # Reader => got' = got /\ pc'[t] = "idle")
    BY <2>1, AfterSend
  <2>3. t \in Func => CallerCalm(t)'
    BY <1>r, <2>2 DEF CallerCalm, CalmStep
  <2>4. t = Reader => ReaderCalm'
    BY <2>1, <2>2 DEF CalmInv, ReaderCalm, CalmStep, ReadStep
  <2>5. ModemUp'
    BY <2>1 DEF ModemUp, CalmInv
  <2>6. QED BY <2>1, <2>2, <2>3, <2>4, <2>5, OthersCalm
<1>5. QED BY <1>1, <1>2, <1>3, <1>4 DEF SenderStep

LEMMA HandlerStepCalm ==
    ASSUME Inv, CalmInv, HandlerStep
    PROVE CalmInv'
<1>t. ThreadTypes /\ ModemTypes /\ Reader \in Thread /\ Reader \notin Func /\ Reader # Para
  BY ThreadsDiffer DEF Inv, TypeOK, Thread
<1>1. ~Sending(Reader) => back[Reader] = "bare"
  BY <1>t DEF Inv, ThreadInv, BareInv
<1>2. CASE Read
  <2>0. inbox \in Seq(Incoming) /\ \A i \in DOMAIN inbox : inbox[i] \in AckId \cup Data
    BY <1>t DEF ModemTypes, CalmInv, ReaderCalm
  <2>1. /\ pc[Reader] = "idle" /\ inbox # <<>> /\ inbox' = Tail(inbox)
        /\ Head(inbox) \in AckId \cup Data /\ Head(inbox) # <<"request", None>>
        /\ \A i \in DOMAIN inbox' : inbox'[i] \in AckId \cup Data
    <3>1. pc[Reader] = "idle" /\ inbox # <<>> /\ inbox' = Tail(inbox)
      BY <1>2 DEF Read
    <3>2. /\ Head(inbox) = inbox[1] /\ 1 \in DOMAIN inbox
          /\ \A i \in DOMAIN inbox' : inbox'[i] = inbox[i + 1] /\ i + 1 \in DOMAIN inbox
      BY <2>0, <3>1
    <3>3. QED BY <2>0, <3>1, <3>2, Identifiers
  <2>2. epof' = FALSE
    BY <1>2 DEF Read, CalmInv, ModemUp
  <2>3. pc' = [pc EXCEPT ![Reader] = "handle"] /\ got' = Head(inbox)
    BY <1>2, <2>2 DEF Read, CalmInv, ModemUp
  <2>4. ModemUp'
    BY <1>2, <2>2 DEF Read, CalmInv, ModemUp
  <2>5. ReaderCalm' /\ \A u \in Thread \ {Reader} : pc'[u] = pc[u]
    BY <1>2, <2>1, <2>3, <1>t, Identifiers
       DEF Read, CalmInv, ReaderCalm, ReadStep, ThreadTypes, readerRest
  <2>6. UNCHANGED <<msg, back>>
    BY <1>2 DEF Read, readerRest
  <2>7. QED BY <1>t, <2>4, <2>5, <2>6 DEF CalmInv, CallerCalm, Thread
<1>3. CASE HandleAck \/ HandleData
  <2>1. Local(Reader) /\ UNCHANGED <<inbox, modem, epof, mdReset, resetInCall>> /\ ModemUp'
    BY <1>3, <1>t DEF HandleAck, HandleData, Goto, ThreadTypes, Local, readerRest, statusVars,
       modemVars, CalmInv, ModemUp
  <2>2. ReaderCalm'
    <3>1. CASE HandleAck
      BY <3>1, <1>t, <1>1 DEF HandleAck, Goto, ThreadTypes, New, CalmInv, ReaderCalm, readerRest,
         modemVars, CalmStep, ReadStep, Sending
    <3>2. CASE HandleData
      BY <3>2, <1>t, <1>1 DEF HandleData, Handled, Goto, ThreadTypes, New, CalmInv, ReaderCalm,
         readerRest, modemVars, CalmStep, ReadStep, Sending
    <3>3. QED BY <1>3, <3>1, <3>2
  <2>3. QED BY <2>1, <2>2, <1>t, OthersCalm
<1>4. CASE MatchAck \/ ClearWaitAck \/ Consume \/ PopLast
  <2>1. /\ pc'[Reader] \in {"idle", "matched", "consume", "pop"} /\ got' \in {got, None}
        /\ UNCHANGED <<msg, back, inbox, modem, epof, mdReset, resetInCall>> /\ Local(Reader)
    BY <1>4, <1>t DEF MatchAck, ClearWaitAck, Consume, PopLast, Handled, Goto, ThreadTypes, Local,
       readerRest, statusVars, modemVars
  <2>2. ReaderCalm' /\ ModemUp'
    BY <2>1 DEF CalmInv, ReaderCalm, ModemUp, CalmStep, ReadStep
  <2>3. QED BY <2>1, <2>2, <1>t, OthersCalm
<1>5. CASE PopAndSend
  <2>1. /\ pc'[Reader] = "send" /\ back'[Reader] = "consume" /\ got' = got
        /\ UNCHANGED <<inbox, modem, epof, mdReset, resetInCall>> /\ Local(Reader)
    BY <1>5, <1>t DEF PopAndSend, Goto, ThreadTypes, Local, statusVars, modemVars
  <2>2. ReaderCalm' /\ ModemUp'
    BY <2>1 DEF CalmInv, ReaderCalm, ModemUp, CalmStep
  <2>3. QED BY <2>1, <2>2, <1>t, OthersCalm
<1>6. QED BY <1>2, <1>3, <1>4, <1>5 DEF HandlerStep

LEMMA CalmKept == ASSUME Inv, CalmInv, CalmNext \/ UNCHANGED vars PROVE CalmInv'
<1>t. outbox \in Seq(AckId) /\ inbox \in Seq(Incoming)
  BY DEF Inv, TypeOK, ModemTypes
<1>1. ASSUME UNCHANGED <<pc, msg, back, got, modem, epof, mdReset, resetInCall>>,
             \A i \in DOMAIN inbox' : inbox'[i] \in AckId \cup Data
      PROVE CalmInv'
  BY <1>1 DEF CalmInv, ModemUp, CallerCalm, ReaderCalm
<1>2. ASSUME NEW x \in AckId \cup Data, inbox' = Append(inbox, x)
      PROVE \A i \in DOMAIN inbox' : inbox'[i] \in AckId \cup Data
  <2>1. x \in Incoming
    BY Identifiers
  <2>2. QED BY <2>1, <1>2, <1>t DEF CalmInv, ReaderCalm
<1>3. CASE Answer
  <2>1. Head(outbox) \in AckId /\ inbox' = Append(inbox, Head(outbox))
    BY <1>3, <1>t DEF Answer
  <2>2. QED BY <1>3, <2>1, <1>1, <1>2 DEF Answer, threadRest, threadVars, statusVars
<1>4. ASSUME NEW f \in Func, RecordData(f) PROVE CalmInv'
  <2>1. <<"data", f>> \in Data /\ inbox' = Append(inbox, <<"data", f>>)
    BY <1>4 DEF RecordData, Data
  <2>2. QED BY <1>4, <2>1, <1>1, <1>2 DEF RecordData, threadRest, threadVars, statusVars
<1>5. CASE UNCHANGED vars
  BY <1>5, <1>1 DEF vars, threadVars, statusVars, modemVars, CalmInv, ReaderCalm
<1>6. QED
  BY <1>3, <1>4, <1>5, CallerStepCalm, SenderStepCalm, HandlerStepCalm DEF CalmNext

-----------------------------------------------------------------------------
(* The share buffer.                                                        *)

\* Thread t has a message whose parameters are in the share buffer; so has the
\* i-th message of the queue, unless it is the first, which has been written.
InHand(t) == msg[t].kind = "param" /\ (pc[t] = "enter" \/ Sending(t))
Waits(i) == i > 1 /\ queue[i].kind = "param"

\* There is at most one such message; it has the buffer locked and its data there,
\* and SendMessage's copy is that of the message it writes.
BufInv ==
    /\ \A t \in Thread : InHand(t) => bufHeld /\ msg[t].by = buffer
    /\ \A i \in DOMAIN queue : Waits(i) => bufHeld /\ queue[i].by = buffer
    /\ \A t, u \in Thread : InHand(t) /\ InHand(u) => t = u
    /\ \A i, j \in DOMAIN queue : Waits(i) /\ Waits(j) => i = j
    /\ \A t \in Thread, i \in DOMAIN queue : ~(InHand(t) /\ Waits(i))
    /\ \A t \in Thread : pc[t] = "write" /\ msg[t].kind = "param" => payload = msg[t].by

\* A step that gives nobody parameters, and no message of the queue a new place.
LEMMA BufferAlone ==
    ASSUME BufInv, UNCHANGED <<bufHeld, buffer, payload>>,
           \A u \in Thread : InHand(u)' => InHand(u) /\ msg'[u].by = msg[u].by,
           \A u \in Thread : InHand(u)' /\ pc'[u] = "write" => pc[u] = "write",
           \A i \in DOMAIN queue' : Waits(i)' =>
              i \in DOMAIN queue /\ Waits(i) /\ queue'[i] = queue[i]
    PROVE BufInv'
<1>1. \A u \in Thread : pc'[u] = "write" /\ msg'[u].kind = "param" => InHand(u)'
  BY DEF InHand, Sending
<1>2. \A u \in Thread : pc'[u] = "write" /\ msg'[u].kind = "param"
                           => payload' = msg'[u].by
  BY <1>1 DEF BufInv, InHand
<1>3. QED BY <1>2 DEF BufInv

LEMMA CallerStepBuf ==
    ASSUME Inv, CalmInv, BufInv, NEW t \in Func, CallerStep(t)
    PROVE BufInv'
<1>t. ThreadTypes /\ t \in Thread /\ CallerCalm(t)
  BY DEF Inv, TypeOK, Thread, CalmInv
<1>1. CASE LockBuffer(t)
  <2>1. /\ pc[t] = "lock" /\ pc' = [pc EXCEPT ![t] = "enter"] /\ UNCHANGED <<msg, queue, payload>>
        /\ ~bufHeld /\ bufHeld' = TRUE /\ buffer' = t
    BY <1>1 DEF LockBuffer, Goto, queueVars
  <2>2. msg[t].by = t
    BY <1>t, <2>1 DEF CallerCalm
  <2>3. /\ \A u \in Thread : ~InHand(u)
        /\ \A i \in DOMAIN queue' : ~Waits(i)'
    BY <2>1 DEF BufInv, Waits
  <2>4. \A u \in Thread : InHand(u)' => u = t
    BY <2>1, <2>3, <1>t DEF InHand, Sending, ThreadTypes
  <2>5. \A u \in Thread : pc'[u] = "write" => pc[u] = "write" /\ u # t
    BY <2>1, <1>t DEF ThreadTypes
  <2>6. QED BY <2>1, <2>2, <2>3, <2>4, <2>5 DEF BufInv, InHand, Sending
<1>2. CASE ~LockBuffer(t)
  <2>1. UNCHANGED <<queue, bufHeld, buffer, payload>>
    BY <1>2 DEF CallerStep, LockTimeout, WriteStatus, TurnOn, TurnOff,
       ReadStatus, SetGain, SetParam, Call, queueVars, bufVars
  <2>2. /\ pc'[t] \in {"idle", "status", "enter", "lock"}
        /\ pc'[t] = "enter" => msg'[t].kind # "param"
    BY <1>2, <1>t, ThreadsDiffer
       DEF CallerCalm, OnOff, CallerStep, LockTimeout, WriteStatus, TurnOn, TurnOff,
       ReadStatus, SetGain, SetParam, Call, Goto, ThreadTypes, New
  <2>3. \A u \in Thread \ {t} : pc'[u] = pc[u] /\ msg'[u] = msg[u]
    BY <1>2, <1>t DEF CallerStep, LockTimeout, WriteStatus, TurnOn, TurnOff,
       ReadStatus, SetGain, SetParam, Call, Goto, ThreadTypes
  <2>4. QED BY <2>1, <2>2, <2>3, BufferAlone DEF InHand, Sending, Waits
<1>3. QED BY <1>1, <1>2

\* The parameters of the message that is queued wait there.
LEMMA EnterQueueBuf ==
    ASSUME Inv, CalmInv, BufInv, NEW t \in Func \cup {Reader}, EnterQueue(t)
    PROVE BufInv'
<1>t. /\ ThreadTypes /\ t \in Thread /\ t # Para /\ (t # Reader => t \in Func)
      /\ queue \in Seq(Message) /\ msg[t] \in Message
  BY ThreadsDiffer DEF Inv, TypeOK, Thread, QueueTypes, ThreadTypes
<1>1. /\ pc[t] = "enter" /\ Resume(t) /\ queue # <<>>
      /\ UNCHANGED <<bufHeld, buffer, payload>>
  BY DEF EnterQueue, bufVars, MustQueue
<1>2. /\ pc'[t] \in {"idle", "match"}
      /\ \A u \in Thread \ {t} : pc'[u] = pc[u] /\ msg'[u] = msg[u]
  <2>1. NextStep(t) \in {"idle", "match"}
    BY <1>t, <1>1 DEF NextStep, CalmInv, ReaderCalm
  <2>2. QED BY <2>1, <1>1, <1>t DEF Resume, ThreadTypes
<1>3. \A u \in Thread : InHand(u)' => u # t /\ InHand(u) /\ msg'[u] = msg[u] /\ pc'[u] = pc[u]
  BY <1>2 DEF InHand, Sending
<1>4. CASE queue' = <<>>
  BY <1>1, <1>3, <1>4, BufferAlone
<1>5. CASE queue' = Append(queue, Stamped(t))
  <2>1. /\ Stamped(t) \in Message /\ Stamped(t).kind = msg[t].kind /\ Stamped(t).by = msg[t].by
    BY <1>t, MessageFields DEF Stamped, Inv, TypeOK, QueueTypes, Message
  <2>2. /\ \A i \in DOMAIN queue' : i \in DOMAIN queue \/ i = Len(queue) + 1
        /\ \A i \in DOMAIN queue : queue'[i] = queue[i]
        /\ queue'[Len(queue) + 1] = Stamped(t)
    BY <1>5, <1>t, <2>1
  <2>3. msg[t].kind = "param" => InHand(t)
    BY <1>1 DEF InHand
  <2>4. \A i \in DOMAIN queue' : Waits(i)' =>
           \/ i \in DOMAIN queue /\ Waits(i) /\ queue'[i] = queue[i]
           \/ i = Len(queue) + 1 /\ InHand(t) /\ queue'[i].by = msg[t].by
    BY <2>1, <2>2, <2>3 DEF Waits
  <2>5. \A u \in Thread : pc'[u] = "write" /\ msg'[u].kind = "param" => InHand(u)'
    BY DEF InHand, Sending
  <2>6. \A u \in Thread : pc'[u] = "write" /\ msg'[u].kind = "param" => payload' = msg'[u].by
    BY <2>5, <1>1, <1>3 DEF BufInv
  <2>7. QED BY <1>1, <1>3, <1>t, <2>4, <2>6 DEF BufInv
<1>6. QED BY <1>4, <1>5 DEF EnterQueue, Enqueued

\* Nobody else has parameters when a message with parameters is written.
LEMMA WriteDoneBuf ==
    ASSUME Inv, CalmInv, BufInv, NEW t \in Func \cup {Reader}, WriteDone(t)
    PROVE BufInv' /\ (BufferIntact => BufferIntact')
<1>t. t \in Thread /\ pc[t] = "write" /\ Finish(t, TRUE)
  BY DEF Thread, WriteDone
<1>1. /\ pc'[t] \in {"idle", "match", "pop"} /\ queue' = queue /\ buffer' = buffer
      /\ \A u \in Thread \ {t} : pc'[u] = pc[u] /\ msg'[u] = msg[u]
  BY <1>t, AfterSend DEF WriteDone, Local
<1>2. \A u \in Thread : InHand(u)' => u # t /\ InHand(u) /\ msg'[u] = msg[u] /\ pc'[u] = pc[u]
  BY <1>1 DEF InHand, Sending
<1>3. \A i \in DOMAIN queue' : Waits(i)' = Waits(i) /\ queue'[i] = queue[i]
  BY <1>1 DEF Waits
<1>4. CASE msg[t].kind = "param"
  <2>1. InHand(t)
    BY <1>4, <1>t DEF InHand, Sending
  <2>2. /\ \A u \in Thread : ~InHand(u)'
        /\ \A i \in DOMAIN queue' : ~Waits(i)'
    BY <2>1, <1>t, <1>1, <1>2, <1>3 DEF BufInv
  <2>3. \A u \in Thread : pc'[u] = "write" /\ msg'[u].kind = "param" => InHand(u)'
    BY DEF InHand, Sending
  <2>4. BufInv'
    BY <2>2, <2>3 DEF BufInv
  <2>5. sent' = sent \/ (sent'.by = msg[t].by /\ sent'.data = payload)
    BY <1>4 DEF WriteDone
  <2>6. payload = msg[t].by
    BY <1>4, <1>t DEF BufInv
  <2>7. QED BY <2>4, <2>5, <2>6 DEF BufferIntact
<1>5. CASE msg[t].kind # "param"
  <2>1. bufHeld' = bufHeld /\ payload' = payload
    <3>1. bufHeld' = BufUnlocked(msg[t]) /\ bufHeld \in BOOLEAN /\ payload' = payload
      BY <1>5 DEF WriteDone, Inv, TypeOK, FlagTypes
    <3>2. QED BY <3>1, <1>5 DEF BufUnlocked
  <2>2. BufInv'
    BY <2>1, <1>1, <1>2, <1>3, BufferAlone
  <2>3. sent' = sent \/ (sent'.by = msg[t].by /\ sent'.data = msg[t].by)
    BY <1>5 DEF WriteDone
  <2>4. QED BY <2>2, <2>3 DEF BufferIntact
<1>6. QED BY <1>4, <1>5

LEMMA SenderStepBuf ==
    ASSUME Inv, CalmInv, BufInv, NEW t \in Func \cup {Reader}, SenderStep(t)
    PROVE BufInv' /\ (BufferIntact => BufferIntact')
<1>t. /\ ThreadTypes /\ t \in Thread /\ msg[t] \in Message
  BY DEF Inv, TypeOK, Thread, ThreadTypes
<1>1. CASE EnterQueue(t)
  BY <1>1, EnterQueueBuf DEF EnterQueue, modemVars, BufferIntact
<1>2. CASE EnterEmpty(t)
  <2>1. /\ pc[t] = "enter" /\ pc'[t] = "send"
        /\ msg'[t].kind = msg[t].kind /\ msg'[t].by = msg[t].by
        /\ \A u \in Thread \ {t} : pc'[u] = pc[u] /\ msg'[u] = msg[u]
        /\ UNCHANGED <<bufHeld, buffer, payload, sent>>
    BY <1>2, <1>t
       DEF EnterEmpty, Goto, Stamped, ThreadTypes, Message, bufVars, modemVars
  <2>2. \A i \in DOMAIN queue' : i = 1
    BY <1>2 DEF EnterEmpty, MustQueue
  <2>3. BufInv'
    BY <2>1, <2>2, BufferAlone DEF InHand, Sending, Waits
  <2>4. QED BY <2>1, <2>3 DEF BufferIntact
<1>3. CASE Send(t)
  <2>1. /\ pc[t] = "send" /\ pc'[t] = "write" /\ UNCHANGED <<msg, queue, bufHeld, buffer, sent>>
        /\ \A u \in Thread \ {t} : pc'[u] = pc[u]
        /\ payload' = IF msg[t].kind = "param" THEN buffer ELSE payload
    BY <1>3, <1>t DEF Send, StartWrite, ThreadTypes, modemVars
  <2>2. \A u \in Thread : InHand(u)' = InHand(u)
    BY <2>1 DEF InHand, Sending
  <2>3. \A i \in DOMAIN queue' : Waits(i)' = Waits(i)
    BY <2>1 DEF Waits
  <2>4. CASE msg[t].kind = "param"
    <3>1. InHand(t) /\ payload' = buffer
      BY <2>1, <2>4 DEF InHand, Sending
    <3>2. \A u \in Thread : pc'[u] = "write" /\ msg'[u].kind = "param" => InHand(u)
      BY <2>2 DEF InHand, Sending
    <3>3. \A u \in Thread : pc'[u] = "write" /\ msg'[u].kind = "param" => payload' = msg'[u].by
      BY <2>1, <3>1, <3>2, <1>t DEF BufInv
    <3>4. QED BY <2>1, <2>2, <2>3, <3>3 DEF BufInv, BufferIntact
  <2>5. CASE msg[t].kind # "param"
    <3>1. \A u \in Thread : pc'[u] = "write" /\ msg'[u].kind = "param" => payload' = msg'[u].by
      BY <2>1, <2>5 DEF BufInv
    <3>2. QED BY <2>1, <2>2, <2>3, <3>1 DEF BufInv, BufferIntact
  <2>6. QED BY <2>4, <2>5
<1>4. CASE WriteDone(t)
  BY <1>4, WriteDoneBuf
<1>5. QED BY <1>1, <1>2, <1>3, <1>4 DEF SenderStep

LEMMA HandlerStepBuf ==
    ASSUME Inv, CalmInv, BufInv, HandlerStep
    PROVE BufInv'
<1>t. ThreadTypes /\ Reader \in Thread /\ queue \in Seq(Message)
  BY DEF Inv, TypeOK, Thread, QueueTypes
<1>1. CASE PopAndSend
  <2>1. /\ pc[Reader] = "pop" /\ pc'[Reader] = "send" /\ Len(queue) > 1
        /\ queue' = Tail(queue) /\ msg'[Reader] = Head(Tail(queue))
        /\ \A u \in Thread \ {Reader} : pc'[u] = pc[u] /\ msg'[u] = msg[u]
        /\ UNCHANGED <<bufHeld, buffer, payload>>
    BY <1>1, <1>t DEF PopAndSend, Goto, ThreadTypes, bufVars
  <2>2. /\ msg'[Reader] = queue[2] /\ 2 \in DOMAIN queue
        /\ \A i \in DOMAIN queue' : i + 1 \in DOMAIN queue /\ queue'[i] = queue[i + 1] /\ i \in Nat
    BY <2>1, <1>t
  <2>3. \A u \in Thread : InHand(u)' =>
           IF u = Reader THEN Waits(2) /\ msg'[u] = queue[2]
           ELSE InHand(u) /\ msg'[u] = msg[u] /\ pc'[u] = pc[u]
    BY <2>1, <2>2 DEF InHand, Sending, Waits
  <2>4. \A i \in DOMAIN queue' : Waits(i)' =>
           i + 1 # 2 /\ i + 1 \in DOMAIN queue /\ Waits(i + 1) /\ queue'[i] = queue[i + 1]
    BY <2>2 DEF Waits
  <2>5. \A u \in Thread : pc'[u] = "write" /\ msg'[u].kind = "param" => InHand(u)' /\ u # Reader
    BY <2>1 DEF InHand, Sending
  <2>6. \A u \in Thread : pc'[u] = "write" /\ msg'[u].kind = "param" => payload' = msg'[u].by
    BY <2>1, <2>3, <2>5 DEF BufInv
  <2>7. /\ \A u \in Thread : InHand(u)' => bufHeld' /\ msg'[u].by = buffer'
        /\ \A i \in DOMAIN queue' : Waits(i)' => bufHeld' /\ queue'[i].by = buffer'
    BY <2>1, <2>2, <2>3, <2>4 DEF BufInv
  <2>8. \A t, u \in Thread : InHand(t)' /\ InHand(u)' => t = u
    BY <2>2, <2>3 DEF BufInv
  <2>9. \A i, j \in DOMAIN queue' : Waits(i)' /\ Waits(j)' => i = j
    <3>1. \A i, j \in DOMAIN queue' : Waits(i)' /\ Waits(j)' => i + 1 = j + 1
      BY <2>4 DEF BufInv
    <3>2. QED BY <3>1, <2>2
  <2>10. \A t \in Thread, i \in DOMAIN queue' : ~(InHand(t)' /\ Waits(i)')
    <3>1. \A i \in DOMAIN queue' : Waits(i)' => ~Waits(2)
      BY <2>2, <2>4 DEF BufInv
    <3>2. QED BY <2>3, <2>4, <3>1 DEF BufInv
  <2>11. QED BY <2>6, <2>7, <2>8, <2>9, <2>10 DEF BufInv
<1>2. CASE ~PopAndSend
  <2>1. /\ UNCHANGED <<bufHeld, buffer, payload>> /\ (queue' = queue \/ queue' = <<>>)
        /\ \A u \in Thread \ {Reader} : pc'[u] = pc[u] /\ msg'[u] = msg[u]
    BY <1>2, <1>t DEF HandlerStep, Read, HandleAck, HandleData, MatchAck, ClearWaitAck, Consume,
       PopLast, Goto, ThreadTypes, readerRest, queueVars, bufVars
  <2>2. /\ pc'[Reader] \notin {"down", "write", "skip", "fail"}
        /\ pc'[Reader] \in {"send", "enter"} => msg'[Reader].kind # "param"
    <3>1. CASE Read
      BY <3>1, <1>t DEF Read, ThreadTypes
    <3>2. CASE HandleAck
      BY <3>2, <1>t DEF HandleAck, Goto, ThreadTypes, New
    <3>3. CASE HandleData
      BY <3>3, <1>t DEF HandleData, Goto, ThreadTypes, New
    <3>4. CASE MatchAck \/ ClearWaitAck \/ Consume \/ PopLast
      BY <3>4, <1>t DEF MatchAck, ClearWaitAck, Consume, PopLast, Goto, ThreadTypes
    <3>5. QED BY <1>2, <3>1, <3>2, <3>3, <3>4 DEF HandlerStep
  <2>3. \A i \in DOMAIN queue' : Waits(i)' => i \in DOMAIN queue /\ Waits(i) /\ queue'[i] = queue[i]
    BY <2>1 DEF Waits
  <2>4. QED BY <2>1, <2>2, <2>3, BufferAlone DEF InHand, Sending
<1>3. QED BY <1>1, <1>2

LEMMA BufKept ==
    ASSUME Inv, CalmInv, BufInv, BufferIntact, CalmNext \/ UNCHANGED vars
    PROVE BufInv' /\ BufferIntact'
<1>1. CASE \E t \in Func : CallerStep(t)
  <2>1. sent' = sent
    BY <1>1 DEF CallerStep, TurnOn, TurnOff, ReadStatus, SetGain, SetParam, Call, WriteStatus,
       LockBuffer, LockTimeout,
       modemVars
  <2>2. QED BY <1>1, <2>1, CallerStepBuf DEF BufferIntact
<1>2. CASE \E t \in Func \cup {Reader} : SenderStep(t)
  BY <1>2, SenderStepBuf
<1>3. CASE HandlerStep
  <2>1. sent' = sent
    BY <1>3 DEF HandlerStep, Read, HandleAck, HandleData, MatchAck, ClearWaitAck, Consume,
       PopLast, PopAndSend, modemVars
  <2>2. QED BY <1>3, <2>1, HandlerStepBuf DEF BufferIntact
<1>4. CASE Answer \/ (\E f \in Func : RecordData(f)) \/ UNCHANGED vars
  <2>1. UNCHANGED <<pc, msg, queue, bufHeld, buffer, payload, sent>>
    BY <1>4 DEF Answer, RecordData, vars, threadRest, threadVars, queueVars, bufVars, modemVars
  <2>2. QED BY <2>1, BufferAlone DEF InHand, Sending, Waits, BufferIntact
<1>5. QED BY <1>1, <1>2, <1>3, <1>4 DEF CalmNext

LEMMA InitCalm == Init => CalmInv /\ BufInv /\ BufferIntact
BY ThreadsDiffer, NoneIsNoThread, Identifiers
   DEF Init, CalmInv, ModemUp, CallerCalm, ReaderCalm, CalmStep, BufInv, InHand, Sending, Waits,
       BufferIntact, Thread, NoMessage, CalmInv

\* While nothing fails, parameters reach the modem as their caller wrote them,
\* for any number of callers that set parameters at once, whatever the size of
\* the queue and also when its ring overflows: the share buffer stays locked from
\* the moment it is written until SendMessage has copied it, across the caller
\* that queues the message and the reader that sends it.
THEOREM ParametersIntact ==
    ASSUME MaxFaults = 0
    PROVE Spec => []BufferIntact
<1>1. Init => CalmInv /\ BufInv /\ BufferIntact
  BY InitCalm
<1>2. Inv /\ CalmInv /\ BufInv /\ BufferIntact /\ [Next]_vars
         => CalmInv' /\ BufInv' /\ BufferIntact'
  BY OnlyCalmSteps, CalmKept, BufKept
<1>3. QED BY <1>1, <1>2, InvAlways, PTL DEF Spec

-----------------------------------------------------------------------------
(* Acks.                                                                    *)

InboxAcks == {i \in DOMAIN inbox : inbox[i] \in AckId}

NoAck == outbox = <<>> /\ InboxAcks = {} /\ got \notin AckId

\* The only ack on its way is that of id: the modem has to answer the message,
\* or the ack waits to be read, or the reader handles it.
OneAck(id) ==
    /\ id \in AckId
    /\ \/ outbox = <<id>> /\ InboxAcks = {} /\ got \notin AckId
       \/ outbox = <<>> /\ got \notin AckId /\ \E i \in DOMAIN inbox : InboxAcks = {i} /\ inbox[i] = id
       \/ outbox = <<>> /\ InboxAcks = {} /\ got = id

\* The reader knows that the first message of the queue has been acknowledged.
Acknowledged == pc[Reader] \in {"matched", "consume"}

\* The first message of the queue, and no other, has an ack on its way, except
\* while a thread holds the lock or the reader has matched that ack.
AckInv ==
    /\ qlock # None \/ queue = <<>> => NoAck /\ ~Acknowledged
    /\ qlock = None /\ queue # <<>> /\ Acknowledged => NoAck
    /\ qlock = None /\ queue # <<>> /\ ~Acknowledged =>
          waitAck = Id(Head(queue)) /\ OneAck(waitAck)
    /\ \A t \in Thread : pc[t] = "write" /\ NeedAck(msg[t]) => waitAck = Id(msg[t])

\* What the reader got is an ack exactly while it handles one; what the ack makes
\* it send never finds the queue empty.
GotInv ==
    /\ pc[Reader] \in {"enter", "match"} => got \in AckId
    /\ pc[Reader] \notin {"handle", "enter", "match"} => got \notin AckId
    /\ Sending(Reader) => back[Reader] # "enter"

LEMMA AckAppended ==
    ASSUME inbox \in Seq(Incoming), NEW x \in Incoming, inbox' = Append(inbox, x)
    PROVE /\ \A i \in DOMAIN inbox : i \in DOMAIN inbox' /\ inbox'[i] = inbox[i] /\ i < Len(inbox) + 1
          /\ Len(inbox) + 1 \in DOMAIN inbox' /\ inbox'[Len(inbox) + 1] = x
          /\ \A i \in DOMAIN inbox' : i \in DOMAIN inbox \/ i = Len(inbox) + 1
          /\ x \notin AckId => InboxAcks' = InboxAcks
          /\ x \in AckId => InboxAcks' = InboxAcks \cup {Len(inbox) + 1}
<1>1. /\ \A i \in DOMAIN inbox : i \in DOMAIN inbox' /\ inbox'[i] = inbox[i] /\ i < Len(inbox) + 1
      /\ Len(inbox) + 1 \in DOMAIN inbox' /\ inbox'[Len(inbox) + 1] = x
      /\ \A i \in DOMAIN inbox' : i \in DOMAIN inbox \/ i = Len(inbox) + 1
  OBVIOUS
<1>2. QED BY <1>1 DEF InboxAcks

LEMMA AckRead ==
    ASSUME inbox \in Seq(Incoming), inbox # <<>>, inbox' = Tail(inbox)
    PROVE /\ Head(inbox) = inbox[1] /\ 1 \in DOMAIN inbox
          /\ \A i \in DOMAIN inbox' : i \in Nat /\ i + 1 \in DOMAIN inbox /\ inbox'[i] = inbox[i + 1]
          /\ \A i \in DOMAIN inbox : i \in Nat /\ i >= 1 /\ (i = 1 \/ i - 1 \in DOMAIN inbox')
          /\ InboxAcks' = {i \in DOMAIN inbox' : i + 1 \in InboxAcks}
          /\ 1 \in InboxAcks <=> Head(inbox) \in AckId
<1>1. /\ Head(inbox) = inbox[1] /\ 1 \in DOMAIN inbox
      /\ \A i \in DOMAIN inbox' : i \in Nat /\ i + 1 \in DOMAIN inbox /\ inbox'[i] = inbox[i + 1]
      /\ \A i \in DOMAIN inbox : i \in Nat /\ i >= 1 /\ (i = 1 \/ i - 1 \in DOMAIN inbox')
  OBVIOUS
<1>2. QED BY <1>1 DEF InboxAcks

\* A step that moves no ack.
LEMMA AcksAlone ==
    ASSUME AckInv, GotInv, UNCHANGED <<outbox, inbox, queue, qlock, waitAck>>,
           got' = got \/ (got \notin AckId /\ got' \notin AckId),
           Acknowledged' = Acknowledged,
           \A u \in Thread : pc'[u] = "write" /\ NeedAck(msg[u])' => pc[u] = "write" /\ msg'[u] = msg[u]
    PROVE AckInv'
<1>1. NoAck' = NoAck /\ \A id : OneAck(id)' = OneAck(id)
  BY DEF NoAck, OneAck, InboxAcks
<1>2. \A u \in Thread : pc'[u] = "write" /\ NeedAck(msg[u])' => waitAck' = Id(msg[u])'
  BY DEF AckInv, NeedAck, Id, OnOff
<1>3. QED BY <1>1, <1>2 DEF AckInv

LEMMA SendsWithLock ==
    ASSUME Inv, NEW t \in Thread, pc[t] \in {"send", "write"}, NeedAck(msg[t]) \/ back[t] # "bare"
    PROVE qlock = t /\ back[t] # "bare" /\ qlock # None
BY NoneIsNoThread DEF Inv, ThreadInv, BareInv, Holding, Sending, Thread

LEMMA CallerStepAcks ==
    ASSUME Inv, CalmInv, AckInv, GotInv, NEW t \in Func, CallerStep(t)
    PROVE AckInv' /\ GotInv'
<1>t. ThreadTypes /\ t \in Thread /\ t # Reader
  BY ThreadsDiffer DEF Inv, TypeOK, Thread
<1>1. /\ UNCHANGED <<outbox, inbox, queue, qlock, waitAck, got, back>>
      /\ pc'[t] # "write"
      /\ \A u \in Thread \ {t} : pc'[u] = pc[u] /\ msg'[u] = msg[u]
  <2>1. CASE WriteStatus(t) \/ LockBuffer(t) \/ LockTimeout(t)
    BY <2>1, <1>t
       DEF WriteStatus, LockBuffer, LockTimeout, Goto, ThreadTypes, queueVars, modemVars
  <2>2. CASE TurnOn(t) \/ TurnOff(t) \/ SetGain(t) \/ SetParam(t)
    BY <2>2, <1>t DEF TurnOn, TurnOff, ReadStatus, SetGain, SetParam, Call, Goto, ThreadTypes, queueVars,
       modemVars
  <2>3. QED BY <2>1, <2>2 DEF CallerStep
<1>2. pc'[Reader] = pc[Reader]
  BY <1>1, <1>t DEF Thread
<1>3. GotInv'
  BY <1>1, <1>2 DEF GotInv, Sending
<1>4. QED BY <1>1, <1>2, <1>3, AcksAlone DEF Acknowledged, NeedAck

\* The message that is queued waits for no ack yet.
LEMMA EnterQueueAcks ==
    ASSUME Inv, CalmInv, AckInv, GotInv, NEW t \in Func \cup {Reader}, EnterQueue(t),
           Len(queue) < QueueNum - 1
    PROVE AckInv' /\ GotInv'
<1>t. /\ ThreadTypes /\ t \in Thread /\ t # Para /\ (t # Reader => t \in Func)
      /\ queue \in Seq(Message) /\ msg[t] \in Message /\ QueueNum \in Nat
  BY ThreadsDiffer, BoundsAreNumbers DEF Inv, TypeOK, Thread, QueueTypes, ThreadTypes
<1>1. /\ pc[t] = "enter" /\ Resume(t) /\ queue # <<>> /\ qlock = None
      /\ UNCHANGED <<qlock, waitAck, outbox, inbox>>
      /\ queue' = Append(queue, Stamped(t))
  BY <1>t DEF EnterQueue, MustQueue, modemVars, Enqueued
<1>2. /\ NextStep(t) = (IF t = Reader THEN "match" ELSE "idle")
      /\ t = Reader => msg[t].kind = "note"
  BY <1>t, <1>1 DEF NextStep, CalmInv, ReaderCalm
<1>3. /\ pc'[t] = (IF t = Reader THEN "match" ELSE "idle") /\ got' = got
      /\ \A u \in Thread \ {t} : pc'[u] = pc[u] /\ msg'[u] = msg[u] /\ back'[u] = back[u]
      /\ back'[t] = "bare"
  BY <1>1, <1>2, <1>t DEF Resume, ThreadTypes
<1>4. Stamped(t) \in Message
  BY <1>t, MessageFields DEF Stamped, Inv, TypeOK, QueueTypes, Message
<1>5. queue' # <<>> /\ Head(queue') = Head(queue)
  BY <1>1, <1>4, <1>t
<1>6. Acknowledged' = Acknowledged /\ GotInv'
  BY <1>1, <1>3, <1>t, ThreadsDiffer DEF Acknowledged, GotInv, Sending, Thread
<1>7. NoAck' = NoAck /\ \A id : OneAck(id)' = OneAck(id)
  BY <1>1, <1>3 DEF NoAck, OneAck, InboxAcks
<1>8. \A u \in Thread : pc'[u] = "write" /\ NeedAck(msg[u])' => waitAck' = Id(msg[u])'
  BY <1>1, <1>3 DEF AckInv, NeedAck, Id, OnOff
<1>9. QED BY <1>1, <1>5, <1>6, <1>7, <1>8 DEF AckInv, Id, OnOff

\* The message that is written is the first of the queue if it has an ack.
LEMMA WriteDoneAcks ==
    ASSUME Inv, CalmInv, AckInv, GotInv, NEW t \in Func \cup {Reader}, WriteDone(t)
    PROVE AckInv' /\ GotInv'
<1>t. /\ ThreadTypes /\ t \in Thread /\ t # Para /\ (t # Reader => t \in Func)
      /\ queue \in Seq(Message) /\ outbox \in Seq(AckId) /\ msg[t] \in Message
  BY ThreadsDiffer DEF Inv, TypeOK, Thread, QueueTypes, ThreadTypes, ModemTypes
<1>1. /\ pc[t] = "write" /\ Finish(t, TRUE) /\ UNCHANGED <<waitAck, inbox>>
      /\ outbox' = IF NeedAck(msg[t]) THEN Append(outbox, Id(msg[t])) ELSE outbox
  BY DEF WriteDone
<1>2. /\ Local(t) /\ back'[t] = "bare" /\ got' \in {got, None} /\ queue' = queue
      /\ pc'[t] \in {"idle", "pop", "match"}
  BY <1>1, AfterSend
<1>3. /\ back[t] \in {"enter", "consume", "bare"} /\ Sending(t)
      /\ t = Reader => back[t] # "enter" /\ got \notin AckId
      /\ t # Reader => back[t] # "consume" /\ got' = got /\ pc'[t] = "idle"
  BY <1>t, <1>1, AfterSend DEF ThreadTypes, GotInv, Sending, CalmInv, CallerCalm
<1>4. /\ t = Reader => pc'[t] \in {"idle", "pop"}
      /\ got' = got \/ (got \notin AckId /\ got' \notin AckId)
  BY <1>1, <1>2, <1>3, AfterSend, Identifiers
<1>5. \A u \in Thread \ {t} : pc'[u] = pc[u] /\ msg'[u] = msg[u] /\ back'[u] = back[u]
  BY <1>2 DEF Local
<1>6. Acknowledged' = Acknowledged /\ (t = Reader => ~Acknowledged)
  BY <1>1, <1>4, <1>5, <1>t DEF Acknowledged, Thread
<1>7. GotInv'
  <2>1. CASE t = Reader
    BY <2>1, <1>2, <1>3, <1>4 DEF GotInv, Sending
  <2>2. CASE t # Reader
    BY <2>2, <1>3, <1>5 DEF GotInv, Sending, Thread
  <2>3. QED BY <2>1, <2>2
<1>8. \A u \in Thread : pc'[u] = "write" /\ NeedAck(msg[u])' => waitAck' = Id(msg[u])'
  BY <1>1, <1>2, <1>5 DEF AckInv, NeedAck, Id, OnOff
<1>9. CASE NeedAck(msg[t])
  <2>1. qlock = t /\ qlock # None /\ back[t] # "bare"
    BY <1>9, <1>1, <1>t, SendsWithLock
  <2>2. NoAck /\ ~Acknowledged /\ waitAck = Id(msg[t]) /\ Id(msg[t]) \in AckId
    BY <2>1, <1>1, <1>9, <1>t, MessageFields DEF AckInv
  <2>3. queue # <<>> /\ Head(queue) = msg[t]
    <3>1. ThreadInv(t)
      BY <1>t DEF Inv
    <3>2. CASE back[t] = "enter"
      <4>1. queue = <<msg[t]>>
        BY <3>1, <3>2, <1>3, <1>9 DEF ThreadInv, HeldInv
      <4>2. QED BY <4>1
    <3>3. CASE back[t] = "consume"
      BY <3>1, <3>3, <1>3 DEF ThreadInv, HeldInv
    <3>4. QED BY <3>2, <3>3, <2>1, <1>3
  <2>4. qlock' = None
    BY <2>1, <1>1, <1>3, <1>9, AfterSend
  <2>5. outbox' = <<waitAck>> /\ InboxAcks' = {} /\ got' \notin AckId
    BY <2>2, <1>1, <1>4, <1>9 DEF NoAck, InboxAcks
  <2>6. OneAck(waitAck)'
    BY <2>2, <2>5, <1>1 DEF OneAck
  <2>7. waitAck' = Id(Head(queue'))
    BY <2>2, <2>3, <1>1, <1>2
  <2>8. Id(Head(queue))' = Id(Head(queue')) /\ ~Acknowledged' /\ queue' # <<>>
    BY <2>2, <2>3, <1>2, <1>6 DEF Id, OnOff
  <2>9. QED BY <1>7, <1>8, <2>4, <2>6, <2>7, <2>8 DEF AckInv
<1>10. CASE ~NeedAck(msg[t])
  <2>1. NoAck' = NoAck /\ \A id : OneAck(id)' = OneAck(id)
    BY <1>1, <1>4, <1>10 DEF NoAck, OneAck, InboxAcks
  <2>2. CASE back[t] = "bare"
    <3>1. qlock' = qlock
      BY <2>2, <1>1, AfterSend
    <3>2. QED BY <3>1, <2>1, <1>1, <1>2, <1>6, <1>7, <1>8 DEF AckInv, Id, OnOff
  <2>3. CASE back[t] # "bare"
    <3>1. qlock = t /\ qlock # None
      BY <2>3, <1>1, <1>t, SendsWithLock
    <3>2. NoAck' /\ ~Acknowledged'
      BY <3>1, <2>1, <1>6 DEF AckInv
    <3>3. qlock' # None \/ queue' = <<>>
      <4>1. CASE back[t] = "consume"
        BY <4>1, <3>1, <1>1, <1>10, AfterSend
      <4>2. CASE back[t] = "enter"
        BY <4>2, <1>t, <1>2, <1>3, <1>10 DEF Inv, ThreadInv, HeldInv
      <4>3. QED BY <4>1, <4>2, <2>3, <1>3
    <3>4. QED BY <3>2, <3>3, <1>7, <1>8 DEF AckInv
  <2>4. QED BY <2>2, <2>3
<1>11. QED BY <1>9, <1>10

LEMMA SenderStepAcks ==
    ASSUME Inv, CalmInv, AckInv, GotInv, NEW t \in Func \cup {Reader}, SenderStep(t),
           EnterQueue(t) => Len(queue) < QueueNum - 1
    PROVE AckInv' /\ GotInv'
<1>t. /\ ThreadTypes /\ t \in Thread /\ t # Para /\ (t # Reader => t \in Func) /\ t # None
      /\ (t = Reader => t \notin Func)
  BY ThreadsDiffer, NoneIsNoThread DEF Inv, TypeOK, Thread
<1>1. CASE EnterEmpty(t)
  <2>1. /\ pc[t] = "enter" /\ qlock = None /\ queue = <<>> /\ qlock' = t
        /\ pc'[t] = "send" /\ back'[t] = "enter"
        /\ \A u \in Thread \ {t} : pc'[u] = pc[u] /\ msg'[u] = msg[u] /\ back'[u] = back[u]
        /\ UNCHANGED <<got, waitAck, outbox, inbox>>
    BY <1>1, <1>t DEF EnterEmpty, MustQueue, Goto, ThreadTypes, modemVars
  <2>2. NoAck /\ ~Acknowledged
    BY <2>1 DEF AckInv
  <2>3. t # Reader
    BY <2>1, <2>2 DEF GotInv, NoAck
  <2>4. NoAck' /\ ~Acknowledged' /\ GotInv'
    BY <2>1, <2>2, <2>3, <1>t
       DEF NoAck, InboxAcks, Acknowledged, GotInv, Sending, Thread
  <2>5. \A u \in Thread : pc'[u] = "write" /\ NeedAck(msg[u])' => waitAck' = Id(msg[u])'
    BY <2>1 DEF AckInv, NeedAck, Id, OnOff
  <2>6. QED BY <2>1, <2>4, <2>5, <1>t DEF AckInv
<1>2. CASE Send(t)
  <2>1. /\ pc[t] = "send" /\ pc'[t] = "write" /\ \A u \in Thread \ {t} : pc'[u] = pc[u]
        /\ UNCHANGED <<msg, back, got, queue, qlock, outbox, inbox>>
        /\ waitAck' = IF NeedAck(msg[t]) THEN Id(msg[t]) ELSE waitAck
    BY <1>2, <1>t DEF Send, StartWrite, ThreadTypes, modemVars
  <2>2. /\ Acknowledged' = Acknowledged /\ GotInv' /\ NoAck' = NoAck
        /\ \A id : OneAck(id)' = OneAck(id)
    BY <2>1, <1>t DEF Acknowledged, GotInv, Sending, NoAck, OneAck, InboxAcks, Thread
  <2>3. CASE NeedAck(msg[t])
    <3>1. qlock = t /\ qlock # None
      BY <2>1, <2>3, <1>t, SendsWithLock
    <3>2. \A u \in Thread : pc'[u] = "write" /\ NeedAck(msg[u]) => u = t
      BY <2>1, <3>1, SendsWithLock
    <3>3. \A u \in Thread : pc'[u] = "write" /\ NeedAck(msg[u])' => waitAck' = Id(msg[u])'
      BY <2>1, <2>3, <3>2 DEF NeedAck, Id, OnOff
    <3>4. QED BY <2>1, <2>2, <3>1, <3>3 DEF AckInv
  <2>4. CASE ~NeedAck(msg[t])
    <3>1. \A u \in Thread : pc'[u] = "write" /\ NeedAck(msg[u])' => waitAck' = Id(msg[u])'
      BY <2>1, <2>4 DEF AckInv, NeedAck, Id, OnOff
    <3>2. QED BY <2>1, <2>2, <2>4, <3>1 DEF AckInv, Id, OnOff
  <2>5. QED BY <2>3, <2>4
<1>3. QED BY <1>1, <1>2, EnterQueueAcks, WriteDoneAcks DEF SenderStep

\* Where the ack is that the modem, the inbox or the reader has.
LEMMA AckOnItsWay ==
    ASSUME AckInv, ~NoAck
    PROVE /\ qlock = None /\ queue # <<>> /\ ~Acknowledged
          /\ waitAck = Id(Head(queue)) /\ OneAck(waitAck)
BY DEF AckInv

LEMMA HandlerStepAcks ==
    ASSUME Inv, CalmInv, AckInv, GotInv, HandlerStep
    PROVE AckInv' /\ GotInv'
<1>t. /\ ThreadTypes /\ Reader \in Thread /\ Reader # None
      /\ inbox \in Seq(Incoming) /\ queue \in Seq(Message)
  BY NoneIsNoThread DEF Inv, TypeOK, Thread, ModemTypes, QueueTypes
<1>s. \A u \in Thread \ {Reader} : pc'[u] = pc[u] /\ msg'[u] = msg[u] /\ back'[u] = back[u]
  BY <1>t DEF HandlerStep, Read, HandleAck, HandleData, MatchAck, ClearWaitAck, Consume,
     PopLast, PopAndSend, Goto, ThreadTypes, readerRest
<1>1. CASE Read
  <2>1. /\ inbox # <<>> /\ inbox' = Tail(inbox) /\ pc[Reader] = "idle"
        /\ UNCHANGED <<msg, back, outbox, queue, qlock, waitAck>>
    BY <1>1 DEF Read, readerRest, queueVars
  <2>2. Head(inbox) = inbox[1] /\ Head(inbox) \in AckId \cup Data
    BY <2>1, <1>t, AckRead DEF CalmInv, ReaderCalm
  <2>3. pc'[Reader] = "handle" /\ got' = Head(inbox)
    BY <1>1, <2>2, <1>t, Identifiers DEF Read, CalmInv, ModemUp, ThreadTypes
  <2>4. got \notin AckId /\ ~Acknowledged /\ ~Acknowledged' /\ GotInv'
    BY <2>1, <2>3 DEF GotInv, Acknowledged, Sending
  <2>5. \A u \in Thread : pc'[u] = "write" /\ NeedAck(msg[u])' => waitAck' = Id(msg[u])'
    BY <2>1, <2>3, <1>s DEF AckInv, NeedAck, Id, OnOff
  <2>6. CASE Head(inbox) \in AckId
    <3>1. 1 \in InboxAcks
      BY <2>1, <2>6, <1>t, AckRead
    <3>2. /\ qlock = None /\ queue # <<>> /\ waitAck = Id(Head(queue)) /\ OneAck(waitAck)
      BY <3>1, AckOnItsWay DEF NoAck
    <3>3. outbox = <<>> /\ InboxAcks = {1} /\ inbox[1] = waitAck /\ waitAck \in AckId
      BY <3>1, <3>2, <2>4 DEF OneAck
    <3>4. InboxAcks' = {}
      <4>1. \A i \in DOMAIN inbox' : i + 1 # 1
        BY <2>1, <1>t
      <4>2. QED BY <4>1, <3>3, <2>1, <1>t, AckRead
    <3>5. OneAck(waitAck)'
      BY <3>3, <3>4, <2>1, <2>2, <2>3 DEF OneAck
    <3>6. QED BY <3>2, <3>5, <2>1, <2>4, <2>5 DEF AckInv, Id, OnOff
  <2>7. CASE Head(inbox) \notin AckId
    <3>1. 1 \notin InboxAcks /\ InboxAcks' = {i \in DOMAIN inbox' : i + 1 \in InboxAcks}
      BY <2>1, <2>7, <1>t, AckRead
    <3>2. InboxAcks = {} => InboxAcks' = {}
      BY <3>1
    <3>3. \A id : OneAck(id) => OneAck(id)'
      <4>1. ASSUME NEW id, NEW i \in DOMAIN inbox, InboxAcks = {i}, inbox[i] = id
            PROVE \E j \in DOMAIN inbox' : InboxAcks' = {j} /\ inbox'[j] = id
        <5>1. /\ i \in Nat /\ i # 1 /\ i - 1 \in DOMAIN inbox' /\ (i - 1) + 1 = i
          BY <4>1, <3>1, <2>1, <1>t, AckRead
        <5>2. inbox'[i - 1] = id
          BY <5>1, <4>1, <2>1, <1>t, AckRead
        <5>3. \A j \in DOMAIN inbox' : j \in Nat /\ (j + 1 = i <=> j = i - 1)
          BY <5>1, <2>1, <1>t
        <5>4. InboxAcks' = {i - 1}
          BY <3>1, <4>1, <5>1, <5>3
        <5>5. QED BY <5>1, <5>2, <5>4
      <4>2. QED BY <4>1, <3>2, <2>1, <2>3, <2>4, <2>7 DEF OneAck
    <3>4. NoAck => NoAck'
      BY <3>2, <2>1, <2>3, <2>7 DEF NoAck
    <3>5. QED BY <3>3, <3>4, <2>1, <2>4, <2>5 DEF AckInv, Id, OnOff
  <2>8. QED BY <2>6, <2>7
<1>2. CASE HandleAck \/ HandleData
  <2>1. /\ UNCHANGED <<outbox, inbox, queue, qlock, waitAck, back>>
        /\ pc[Reader] = "handle" /\ pc'[Reader] \in {"enter", "match", "send", "idle"}
        /\ \/ got \in AckId /\ got' = got /\ pc'[Reader] \in {"enter", "match"}
           \/ got \notin AckId /\ got' \notin AckId /\ pc'[Reader] \in {"send", "idle"}
    <3>1. CASE HandleAck
      BY <3>1, <1>t DEF HandleAck, Goto, ThreadTypes, readerRest, queueVars, modemVars
    <3>2. CASE HandleData
      <4>1. got \in Data
        BY <3>2 DEF HandleData, Data
      <4>2. got \notin AckId /\ None \notin AckId
        BY <4>1, Identifiers
      <4>3. QED
        BY <3>2, <4>2, <1>t DEF HandleData, Handled, Goto, ThreadTypes, readerRest, queueVars, modemVars
    <3>3. QED BY <1>2, <3>1, <3>2
  <2>2. back[Reader] = "bare"
    BY <2>1, <1>t DEF Inv, ThreadInv, BareInv, Sending
  <2>3. Acknowledged' = Acknowledged /\ GotInv'
    BY <2>1, <2>2 DEF Acknowledged, GotInv, Sending
  <2>4. QED BY <2>1, <2>3, <1>s, AcksAlone
<1>3. CASE MatchAck
  <2>1. /\ pc[Reader] = "match" /\ got' = None
        /\ pc'[Reader] = IF got = waitAck THEN "matched" ELSE "idle"
        /\ UNCHANGED <<msg, back, outbox, inbox, queue, qlock, waitAck>>
    BY <1>3, <1>t DEF MatchAck, Handled, Goto, ThreadTypes, readerRest, queueVars, modemVars
  <2>2. got \in AckId /\ None \notin AckId
    BY <2>1, Identifiers DEF GotInv
  <2>3. qlock = None /\ queue # <<>> /\ OneAck(waitAck)
    BY <2>2, AckOnItsWay DEF NoAck
  <2>4. got = waitAck /\ outbox = <<>> /\ InboxAcks = {}
    BY <2>2, <2>3 DEF OneAck
  <2>5. NoAck' /\ Acknowledged' /\ GotInv'
    BY <2>1, <2>2, <2>4 DEF NoAck, InboxAcks, Acknowledged, GotInv, Sending
  <2>6. \A u \in Thread : pc'[u] = "write" /\ NeedAck(msg[u])' => waitAck' = Id(msg[u])'
    BY <2>1, <2>4, <1>s DEF AckInv, NeedAck, Id, OnOff
  <2>7. QED BY <2>1, <2>3, <2>5, <2>6 DEF AckInv
<1>4. CASE ClearWaitAck
  <2>1. /\ pc[Reader] = "matched" /\ pc'[Reader] = "consume"
        /\ UNCHANGED <<msg, back, got, outbox, inbox, queue, qlock>>
    BY <1>4, <1>t DEF ClearWaitAck, Goto, ThreadTypes, modemVars
  <2>2. Acknowledged /\ Acknowledged' /\ GotInv'
    BY <2>1 DEF Acknowledged, GotInv, Sending
  <2>3. qlock = None /\ queue # <<>> /\ NoAck
    BY <2>2 DEF AckInv
  <2>4. \A u \in Thread : ~(pc'[u] = "write" /\ NeedAck(msg[u])')
    BY <2>1, <2>3, <1>s, SendsWithLock DEF NeedAck
  <2>5. NoAck'
    BY <2>1, <2>3 DEF NoAck, InboxAcks
  <2>6. QED BY <2>1, <2>2, <2>3, <2>4, <2>5 DEF AckInv
<1>5. CASE Consume
  <2>1. /\ pc[Reader] = "consume"
        /\ UNCHANGED <<msg, back, got, outbox, inbox, queue, waitAck>>
    BY <1>5, <1>t DEF Consume, Goto, ThreadTypes, modemVars
  <2>2. queue # <<>> /\ NoAck
    BY <2>1 DEF Acknowledged, AckInv
  <2>3. pc'[Reader] = "pop" /\ qlock' = Reader
    BY <1>5, <2>2, <1>t DEF Consume, Goto, ThreadTypes
  <2>4. NoAck' /\ ~Acknowledged' /\ GotInv'
    BY <2>1, <2>2, <2>3 DEF NoAck, InboxAcks, Acknowledged, GotInv, Sending
  <2>5. \A u \in Thread : pc'[u] = "write" /\ NeedAck(msg[u])' => waitAck' = Id(msg[u])'
    BY <2>1, <2>3, <1>s DEF AckInv, NeedAck, Id, OnOff
  <2>6. QED BY <2>3, <2>4, <2>5, <1>t DEF AckInv
<1>6. CASE PopLast \/ PopAndSend
  <2>1. /\ pc[Reader] = "pop" /\ pc'[Reader] \in {"idle", "send"}
        /\ pc'[Reader] = "send" => back'[Reader] = "consume"
        /\ queue' = <<>> \/ qlock' = qlock
        /\ UNCHANGED <<got, outbox, inbox, waitAck>>
    BY <1>6, <1>t DEF PopLast, PopAndSend, Goto, ThreadTypes, modemVars
  <2>2. qlock = Reader
    BY <2>1, <1>t DEF Inv, ThreadInv, Holding
  <2>3. NoAck' /\ ~Acknowledged' /\ GotInv'
    BY <2>1, <2>2, <1>t DEF AckInv, NoAck, InboxAcks, Acknowledged, GotInv, Sending
  <2>4. \A u \in Thread : pc'[u] = "write" /\ NeedAck(msg[u])' => waitAck' = Id(msg[u])'
    BY <2>1, <1>s DEF AckInv, NeedAck, Id, OnOff
  <2>5. QED BY <2>1, <2>2, <2>3, <2>4, <1>t DEF AckInv
<1>7. QED BY <1>1, <1>2, <1>3, <1>4, <1>5, <1>6 DEF HandlerStep

LEMMA AckKept ==
    ASSUME Inv, CalmInv, AckInv, GotInv,
           \/ CalmNext /\ \A t \in Thread : EnterQueue(t) => Len(queue) < QueueNum - 1
           \/ UNCHANGED vars
    PROVE AckInv' /\ GotInv'
<1>t. /\ outbox \in Seq(AckId) /\ inbox \in Seq(Incoming) /\ Reader \in Thread
      /\ Func \cup {Reader} \subseteq Thread
  BY DEF Inv, TypeOK, ModemTypes, Thread
<1>g. ASSUME UNCHANGED <<pc, back, got>> PROVE GotInv'
  BY <1>g DEF GotInv, Sending
<1>w. ASSUME UNCHANGED <<pc, msg, waitAck>>
      PROVE \A u \in Thread : pc'[u] = "write" /\ NeedAck(msg[u])' => waitAck' = Id(msg[u])'
  BY <1>w DEF AckInv, NeedAck, Id, OnOff
<1>1. CASE Answer
  <2>1. /\ outbox # <<>> /\ inbox' = Append(inbox, Head(outbox)) /\ outbox' = Tail(outbox)
        /\ UNCHANGED <<pc, msg, back, got, queue, qlock, waitAck>>
    BY <1>1 DEF Answer, threadRest, threadVars, queueVars
  <2>2. qlock = None /\ queue # <<>> /\ ~Acknowledged /\ waitAck = Id(Head(queue)) /\ OneAck(waitAck)
    BY <2>1, AckOnItsWay DEF NoAck
  <2>3. outbox = <<waitAck>> /\ InboxAcks = {} /\ got \notin AckId /\ waitAck \in AckId
    BY <2>1, <2>2 DEF OneAck
  <2>4. Head(outbox) = waitAck /\ outbox' = <<>> /\ waitAck \in Incoming
    BY <2>1, <2>3, Identifiers
  <2>5. InboxAcks' = {Len(inbox) + 1} /\ Len(inbox) + 1 \in DOMAIN inbox' /\ inbox'[Len(inbox) + 1] = waitAck
    BY <2>1, <2>3, <2>4, <1>t, AckAppended
  <2>6. OneAck(waitAck)'
    BY <2>1, <2>3, <2>4, <2>5 DEF OneAck
  <2>7. ~Acknowledged'
    BY <2>1, <2>2 DEF Acknowledged
  <2>8. QED BY <2>1, <2>2, <2>6, <2>7, <1>g, <1>w DEF AckInv, Id, OnOff
<1>2. ASSUME NEW f \in Func, RecordData(f) PROVE AckInv' /\ GotInv'
  <2>1. /\ inbox' = Append(inbox, <<"data", f>>)
        /\ UNCHANGED <<pc, msg, back, got, queue, qlock, waitAck, outbox>>
    BY <1>2 DEF RecordData, threadRest, threadVars, queueVars
  <2>2. <<"data", f>> \in Data
    BY DEF Data
  <2>3. <<"data", f>> \in Incoming /\ <<"data", f>> \notin AckId
    BY <2>2, Identifiers
  <2>4. /\ InboxAcks' = InboxAcks
        /\ \A i \in DOMAIN inbox : i \in DOMAIN inbox' /\ inbox'[i] = inbox[i]
    BY <2>1, <2>3, <1>t, AckAppended
  <2>5. NoAck' = NoAck /\ (\A id : OneAck(id) => OneAck(id)') /\ Acknowledged' = Acknowledged
    BY <2>1, <2>4 DEF NoAck, OneAck, Acknowledged
  <2>6. QED BY <2>1, <2>5, <1>g, <1>w DEF AckInv, Id, OnOff
<1>3. CASE UNCHANGED vars
  <2>1. UNCHANGED <<pc, msg, back, got, queue, qlock, waitAck, outbox, inbox>>
    BY <1>3 DEF vars, threadVars, queueVars, modemVars
  <2>2. QED BY <2>1, <1>g, AcksAlone DEF Acknowledged
<1>4. QED
  BY <1>1, <1>2, <1>3, <1>t, CallerStepAcks, SenderStepAcks, HandlerStepAcks DEF CalmNext

LEMMA InitAcks == Init => AckInv /\ GotInv
<1> SUFFICES ASSUME Init PROVE AckInv /\ GotInv
  OBVIOUS
<1>1. /\ pc[Reader] = "idle" /\ got = None /\ outbox = <<>> /\ InboxAcks = {} /\ queue = <<>>
      /\ \A t \in Thread : pc[t] = "idle"
  BY DEF Init, Thread, InboxAcks
<1>2. NoAck /\ ~Acknowledged
  BY <1>1, Identifiers DEF NoAck, Acknowledged
<1>3. QED BY <1>1, <1>2, Identifiers DEF AckInv, GotInv, Sending

\* The ASSERT of SendMessageInQueue: nothing is queued in a full ring.
NeverQueuedFull == [][\A t \in Thread : EnterQueue(t) => Len(queue) < QueueNum - 1]_vars

\* Each of the queue's messages has been accepted, once.
RingInv == Len(queue) <= accepted

LEMMA FinishShortens ==
    ASSUME Inv, NEW t \in Thread, NEW ok \in BOOLEAN, Finish(t, ok),
           NeedAck(msg[t]) /\ back[t] = "enter" => queue # <<>>
    PROVE Len(queue') <= Len(queue)
<1>1. queue \in Seq(Message)
  BY DEF Inv, TypeOK, QueueTypes
<1>2. CASE UNCHANGED queue
  BY <1>1, <1>2
<1>3. CASE queue # <<>> /\ queue' = Tail(queue)
  BY <1>1, <1>3
<1>4. QED BY <1>2, <1>3 DEF Finish

LEMMA RingKept ==
    ASSUME Inv, RingInv, [Next]_vars
    PROVE RingInv'
<1>t. queue \in Seq(Message) /\ accepted \in Nat
  BY DEF Inv, TypeOK, QueueTypes
<1>s. \A t \in Thread : ThreadInv(t)
  BY DEF Inv
<1>1. ASSUME queue' = <<>>, accepted' = accepted PROVE RingInv'
  BY <1>1, <1>t DEF RingInv
<1>2. ASSUME Len(queue') <= Len(queue), accepted' = accepted,
             queue' \in Seq(Message)
      PROVE RingInv'
  BY <1>2, <1>t DEF RingInv
<1>3. ASSUME UNCHANGED <<queue, accepted>> PROVE RingInv'
  BY <1>3 DEF RingInv
<1>4. CASE UNCHANGED vars
  BY <1>3, <1>4 DEF vars, queueVars
<1>5. CASE \E t \in Func : StartCall(t) \/ WriteStatus(t)
  BY <1>3, <1>5 DEF StartCall, TurnOn, TurnOff, ReadStatus, WriteStatus, SetGain, SetParam, Call, queueVars
<1>6. CASE ReaderStep \/ ParaStep
  <2>1. CASE PopLast
    BY <1>1, <2>1 DEF PopLast
  <2>2. CASE PopAndSend
    <3>1. Len(queue) > 1 /\ queue' = Tail(queue) /\ accepted' = accepted
      BY <2>2 DEF PopAndSend
    <3>2. QED BY <3>1, <1>2, <1>t
  <2>3. QED
    BY <1>3, <1>6, <2>1, <2>2
       DEF ReaderStep, ParaStep, Read, HandleAck, HandleData, HandleRequest, HandleEpof,
           EpofDone, MatchAck, ClearWaitAck, Consume, ModemReady, ModemNotReady,
           SendAllParams, readerRest, queueVars
<1>7. CASE ModemStep
  BY <1>3, <1>7
     DEF ModemStep, Answer, RecordData, ModemReset, AnnouncePowerOff, PowerOff, ModemBoot,
         StopsRunning, threadRest, queueVars
<1>8. ASSUME NEW t \in Thread, ResetStep(t) PROVE RingInv'
  BY <1>1, <1>8 DEF ResetStep, CheckQueue, FlushQueue
<1>9. ASSUME NEW t \in Thread, SendStep(t) PROVE RingInv'
  <2>q. queue' \in Seq(Message)
    BY NextInv DEF Inv, TypeOK, QueueTypes
  <2>1. CASE EnterQueue(t)
    <3>1. accepted' = accepted + 1 /\ queue' \in {<<>>, Append(queue, Stamped(t))}
      BY <2>1 DEF EnterQueue, Enqueued
    <3>2. Len(queue') <= Len(queue) + 1
      BY <3>1, <2>q, <1>t
    <3>3. QED BY <3>1, <3>2, <2>q, <1>t DEF RingInv
  <2>2. CASE EnterEmpty(t)
    <3>1. accepted' = accepted + 1 /\ queue' \in {queue, <<Stamped(t)>>} /\ queue = <<>>
      BY <2>2 DEF EnterEmpty, MustQueue
    <3>2. QED BY <3>1, <1>t DEF RingInv
  <2>3. ASSUME NEW ok \in BOOLEAN, Finish(t, ok), accepted' = accepted,
               pc[t] \in {"send", "down", "write", "skip", "fail"}
        PROVE RingInv'
    <3>1. NeedAck(msg[t]) /\ back[t] = "enter" => queue # <<>>
      BY <2>3, <1>s DEF ThreadInv, HeldInv, Sending
    <3>2. QED BY <2>3, <3>1, <2>q, <1>2, FinishShortens
  <2>4. CASE SendDropped(t) \/ SendFails(t) \/ WriteDone(t) \/ (SendDown(t) /\ OnOff(msg[t]))
    BY <2>3, <2>4 DEF SendDropped, SendFails, WriteDone, SendDown, Drop
  <2>5. QED
    BY <1>3, <1>9, <2>1, <2>2, <2>4
       DEF SendStep, LockBuffer, LockTimeout, Send, SendNotReady, SendDown, StartWrite,
           WriteRetry, WriteGivesUp, WriteSkipped, queueVars
<1>10. QED BY <1>4, <1>5, <1>6, <1>7, <1>8, <1>9 DEF Next

\* Whatever fails, the ASSERT of SendMessageInQueue can only fire after QueueNum
\* messages: as long as fewer were accepted nothing is queued in a full ring, for
\* any number of callers.  It gives the hypothesis of the theorems below.
THEOREM RingSuffices == Spec /\ [](accepted < QueueNum) => NeverQueuedFull
<1>1. Init => RingInv
  BY DEF Init, RingInv
<1>2. Inv /\ RingInv /\ [Next]_vars => RingInv'
  BY RingKept
<1>3. Inv /\ RingInv /\ (accepted < QueueNum)' /\ [Next]_vars
         => [\A t \in Thread : EnterQueue(t) => Len(queue) < QueueNum - 1]_vars
  <2>1. SUFFICES ASSUME Inv, RingInv, accepted' < QueueNum, NEW t \in Thread, EnterQueue(t)
                 PROVE Len(queue) < QueueNum - 1
    OBVIOUS
  <2>2. accepted' = accepted + 1 /\ queue \in Seq(Message) /\ accepted \in Nat
    BY <2>1 DEF EnterQueue, Inv, TypeOK, QueueTypes
  <2>3. QED BY <2>1, <2>2, BoundsAreNumbers DEF RingInv
<1>4. QED BY <1>1, <1>2, <1>3, InvAlways, PTL DEF Spec, NeverQueuedFull

LEMMA CalmAlways ==
    ASSUME MaxFaults = 0
    PROVE Spec /\ NeverQueuedFull => [](Inv /\ CalmInv /\ AckInv /\ GotInv)
<1>1. Init => CalmInv /\ AckInv /\ GotInv
  BY InitCalm, InitAcks
<1>2. Inv /\ CalmInv /\ AckInv /\ GotInv /\ [Next]_vars
         /\ [\A t \in Thread : EnterQueue(t) => Len(queue) < QueueNum - 1]_vars
         => CalmInv' /\ AckInv' /\ GotInv'
  BY OnlyCalmSteps, CalmKept, AckKept
<1>3. QED BY <1>1, <1>2, InvAlways, PTL DEF Spec, NeverQueuedFull

\* While nothing fails and the queue never overflows, whenever nobody works on the
\* queue the reader waits for the ack of its first message, and that ack is the
\* only one between the modem and the reader: for any number of functions, callers
\* and messages, no ack makes ConsumeMessageInQueue drop a message that was not
\* sent, and none is taken for another's.
THEOREM HeadIsAwaited ==
    ASSUME MaxFaults = 0
    PROVE Spec /\ NeverQueuedFull => []HeadAwaitsAck
<1>1. ASSUME Inv, AckInv PROVE HeadAwaitsAck
  <2>1. SUFFICES ASSUME queue # <<>>, qlock = None, ~Acknowledged
                 PROVE waitAck = Id(Head(queue)) /\ AcksComing = 1
    BY DEF HeadAwaitsAck, Acknowledged
  <2>2. waitAck = Id(Head(queue)) /\ OneAck(waitAck)
    BY <1>1, <2>1 DEF AckInv
  <2>3. AcksComing = Len(outbox) + Cardinality(InboxAcks) + Cardinality({got} \cap AckId)
    BY DEF AcksComing, InboxAcks
  <2>4. Cardinality({}) = 0 /\ \A x : Cardinality({x}) = 1
    BY FS_EmptySet, FS_Singleton
  <2>5. CASE outbox = <<waitAck>> /\ InboxAcks = {} /\ got \notin AckId
    <3>1. Len(outbox) = 1 /\ {got} \cap AckId = {}
      BY <2>5
    <3>2. Cardinality(InboxAcks) = 0 /\ Cardinality({got} \cap AckId) = 0
      BY <3>1, <2>4, <2>5
    <3>3. QED BY <3>1, <3>2, <2>2, <2>3
  <2>6. CASE outbox = <<>> /\ got \notin AckId /\ \E i \in DOMAIN inbox : InboxAcks = {i}
    <3>1. Len(outbox) = 0 /\ {got} \cap AckId = {}
      BY <2>6
    <3>2. Cardinality(InboxAcks) = 1
      BY <2>4, <2>6, Zenon
    <3>3. Cardinality({got} \cap AckId) = 0
      BY <3>1, <2>4
    <3>4. QED BY <3>1, <3>2, <3>3, <2>2, <2>3
  <2>7. CASE outbox = <<>> /\ InboxAcks = {} /\ got = waitAck
    <3>1. Len(outbox) = 0 /\ {got} \cap AckId = {got}
      BY <2>2, <2>7 DEF OneAck
    <3>2. Cardinality(InboxAcks) = 0
      BY <2>4, <2>7
    <3>3. Cardinality({got} \cap AckId) = 1
      BY <3>1, <2>4, Zenon
    <3>4. QED BY <3>1, <3>2, <3>3, <2>2, <2>3
  <2>8. QED BY <2>2, <2>5, <2>6, <2>7 DEF OneAck
<1>2. QED BY <1>1, CalmAlways, PTL

-----------------------------------------------------------------------------
(* Status.                                                                  *)

\* The message in the hand of caller f switches f, and is not yet in the queue.
Asking(f) == pc[f] \in {"status", "enter"} /\ OnOff(msg[f])
Switches(i, f) == OnOff(queue[i]) /\ queue[i].by = f
LastSwitch(i, f) == Switches(i, f) /\ \A j \in DOMAIN queue : Switches(j, f) => j <= i

\* The ack of the first message has been handled, though it is still there.
HeadHandled == pc[Reader] \in {"enter", "match", "matched", "consume", "pop"}

\* The last message that switches f, or without one the status, says what its
\* caller wants.
Wanted(f) ==
    /\ Asking(f) => (msg[f].kind = "on" <=> f \in wanted)
    /\ ~Asking(f) => \A i \in DOMAIN queue :
          LastSwitch(i, f) => (queue[i].kind = "on" <=> f \in wanted)
    /\ ~Asking(f) /\ (\A i \in DOMAIN queue : ~Switches(i, f))
          => (f \in modemSide <=> f \in wanted)
    /\ HeadHandled /\ queue # <<>> /\ Switches(1, f)
          => (f \in modemSide <=> queue[1].kind = "on")

StatusInv == \A f \in Func : Wanted(f)

\* What concerns f stays as it is.
LEMMA WantedAlone ==
    ASSUME NEW f \in Func, Wanted(f), UNCHANGED queue,
           f \in wanted' <=> f \in wanted, f \in modemSide' <=> f \in modemSide,
           Asking(f)' <=> Asking(f), Asking(f)' => msg'[f].kind = msg[f].kind,
           HeadHandled' => HeadHandled \/ queue = <<>> \/ ~Switches(1, f)
    PROVE Wanted(f)'
<1>1. \A i : Switches(i, f)' <=> Switches(i, f)
  BY DEF Switches, OnOff
<1>2. \A i : LastSwitch(i, f)' <=> LastSwitch(i, f)
  BY <1>1 DEF LastSwitch
<1>3. QED BY <1>1, <1>2 DEF Wanted

\* Without its first message, whose ack has been handled, the queue says the same.
LEMMA HeadLeaves ==
    ASSUME NEW f \in Func, Wanted(f), HeadHandled, ~Asking(f), queue # <<>>,
           queue \in Seq(Message), \A i \in DOMAIN queue : i > 1 => ~Switches(i, f)
    PROVE f \in modemSide <=> f \in wanted
<1>1. 1 \in DOMAIN queue /\ \A i \in DOMAIN queue : i = 1 \/ i > 1
  OBVIOUS
<1>2. CASE Switches(1, f)
  <2>1. LastSwitch(1, f)
    BY <1>1, <1>2 DEF LastSwitch
  <2>2. QED BY <1>1, <1>2, <2>1 DEF Wanted
<1>3. CASE ~Switches(1, f)
  BY <1>1, <1>3 DEF Wanted
<1>4. QED BY <1>2, <1>3

LEMMA CallerStepStatus ==
    ASSUME Inv, CalmInv, StatusInv, NEW t \in Func, CallerStep(t)
    PROVE StatusInv'
<1>t. /\ ThreadTypes /\ t \in Thread /\ t # Reader /\ CallerCalm(t)
      /\ Func \subseteq Thread /\ Reader \in Thread
  BY ThreadsDiffer DEF Inv, TypeOK, Thread, CalmInv
<1>0. CASE WriteStatus(t)
  <2>1. /\ UNCHANGED <<msg, queue, wanted, modemSide>> /\ pc[t] = "status" /\ pc'[t] = "enter"
        /\ \A u \in Thread \ {t} : pc'[u] = pc[u]
    BY <1>0, <1>t DEF WriteStatus, Goto, ThreadTypes, queueVars
  <2>2. HeadHandled' = HeadHandled /\ \A f \in Func : Asking(f)' = Asking(f)
    BY <2>1, <1>t DEF HeadHandled, Asking, OnOff
  <2>3. QED BY <2>1, <2>2, WantedAlone DEF StatusInv
<1> SUFFICES ASSUME ~WriteStatus(t) PROVE StatusInv'
  BY <1>0
<1>1. /\ UNCHANGED <<queue, modemSide>> /\ pc[t] \in {"idle", "lock"} /\ pc'[t] \in Step
      /\ \A u \in Thread \ {t} : pc'[u] = pc[u] /\ msg'[u] = msg[u]
      /\ wanted' \in {wanted, wanted \cup {t}, wanted \ {t}}
      /\ Asking(t)' => (msg'[t].kind = "on" <=> t \in wanted')
      /\ ~Asking(t)' => wanted' = wanted
      /\ ~Asking(t)
  <2>1. CASE LockBuffer(t) \/ LockTimeout(t)
    BY <2>1, <1>t, ThreadsDiffer DEF LockBuffer, LockTimeout, Goto, ThreadTypes, queueVars, statusVars,
       CallerCalm, OnOff, Step, Asking
  <2>2. CASE TurnOn(t) \/ TurnOff(t)
    BY <2>2, <1>t DEF TurnOn, TurnOff, ReadStatus, Call, Goto, ThreadTypes, queueVars, New, OnOff,
       Step, Asking
  <2>3. CASE SetGain(t) \/ SetParam(t)
    BY <2>3, <1>t DEF SetGain, SetParam, Call, Goto, ThreadTypes, queueVars, statusVars, New, OnOff,
       Step, Asking
  <2>4. QED BY <2>1, <2>2, <2>3 DEF CallerStep
<1>2. HeadHandled' = HeadHandled /\ ~Asking(t)
  BY <1>1, <1>t DEF HeadHandled, Asking
<1>3. ASSUME NEW f \in Func PROVE Wanted(f)'
  <2>1. CASE f # t
    BY <2>1, <1>1, <1>2, <1>t, WantedAlone DEF StatusInv, Asking, OnOff
  <2>2. CASE f = t /\ ~Asking(t)'
    BY <2>2, <1>1, <1>2, WantedAlone DEF StatusInv, Asking, OnOff
  <2>3. CASE f = t /\ Asking(t)'
    <3>1. \A i : Switches(i, f)' <=> Switches(i, f)
      BY <1>1 DEF Switches, OnOff
    <3>2. Wanted(f)
      BY DEF StatusInv
    <3>3. QED BY <2>3, <3>1, <3>2, <1>1, <1>2 DEF Wanted, Asking, OnOff
  <2>4. QED BY <2>1, <2>2, <2>3
<1>4. QED BY <1>3 DEF StatusInv

\* The message that switches t becomes the last in the queue that does.
LEMMA EnterQueueStatus ==
    ASSUME Inv, CalmInv, StatusInv, NEW t \in Func \cup {Reader}, EnterQueue(t),
           Len(queue) < QueueNum - 1
    PROVE StatusInv'
<1>t. /\ ThreadTypes /\ t \in Thread /\ t # Para /\ (t # Reader => t \in Func)
      /\ queue \in Seq(Message) /\ msg[t] \in Message /\ QueueNum \in Nat
      /\ (t = Reader => t \notin Func) /\ Func \subseteq Thread /\ Reader \in Thread
  BY ThreadsDiffer, BoundsAreNumbers DEF Inv, TypeOK, Thread, QueueTypes, ThreadTypes
<1>1. /\ pc[t] = "enter" /\ Resume(t) /\ queue # <<>>
      /\ UNCHANGED <<wanted, modemSide>>
      /\ queue' = Append(queue, Stamped(t))
  BY <1>t DEF EnterQueue, MustQueue, statusVars, Enqueued
<1>2. NextStep(t) = IF t = Reader THEN "match" ELSE "idle"
  BY <1>t, <1>1 DEF NextStep, CalmInv, ReaderCalm
<1>3. /\ pc'[t] = (IF t = Reader THEN "match" ELSE "idle")
      /\ \A u \in Thread \ {t} : pc'[u] = pc[u] /\ msg'[u] = msg[u]
  BY <1>1, <1>2, <1>t DEF Resume, ThreadTypes
<1>4. Stamped(t) \in Message /\ Stamped(t).kind = msg[t].kind /\ Stamped(t).by = msg[t].by
  BY <1>t, MessageFields DEF Stamped, Inv, TypeOK, QueueTypes, Message
<1>p. PICK last \in Nat : last = Len(queue) + 1
  BY <1>t
<1>5. /\ \A i \in DOMAIN queue' : i \in DOMAIN queue \/ i = last
      /\ \A i \in DOMAIN queue : i \in DOMAIN queue' /\ queue'[i] = queue[i] /\ ~(last <= i)
      /\ last \in DOMAIN queue' /\ queue'[last] = Stamped(t)
      /\ 1 \in DOMAIN queue
  BY <1>p, <1>1, <1>4, <1>t
<1>6. \A f \in Func : f # t =>
         /\ ~Switches(last, f)'
         /\ \A i \in DOMAIN queue : Switches(i, f)' <=> Switches(i, f)
  <2>1. t \in Func => msg[t].by = t
    BY <1>1 DEF CalmInv, CallerCalm
  <2>2. t = Reader => ~OnOff(msg[t])
    BY <1>1 DEF CalmInv, ReaderCalm, OnOff
  <2>3. QED BY <2>1, <2>2, <1>t, <1>4, <1>5 DEF Switches, OnOff
<1>7. HeadHandled' <=> HeadHandled
  BY <1>1, <1>3, <1>t DEF HeadHandled
<1>8. ASSUME NEW f \in Func PROVE Wanted(f)'
  <2>w. Wanted(f)
    BY DEF StatusInv
  <2>1. Switches(1, f)' <=> Switches(1, f)
    BY <1>5 DEF Switches, OnOff
  <2>2. CASE f # t
    <3>1. (Asking(f)' <=> Asking(f)) /\ (Asking(f)' => msg'[f].kind = msg[f].kind)
      BY <2>2, <1>3, <1>t DEF Asking, OnOff
    <3>2. \A i \in DOMAIN queue' : LastSwitch(i, f)' => i \in DOMAIN queue /\ LastSwitch(i, f)
      BY <2>2, <1>5, <1>6 DEF LastSwitch
    <3>3. (\A i \in DOMAIN queue' : ~Switches(i, f)') => \A i \in DOMAIN queue : ~Switches(i, f)
      BY <2>2, <1>5, <1>6
    <3>4. QED BY <2>w, <2>1, <3>1, <3>2, <3>3, <1>1, <1>5, <1>7 DEF Wanted
  <2>3. CASE f = t
    <3>1. ~Asking(f)' /\ msg[t].by = f
      BY <2>3, <1>1, <1>3, <1>t DEF Asking, CalmInv, CallerCalm
    <3>2. \A i \in DOMAIN queue : Switches(i, f)' <=> Switches(i, f)
      BY <1>5 DEF Switches, OnOff
    <3>3. CASE OnOff(msg[t])
      <4>1. Asking(f) /\ Switches(last, f)'
        BY <2>3, <3>1, <3>3, <1>1, <1>4, <1>5 DEF Asking, Switches, OnOff
      <4>2. \A i \in DOMAIN queue' : LastSwitch(i, f)' => i = last
        BY <4>1, <1>5 DEF LastSwitch
      <4>3. QED BY <2>w, <2>1, <2>3, <3>1, <4>1, <4>2, <1>1, <1>4, <1>5, <1>7 DEF Wanted
    <3>4. CASE ~OnOff(msg[t])
      <4>1. ~Asking(f) /\ ~Switches(last, f)'
        BY <2>3, <3>4, <1>4, <1>5 DEF Asking, Switches, OnOff
      <4>2. \A i \in DOMAIN queue' : LastSwitch(i, f)' => i \in DOMAIN queue /\ LastSwitch(i, f)
        BY <3>2, <4>1, <1>5 DEF LastSwitch
      <4>3. (\A i \in DOMAIN queue' : ~Switches(i, f)') => \A i \in DOMAIN queue : ~Switches(i, f)
        BY <3>2, <1>5
      <4>4. QED BY <2>w, <2>1, <3>1, <4>1, <4>2, <4>3, <1>1, <1>5, <1>7 DEF Wanted
    <3>5. QED BY <3>3, <3>4
  <2>4. QED BY <2>2, <2>3
<1>9. QED BY <1>8 DEF StatusInv

LEMMA EnterEmptyStatus ==
    ASSUME Inv, CalmInv, AckInv, GotInv, StatusInv, NEW t \in Func \cup {Reader}, EnterEmpty(t)
    PROVE StatusInv'
<1>t. /\ ThreadTypes /\ t \in Thread /\ (t # Reader => t \in Func) /\ msg[t] \in Message
      /\ Func \subseteq Thread /\ Reader \in Thread
  BY DEF Inv, TypeOK, Thread, ThreadTypes
<1>1. /\ pc[t] = "enter" /\ qlock = None /\ queue = <<>> /\ pc'[t] = "send"
      /\ \A u \in Thread \ {t} : pc'[u] = pc[u] /\ msg'[u] = msg[u]
      /\ queue' = (IF NeedAck(msg[t]) THEN <<Stamped(t)>> ELSE <<>>)
      /\ UNCHANGED <<wanted, modemSide>>
  BY <1>t DEF EnterEmpty, MustQueue, Goto, ThreadTypes, statusVars
<1>2. NoAck /\ ~Acknowledged
  BY <1>1 DEF AckInv
<1>3. t # Reader /\ t \in Func /\ msg[t].by = t
  BY <1>1, <1>2, <1>t DEF GotInv, NoAck, CalmInv, CallerCalm
<1>4. pc[Reader] # "pop"
  BY <1>1, <1>t, NoneIsNoThread DEF Inv, ThreadInv, Holding
<1>5. ~HeadHandled'
  BY <1>1, <1>2, <1>3, <1>4, <1>t DEF GotInv, NoAck, Acknowledged, HeadHandled
<1>6. Stamped(t).kind = msg[t].kind /\ Stamped(t).by = t
  BY <1>t, <1>3 DEF Stamped, Message
<1>7. ASSUME NEW f \in Func PROVE Wanted(f)'
  <2>1. Wanted(f) /\ \A i \in DOMAIN queue : FALSE
    BY <1>1 DEF StatusInv
  <2>2. /\ \A i \in DOMAIN queue' : i = 1 /\ queue'[i] = Stamped(t)
        /\ NeedAck(msg[t]) => 1 \in DOMAIN queue' /\ queue'[1] = Stamped(t)
    BY <1>1
  <2>3. CASE f # t
    <3>1. (Asking(f)' <=> Asking(f)) /\ (Asking(f)' => msg'[f].kind = msg[f].kind)
      BY <2>3, <1>1, <1>t DEF Asking, OnOff
    <3>2. \A i \in DOMAIN queue' : ~Switches(i, f)'
      BY <2>2, <2>3, <1>6 DEF Switches
    <3>3. QED BY <2>1, <3>1, <3>2, <1>1, <1>5 DEF Wanted, LastSwitch
  <2>4. CASE f = t /\ OnOff(msg[t])
    <3>1. Asking(f) /\ ~Asking(f)'
      BY <2>4, <1>1 DEF Asking
    <3>2. NeedAck(msg[t])
      BY <2>4 DEF NeedAck, OnOff
    <3>3. Switches(1, f)' /\ queue'[1].kind = msg[t].kind
      BY <3>2, <2>2, <2>4, <1>6 DEF Switches, OnOff
    <3>4. QED BY <2>1, <2>2, <2>4, <3>1, <3>2, <3>3, <1>1, <1>5, <1>6 DEF Wanted
  <2>5. CASE f = t /\ ~OnOff(msg[t])
    <3>1. ~Asking(f) /\ ~Asking(f)'
      BY <2>5, <1>1 DEF Asking
    <3>2. \A i \in DOMAIN queue' : ~Switches(i, f)'
      BY <2>2, <2>5, <1>6 DEF Switches, OnOff
    <3>3. QED BY <2>1, <3>1, <3>2, <1>1, <1>5 DEF Wanted, LastSwitch
  <2>6. QED BY <2>3, <2>4, <2>5
<1>8. QED BY <1>7 DEF StatusInv

LEMMA SenderStepStatus ==
    ASSUME Inv, CalmInv, AckInv, GotInv, StatusInv, NEW t \in Func \cup {Reader}, SenderStep(t),
           EnterQueue(t) => Len(queue) < QueueNum - 1
    PROVE StatusInv'
<1>t. /\ ThreadTypes /\ t \in Thread /\ (t # Reader => t \in Func)
      /\ Func \subseteq Thread /\ Reader \in Thread
  BY DEF Inv, TypeOK, Thread
<1>1. CASE Send(t)
  <2>1. /\ pc[t] = "send" /\ pc'[t] = "write" /\ UNCHANGED <<msg, queue, wanted, modemSide>>
        /\ \A u \in Thread \ {t} : pc'[u] = pc[u]
    BY <1>1, <1>t DEF Send, StartWrite, ThreadTypes
  <2>2. HeadHandled' = HeadHandled /\ \A f \in Func : Asking(f)' = Asking(f)
    BY <2>1, <1>t DEF HeadHandled, Asking, OnOff
  <2>3. QED BY <2>1, <2>2, WantedAlone DEF StatusInv
<1>2. CASE WriteDone(t)
  <2>1. pc[t] = "write" /\ Finish(t, TRUE) /\ UNCHANGED <<wanted, modemSide>>
    BY <1>2 DEF WriteDone, statusVars
  <2>2. /\ Local(t) /\ queue' = queue /\ (t # Reader => pc'[t] = "idle")
        /\ t = Reader /\ back[t] # "enter" => pc'[t] \in {"idle", "pop"}
        /\ pc'[t] = "pop" => back[t] = "consume" /\ ~NeedAck(msg[t])
    <3>1. back[t] \in {"enter", "consume", "bare"}
      BY <1>t DEF ThreadTypes
    <3>2. t = Reader => back[t] # "enter"
      BY <2>1 DEF GotInv, Sending
    <3>3. QED BY <2>1, <3>1, <3>2, AfterSend
  <2>3. t = Reader => back[t] # "enter"
    BY <2>1 DEF GotInv, Sending
  <2>4. \A u \in Thread \ {t} : pc'[u] = pc[u] /\ msg'[u] = msg[u]
    BY <2>2 DEF Local
  <2>5. pc'[t] = "pop" => queue # <<>> /\ queue[1] = msg[t] /\ ~OnOff(queue[1])
    <3>1. back[t] = "consume" => queue # <<>> /\ msg[t] = Head(queue)
      BY <2>1, <1>t DEF Inv, ThreadInv, HeldInv, Sending
    <3>2. ~NeedAck(msg[t]) => ~OnOff(msg[t])
      BY DEF NeedAck, OnOff
    <3>3. queue \in Seq(Message)
      BY DEF Inv, TypeOK, QueueTypes
    <3>4. QED BY <2>2, <3>1, <3>2, <3>3
  <2>6. HeadHandled' => HeadHandled \/ pc'[t] = "pop"
    BY <2>2, <2>3, <2>4, <1>t DEF HeadHandled
  <2>7. \A f \in Func : HeadHandled' => HeadHandled \/ ~Switches(1, f)
    BY <2>5, <2>6 DEF Switches
  <2>8. \A f \in Func : (Asking(f)' <=> Asking(f)) /\ (Asking(f)' => msg'[f].kind = msg[f].kind)
    BY <2>1, <2>2, <2>3, <2>4, <1>t DEF Asking, OnOff
  <2>9. QED BY <2>1, <2>2, <2>7, <2>8, WantedAlone DEF StatusInv
<1>3. QED BY <1>1, <1>2, EnterQueueStatus, EnterEmptyStatus DEF SenderStep

\* The status takes what the ack of the first message says.
LEMMA HandleAckStatus ==
    ASSUME Inv, CalmInv, AckInv, GotInv, StatusInv, HandleAck
    PROVE StatusInv'
<1>t. /\ ThreadTypes /\ Reader \in Thread /\ Reader \notin Func /\ Func \subseteq Thread
      /\ queue \in Seq(Message) /\ modemSide \subseteq Func
  BY ThreadsDiffer DEF Inv, TypeOK, Thread, QueueTypes, StatusTypes
<1>1. /\ got \in AckId /\ UNCHANGED <<queue, wanted>> /\ modemSide' = Acked(modemSide, got)
      /\ \A u \in Thread \ {Reader} : pc'[u] = pc[u] /\ msg'[u] = msg[u]
  BY <1>t DEF HandleAck, Goto, ThreadTypes, readerRest, queueVars
<1>2. queue # <<>> /\ waitAck = Id(Head(queue)) /\ OneAck(waitAck)
  BY <1>1, AckOnItsWay DEF NoAck
<1>3. got = Id(queue[1]) /\ 1 \in DOMAIN queue /\ queue[1] \in Message
  BY <1>1, <1>2, <1>t DEF OneAck
<1>4. ASSUME NEW f \in Func PROVE Wanted(f)'
  <2>w. Wanted(f)
    BY DEF StatusInv
  <2>1. /\ \A i : Switches(i, f)' <=> Switches(i, f)
        /\ \A i : LastSwitch(i, f)' <=> LastSwitch(i, f)
    BY <1>1 DEF Switches, OnOff, LastSwitch
  <2>2. (Asking(f)' <=> Asking(f)) /\ (Asking(f)' => msg'[f].kind = msg[f].kind)
    BY <1>1, <1>t DEF Asking, OnOff
  <2>3. CASE Switches(1, f)
    <3>1. got = <<queue[1].kind, f>> /\ queue[1].kind \in {"on", "off"}
      BY <2>3, <1>3 DEF Switches, OnOff, Id
    <3>2. f \in modemSide' <=> queue[1].kind = "on"
      BY <3>1, <1>1 DEF Acked
    <3>3. QED BY <2>w, <2>1, <2>2, <2>3, <3>2, <1>1, <1>3 DEF Wanted
  <2>4. CASE ~Switches(1, f)
    <3>1. f \in modemSide' <=> f \in modemSide
      <4>1. CASE OnOff(queue[1])
        <5>1. got = <<queue[1].kind, queue[1].by>> /\ queue[1].by # f
          BY <2>4, <4>1, <1>3 DEF Switches, Id
        <5>2. QED BY <5>1, <1>1 DEF Acked
      <4>2. CASE ~OnOff(queue[1])
        <5>1. got[1] = queue[1].kind
          BY <1>3 DEF Id
        <5>2. QED BY <4>2, <5>1, <1>1 DEF Acked, OnOff
      <4>3. QED BY <4>1, <4>2
    <3>2. QED BY <2>w, <2>1, <2>2, <2>4, <3>1, <1>1 DEF Wanted
  <2>5. QED BY <2>3, <2>4
<1>5. QED BY <1>4 DEF StatusInv

LEMMA HandlerStepStatus ==
    ASSUME Inv, CalmInv, AckInv, GotInv, StatusInv, HandlerStep
    PROVE StatusInv'
<1>t. /\ ThreadTypes /\ Reader \in Thread /\ Reader \notin Func /\ Func \subseteq Thread
      /\ queue \in Seq(Message)
  BY ThreadsDiffer DEF Inv, TypeOK, Thread, QueueTypes
<1>s. \A u \in Thread \ {Reader} : pc'[u] = pc[u] /\ msg'[u] = msg[u]
  BY <1>t DEF HandlerStep, Read, HandleAck, HandleData, MatchAck, ClearWaitAck, Consume,
     PopLast, PopAndSend, Goto, ThreadTypes, readerRest
<1>a. \A f \in Func : (Asking(f)' <=> Asking(f)) /\ (Asking(f)' => msg'[f].kind = msg[f].kind)
  BY <1>s, <1>t DEF Asking, OnOff
<1>1. CASE Read \/ HandleData \/ MatchAck \/ ClearWaitAck \/ Consume
  <2>1. UNCHANGED <<queue, wanted, modemSide>>
    BY <1>1 DEF Read, HandleData, MatchAck, ClearWaitAck, Consume, readerRest, queueVars, statusVars
  <2>2. HeadHandled' => HeadHandled
    BY <1>1, <1>t DEF Read, HandleData, MatchAck, ClearWaitAck, Consume, HeadHandled, Goto,
       ThreadTypes
  <2>3. QED BY <2>1, <2>2, <1>a, WantedAlone DEF StatusInv
<1>2. CASE PopLast \/ PopAndSend
  <2>1. /\ UNCHANGED <<wanted, modemSide>> /\ queue # <<>> /\ queue' = Tail(queue)
        /\ pc[Reader] = "pop" /\ pc'[Reader] \in {"idle", "send"}
    <3>1. CASE PopLast
      <4>1. queue # <<>> /\ Tail(queue) = <<>>
        <5>1. Len(queue) = 1
          BY <3>1 DEF PopLast
        <5>2. queue # <<>> /\ Tail(queue) \in Seq(Message) /\ Len(Tail(queue)) = 0
          BY <5>1, <1>t
        <5>3. QED BY <5>2, EmptySeq
      <4>2. QED BY <3>1, <4>1, <1>t DEF PopLast, Goto, ThreadTypes, statusVars
    <3>2. CASE PopAndSend
      BY <3>2, <1>t DEF PopAndSend, Goto, ThreadTypes, statusVars
    <3>3. QED BY <1>2, <3>1, <3>2
  <2>2. HeadHandled /\ ~HeadHandled'
    BY <2>1 DEF HeadHandled
  <2>3. /\ \A i \in DOMAIN queue' : i \in Nat /\ i + 1 \in DOMAIN queue /\ queue'[i] = queue[i + 1]
        /\ \A i \in DOMAIN queue : i > 1 => i - 1 \in DOMAIN queue' /\ (i - 1) + 1 = i /\ i \in Nat
        /\ \A i \in DOMAIN queue : i \in Nat /\ i >= 1
    BY <2>1, <1>t
  <2>4. ASSUME NEW f \in Func PROVE Wanted(f)'
    <3>w. Wanted(f)
      BY DEF StatusInv
    <3>1. \A i \in DOMAIN queue' : Switches(i, f)' <=> Switches(i + 1, f)
      BY <2>3 DEF Switches, OnOff
    <3>2. \A i \in DOMAIN queue' : LastSwitch(i, f)' => LastSwitch(i + 1, f)
      <4>1. ASSUME NEW i \in DOMAIN queue', LastSwitch(i, f)', NEW j \in DOMAIN queue, Switches(j, f)
            PROVE j <= i + 1
        <5>1. CASE j > 1
          <6>1. j - 1 \in DOMAIN queue' /\ Switches(j - 1, f)'
            <7>1. j - 1 \in DOMAIN queue' /\ (j - 1) + 1 = j
              BY <5>1, <2>3
            <7>2. QED BY <7>1, <4>1, <2>3 DEF Switches, OnOff
          <6>2. \A k \in DOMAIN queue' : Switches(k, f)' => k <= i
            BY <4>1 DEF LastSwitch
          <6>3. \A k \in Nat : k = j - 1 => k <= i
            BY <6>1, <6>2 DEF Switches, OnOff
          <6>4. QED BY <6>3, <5>1, <2>3
        <5>2. CASE ~(j > 1)
          BY <5>2, <2>3
        <5>3. QED BY <5>1, <5>2
      <4>2. QED BY <4>1, <3>1 DEF LastSwitch
    <3>3. (\A i \in DOMAIN queue' : ~Switches(i, f)') => \A i \in DOMAIN queue : i > 1 => ~Switches(i, f)
      <4>1. ASSUME \A i \in DOMAIN queue' : ~Switches(i, f)', NEW i \in DOMAIN queue, i > 1
            PROVE ~Switches(i, f)
        <5>1. PICK k \in DOMAIN queue' : k + 1 = i
          BY <4>1, <2>3
        <5>2. QED BY <5>1, <4>1, <3>1
      <4>2. QED BY <4>1
    <3>4. ~Asking(f) /\ (\A i \in DOMAIN queue' : ~Switches(i, f)') => (f \in modemSide <=> f \in wanted)
      BY <3>w, <3>3, <2>1, <2>2, <1>t, HeadLeaves
    <3>5. QED BY <3>w, <3>2, <3>4, <2>1, <2>2, <2>3, <1>a DEF Wanted
  <2>5. QED BY <2>4 DEF StatusInv
<1>3. QED BY <1>1, <1>2, HandleAckStatus DEF HandlerStep

LEMMA StatusKept ==
    ASSUME Inv, CalmInv, AckInv, GotInv, StatusInv,
           \/ CalmNext /\ \A t \in Thread : EnterQueue(t) => Len(queue) < QueueNum - 1
           \/ UNCHANGED vars
    PROVE StatusInv'
<1>t. Func \cup {Reader} \subseteq Thread
  BY DEF Thread
<1>1. CASE Answer \/ (\E f \in Func : RecordData(f)) \/ UNCHANGED vars
  <2>1. UNCHANGED <<pc, msg, queue, wanted, modemSide>>
    BY <1>1 DEF Answer, RecordData, vars, threadRest, threadVars, queueVars, statusVars
  <2>2. QED BY <2>1, WantedAlone DEF StatusInv, HeadHandled, Asking, OnOff
<1>2. QED
  BY <1>1, <1>t, CallerStepStatus, SenderStepStatus, HandlerStepStatus DEF CalmNext

\* While nothing fails and the queue never overflows, whenever everything is quiet
\* the messenger believes that the modem runs just what the callers have switched
\* on, for any number of functions, however fast their callers switch them, and
\* also when mApSideModemStatus has lost one of their updates: the status follows
\* from the order of the messages and acks alone.
THEOREM StatusAgreesAtRest ==
    ASSUME MaxFaults = 0
    PROVE Spec /\ NeverQueuedFull => []StatusAgrees
<1>1. Init => StatusInv
  BY DEF Init, StatusInv, Wanted, Asking, Thread, LastSwitch, Switches, HeadHandled
<1>2. Inv /\ CalmInv /\ AckInv /\ GotInv /\ StatusInv /\ [Next]_vars
         /\ [\A t \in Thread : EnterQueue(t) => Len(queue) < QueueNum - 1]_vars
         => StatusInv'
  BY OnlyCalmSteps, StatusKept
<1>3. ASSUME Inv, StatusInv PROVE StatusAgrees
  <2>1. SUFFICES ASSUME Quiet PROVE modemSide = wanted
    BY DEF StatusAgrees
  <2>2. modemSide \subseteq Func /\ wanted \subseteq Func
    BY <1>3 DEF Inv, TypeOK, StatusTypes
  <2>3. \A f \in Func : f \in modemSide <=> f \in wanted
    <3>1. queue = <<>> /\ \A f \in Func : pc[f] = "idle"
      BY <2>1 DEF Quiet, Thread
    <3>2. \A i \in DOMAIN queue : FALSE
      BY <3>1
    <3>3. QED BY <1>3, <3>1, <3>2 DEF StatusInv, Wanted, Asking
  <2>4. QED BY <2>2, <2>3
<1>4. QED BY <1>1, <1>2, <1>3, CalmAlways, InvAlways, PTL DEF Spec, NeverQueuedFull

-----------------------------------------------------------------------------
(* What the modem runs.                                                     *)

\* The status after the ack that the reader is about to handle.
Known == IF pc[Reader] = "handle" /\ got \in AckId THEN Acked(modemSide, got) ELSE modemSide

\* Recorded data in the inbox comes from a function that is on by the status after
\* the acks before it.
DataKnown(i) ==
    /\ (\A j \in InboxAcks : ~(j < i)) => inbox[i][2] \in Known
    /\ \A j \in InboxAcks : j < i => inbox[i][2] \in Acked(Known, inbox[j])

\* What the modem runs is the status after the acks that have not been handled.
ViewInv ==
    /\ InboxAcks = {} => running = Known
    /\ \A j \in InboxAcks : running = Acked(Known, inbox[j])
    /\ \A i \in DOMAIN inbox : inbox[i] \in Data => DataKnown(i)
    /\ pc[Reader] = "handle" /\ got \in Data => got[2] \in modemSide

\* A step of the messenger that reads nothing.
LEMMA ViewAlone ==
    ASSUME ViewInv, UNCHANGED <<running, inbox>>, Known' = Known,
           pc'[Reader] = "handle" => UNCHANGED <<pc, got, modemSide>>
    PROVE ViewInv'
<1>1. InboxAcks' = InboxAcks
  BY DEF InboxAcks
<1>2. \A i : DataKnown(i)' <=> DataKnown(i)
  BY <1>1 DEF DataKnown
<1>3. QED BY <1>1, <1>2 DEF ViewInv

LEMMA ThreadStepView ==
    ASSUME Inv, CalmInv, GotInv, ViewInv,
           \/ \E t \in Func : CallerStep(t)
           \/ \E t \in Func \cup {Reader} : SenderStep(t)
           \/ HandlerStep /\ ~Read
    PROVE ViewInv'
<1>t. /\ ThreadTypes /\ Reader \in Thread /\ Reader \notin Func /\ Func \subseteq Thread
  BY ThreadsDiffer DEF Inv, TypeOK, Thread
<1>1. ASSUME NEW t \in Func, CallerStep(t) PROVE ViewInv'
  <2>1. UNCHANGED <<running, inbox, modemSide, got>> /\ pc'[Reader] = pc[Reader]
    <3>1. CASE WriteStatus(t) \/ LockBuffer(t) \/ LockTimeout(t)
      BY <3>1, <1>t DEF WriteStatus, LockBuffer, LockTimeout, Goto, ThreadTypes, statusVars, modemVars
    <3>2. CASE TurnOn(t) \/ TurnOff(t) \/ SetGain(t) \/ SetParam(t)
      BY <3>2, <1>t DEF TurnOn, TurnOff, ReadStatus, SetGain, SetParam, Call, Goto, ThreadTypes, statusVars,
         modemVars
    <3>3. QED BY <1>1, <3>1, <3>2 DEF CallerStep
  <2>2. Known' = Known /\ InboxAcks' = InboxAcks
    BY <2>1 DEF Known, Acked, InboxAcks
  <2>3. \A i : DataKnown(i)' <=> DataKnown(i)
    BY <2>1, <2>2 DEF DataKnown
  <2>4. QED BY <2>1, <2>2, <2>3 DEF ViewInv
<1>2. ASSUME NEW t \in Func \cup {Reader}, SenderStep(t) PROVE ViewInv'
  <2>1. /\ UNCHANGED <<running, inbox, modemSide>> /\ (t # Reader => got' = got)
        /\ t = Reader => pc[Reader] # "handle" /\ pc'[Reader] # "handle"
        /\ \A u \in Thread \ {t} : pc'[u] = pc[u]
    <3>1. CASE EnterQueue(t)
      <4>1. NextStep(t) \in {"idle", "enter", "match", "epof"}
        BY DEF NextStep
      <4>2. QED
        BY <3>1, <4>1, <1>t DEF EnterQueue, Resume, ThreadTypes, statusVars, modemVars
    <3>2. CASE EnterEmpty(t)
      BY <3>2, <1>t DEF EnterEmpty, Goto, ThreadTypes, statusVars, modemVars
    <3>3. CASE Send(t)
      BY <3>3, <1>t DEF Send, StartWrite, ThreadTypes, modemVars
    <3>4. CASE WriteDone(t)
      BY <3>4, <1>t, AfterSend DEF WriteDone, Local, statusVars
    <3>5. QED BY <1>2, <3>1, <3>2, <3>3, <3>4 DEF SenderStep
  <2>2. CASE t = Reader
    <3>1. Known = modemSide /\ Known' = modemSide
      BY <2>1, <2>2 DEF Known
    <3>2. QED BY <2>1, <2>2, <3>1, ViewAlone
  <2>3. CASE t # Reader
    <3>1. Known' = Known /\ InboxAcks' = InboxAcks /\ pc'[Reader] = pc[Reader] /\ got' = got
      BY <2>1, <2>3, <1>t DEF Known, Acked, InboxAcks
    <3>2. \A i : DataKnown(i)' <=> DataKnown(i)
      BY <2>1, <3>1 DEF DataKnown
    <3>3. QED BY <2>1, <3>1, <3>2 DEF ViewInv
  <2>4. QED BY <2>2, <2>3
<1>3. CASE HandlerStep /\ ~Read
  <2>1. UNCHANGED <<running, inbox>> /\ pc'[Reader] # "handle"
    BY <1>3, <1>t DEF HandlerStep, HandleAck, HandleData, MatchAck, ClearWaitAck, Consume, PopLast,
       PopAndSend, Goto, ThreadTypes, modemVars
  <2>2. modemSide' = Known
    <3>1. CASE HandleAck
      BY <3>1 DEF HandleAck, Goto, Known
    <3>2. CASE HandleData
      <4>1. got \in Data
        BY <3>2 DEF HandleData, Data
      <4>2. QED BY <3>2, <4>1, Identifiers DEF HandleData, statusVars, Known
    <3>3. CASE MatchAck \/ ClearWaitAck \/ Consume \/ PopLast \/ PopAndSend
      BY <3>3 DEF MatchAck, ClearWaitAck, Consume, PopLast, PopAndSend, Goto, statusVars, Known
    <3>4. QED BY <1>3, <3>1, <3>2, <3>3 DEF HandlerStep
  <2>3. Known' = Known
    BY <2>1, <2>2 DEF Known
  <2>4. QED BY <2>1, <2>3, ViewAlone
<1>4. QED BY <1>1, <1>2, <1>3

\* What is read is taken from the front, acks and data in the order they were sent.
LEMMA ReadView ==
    ASSUME Inv, CalmInv, AckInv, GotInv, ViewInv, Read
    PROVE ViewInv'
<1>t. ThreadTypes /\ Reader \in Thread /\ inbox \in Seq(Incoming)
  BY DEF Inv, TypeOK, Thread, ModemTypes
<1>1. /\ inbox # <<>> /\ inbox' = Tail(inbox) /\ pc[Reader] = "idle"
      /\ UNCHANGED <<running, modemSide>>
  BY DEF Read
<1>2. Head(inbox) = inbox[1] /\ 1 \in DOMAIN inbox /\ Head(inbox) \in AckId \cup Data
  BY <1>1, <1>t, AckRead DEF CalmInv, ReaderCalm
<1>3. pc'[Reader] = "handle" /\ got' = Head(inbox)
  BY <1>2, <1>t, Identifiers DEF Read, CalmInv, ModemUp, ThreadTypes
<1>4. Known = modemSide /\ got \notin AckId
  BY <1>1 DEF Known, GotInv
<1>5. /\ \A i \in DOMAIN inbox' : i \in Nat /\ i + 1 \in DOMAIN inbox /\ inbox'[i] = inbox[i + 1]
      /\ InboxAcks' = {i \in DOMAIN inbox' : i + 1 \in InboxAcks}
      /\ \A i \in DOMAIN inbox : i \in Nat /\ i >= 1 /\ (i = 1 \/ i - 1 \in DOMAIN inbox')
      /\ 1 \in InboxAcks <=> Head(inbox) \in AckId
  BY <1>1, <1>t, AckRead
<1>6. CASE Head(inbox) \in AckId
  <2>1. InboxAcks = {1}
    <3>1. 1 \in InboxAcks
      BY <1>5, <1>6
    <3>2. OneAck(waitAck)
      BY <3>1, AckOnItsWay DEF NoAck
    <3>3. QED BY <3>1, <3>2, <1>4 DEF OneAck
  <2>2. InboxAcks' = {}
    <3>1. \A i \in DOMAIN inbox' : i + 1 # 1
      BY <1>1, <1>t
    <3>2. QED BY <3>1, <2>1, <1>5
  <2>3. Known' = Acked(Known, inbox[1]) /\ got' \notin Data
    BY <1>1, <1>2, <1>3, <1>4, <1>6, Identifiers DEF Known, Acked
  <2>4. running' = Known'
    BY <2>1, <2>3, <1>1 DEF ViewInv
  <2>5. \A i \in DOMAIN inbox' : inbox'[i] \in Data => inbox'[i][2] \in Known'
    <3>1. ASSUME NEW i \in DOMAIN inbox', inbox'[i] \in Data PROVE inbox'[i][2] \in Known'
      <4>1. i + 1 \in DOMAIN inbox /\ inbox'[i] = inbox[i + 1] /\ 1 < i + 1
        <5>1. i >= 1
          BY <1>1, <1>t
        <5>2. QED BY <5>1, <1>5
      <4>2. DataKnown(i + 1)
        BY <4>1, <3>1 DEF ViewInv
      <4>3. QED BY <4>1, <4>2, <2>1, <2>3 DEF DataKnown
    <3>2. QED BY <3>1
  <2>6. QED BY <2>2, <2>3, <2>4, <2>5 DEF ViewInv, DataKnown
<1>7. CASE Head(inbox) \notin AckId
  <2>1. Known' = Known /\ 1 \notin InboxAcks
    BY <1>1, <1>3, <1>4, <1>5, <1>7 DEF Known
  <2>2. InboxAcks' = {} => InboxAcks = {}
    <3>1. ASSUME NEW j \in InboxAcks PROVE InboxAcks' # {}
      <4>1. j \in DOMAIN inbox /\ j # 1
        BY <2>1 DEF InboxAcks
      <4>2. j - 1 \in DOMAIN inbox' /\ (j - 1) + 1 = j
        BY <4>1, <1>5
      <4>3. j - 1 \in InboxAcks'
        BY <4>2, <1>5
      <4>4. QED BY <4>3
    <3>2. QED BY <3>1
  <2>3. \A j \in InboxAcks' : j + 1 \in InboxAcks /\ inbox'[j] = inbox[j + 1]
    BY <1>5
  <2>4. ASSUME NEW i \in DOMAIN inbox', inbox'[i] \in Data PROVE DataKnown(i)'
    <3>1. i \in Nat /\ i + 1 \in DOMAIN inbox /\ inbox'[i] = inbox[i + 1]
      BY <1>5
    <3>2. DataKnown(i + 1)
      BY <3>1, <2>4 DEF ViewInv
    <3>3. \A j \in InboxAcks' : j \in Nat /\ (j < i <=> j + 1 < i + 1)
      BY <3>1, <1>5
    <3>4. \A j \in InboxAcks : j < i + 1 => \E k \in InboxAcks' : k < i /\ j = k + 1
      <4>1. ASSUME NEW j \in InboxAcks, j < i + 1 PROVE \E k \in InboxAcks' : k < i /\ j = k + 1
        <5>1. j \in DOMAIN inbox /\ j # 1
          BY <2>1 DEF InboxAcks
        <5>2. j - 1 \in DOMAIN inbox' /\ (j - 1) + 1 = j /\ j - 1 < i
          BY <5>1, <4>1, <3>1, <1>5
        <5>3. j - 1 \in InboxAcks'
          BY <5>2, <1>5
        <5>4. QED BY <5>2, <5>3
      <4>2. QED BY <4>1
    <3>5. (\A j \in InboxAcks' : ~(j < i)) => inbox'[i][2] \in Known'
      BY <3>1, <3>2, <3>4, <2>1 DEF DataKnown
    <3>6. \A j \in InboxAcks' : j < i => inbox'[i][2] \in Acked(Known', inbox'[j])
      BY <3>1, <3>2, <3>3, <2>1, <2>3 DEF DataKnown
    <3>7. QED BY <3>5, <3>6 DEF DataKnown, Acked
  <2>5. got'[2] \in modemSide'
    <3>1. inbox[1] \in Data
      BY <1>2, <1>7
    <3>2. DataKnown(1)
      BY <3>1, <1>2 DEF ViewInv
    <3>3. \A j \in InboxAcks : ~(j < 1)
      BY <1>5 DEF InboxAcks
    <3>4. QED BY <3>2, <3>3, <1>1, <1>2, <1>3, <1>4 DEF DataKnown
  <2>6. \A j \in InboxAcks' : running' = Acked(Known, inbox[j + 1])
    BY <2>3, <1>1 DEF ViewInv
  <2>7. \A j \in InboxAcks' : running' = Acked(Known, inbox[j])'
    BY <2>1, <2>3, <2>6 DEF Acked
  <2>8. QED BY <2>1, <2>2, <2>4, <2>5, <2>7, <1>1 DEF ViewInv
<1>8. QED BY <1>6, <1>7

LEMMA ModemStepView ==
    ASSUME Inv, CalmInv, AckInv, GotInv, ViewInv,
           Answer \/ \E f \in Func : RecordData(f)
    PROVE ViewInv'
<1>t. /\ inbox \in Seq(Incoming) /\ outbox \in Seq(AckId)
  BY DEF Inv, TypeOK, ModemTypes
<1>1. UNCHANGED <<pc, got, modemSide>>
  BY DEF Answer, RecordData, threadRest, threadVars, statusVars
<1>2. Known' = Known
  BY <1>1 DEF Known, Acked
<1>3. CASE Answer
  <2>1. /\ outbox # <<>> /\ inbox' = Append(inbox, Head(outbox))
        /\ running' = Acked(running, Head(outbox))
    BY <1>3 DEF Answer
  <2>2. Head(outbox) \in AckId /\ Head(outbox) \in Incoming
    BY <2>1, <1>t, Identifiers
  <2>3. OneAck(waitAck)
    BY <2>1, AckOnItsWay DEF NoAck
  <2>4. InboxAcks = {} /\ running = Known
    BY <2>1, <2>3 DEF OneAck, ViewInv
  <2>p. PICK last \in Nat : last = Len(inbox) + 1
    BY <1>t
  <2>5. /\ InboxAcks' = {last} /\ inbox'[last] = Head(outbox)
        /\ \A i \in DOMAIN inbox : i \in DOMAIN inbox' /\ inbox'[i] = inbox[i] /\ i < last
        /\ \A i \in DOMAIN inbox' : i \in DOMAIN inbox \/ i = last
    BY <2>1, <2>2, <2>4, <2>p, <1>t, AckAppended
  <2>6. Head(outbox) \notin Data
    BY <2>2, Identifiers
  <2>7. ASSUME NEW i \in DOMAIN inbox', inbox'[i] \in Data PROVE DataKnown(i)'
    <3>1. i \in DOMAIN inbox /\ inbox'[i] = inbox[i] /\ i < last
      BY <2>5, <2>6, <2>7
    <3>2. inbox[i][2] \in Known
      BY <3>1, <2>4, <2>7 DEF ViewInv, DataKnown
    <3>3. \A j \in InboxAcks' : ~(j < i)
      <4>1. i \in Nat
        BY <3>1, <1>t
      <4>2. QED BY <3>1, <4>1, <2>5, <2>p
    <3>4. QED BY <3>1, <3>2, <3>3, <1>2 DEF DataKnown
  <2>8. \A j \in InboxAcks' : running' = Acked(Known, inbox[j])'
    BY <2>1, <2>4, <2>5, <1>2 DEF Acked
  <2>9. QED BY <2>5, <2>7, <2>8, <1>1 DEF ViewInv
<1>4. ASSUME NEW f \in Func, RecordData(f) PROVE ViewInv'
  <2>1. inbox' = Append(inbox, <<"data", f>>) /\ running' = running /\ f \in running
    BY <1>4 DEF RecordData
  <2>2. <<"data", f>> \in Data
    BY DEF Data
  <2>3. <<"data", f>> \in Incoming /\ <<"data", f>> \notin AckId
    BY <2>2, Identifiers
  <2>p. PICK last \in Nat : last = Len(inbox) + 1
    BY <1>t
  <2>4. /\ InboxAcks' = InboxAcks /\ inbox'[last] = <<"data", f>>
        /\ \A i \in DOMAIN inbox : i \in DOMAIN inbox' /\ inbox'[i] = inbox[i] /\ i < last
        /\ \A i \in DOMAIN inbox' : i \in DOMAIN inbox \/ i = last
    BY <2>1, <2>3, <2>p, <1>t, AckAppended
  <2>5. \A j \in InboxAcks : Acked(Known, inbox[j])' = Acked(Known, inbox[j]) /\ j < last
    BY <2>4, <1>2 DEF Acked, InboxAcks
  <2>6. ASSUME NEW i \in DOMAIN inbox', inbox'[i] \in Data PROVE DataKnown(i)'
    <3>1. CASE i = last
      <4>1. inbox'[i][2] = f
        BY <3>1, <2>4
      <4>2. (\A j \in InboxAcks : ~(j < i)) => InboxAcks = {}
        BY <3>1, <2>5
      <4>3. InboxAcks = {} => f \in Known
        BY <2>1 DEF ViewInv
      <4>4. \A j \in InboxAcks : f \in Acked(Known, inbox[j])
        BY <2>1 DEF ViewInv
      <4>5. \A j \in InboxAcks' : f \in Acked(Known, inbox[j])'
        BY <4>4, <2>4, <2>5
      <4>6. QED BY <4>1, <4>2, <4>3, <4>5, <2>4, <1>2 DEF DataKnown
    <3>2. CASE i # last
      <4>1. i \in DOMAIN inbox /\ inbox'[i] = inbox[i] /\ DataKnown(i)
        BY <3>2, <2>4, <2>6 DEF ViewInv
      <4>2. \A j \in InboxAcks' : j < i => inbox[i][2] \in Acked(Known, inbox[j])'
        BY <4>1, <2>4, <2>5 DEF DataKnown
      <4>3. QED BY <4>1, <4>2, <2>4, <1>2 DEF DataKnown
    <3>3. QED BY <3>1, <3>2
  <2>7. QED BY <2>1, <2>4, <2>5, <2>6, <1>1, <1>2 DEF ViewInv
<1>5. QED BY <1>3, <1>4

LEMMA ViewKept ==
    ASSUME Inv, CalmInv, AckInv, GotInv, ViewInv, CalmNext \/ UNCHANGED vars
    PROVE ViewInv'
<1>1. CASE UNCHANGED vars
  <2>1. UNCHANGED <<running, inbox, pc, got, modemSide>>
    BY <1>1 DEF vars, modemVars, threadVars, statusVars
  <2>2. Known' = Known
    BY <2>1 DEF Known, Acked
  <2>3. QED BY <2>1, <2>2, ViewAlone
<1>2. QED BY <1>1, ThreadStepView, ReadView, ModemStepView DEF CalmNext, HandlerStep

\* While nothing fails and the queue never overflows, recorded data is handled only
\* with the function's status on (the ASSERT in the handler of
\* MSG_M2A_PCM_REC_DATA_NOTIFY), for any number of functions and messages: data
\* overtakes no ack on its way to the handler.
THEOREM DataIsExpected ==
    ASSUME MaxFaults = 0
    PROVE Spec /\ NeverQueuedFull => []DataExpected
<1>1. Init => ViewInv
  <2> SUFFICES ASSUME Init PROVE ViewInv
    OBVIOUS
  <2>1. inbox = <<>> /\ pc[Reader] = "idle" /\ running = {} /\ modemSide = {}
    BY DEF Init, Thread
  <2>2. InboxAcks = {} /\ \A i \in DOMAIN inbox : FALSE
    BY <2>1 DEF InboxAcks
  <2>3. QED BY <2>1, <2>2 DEF ViewInv, Known
<1>2. Inv /\ CalmInv /\ AckInv /\ GotInv /\ ViewInv /\ [Next]_vars => ViewInv'
  BY OnlyCalmSteps, ViewKept
<1>3. ViewInv => DataExpected
  BY DEF ViewInv, DataExpected, Data
<1>4. QED BY <1>1, <1>2, <1>3, CalmAlways, PTL DEF Spec
=============================================================================
