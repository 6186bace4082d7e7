---------------------------- MODULE SpeechProofs ----------------------------
(***************************************************************************)
(* Proofs about SpeechMessenger, for any functions, queue size and number  *)
(* of calls and faults: the types, the exclusion of the threads that hold  *)
(* the queue's lock, and the order in which the modem gets the messages.   *)
(***************************************************************************)
EXTENDS SpeechMessenger, TLAPS

\* Thread t is between SendMessage's entry and its return.
Sending(t) == pc[t] \in {"send", "down", "write", "skip", "fail"}

\* Thread t has mCCCIMessageQueueMutex.
Holding(t) == (Sending(t) /\ back[t] # "bare") \/ pc[t] = "pop"

\* Only the reader sends without the lock, and only messages that never wait.
BareInv(t) ==
    /\ Sending(t) /\ back[t] = "bare" => msg[t].n = 0 /\ ~NeedAck(msg[t])
    /\ ~Sending(t) => back[t] = "bare"

\* A caller with the lock sends the newest message, alone in the queue if it
\* needs an ack; the consumer sends the first of the queue.
HeldInv(t) ==
    /\ pc[t] = "pop" => queue # <<>>
    /\ Sending(t) /\ back[t] = "enter" =>
          /\ msg[t].n = accepted /\ sent.n < accepted
          /\ queue = IF NeedAck(msg[t]) THEN <<msg[t]>> ELSE <<>>
    /\ Sending(t) /\ back[t] = "consume" =>
          queue # <<>> /\ msg[t] = Head(queue) /\ sent.n < msg[t].n

ThreadInv(t) ==
    /\ qlock = t <=> Holding(t)
    /\ BareInv(t)
    /\ HeldInv(t)

\* The queue is in the order of acceptance, and behind its first message nothing
\* has been sent.
Order ==
    /\ \A i, j \in DOMAIN queue : i < j => queue[i].n < queue[j].n
    /\ \A i \in DOMAIN queue : queue[i].n <= accepted
    /\ \A i \in DOMAIN queue : 1 < i => sent.n < queue[i].n
    /\ sent.n <= accepted

Inv == TypeOK /\ Order /\ \A t \in Thread : ThreadInv(t)

-----------------------------------------------------------------------------
(* What a step of one thread leaves to the others.                          *)

\* The other threads are where they were.
Local(t) ==
    \A u \in Thread \ {t} : pc'[u] = pc[u] /\ msg'[u] = msg[u] /\ back'[u] = back[u]

\* The queue changes only in the hands of the thread that has the lock.
Frame(t) ==
    \/ UNCHANGED <<queue, qlock, accepted, sent>>
    \/ qlock \in {None, t} /\ qlock' \in {None, t}

Forward == sent' # sent => sent.n < sent'.n

\* What is shown of each step of thread t.
Good(t) == TypeOK' /\ Order' /\ Local(t) /\ Frame(t) /\ ThreadInv(t)' /\ Forward

LEMMA FrameKeeps ==
    ASSUME NEW t \in Thread, NEW u \in Thread, u # t, Local(t), Frame(t), ThreadInv(u)
    PROVE ThreadInv(u)'
<1>. /\ pc'[u] = pc[u] /\ msg'[u] = msg[u] /\ back'[u] = back[u]
     /\ u # None
  BY NoneIsNoThread DEF Local, Thread
<1>1. CASE UNCHANGED <<queue, qlock, accepted, sent>>
  BY <1>1 DEF ThreadInv, BareInv, HeldInv, Holding, Sending, NeedAck
<1>2. CASE qlock \in {None, t} /\ qlock' \in {None, t}
  BY <1>2 DEF ThreadInv, BareInv, HeldInv, Holding, Sending, NeedAck
<1>3. QED BY <1>1, <1>2 DEF Frame

\* A step of thread t that is good keeps the invariant.
LEMMA GoodKeeps ==
    ASSUME Inv, NEW t \in Thread, Good(t)
    PROVE Inv' /\ Forward
<1>1. ASSUME NEW u \in Thread PROVE ThreadInv(u)'
  <2>1. CASE u = t BY <2>1 DEF Good
  <2>2. CASE u # t BY <2>2, FrameKeeps DEF Good, Inv
  <2>3. QED BY <2>1, <2>2
<1>2. QED BY <1>1 DEF Inv, Good

-----------------------------------------------------------------------------
(* Messages.                                                                *)

LEMMA MessageFields ==
    ASSUME NEW m \in Message
    PROVE /\ m.kind \in Kind /\ m.by \in Thread /\ m.n \in Nat
          /\ OnOff(m) => m.by \in Func
          /\ NeedAck(m) => Id(m) \in AckId
          /\ \A n \in Nat : [m EXCEPT !.n = n] \in Message
<1>1. m.kind \in Kind /\ m.by \in Thread /\ m.n \in Nat
  BY DEF Message, Kind, Thread
<1>2. OnOff(m) => m.by \in Func
  BY DEF Message, OnOff
<1>3. NeedAck(m) => Id(m) \in AckId
  BY <1>1, <1>2 DEF NeedAck, Id, AckId, OnOff
<1>4. \A n \in Nat : [m EXCEPT !.n = n] \in Message
  BY DEF Message
<1>5. QED BY <1>1, <1>2, <1>3, <1>4

LEMMA NewIsMessage ==
    /\ \A t \in Thread : New("param", t) \in Message /\ New("note", t) \in Message
    /\ \A t \in Func : New("on", t) \in Message /\ New("off", t) \in Message
    /\ New("readAck", Reader) \in Message /\ New("epofAck", Reader) \in Message
    /\ NoMessage \in Message
BY DEF New, Message, Kind, Thread, NoMessage

LEMMA AckedInFunc ==
    ASSUME NEW S \in SUBSET Func, NEW id \in AckId
    PROVE Acked(S, id) \in SUBSET Func
BY DEF Acked, AckId

\* Also for the error handling of messages without an ack.
LEMMA AckedMessage ==
    ASSUME NEW S \in SUBSET Func, NEW m \in Message
    PROVE Acked(S, Id(m)) \in SUBSET Func
<1>1. CASE OnOff(m)
  <2>1. m.by \in Func /\ Id(m) = <<m.kind, m.by>>
    BY <1>1, MessageFields DEF Id
  <2>2. QED BY <2>1 DEF Acked
<1>2. CASE ~OnOff(m)
  <2>1. Id(m)[1] = m.kind
    BY DEF Id
  <2>2. QED BY <1>2, <2>1 DEF Acked, OnOff
<1>3. QED BY <1>1, <1>2

-----------------------------------------------------------------------------
(* Parts that several actions share.                                        *)

LEMMA ResumeLocal ==
    ASSUME NEW t \in Thread, ThreadTypes, Resume(t)
    PROVE ThreadTypes' /\ Local(t) /\ ~Sending(t)' /\ pc'[t] # "pop" /\ back'[t] = "bare"
<1>1. NextStep(t) \in {"enter", "match", "epof", "idle"}
  BY DEF NextStep
<1>2. pc' \in [Thread -> Step] /\ ~Sending(t)' /\ pc'[t] # "pop"
  BY <1>1 DEF Resume, ThreadTypes, Step, Sending
<1>3. msg' \in [Thread -> Message]
  BY NewIsMessage DEF Resume, ThreadTypes
<1>4. back' \in [Thread -> {"enter", "consume", "bare"}] /\ back'[t] = "bare"
  BY DEF Resume, ThreadTypes
<1>5. got' \in Incoming \cup {None}
  BY DEF Resume, ThreadTypes
<1>6. Local(t)
  BY DEF Resume, ThreadTypes, Local
<1>7. QED BY <1>2, <1>3, <1>4, <1>5, <1>6 DEF ThreadTypes

\* A thread that neither sends nor pops, without the lock, has nothing to show.
LEMMA FreeThread ==
    ASSUME NEW t \in Thread, ~Sending(t)', pc'[t] # "pop", back'[t] = "bare", qlock' # t
    PROVE ThreadInv(t)'
BY DEF ThreadInv, BareInv, HeldInv, Holding, Sending

LEMMA FinishGood ==
    ASSUME NEW t \in Thread, NEW ok \in BOOLEAN, Inv, Sending(t), Finish(t, ok),
           accepted' = accepted, sent' \in [n : Nat, by : Thread, data : Thread \cup {None}],
           sent' = sent \/ (ok /\ msg[t].n # 0 /\ sent'.n = msg[t].n)
    PROVE /\ ThreadTypes'
          /\ queue' \in Seq(Message) /\ qlock' \in Thread \cup {None}
          /\ Local(t) /\ Frame(t) /\ Order' /\ ThreadInv(t)' /\ Forward
<1>. USE DEF Inv
<1>t. /\ ThreadTypes /\ queue \in Seq(Message) /\ accepted \in Nat
      /\ sent.n \in Nat /\ sent'.n \in Nat /\ msg[t] \in Message /\ msg[t].n \in Nat
      /\ qlock \in Thread \cup {None} /\ t # None
  BY NoneIsNoThread, MessageFields
     DEF TypeOK, ThreadTypes, QueueTypes, ModemTypes, Thread
<1>i. ThreadInv(t) /\ Order
  OBVIOUS
<1>1. CASE back[t] = "enter"
  <2>1. /\ queue' = IF NeedAck(msg[t]) /\ ~ok THEN Tail(queue) ELSE queue
        /\ qlock' = None /\ Resume(t)
    BY <1>1 DEF Finish
  <2>2. /\ qlock = t /\ msg[t].n = accepted /\ sent.n < accepted
        /\ queue = IF NeedAck(msg[t]) THEN <<msg[t]>> ELSE <<>>
    BY <1>1, <1>i DEF ThreadInv, HeldInv, Holding
  <2>3. queue' = <<>> \/ queue' = <<msg[t]>>
    BY <2>1, <2>2
  <2>4. queue' \in Seq(Message)
    <3>1. <<>> \in Seq(Message) /\ <<msg[t]>> \in Seq(Message)
      BY <1>t
    <3>2. QED BY <2>3, <3>1
  <2>5. sent'.n <= accepted
    BY <2>2, <1>t
  <2>6. Order'
    <3>1. CASE queue' = <<>>
      BY <3>1, <2>5 DEF Order
    <3>2. CASE queue' = <<msg[t]>>
      <4>1. DOMAIN queue' = {1} /\ queue'[1] = msg[t]
        BY <3>2
      <4>2. QED BY <4>1, <2>2, <2>5, <1>t DEF Order
    <3>3. QED BY <3>1, <3>2, <2>3
  <2>7. Forward
    BY <2>2, <1>t DEF Forward
  <2>8. ThreadTypes' /\ Local(t) /\ ThreadInv(t)'
    BY <2>1, <1>t, ResumeLocal, FreeThread
  <2>9. Frame(t)
    BY <2>1, <2>2 DEF Frame
  <2>10. QED BY <2>1, <2>4, <2>6, <2>7, <2>8, <2>9
<1>2. CASE back[t] = "consume"
  <2>1. /\ pc' = [pc EXCEPT ![t] = IF NeedAck(msg[t]) /\ ok THEN "idle" ELSE "pop"]
        /\ qlock' = IF NeedAck(msg[t]) /\ ok THEN None ELSE qlock
        /\ msg' = [msg EXCEPT ![t] = NoMessage]
        /\ back' = [back EXCEPT ![t] = "bare"]
        /\ UNCHANGED <<queue, got>>
    BY <1>2 DEF Finish
  <2>2. qlock = t /\ queue # <<>> /\ msg[t] = Head(queue) /\ sent.n < msg[t].n
    BY <1>2, <1>i DEF ThreadInv, HeldInv, Holding
  <2>3. /\ 1 \in DOMAIN queue /\ queue[1] = msg[t]
        /\ \A i \in DOMAIN queue : i \in Nat /\ queue[i].n \in Nat
    BY <2>2, <1>t, MessageFields
  <2>4. \A i \in DOMAIN queue : 1 < i => msg[t].n < queue[i].n
    BY <2>3, <1>i DEF Order
  <2>5. msg[t].n <= accepted
    BY <2>3, <1>i DEF Order
  <2>6. Order'
    BY <2>1, <2>3, <2>4, <2>5, <1>t, <1>i DEF Order
  <2>7. Forward
    BY <2>2 DEF Forward
  <2>8. ThreadTypes' /\ Local(t) /\ qlock' \in {None, t}
    BY <2>1, <2>2, <1>t, NewIsMessage DEF ThreadTypes, Local, Step
  <2>9. ThreadInv(t)'
    <3>1. CASE NeedAck(msg[t]) /\ ok
      BY <3>1, <2>1, <1>t, FreeThread DEF ThreadTypes, Sending
    <3>2. CASE ~(NeedAck(msg[t]) /\ ok)
      <4>1. pc'[t] = "pop" /\ back'[t] = "bare" /\ qlock' = t /\ queue' # <<>>
        BY <3>2, <2>1, <2>2, <1>t DEF ThreadTypes
      <4>2. QED BY <4>1 DEF ThreadInv, BareInv, HeldInv, Holding, Sending
    <3>3. QED BY <3>1, <3>2
  <2>10. Frame(t)
    BY <2>2, <2>8 DEF Frame
  <2>11. QED BY <2>1, <2>6, <2>7, <2>8, <2>9, <2>10, <1>t
<1>3. CASE back[t] = "bare"
  <2>1. Resume(t) /\ UNCHANGED <<queue, qlock>>
    BY <1>3 DEF Finish
  <2>2. msg[t].n = 0 /\ qlock # t
    BY <1>3, <1>i DEF ThreadInv, BareInv, Holding, Sending
  <2>3. sent' = sent
    BY <2>2
  <2>4. Order' /\ Forward /\ Frame(t)
    BY <2>1, <2>3, <1>i DEF Order, Forward, Frame
  <2>5. ThreadTypes' /\ Local(t) /\ ThreadInv(t)'
    BY <2>1, <2>2, <1>t, ResumeLocal, FreeThread
  <2>6. QED BY <2>1, <2>4, <2>5, <1>t
<1>4. QED
  BY <1>1, <1>2, <1>3, <1>t DEF Finish

LEMMA GotoLocal ==
    ASSUME ThreadTypes, NEW t \in Thread, NEW a \in Step, NEW b \in Step, Goto(t, a, b)
    PROVE /\ pc' \in [Thread -> Step] /\ pc[t] = a /\ pc'[t] = b
          /\ \A u \in Thread \ {t} : pc'[u] = pc[u]
BY DEF Goto, ThreadTypes

\* A step outside SendMessage that leaves the queue alone.
LEMMA QuietGood ==
    ASSUME NEW t \in Thread, Inv, TypeOK', Local(t), UNCHANGED <<queue, qlock, accepted, sent>>,
           ~Sending(t), pc[t] # "pop", ~Sending(t)', pc'[t] # "pop", back' = back
    PROVE Good(t)
<1>1. qlock' # t /\ back'[t] = "bare"
  BY DEF Inv, ThreadInv, BareInv, Holding
<1>2. ThreadInv(t)'
  BY <1>1, FreeThread
<1>3. Order' /\ Frame(t) /\ Forward
  BY DEF Inv, Order, Frame, Forward
<1>4. QED BY <1>2, <1>3 DEF Good

\* A step inside SendMessage with the same message.
LEMMA SendingGood ==
    ASSUME NEW t \in Thread, Inv, TypeOK', Local(t), UNCHANGED <<queue, qlock, accepted, sent>>,
           Sending(t), Sending(t)', msg' = msg, back' = back
    PROVE Good(t)
<1>1. pc[t] # "pop" /\ pc'[t] # "pop"
  BY DEF Sending
<1>2. ThreadInv(t)'
  BY <1>1 DEF Inv, ThreadInv, BareInv, HeldInv, Holding, NeedAck
<1>3. Order' /\ Frame(t) /\ Forward
  BY DEF Inv, Order, Frame, Forward
<1>4. QED BY <1>2, <1>3 DEF Good

-----------------------------------------------------------------------------
(* The steps that leave the queue alone.                                    *)

LEMMA TurnOnGood ==
    ASSUME NEW t \in Thread, Inv, TurnOn(t)
    PROVE Good(t)
<1>t. ThreadTypes /\ QueueTypes /\ FlagTypes /\ StatusTypes /\ ModemTypes /\ t \in Thread
  BY DEF Inv, TypeOK, Thread
<1>1. /\ pc' \in [Thread -> Step] /\ pc[t] = "idle" /\ pc'[t] \in {"status"}
      /\ \A u \in Thread \ {t} : pc'[u] = pc[u]
  BY <1>t, GotoLocal DEF TurnOn, ReadStatus, Call, Called, Step
<1>2. ThreadTypes' /\ Local(t) /\ back' = back
  BY <1>t, <1>1, NewIsMessage DEF TurnOn, ReadStatus, Call, Called, ThreadTypes, Local, threadVars, queueVars, statusVars, bufVars, modemVars, readerRest, threadRest, Handled
<1>3. QueueTypes' /\ UNCHANGED <<queue, qlock, accepted, sent>>
  BY <1>t DEF TurnOn, ReadStatus, Call, Called, QueueTypes, threadVars, queueVars, statusVars, bufVars, modemVars, readerRest, threadRest
<1>4. FlagTypes'
  BY <1>t DEF TurnOn, ReadStatus, Call, Called, FlagTypes, threadVars, queueVars, statusVars, bufVars, modemVars, readerRest, threadRest
<1>5. StatusTypes'
  BY <1>t DEF TurnOn, ReadStatus, Call, Called, StatusTypes, threadVars, queueVars, statusVars, bufVars, modemVars, readerRest, threadRest
<1>6. ModemTypes'
  BY <1>t DEF TurnOn, ReadStatus, Call, Called, ModemTypes, threadVars, queueVars, statusVars, bufVars, modemVars, readerRest, threadRest
<1>7. QED BY <1>t, <1>1, <1>2, <1>3, <1>4, <1>5, <1>6, QuietGood DEF TypeOK, Sending

LEMMA TurnOffGood ==
    ASSUME NEW t \in Thread, Inv, TurnOff(t)
    PROVE Good(t)
<1>t. ThreadTypes /\ QueueTypes /\ FlagTypes /\ StatusTypes /\ ModemTypes /\ t \in Thread
  BY DEF Inv, TypeOK, Thread
<1>1. /\ pc' \in [Thread -> Step] /\ pc[t] = "idle" /\ pc'[t] \in {"status"}
      /\ \A u \in Thread \ {t} : pc'[u] = pc[u]
  BY <1>t, GotoLocal DEF TurnOff, ReadStatus, Call, Called, Step
<1>2. ThreadTypes' /\ Local(t) /\ back' = back
  BY <1>t, <1>1, NewIsMessage DEF TurnOff, ReadStatus, Call, Called, ThreadTypes, Local, threadVars, queueVars, statusVars, bufVars, modemVars, readerRest, threadRest, Handled
<1>3. QueueTypes' /\ UNCHANGED <<queue, qlock, accepted, sent>>
  BY <1>t DEF TurnOff, ReadStatus, Call, Called, QueueTypes, threadVars, queueVars, statusVars, bufVars, modemVars, readerRest, threadRest
<1>4. FlagTypes'
  BY <1>t DEF TurnOff, ReadStatus, Call, Called, FlagTypes, threadVars, queueVars, statusVars, bufVars, modemVars, readerRest, threadRest
<1>5. StatusTypes'
  BY <1>t DEF TurnOff, ReadStatus, Call, Called, StatusTypes, threadVars, queueVars, statusVars, bufVars, modemVars, readerRest, threadRest
<1>6. ModemTypes'
  BY <1>t DEF TurnOff, ReadStatus, Call, Called, ModemTypes, threadVars, queueVars, statusVars, bufVars, modemVars, readerRest, threadRest
<1>7. QED BY <1>t, <1>1, <1>2, <1>3, <1>4, <1>5, <1>6, QuietGood DEF TypeOK, Sending

LEMMA SetGainGood ==
    ASSUME NEW t \in Thread, Inv, SetGain(t)
    PROVE Good(t)
<1>t. ThreadTypes /\ QueueTypes /\ FlagTypes /\ StatusTypes /\ ModemTypes /\ t \in Thread
  BY DEF Inv, TypeOK, Thread
<1>1. /\ pc' \in [Thread -> Step] /\ pc[t] = "idle" /\ pc'[t] \in {"enter"}
      /\ \A u \in Thread \ {t} : pc'[u] = pc[u]
  BY <1>t, GotoLocal DEF SetGain, Call, Called, Step
<1>2. ThreadTypes' /\ Local(t) /\ back' = back
  BY <1>t, <1>1, NewIsMessage DEF SetGain, Call, Called, ThreadTypes, Local, threadVars, queueVars, statusVars, bufVars, modemVars, readerRest, threadRest, Handled
<1>3. QueueTypes' /\ UNCHANGED <<queue, qlock, accepted, sent>>
  BY <1>t DEF SetGain, Call, Called, QueueTypes, threadVars, queueVars, statusVars, bufVars, modemVars, readerRest, threadRest
<1>4. FlagTypes'
  BY <1>t DEF SetGain, Call, Called, FlagTypes, threadVars, queueVars, statusVars, bufVars, modemVars, readerRest, threadRest
<1>5. StatusTypes'
  BY <1>t DEF SetGain, Call, Called, StatusTypes, threadVars, queueVars, statusVars, bufVars, modemVars, readerRest, threadRest
<1>6. ModemTypes'
  BY <1>t DEF SetGain, Call, Called, ModemTypes, threadVars, queueVars, statusVars, bufVars, modemVars, readerRest, threadRest
<1>7. QED BY <1>t, <1>1, <1>2, <1>3, <1>4, <1>5, <1>6, QuietGood DEF TypeOK, Sending

LEMMA SetParamGood ==
    ASSUME NEW t \in Thread, Inv, SetParam(t)
    PROVE Good(t)
<1>t. ThreadTypes /\ QueueTypes /\ FlagTypes /\ StatusTypes /\ ModemTypes /\ t \in Thread
  BY DEF Inv, TypeOK, Thread
<1>1. /\ pc' \in [Thread -> Step] /\ pc[t] = "idle" /\ pc'[t] \in {"lock"}
      /\ \A u \in Thread \ {t} : pc'[u] = pc[u]
  BY <1>t, GotoLocal DEF SetParam, Call, Called, Step
<1>2. ThreadTypes' /\ Local(t) /\ back' = back
  BY <1>t, <1>1, NewIsMessage DEF SetParam, Call, Called, ThreadTypes, Local, threadVars, queueVars, statusVars, bufVars, modemVars, readerRest, threadRest, Handled
<1>3. QueueTypes' /\ UNCHANGED <<queue, qlock, accepted, sent>>
  BY <1>t DEF SetParam, Call, Called, QueueTypes, threadVars, queueVars, statusVars, bufVars, modemVars, readerRest, threadRest
<1>4. FlagTypes'
  BY <1>t DEF SetParam, Call, Called, FlagTypes, threadVars, queueVars, statusVars, bufVars, modemVars, readerRest, threadRest
<1>5. StatusTypes'
  BY <1>t DEF SetParam, Call, Called, StatusTypes, threadVars, queueVars, statusVars, bufVars, modemVars, readerRest, threadRest
<1>6. ModemTypes'
  BY <1>t DEF SetParam, Call, Called, ModemTypes, threadVars, queueVars, statusVars, bufVars, modemVars, readerRest, threadRest
<1>7. QED BY <1>t, <1>1, <1>2, <1>3, <1>4, <1>5, <1>6, QuietGood DEF TypeOK, Sending

LEMMA WriteStatusGood ==
    ASSUME NEW t \in Func, Inv, WriteStatus(t)
    PROVE Good(t)
<1>t. ThreadTypes /\ QueueTypes /\ FlagTypes /\ StatusTypes /\ ModemTypes /\ t \in Thread
  BY DEF Inv, TypeOK, Thread
<1>1. /\ pc' \in [Thread -> Step] /\ pc[t] = "status" /\ pc'[t] \in {"enter"}
      /\ \A u \in Thread \ {t} : pc'[u] = pc[u]
  BY <1>t, GotoLocal DEF WriteStatus, Step
<1>2. ThreadTypes' /\ Local(t) /\ back' = back
  BY <1>t, <1>1 DEF WriteStatus, ThreadTypes, Local, threadVars, queueVars, statusVars, bufVars, modemVars, readerRest, threadRest, Handled
<1>3. QueueTypes' /\ UNCHANGED <<queue, qlock, accepted, sent>>
  BY <1>t DEF WriteStatus, QueueTypes, threadVars, queueVars, statusVars, bufVars, modemVars, readerRest, threadRest
<1>4. FlagTypes'
  BY <1>t DEF WriteStatus, FlagTypes, threadVars, queueVars, statusVars, bufVars, modemVars, readerRest, threadRest
<1>5. StatusTypes'
  BY <1>t DEF WriteStatus, StatusTypes, threadVars, queueVars, statusVars, bufVars, modemVars, readerRest, threadRest
<1>6. ModemTypes'
  BY <1>t DEF WriteStatus, ModemTypes, threadVars, queueVars, statusVars, bufVars, modemVars, readerRest, threadRest
<1>7. QED BY <1>t, <1>1, <1>2, <1>3, <1>4, <1>5, <1>6, QuietGood DEF TypeOK, Sending

LEMMA LockBufferGood ==
    ASSUME NEW t \in Thread, Inv, LockBuffer(t)
    PROVE Good(t)
<1>t. ThreadTypes /\ QueueTypes /\ FlagTypes /\ StatusTypes /\ ModemTypes /\ t \in Thread
  BY DEF Inv, TypeOK, Thread
<1>1. /\ pc' \in [Thread -> Step] /\ pc[t] = "lock" /\ pc'[t] \in {"enter"}
      /\ \A u \in Thread \ {t} : pc'[u] = pc[u]
  BY <1>t, GotoLocal DEF LockBuffer, Step
<1>2. ThreadTypes' /\ Local(t) /\ back' = back
  BY <1>t, <1>1 DEF LockBuffer, ThreadTypes, Local, threadVars, queueVars, statusVars, bufVars, modemVars, readerRest, threadRest, Handled
<1>3. QueueTypes' /\ UNCHANGED <<queue, qlock, accepted, sent>>
  BY <1>t DEF LockBuffer, QueueTypes, threadVars, queueVars, statusVars, bufVars, modemVars, readerRest, threadRest
<1>4. FlagTypes'
  BY <1>t DEF LockBuffer, FlagTypes, threadVars, queueVars, statusVars, bufVars, modemVars, readerRest, threadRest
<1>5. StatusTypes'
  BY <1>t DEF LockBuffer, StatusTypes, threadVars, queueVars, statusVars, bufVars, modemVars, readerRest, threadRest
<1>6. ModemTypes'
  BY <1>t DEF LockBuffer, ModemTypes, threadVars, queueVars, statusVars, bufVars, modemVars, readerRest, threadRest
<1>7. QED BY <1>t, <1>1, <1>2, <1>3, <1>4, <1>5, <1>6, QuietGood DEF TypeOK, Sending

LEMMA LockTimeoutGood ==
    ASSUME NEW t \in Thread, Inv, LockTimeout(t)
    PROVE Good(t)
<1>t. ThreadTypes /\ QueueTypes /\ FlagTypes /\ StatusTypes /\ ModemTypes /\ t \in Thread
  BY DEF Inv, TypeOK, Thread
<1>1. /\ pc' \in [Thread -> Step] /\ pc[t] = "lock" /\ pc'[t] \in {"enter", "idle"}
      /\ \A u \in Thread \ {t} : pc'[u] = pc[u]
  BY <1>t, GotoLocal DEF LockTimeout, Step
<1>2. ThreadTypes' /\ Local(t) /\ back' = back
  BY <1>t, <1>1, NewIsMessage DEF LockTimeout, ThreadTypes, Local, threadVars, queueVars, statusVars, bufVars, modemVars, readerRest, threadRest, Handled
<1>3. QueueTypes' /\ UNCHANGED <<queue, qlock, accepted, sent>>
  BY <1>t DEF LockTimeout, QueueTypes, threadVars, queueVars, statusVars, bufVars, modemVars, readerRest, threadRest
<1>4. FlagTypes'
  BY <1>t DEF LockTimeout, FlagTypes, threadVars, queueVars, statusVars, bufVars, modemVars, readerRest, threadRest
<1>5. StatusTypes'
  BY <1>t DEF LockTimeout, StatusTypes, threadVars, queueVars, statusVars, bufVars, modemVars, readerRest, threadRest
<1>6. ModemTypes'
  BY <1>t DEF LockTimeout, ModemTypes, threadVars, queueVars, statusVars, bufVars, modemVars, readerRest, threadRest
<1>7. QED BY <1>t, <1>1, <1>2, <1>3, <1>4, <1>5, <1>6, QuietGood DEF TypeOK, Sending

LEMMA SendNotReadyGood ==
    ASSUME NEW t \in Thread, Inv, SendNotReady(t)
    PROVE Good(t)
<1>t. ThreadTypes /\ QueueTypes /\ FlagTypes /\ StatusTypes /\ ModemTypes /\ t \in Thread
  BY DEF Inv, TypeOK, Thread
<1>1. /\ pc' \in [Thread -> Step] /\ pc[t] = "send" /\ pc'[t] \in {"down"}
      /\ \A u \in Thread \ {t} : pc'[u] = pc[u]
  BY <1>t, GotoLocal DEF SendNotReady, Step
<1>2. ThreadTypes' /\ Local(t) /\ back' = back
  BY <1>t, <1>1 DEF SendNotReady, ThreadTypes, Local, threadVars, queueVars, statusVars, bufVars, modemVars, readerRest, threadRest, Handled
<1>3. QueueTypes' /\ UNCHANGED <<queue, qlock, accepted, sent>>
  BY <1>t DEF SendNotReady, QueueTypes, threadVars, queueVars, statusVars, bufVars, modemVars, readerRest, threadRest
<1>4. FlagTypes'
  BY <1>t DEF SendNotReady, FlagTypes, threadVars, queueVars, statusVars, bufVars, modemVars, readerRest, threadRest
<1>5. StatusTypes'
  BY <1>t DEF SendNotReady, StatusTypes, threadVars, queueVars, statusVars, bufVars, modemVars, readerRest, threadRest
<1>6. ModemTypes'
  BY <1>t DEF SendNotReady, ModemTypes, threadVars, queueVars, statusVars, bufVars, modemVars, readerRest, threadRest
<1>7. msg' = msg
  BY DEF SendNotReady, threadVars, queueVars, statusVars, bufVars, modemVars, readerRest, threadRest
<1>8. QED BY <1>t, <1>1, <1>2, <1>3, <1>4, <1>5, <1>6, <1>7, SendingGood DEF TypeOK, Sending

LEMMA WriteRetryGood ==
    ASSUME NEW t \in Thread, Inv, WriteRetry(t)
    PROVE Good(t)
<1>t. ThreadTypes /\ QueueTypes /\ FlagTypes /\ StatusTypes /\ ModemTypes /\ t \in Thread
  BY DEF Inv, TypeOK, Thread
<1>1. UNCHANGED pc /\ pc[t] = "write"
  BY DEF WriteRetry, threadVars, queueVars, statusVars, bufVars, modemVars, readerRest, threadRest
<1>2. ThreadTypes' /\ Local(t) /\ back' = back
  BY <1>t, <1>1 DEF WriteRetry, ThreadTypes, Local, threadVars, queueVars, statusVars, bufVars, modemVars, readerRest, threadRest, Handled
<1>3. QueueTypes' /\ UNCHANGED <<queue, qlock, accepted, sent>>
  BY <1>t DEF WriteRetry, QueueTypes, threadVars, queueVars, statusVars, bufVars, modemVars, readerRest, threadRest
<1>4. FlagTypes'
  BY <1>t DEF WriteRetry, FlagTypes, threadVars, queueVars, statusVars, bufVars, modemVars, readerRest, threadRest
<1>5. StatusTypes'
  BY <1>t DEF WriteRetry, StatusTypes, threadVars, queueVars, statusVars, bufVars, modemVars, readerRest, threadRest
<1>6. ModemTypes'
  BY <1>t DEF WriteRetry, ModemTypes, threadVars, queueVars, statusVars, bufVars, modemVars, readerRest, threadRest
<1>7. msg' = msg
  BY DEF WriteRetry, threadVars, queueVars, statusVars, bufVars, modemVars, readerRest, threadRest
<1>8. QED BY <1>t, <1>1, <1>2, <1>3, <1>4, <1>5, <1>6, <1>7, SendingGood DEF TypeOK, Sending

LEMMA WriteGivesUpGood ==
    ASSUME NEW t \in Thread, Inv, WriteGivesUp(t)
    PROVE Good(t)
<1>t. ThreadTypes /\ QueueTypes /\ FlagTypes /\ StatusTypes /\ ModemTypes /\ t \in Thread
  BY DEF Inv, TypeOK, Thread
<1>1. /\ pc' \in [Thread -> Step] /\ pc[t] = "write" /\ pc'[t] \in {"fail"}
      /\ \A u \in Thread \ {t} : pc'[u] = pc[u]
  BY <1>t, GotoLocal DEF WriteGivesUp, BufUnlocked, Step
<1>2. ThreadTypes' /\ Local(t) /\ back' = back
  BY <1>t, <1>1 DEF WriteGivesUp, BufUnlocked, ThreadTypes, Local, threadVars, queueVars, statusVars, bufVars, modemVars, readerRest, threadRest, Handled
<1>3. QueueTypes' /\ UNCHANGED <<queue, qlock, accepted, sent>>
  BY <1>t DEF WriteGivesUp, BufUnlocked, QueueTypes, threadVars, queueVars, statusVars, bufVars, modemVars, readerRest, threadRest
<1>4. FlagTypes'
  BY <1>t DEF WriteGivesUp, BufUnlocked, FlagTypes, threadVars, queueVars, statusVars, bufVars, modemVars, readerRest, threadRest
<1>5. StatusTypes'
  BY <1>t DEF WriteGivesUp, BufUnlocked, StatusTypes, threadVars, queueVars, statusVars, bufVars, modemVars, readerRest, threadRest
<1>6. ModemTypes'
  BY <1>t DEF WriteGivesUp, BufUnlocked, ModemTypes, threadVars, queueVars, statusVars, bufVars, modemVars, readerRest, threadRest
<1>7. msg' = msg
  BY DEF WriteGivesUp, BufUnlocked, threadVars, queueVars, statusVars, bufVars, modemVars, readerRest, threadRest
<1>8. QED BY <1>t, <1>1, <1>2, <1>3, <1>4, <1>5, <1>6, <1>7, SendingGood DEF TypeOK, Sending

LEMMA WriteSkippedGood ==
    ASSUME NEW t \in Thread, Inv, WriteSkipped(t)
    PROVE Good(t)
<1>t. ThreadTypes /\ QueueTypes /\ FlagTypes /\ StatusTypes /\ ModemTypes /\ t \in Thread
  BY DEF Inv, TypeOK, Thread
<1>1. /\ pc' \in [Thread -> Step] /\ pc[t] = "write" /\ pc'[t] \in {"skip"}
      /\ \A u \in Thread \ {t} : pc'[u] = pc[u]
  BY <1>t, GotoLocal DEF WriteSkipped, BufUnlocked, Step
<1>2. ThreadTypes' /\ Local(t) /\ back' = back
  BY <1>t, <1>1 DEF WriteSkipped, BufUnlocked, ThreadTypes, Local, threadVars, queueVars, statusVars, bufVars, modemVars, readerRest, threadRest, Handled
<1>3. QueueTypes' /\ UNCHANGED <<queue, qlock, accepted, sent>>
  BY <1>t DEF WriteSkipped, BufUnlocked, QueueTypes, threadVars, queueVars, statusVars, bufVars, modemVars, readerRest, threadRest
<1>4. FlagTypes'
  BY <1>t DEF WriteSkipped, BufUnlocked, FlagTypes, threadVars, queueVars, statusVars, bufVars, modemVars, readerRest, threadRest
<1>5. StatusTypes'
  BY <1>t DEF WriteSkipped, BufUnlocked, StatusTypes, threadVars, queueVars, statusVars, bufVars, modemVars, readerRest, threadRest
<1>6. ModemTypes'
  BY <1>t DEF WriteSkipped, BufUnlocked, ModemTypes, threadVars, queueVars, statusVars, bufVars, modemVars, readerRest, threadRest
<1>7. msg' = msg
  BY DEF WriteSkipped, BufUnlocked, threadVars, queueVars, statusVars, bufVars, modemVars, readerRest, threadRest
<1>8. QED BY <1>t, <1>1, <1>2, <1>3, <1>4, <1>5, <1>6, <1>7, SendingGood DEF TypeOK, Sending

LEMMA HandleAckGood ==
    ASSUME Inv, HandleAck
    PROVE Good(Reader)
<1>t. ThreadTypes /\ QueueTypes /\ FlagTypes /\ StatusTypes /\ ModemTypes /\ Reader \in Thread
  BY DEF Inv, TypeOK, Thread
<1>1. /\ pc' \in [Thread -> Step] /\ pc[Reader] = "handle" /\ pc'[Reader] \in {"enter", "match"}
      /\ \A u \in Thread \ {Reader} : pc'[u] = pc[u]
  BY <1>t, GotoLocal DEF HandleAck, Step
<1>2. ThreadTypes' /\ Local(Reader) /\ back' = back
  BY <1>t, <1>1, NewIsMessage DEF HandleAck, ThreadTypes, Local, threadVars, queueVars, statusVars, bufVars, modemVars, readerRest, threadRest, Handled
<1>3. QueueTypes' /\ UNCHANGED <<queue, qlock, accepted, sent>>
  BY <1>t DEF HandleAck, QueueTypes, threadVars, queueVars, statusVars, bufVars, modemVars, readerRest, threadRest
<1>4. FlagTypes'
  BY <1>t DEF HandleAck, FlagTypes, threadVars, queueVars, statusVars, bufVars, modemVars, readerRest, threadRest
<1>5. StatusTypes'
  BY <1>t, AckedInFunc DEF HandleAck, StatusTypes, threadVars, queueVars, statusVars, bufVars, modemVars, readerRest, threadRest
<1>6. ModemTypes'
  BY <1>t DEF HandleAck, ModemTypes, threadVars, queueVars, statusVars, bufVars, modemVars, readerRest, threadRest
<1>7. QED BY <1>t, <1>1, <1>2, <1>3, <1>4, <1>5, <1>6, QuietGood DEF TypeOK, Sending

LEMMA HandleEpofGood ==
    ASSUME Inv, HandleEpof
    PROVE Good(Reader)
<1>t. ThreadTypes /\ QueueTypes /\ FlagTypes /\ StatusTypes /\ ModemTypes /\ Reader \in Thread
  BY DEF Inv, TypeOK, Thread
<1>1. /\ pc' \in [Thread -> Step] /\ pc[Reader] = "handle" /\ pc'[Reader] \in {"check"}
      /\ \A u \in Thread \ {Reader} : pc'[u] = pc[u]
  BY <1>t, GotoLocal DEF HandleEpof, Step
<1>2. ThreadTypes' /\ Local(Reader) /\ back' = back
  BY <1>t, <1>1 DEF HandleEpof, ThreadTypes, Local, threadVars, queueVars, statusVars, bufVars, modemVars, readerRest, threadRest, Handled
<1>3. QueueTypes' /\ UNCHANGED <<queue, qlock, accepted, sent>>
  BY <1>t DEF HandleEpof, QueueTypes, threadVars, queueVars, statusVars, bufVars, modemVars, readerRest, threadRest
<1>4. FlagTypes'
  BY <1>t DEF HandleEpof, FlagTypes, threadVars, queueVars, statusVars, bufVars, modemVars, readerRest, threadRest
<1>5. StatusTypes'
  BY <1>t DEF HandleEpof, StatusTypes, threadVars, queueVars, statusVars, bufVars, modemVars, readerRest, threadRest
<1>6. ModemTypes'
  BY <1>t DEF HandleEpof, ModemTypes, threadVars, queueVars, statusVars, bufVars, modemVars, readerRest, threadRest
<1>7. QED BY <1>t, <1>1, <1>2, <1>3, <1>4, <1>5, <1>6, QuietGood DEF TypeOK, Sending

LEMMA EpofDoneGood ==
    ASSUME Inv, EpofDone
    PROVE Good(Reader)
<1>t. ThreadTypes /\ QueueTypes /\ FlagTypes /\ StatusTypes /\ ModemTypes /\ Reader \in Thread
  BY DEF Inv, TypeOK, Thread
<1>1. /\ pc' \in [Thread -> Step] /\ pc[Reader] = "epof" /\ pc'[Reader] \in {"idle"}
      /\ \A u \in Thread \ {Reader} : pc'[u] = pc[u]
  BY <1>t, GotoLocal DEF EpofDone, Step
<1>2. ThreadTypes' /\ Local(Reader) /\ back' = back
  BY <1>t, <1>1 DEF EpofDone, ThreadTypes, Local, threadVars, queueVars, statusVars, bufVars, modemVars, readerRest, threadRest, Handled
<1>3. QueueTypes' /\ UNCHANGED <<queue, qlock, accepted, sent>>
  BY <1>t DEF EpofDone, QueueTypes, threadVars, queueVars, statusVars, bufVars, modemVars, readerRest, threadRest
<1>4. FlagTypes'
  BY <1>t DEF EpofDone, FlagTypes, threadVars, queueVars, statusVars, bufVars, modemVars, readerRest, threadRest
<1>5. StatusTypes'
  BY <1>t DEF EpofDone, StatusTypes, threadVars, queueVars, statusVars, bufVars, modemVars, readerRest, threadRest
<1>6. ModemTypes'
  BY <1>t DEF EpofDone, ModemTypes, threadVars, queueVars, statusVars, bufVars, modemVars, readerRest, threadRest
<1>7. QED BY <1>t, <1>1, <1>2, <1>3, <1>4, <1>5, <1>6, QuietGood DEF TypeOK, Sending

LEMMA MatchAckGood ==
    ASSUME Inv, MatchAck
    PROVE Good(Reader)
<1>t. ThreadTypes /\ QueueTypes /\ FlagTypes /\ StatusTypes /\ ModemTypes /\ Reader \in Thread
  BY DEF Inv, TypeOK, Thread
<1>1. /\ pc' \in [Thread -> Step] /\ pc[Reader] = "match" /\ pc'[Reader] \in {"matched", "idle"}
      /\ \A u \in Thread \ {Reader} : pc'[u] = pc[u]
  BY <1>t, GotoLocal DEF MatchAck, Step
<1>2. ThreadTypes' /\ Local(Reader) /\ back' = back
  BY <1>t, <1>1 DEF MatchAck, ThreadTypes, Local, threadVars, queueVars, statusVars, bufVars, modemVars, readerRest, threadRest, Handled
<1>3. QueueTypes' /\ UNCHANGED <<queue, qlock, accepted, sent>>
  BY <1>t DEF MatchAck, QueueTypes, threadVars, queueVars, statusVars, bufVars, modemVars, readerRest, threadRest
<1>4. FlagTypes'
  BY <1>t DEF MatchAck, FlagTypes, threadVars, queueVars, statusVars, bufVars, modemVars, readerRest, threadRest
<1>5. StatusTypes'
  BY <1>t DEF MatchAck, StatusTypes, threadVars, queueVars, statusVars, bufVars, modemVars, readerRest, threadRest
<1>6. ModemTypes'
  BY <1>t DEF MatchAck, ModemTypes, threadVars, queueVars, statusVars, bufVars, modemVars, readerRest, threadRest
<1>7. QED BY <1>t, <1>1, <1>2, <1>3, <1>4, <1>5, <1>6, QuietGood DEF TypeOK, Sending

LEMMA ClearWaitAckGood ==
    ASSUME Inv, ClearWaitAck
    PROVE Good(Reader)
<1>t. ThreadTypes /\ QueueTypes /\ FlagTypes /\ StatusTypes /\ ModemTypes /\ Reader \in Thread
  BY DEF Inv, TypeOK, Thread
<1>1. /\ pc' \in [Thread -> Step] /\ pc[Reader] = "matched" /\ pc'[Reader] \in {"consume"}
      /\ \A u \in Thread \ {Reader} : pc'[u] = pc[u]
  BY <1>t, GotoLocal DEF ClearWaitAck, Step
<1>2. ThreadTypes' /\ Local(Reader) /\ back' = back
  BY <1>t, <1>1 DEF ClearWaitAck, ThreadTypes, Local, threadVars, queueVars, statusVars, bufVars, modemVars, readerRest, threadRest, Handled
<1>3. QueueTypes' /\ UNCHANGED <<queue, qlock, accepted, sent>>
  BY <1>t DEF ClearWaitAck, QueueTypes, threadVars, queueVars, statusVars, bufVars, modemVars, readerRest, threadRest
<1>4. FlagTypes'
  BY <1>t DEF ClearWaitAck, FlagTypes, threadVars, queueVars, statusVars, bufVars, modemVars, readerRest, threadRest
<1>5. StatusTypes'
  BY <1>t DEF ClearWaitAck, StatusTypes, threadVars, queueVars, statusVars, bufVars, modemVars, readerRest, threadRest
<1>6. ModemTypes'
  BY <1>t DEF ClearWaitAck, ModemTypes, threadVars, queueVars, statusVars, bufVars, modemVars, readerRest, threadRest
<1>7. QED BY <1>t, <1>1, <1>2, <1>3, <1>4, <1>5, <1>6, QuietGood DEF TypeOK, Sending

LEMMA ModemReadyGood ==
    ASSUME Inv, ModemReady
    PROVE Good(Para)
<1>t. ThreadTypes /\ QueueTypes /\ FlagTypes /\ StatusTypes /\ ModemTypes /\ Para \in Thread
  BY DEF Inv, TypeOK, Thread
<1>1. /\ pc' \in [Thread -> Step] /\ pc[Para] = "ready" /\ pc'[Para] \in {"param"}
      /\ \A u \in Thread \ {Para} : pc'[u] = pc[u]
  BY <1>t, GotoLocal DEF ModemReady, Step
<1>2. ThreadTypes' /\ Local(Para) /\ back' = back
  BY <1>t, <1>1 DEF ModemReady, ThreadTypes, Local, threadVars, queueVars, statusVars, bufVars, modemVars, readerRest, threadRest, Handled
<1>3. QueueTypes' /\ UNCHANGED <<queue, qlock, accepted, sent>>
  BY <1>t DEF ModemReady, QueueTypes, threadVars, queueVars, statusVars, bufVars, modemVars, readerRest, threadRest
<1>4. FlagTypes'
  BY <1>t DEF ModemReady, FlagTypes, threadVars, queueVars, statusVars, bufVars, modemVars, readerRest, threadRest
<1>5. StatusTypes'
  BY <1>t DEF ModemReady, StatusTypes, threadVars, queueVars, statusVars, bufVars, modemVars, readerRest, threadRest
<1>6. ModemTypes'
  BY <1>t DEF ModemReady, ModemTypes, threadVars, queueVars, statusVars, bufVars, modemVars, readerRest, threadRest
<1>7. QED BY <1>t, <1>1, <1>2, <1>3, <1>4, <1>5, <1>6, QuietGood DEF TypeOK, Sending

LEMMA ModemNotReadyGood ==
    ASSUME Inv, ModemNotReady
    PROVE Good(Para)
<1>t. ThreadTypes /\ QueueTypes /\ FlagTypes /\ StatusTypes /\ ModemTypes /\ Para \in Thread
  BY DEF Inv, TypeOK, Thread
<1>1. /\ pc' \in [Thread -> Step] /\ pc[Para] = "ready" /\ pc'[Para] \in {"idle"}
      /\ \A u \in Thread \ {Para} : pc'[u] = pc[u]
  BY <1>t, GotoLocal DEF ModemNotReady, Step
<1>2. ThreadTypes' /\ Local(Para) /\ back' = back
  BY <1>t, <1>1 DEF ModemNotReady, ThreadTypes, Local, threadVars, queueVars, statusVars, bufVars, modemVars, readerRest, threadRest, Handled
<1>3. QueueTypes' /\ UNCHANGED <<queue, qlock, accepted, sent>>
  BY <1>t DEF ModemNotReady, QueueTypes, threadVars, queueVars, statusVars, bufVars, modemVars, readerRest, threadRest
<1>4. FlagTypes'
  BY <1>t DEF ModemNotReady, FlagTypes, threadVars, queueVars, statusVars, bufVars, modemVars, readerRest, threadRest
<1>5. StatusTypes'
  BY <1>t DEF ModemNotReady, StatusTypes, threadVars, queueVars, statusVars, bufVars, modemVars, readerRest, threadRest
<1>6. ModemTypes'
  BY <1>t DEF ModemNotReady, ModemTypes, threadVars, queueVars, statusVars, bufVars, modemVars, readerRest, threadRest
<1>7. QED BY <1>t, <1>1, <1>2, <1>3, <1>4, <1>5, <1>6, QuietGood DEF TypeOK, Sending

LEMMA SendAllParamsGood ==
    ASSUME Inv, SendAllParams
    PROVE Good(Para)
<1>t. ThreadTypes /\ QueueTypes /\ FlagTypes /\ StatusTypes /\ ModemTypes /\ Para \in Thread
  BY DEF Inv, TypeOK, Thread
<1>1. /\ pc' \in [Thread -> Step] /\ pc[Para] = "param" /\ pc'[Para] \in {"enter", "lock"}
      /\ \A u \in Thread \ {Para} : pc'[u] = pc[u]
  BY <1>t, GotoLocal DEF SendAllParams, Step
<1>2. ThreadTypes' /\ Local(Para) /\ back' = back
  BY <1>t, <1>1, NewIsMessage DEF SendAllParams, ThreadTypes, Local, threadVars, queueVars, statusVars, bufVars, modemVars, readerRest, threadRest, Handled
<1>3. QueueTypes' /\ UNCHANGED <<queue, qlock, accepted, sent>>
  BY <1>t DEF SendAllParams, QueueTypes, threadVars, queueVars, statusVars, bufVars, modemVars, readerRest, threadRest
<1>4. FlagTypes'
  BY <1>t DEF SendAllParams, FlagTypes, threadVars, queueVars, statusVars, bufVars, modemVars, readerRest, threadRest
<1>5. StatusTypes'
  BY <1>t DEF SendAllParams, StatusTypes, threadVars, queueVars, statusVars, bufVars, modemVars, readerRest, threadRest
<1>6. ModemTypes'
  BY <1>t DEF SendAllParams, ModemTypes, threadVars, queueVars, statusVars, bufVars, modemVars, readerRest, threadRest
<1>7. QED BY <1>t, <1>1, <1>2, <1>3, <1>4, <1>5, <1>6, QuietGood DEF TypeOK, Sending

LEMMA ReadGood ==
    ASSUME Inv, Read
    PROVE Good(Reader)
<1>t. /\ ThreadTypes /\ QueueTypes /\ FlagTypes /\ StatusTypes /\ ModemTypes
      /\ Reader \in Thread
  BY DEF Inv, TypeOK, Thread
<1>1. pc[Reader] = "idle" /\ inbox # <<>> /\ inbox' = Tail(inbox)
  BY DEF Read
<1>2. Head(inbox) \in Incoming /\ inbox' \in Seq(Incoming)
  BY <1>t, <1>1 DEF ModemTypes
<1>3. \/ UNCHANGED <<pc, got>>
      \/ pc' = [pc EXCEPT ![Reader] = "handle"] /\ got' = Head(inbox)
  BY DEF Read
<1>4. UNCHANGED <<msg, back, queue, qlock, waitAck, accepted, bufHeld, buffer, payload,
                  resetInCall, mdReset, modemSide, apSide, seen, wanted, modem, running, outbox, sent, faults>>
  BY DEF Read, readerRest, queueVars, bufVars
<1>5. ThreadTypes'
  <2>1. CASE UNCHANGED <<pc, got>> BY <2>1, <1>t, <1>4 DEF ThreadTypes
  <2>2. CASE pc' = [pc EXCEPT ![Reader] = "handle"] /\ got' = Head(inbox)
    BY <2>2, <1>t, <1>2, <1>4 DEF ThreadTypes, Step
  <2>3. QED BY <2>1, <2>2, <1>3
<1>6. Local(Reader) /\ pc'[Reader] \in {"idle", "handle"}
  BY <1>t, <1>1, <1>3, <1>4 DEF Local, ThreadTypes
<1>7. QueueTypes' /\ StatusTypes'
  BY <1>t, <1>4 DEF QueueTypes, StatusTypes
<1>8. ModemTypes'
  BY <1>t, <1>2, <1>4 DEF ModemTypes
<1>9. FlagTypes'
  <2>1. epof' = (epof /\ Head(inbox) # <<"request", None>>)
    BY DEF Read
  <2>2. epof' \in BOOLEAN
    BY <2>1
  <2>3. QED BY <2>2, <1>t, <1>4 DEF FlagTypes
<1>10. QED
  BY <1>t, <1>1, <1>4, <1>5, <1>6, <1>7, <1>8, <1>9, QuietGood DEF TypeOK, Sending

\* The reader starts a message of its own that does not wait.
LEMMA HandleDataGood ==
    ASSUME Inv, HandleData
    PROVE Good(Reader)
<1>t. /\ ThreadTypes /\ QueueTypes /\ FlagTypes /\ StatusTypes /\ ModemTypes
      /\ Reader \in Thread
  BY DEF Inv, TypeOK, Thread
<1>1. /\ pc' \in [Thread -> Step] /\ pc[Reader] = "handle" /\ pc'[Reader] \in {"send", "idle"}
      /\ \A u \in Thread \ {Reader} : pc'[u] = pc[u]
  BY <1>t, GotoLocal DEF HandleData, Step
<1>2. /\ msg' = [msg EXCEPT ![Reader] = IF got[2] \in apSide THEN New("readAck", Reader) ELSE @]
      /\ pc'[Reader] = "send" => got[2] \in apSide
      /\ got' \in {None, got}
      /\ UNCHANGED <<back, queueVars, bufVars, statusVars, modemVars>>
  BY <1>t, GotoLocal DEF HandleData, readerRest, Step, Handled, ThreadTypes, Goto
<1>3. UNCHANGED <<back, queue, qlock, accepted, sent>>
  BY <1>2 DEF queueVars, modemVars
<1>4. ThreadTypes' /\ Local(Reader)
  BY <1>t, <1>1, <1>2, NewIsMessage DEF ThreadTypes, Local
<1>5. QueueTypes' /\ StatusTypes' /\ ModemTypes'
  BY <1>t, <1>2 DEF QueueTypes, StatusTypes, ModemTypes, queueVars, bufVars, statusVars, modemVars
<1>6. FlagTypes'
  BY <1>t, <1>2 DEF FlagTypes, bufVars, statusVars
<1>7. back[Reader] = "bare" /\ qlock # Reader
  BY <1>t, <1>1 DEF Inv, ThreadInv, BareInv, Holding, Sending
<1>8. pc'[Reader] = "send" => msg'[Reader].n = 0 /\ msg'[Reader].kind = "readAck"
  BY <1>t, <1>2 DEF ThreadTypes, New
<1>9. ThreadInv(Reader)'
  BY <1>1, <1>3, <1>7, <1>8 DEF ThreadInv, BareInv, HeldInv, Holding, Sending, NeedAck
<1>10. Order' /\ Frame(Reader) /\ Forward
  BY <1>3 DEF Inv, Order, Frame, Forward
<1>11. QED BY <1>4, <1>5, <1>6, <1>9, <1>10 DEF Good, TypeOK

\* The reader's step and the start of the parameters thread.
LEMMA HandleRequestKeeps ==
    ASSUME Inv, HandleRequest
    PROVE Inv' /\ Forward
<1>t. /\ ThreadTypes /\ QueueTypes /\ FlagTypes /\ StatusTypes /\ ModemTypes
      /\ Reader \in Thread /\ Para \in Thread /\ Reader # Para
  BY ThreadsDiffer DEF Inv, TypeOK, Thread
<1>1. /\ pc[Reader] = "handle" /\ pc[Para] = "idle"
      /\ pc' = [pc EXCEPT ![Reader] = "idle", ![Para] = "check"]
      /\ UNCHANGED <<msg, back, queue, qlock, accepted, modemSide, apSide, seen, wanted, bufVars, modemVars>>
      /\ got' = None /\ waitAck' = None
      /\ resetInCall' = FALSE /\ mdReset' = FALSE /\ epof' = FALSE
  BY DEF HandleRequest, Handled
<1>2. /\ pc' \in [Thread -> Step] /\ pc'[Reader] = "idle" /\ pc'[Para] = "check"
      /\ \A u \in Thread \ {Reader, Para} : pc'[u] = pc[u]
  BY <1>t, <1>1 DEF ThreadTypes, Step
<1>3. TypeOK'
  <2>1. ThreadTypes' /\ QueueTypes' /\ StatusTypes' /\ ModemTypes'
    BY <1>t, <1>1, <1>2
       DEF ThreadTypes, QueueTypes, StatusTypes, ModemTypes, bufVars, modemVars
  <2>2. FlagTypes'
    BY <1>t, <1>1 DEF FlagTypes, bufVars
  <2>3. QED BY <2>1, <2>2 DEF TypeOK
<1>4. ASSUME NEW u \in Thread PROVE ThreadInv(u)'
  <2>1. UNCHANGED <<msg, back, queue, qlock, accepted, sent>>
    BY <1>1 DEF modemVars
  <2>2. CASE u \in {Reader, Para}
    <3>1. ~Sending(u) /\ pc[u] # "pop" /\ ~Sending(u)' /\ pc'[u] # "pop"
      BY <2>2, <1>1, <1>2 DEF Sending
    <3>2. QED BY <2>1, <3>1 DEF Inv, ThreadInv, BareInv, HeldInv, Holding, Sending
  <2>3. CASE u \notin {Reader, Para}
    BY <2>1, <2>3, <1>2 DEF Inv, ThreadInv, BareInv, HeldInv, Holding, Sending, NeedAck
  <2>4. QED BY <2>2, <2>3
<1>5. Order' /\ Forward
  BY <1>1 DEF Inv, Order, Forward, modemVars
<1>6. QED BY <1>3, <1>4, <1>5 DEF Inv

-----------------------------------------------------------------------------
(* SendMessage.                                                             *)

LEMMA StartWriteGood ==
    ASSUME NEW t \in Thread, Inv, pc[t] \in {"send", "down"}, StartWrite(t),
           resetInCall' \in BOOLEAN, mdReset' \in BOOLEAN
    PROVE Good(t)
<1>t. ThreadTypes /\ QueueTypes /\ FlagTypes /\ StatusTypes /\ ModemTypes
  BY DEF Inv, TypeOK
<1>1. /\ pc' = [pc EXCEPT ![t] = "write"]
      /\ waitAck' = IF NeedAck(msg[t]) THEN Id(msg[t]) ELSE waitAck
      /\ payload' = IF msg[t].kind = "param" THEN buffer ELSE payload
      /\ UNCHANGED <<msg, back, got, queue, qlock, accepted, modemSide, apSide, seen, wanted, epof,
                     bufHeld, buffer, modemVars>>
  BY DEF StartWrite
<1>2. pc' \in [Thread -> Step] /\ pc'[t] = "write" /\ \A u \in Thread \ {t} : pc'[u] = pc[u]
  BY <1>t, <1>1 DEF ThreadTypes, Step
<1>3. ThreadTypes' /\ Local(t)
  BY <1>t, <1>1, <1>2 DEF ThreadTypes, Local
<1>4. msg[t] \in Message
  BY <1>t DEF ThreadTypes
<1>5. QueueTypes' /\ UNCHANGED <<queue, qlock, accepted, sent>>
  BY <1>t, <1>1, <1>4, MessageFields DEF QueueTypes, modemVars
<1>6. FlagTypes'
  BY <1>t, <1>1 DEF FlagTypes
<1>7. StatusTypes' /\ ModemTypes'
  BY <1>t, <1>1 DEF StatusTypes, ModemTypes, modemVars
<1>8. Sending(t) /\ Sending(t)' /\ msg' = msg /\ back' = back
  BY <1>1, <1>2 DEF Sending
<1>9. QED BY <1>3, <1>5, <1>6, <1>7, <1>8, SendingGood DEF TypeOK

\* The error handling and the return that follows it.
LEMMA FailureGood ==
    ASSUME NEW t \in Thread, Inv, Sending(t), ErrorHandling(msg[t]), Finish(t, FALSE),
           waitAck' \in AckId \cup {None}, resetInCall' \in BOOLEAN, mdReset' \in BOOLEAN,
           payload' \in Thread \cup {None},
           UNCHANGED <<accepted, apSide, seen, wanted, epof, buffer, modemVars>>
    PROVE Good(t)
<1>t. /\ ThreadTypes /\ QueueTypes /\ FlagTypes /\ StatusTypes /\ ModemTypes
      /\ msg[t] \in Message
  BY DEF Inv, TypeOK, ThreadTypes
<1>1. /\ ThreadTypes' /\ queue' \in Seq(Message) /\ qlock' \in Thread \cup {None}
      /\ Local(t) /\ Frame(t) /\ Order' /\ ThreadInv(t)' /\ Forward
  BY <1>t, FinishGood DEF ModemTypes, modemVars
<1>2. QueueTypes' /\ ModemTypes'
  BY <1>t, <1>1 DEF QueueTypes, ModemTypes, modemVars
<1>3. modemSide' = Acked(modemSide, Id(msg[t])) /\ bufHeld' = BufUnlocked(msg[t])
  BY DEF ErrorHandling
<1>4. StatusTypes'
  BY <1>t, <1>3, AckedMessage DEF StatusTypes
<1>5. FlagTypes'
  <2>1. bufHeld' \in BOOLEAN
    BY <1>3 DEF BufUnlocked
  <2>2. QED BY <1>t, <2>1 DEF FlagTypes
<1>6. QED BY <1>1, <1>2, <1>4, <1>5 DEF Good, TypeOK

LEMMA SendGood ==
    ASSUME NEW t \in Thread, Inv, Send(t)
    PROVE Good(t)
<1>1. pc[t] = "send" /\ StartWrite(t) /\ UNCHANGED <<resetInCall, mdReset>>
  BY DEF Send
<1>2. resetInCall' \in BOOLEAN /\ mdReset' \in BOOLEAN
  BY <1>1 DEF Inv, TypeOK, FlagTypes
<1>3. QED BY <1>1, <1>2, StartWriteGood

LEMMA SendDroppedGood ==
    ASSUME NEW t \in Thread, Inv, SendDropped(t)
    PROVE Good(t)
<1>1. /\ pc[t] = "send" /\ UNCHANGED mdReset
      /\ ErrorHandling(msg[t]) /\ Finish(t, FALSE)
      /\ UNCHANGED <<waitAck, accepted, apSide, seen, wanted, epof, buffer, payload, modemVars>>
  BY DEF SendDropped, Drop
<1>2. resetInCall' \in BOOLEAN
  BY DEF SendDropped
<1>3. /\ waitAck' \in AckId \cup {None} /\ mdReset' \in BOOLEAN
      /\ payload' \in Thread \cup {None}
  BY <1>1 DEF Inv, TypeOK, QueueTypes, FlagTypes, StatusTypes
<1>4. QED BY <1>1, <1>2, <1>3, FailureGood DEF Sending

LEMMA SendDownGood ==
    ASSUME NEW t \in Thread, Inv, SendDown(t)
    PROVE Good(t)
<1>1. pc[t] = "down" /\ mdReset' \in BOOLEAN
  BY DEF SendDown
<1>2. resetInCall' \in BOOLEAN
  BY DEF SendDown
<1>3. CASE OnOff(msg[t])
  <2>1. /\ ErrorHandling(msg[t]) /\ Finish(t, FALSE)
        /\ UNCHANGED <<waitAck, accepted, apSide, seen, wanted, epof, buffer, payload, modemVars>>
    BY <1>3 DEF SendDown, Drop
  <2>2. waitAck' \in AckId \cup {None} /\ payload' \in Thread \cup {None}
    BY <2>1 DEF Inv, TypeOK, QueueTypes, StatusTypes
  <2>3. QED BY <1>1, <1>2, <2>1, <2>2, FailureGood DEF Sending
<1>4. CASE ~OnOff(msg[t])
  BY <1>1, <1>2, <1>4, StartWriteGood DEF SendDown
<1>5. QED BY <1>3, <1>4

LEMMA SendFailsGood ==
    ASSUME NEW t \in Thread, Inv, SendFails(t)
    PROVE Good(t)
<1>1. /\ pc[t] \in {"skip", "fail"} /\ payload' \in {None, payload}
      /\ ErrorHandling(msg[t]) /\ Finish(t, FALSE)
      /\ UNCHANGED <<accepted, apSide, seen, wanted, epof, buffer, modemVars>>
      /\ waitAck' = IF NeedAck(msg[t]) THEN None ELSE waitAck
  BY DEF SendFails
<1>2. resetInCall' \in BOOLEAN
  BY DEF SendFails
<1>3. mdReset' \in BOOLEAN
  BY DEF SendFails
<1>4. waitAck' \in AckId \cup {None} /\ payload' \in Thread \cup {None}
  BY <1>1 DEF Inv, TypeOK, QueueTypes, StatusTypes
<1>5. QED BY <1>1, <1>2, <1>3, <1>4, FailureGood DEF Sending

LEMMA WriteDoneGood ==
    ASSUME NEW t \in Thread, Inv, WriteDone(t)
    PROVE Good(t)
<1>t. /\ ThreadTypes /\ QueueTypes /\ FlagTypes /\ StatusTypes /\ ModemTypes
      /\ msg[t] \in Message
  BY DEF Inv, TypeOK, ThreadTypes
<1>1. /\ pc[t] = "write" /\ Finish(t, TRUE) /\ payload' \in {None, payload}
      /\ outbox' = IF NeedAck(msg[t]) THEN Append(outbox, Id(msg[t])) ELSE outbox
      /\ bufHeld' = BufUnlocked(msg[t])
      /\ UNCHANGED <<waitAck, accepted, statusVars, buffer, modem, running, inbox, faults>>
  BY DEF WriteDone
<1>2. \/ sent' = sent
      \/ /\ msg[t].n # 0
         /\ sent' = [n |-> msg[t].n, by |-> msg[t].by,
                     data |-> IF msg[t].kind = "param" THEN payload ELSE msg[t].by]
  BY DEF WriteDone
<1>3. /\ sent' \in [n : Nat, by : Thread, data : Thread \cup {None}]
      /\ sent' = sent \/ (msg[t].n # 0 /\ sent'.n = msg[t].n)
  BY <1>t, <1>2, MessageFields DEF ModemTypes, StatusTypes
<1>4. /\ ThreadTypes' /\ queue' \in Seq(Message) /\ qlock' \in Thread \cup {None}
      /\ Local(t) /\ Frame(t) /\ Order' /\ ThreadInv(t)' /\ Forward
  BY <1>1, <1>3, FinishGood DEF Sending
<1>5. outbox' \in Seq(AckId)
  BY <1>t, <1>1, MessageFields DEF ModemTypes
<1>6. QueueTypes' /\ StatusTypes' /\ ModemTypes'
  BY <1>t, <1>1, <1>3, <1>4, <1>5, NoneIsNoThread DEF QueueTypes, StatusTypes, ModemTypes, statusVars
<1>7. FlagTypes'
  <2>1. bufHeld' \in BOOLEAN
    BY <1>1 DEF BufUnlocked
  <2>2. QED BY <1>t, <1>1, <2>1 DEF FlagTypes, statusVars
<1>8. QED BY <1>4, <1>6, <1>7 DEF Good, TypeOK

-----------------------------------------------------------------------------
(* The steps that change the queue.                                         *)

LEMMA EnterQueueGood ==
    ASSUME NEW t \in Thread, Inv, EnterQueue(t)
    PROVE Good(t)
<1>t. /\ ThreadTypes /\ QueueTypes /\ FlagTypes /\ StatusTypes /\ ModemTypes
      /\ msg[t] \in Message /\ t # None
  BY NoneIsNoThread DEF Inv, TypeOK, ThreadTypes, Thread
<1>1. /\ pc[t] = "enter" /\ qlock = None /\ Resume(t)
      /\ queue' = Enqueued(Stamped(t)) /\ accepted' = accepted + 1
      /\ UNCHANGED <<qlock, waitAck, statusVars, bufVars, modemVars>>
  BY DEF EnterQueue
<1>2. /\ Stamped(t) \in Message /\ Stamped(t).n = accepted + 1
      /\ accepted \in Nat /\ sent.n \in Nat /\ queue \in Seq(Message)
      /\ \A i \in DOMAIN queue : queue[i].n \in Nat
  BY <1>t, MessageFields DEF Stamped, QueueTypes, ModemTypes, Message
<1>3. queue' = <<>> \/ queue' = Append(queue, Stamped(t))
  BY <1>1 DEF Enqueued
<1>4. queue' \in Seq(Message)
  <2>1. <<>> \in Seq(Message) OBVIOUS
  <2>2. Append(queue, Stamped(t)) \in Seq(Message)
    BY <1>2
  <2>3. QED BY <1>3, <2>1, <2>2
<1>5. ThreadTypes' /\ Local(t) /\ ThreadInv(t)'
  BY <1>t, <1>1, ResumeLocal, FreeThread
<1>6. QueueTypes' /\ StatusTypes' /\ ModemTypes'
  BY <1>t, <1>1, <1>2, <1>4
     DEF QueueTypes, StatusTypes, ModemTypes, statusVars, bufVars, modemVars
<1>7. FlagTypes'
  BY <1>t, <1>1 DEF FlagTypes, statusVars, bufVars
<1>8. Order'
  <2>1. sent' = sent /\ sent.n <= accepted
    BY <1>1 DEF modemVars, Inv, Order
  <2>2. CASE queue' = <<>>
    BY <2>1, <2>2, <1>1, <1>2 DEF Order
  <2>3. CASE queue' = Append(queue, Stamped(t))
    <3>1. /\ DOMAIN queue' = 1 .. Len(queue) + 1 /\ DOMAIN queue = 1 .. Len(queue)
          /\ queue'[Len(queue) + 1] = Stamped(t)
          /\ \A i \in DOMAIN queue : queue'[i] = queue[i]
          /\ Len(queue) \in Nat
      BY <2>3, <1>2
    <3>2. \A i \in DOMAIN queue' :
             i \in Nat /\ (i \in DOMAIN queue \/ i = Len(queue) + 1)
      <4>1. \A i \in 1 .. Len(queue) + 1 :
               i \in Nat /\ (i \in 1 .. Len(queue) \/ i = Len(queue) + 1)
        <5>1. Len(queue) \in Nat BY <3>1
        <5>2. QED BY <5>1
      <4>2. QED BY <3>1, <4>1, Zenon
    <3>3. \A i, j \in DOMAIN queue' : i < j => queue'[i].n < queue'[j].n
      BY <3>1, <3>2, <1>2 DEF Inv, Order
    <3>4. \A i \in DOMAIN queue' : queue'[i].n <= accepted'
      BY <3>1, <3>2, <1>1, <1>2 DEF Inv, Order
    <3>5. \A i \in DOMAIN queue' : 1 < i => sent'.n < queue'[i].n
      BY <2>1, <3>1, <3>2, <1>2 DEF Inv, Order
    <3>6. QED BY <2>1, <3>3, <3>4, <3>5, <1>1, <1>2 DEF Order
  <2>4. QED BY <1>3, <2>2, <2>3
<1>9. Frame(t) /\ Forward
  BY <1>1 DEF Frame, Forward, modemVars
<1>10. QED BY <1>5, <1>6, <1>7, <1>8, <1>9 DEF Good, TypeOK

LEMMA EnterEmptyGood ==
    ASSUME NEW t \in Thread, Inv, EnterEmpty(t)
    PROVE Good(t)
<1>t. /\ ThreadTypes /\ QueueTypes /\ FlagTypes /\ StatusTypes /\ ModemTypes
      /\ msg[t] \in Message
  BY DEF Inv, TypeOK, ThreadTypes
<1>1. /\ pc' \in [Thread -> Step] /\ pc[t] = "enter" /\ pc'[t] = "send"
      /\ \A u \in Thread \ {t} : pc'[u] = pc[u]
  BY <1>t, GotoLocal DEF EnterEmpty, Step
<1>2. /\ qlock = None /\ qlock' = t /\ queue = <<>>
      /\ accepted' = accepted + 1
      /\ msg' = [msg EXCEPT ![t] = Stamped(t)]
      /\ back' = [back EXCEPT ![t] = "enter"]
      /\ queue' = IF NeedAck(msg[t]) THEN <<Stamped(t)>> ELSE queue
      /\ UNCHANGED <<got, waitAck, statusVars, bufVars, modemVars>>
  BY DEF EnterEmpty, MustQueue
<1>3. /\ Stamped(t) \in Message /\ Stamped(t).n = accepted + 1
      /\ NeedAck(Stamped(t)) <=> NeedAck(msg[t])
      /\ accepted \in Nat /\ sent.n \in Nat
  BY <1>t, MessageFields DEF Stamped, QueueTypes, ModemTypes, Message, NeedAck
<1>4. ThreadTypes' /\ Local(t) /\ msg'[t] = Stamped(t) /\ back'[t] = "enter"
  BY <1>t, <1>1, <1>2, <1>3 DEF ThreadTypes, Local
<1>5. queue' \in Seq(Message)
  <2>1. <<>> \in Seq(Message) /\ <<Stamped(t)>> \in Seq(Message)
    BY <1>3
  <2>2. QED BY <1>2, <2>1
<1>6. QueueTypes' /\ StatusTypes' /\ ModemTypes'
  BY <1>t, <1>2, <1>3, <1>5
     DEF QueueTypes, StatusTypes, ModemTypes, statusVars, bufVars, modemVars
<1>7. FlagTypes'
  BY <1>t, <1>2 DEF FlagTypes, statusVars, bufVars
<1>8. sent' = sent /\ sent.n <= accepted
  BY <1>2 DEF modemVars, Inv, Order
<1>9. Order'
  <2>1. CASE queue' = <<>>
    BY <2>1, <1>2, <1>3, <1>8 DEF Order
  <2>2. CASE queue' = <<Stamped(t)>>
    <3>1. DOMAIN queue' = {1} /\ queue'[1] = Stamped(t)
      BY <2>2
    <3>2. QED BY <3>1, <1>2, <1>3, <1>8 DEF Order
  <2>3. QED BY <1>2, <2>1, <2>2
<1>10. ThreadInv(t)'
  <2>1. Sending(t)' /\ pc'[t] # "pop" /\ Holding(t)'
    BY <1>1, <1>4 DEF Sending, Holding
  <2>2. HeldInv(t)'
    BY <1>1, <1>2, <1>3, <1>4, <1>8 DEF HeldInv
  <2>3. BareInv(t)'
    BY <2>1, <1>4 DEF BareInv
  <2>4. QED BY <2>1, <2>2, <2>3, <1>2 DEF ThreadInv
<1>11. Frame(t) /\ Forward
  BY <1>2, <1>8 DEF Frame, Forward
<1>12. QED BY <1>4, <1>6, <1>7, <1>9, <1>10, <1>11 DEF Good, TypeOK

LEMMA ConsumeGood ==
    ASSUME Inv, Consume
    PROVE Good(Reader)
<1>t. /\ ThreadTypes /\ QueueTypes /\ FlagTypes /\ StatusTypes /\ ModemTypes
      /\ Reader \in Thread /\ Reader # None
  BY NoneIsNoThread DEF Inv, TypeOK, Thread
<1>1. /\ pc' \in [Thread -> Step] /\ pc[Reader] = "consume"
      /\ pc'[Reader] = IF queue = <<>> THEN "idle" ELSE "pop"
      /\ \A u \in Thread \ {Reader} : pc'[u] = pc[u]
  BY <1>t, GotoLocal DEF Consume, Step
<1>2. /\ qlock = None /\ qlock' = IF queue = <<>> THEN None ELSE Reader
      /\ UNCHANGED <<msg, back, got, queue, waitAck, accepted, statusVars, bufVars, modemVars>>
  BY DEF Consume
<1>3. ThreadTypes' /\ Local(Reader)
  BY <1>t, <1>1, <1>2 DEF ThreadTypes, Local
<1>4. QueueTypes' /\ StatusTypes' /\ ModemTypes'
  BY <1>t, <1>2 DEF QueueTypes, StatusTypes, ModemTypes, statusVars, bufVars, modemVars
<1>5. FlagTypes'
  BY <1>t, <1>2 DEF FlagTypes, statusVars, bufVars
<1>6. back'[Reader] = "bare"
  BY <1>t, <1>1, <1>2 DEF Inv, ThreadInv, BareInv, Sending
<1>7. ThreadInv(Reader)'
  BY <1>t, <1>1, <1>2, <1>6 DEF ThreadInv, BareInv, HeldInv, Holding, Sending
<1>8. Order' /\ Frame(Reader) /\ Forward
  BY <1>2 DEF Inv, Order, Frame, Forward, modemVars
<1>9. QED BY <1>3, <1>4, <1>5, <1>7, <1>8 DEF Good, TypeOK

LEMMA PopLastGood ==
    ASSUME Inv, PopLast
    PROVE Good(Reader)
<1>t. /\ ThreadTypes /\ QueueTypes /\ FlagTypes /\ StatusTypes /\ ModemTypes
      /\ Reader \in Thread /\ Reader # None
  BY NoneIsNoThread DEF Inv, TypeOK, Thread
<1>1. /\ pc' \in [Thread -> Step] /\ pc[Reader] = "pop" /\ pc'[Reader] = "idle"
      /\ \A u \in Thread \ {Reader} : pc'[u] = pc[u]
  BY <1>t, GotoLocal DEF PopLast, Step
<1>2. /\ queue' = <<>> /\ qlock' = None
      /\ UNCHANGED <<msg, back, got, waitAck, accepted, statusVars, bufVars, modemVars>>
  BY DEF PopLast
<1>3. ThreadTypes' /\ Local(Reader)
  BY <1>t, <1>1, <1>2 DEF ThreadTypes, Local
<1>4. queue' \in Seq(Message)
  <2>1. <<>> \in Seq(Message) OBVIOUS
  <2>2. QED BY <1>2, <2>1
<1>5. QueueTypes' /\ StatusTypes' /\ ModemTypes'
  BY <1>t, <1>2, <1>4
     DEF QueueTypes, StatusTypes, ModemTypes, statusVars, bufVars, modemVars
<1>6. FlagTypes'
  BY <1>t, <1>2 DEF FlagTypes, statusVars, bufVars
<1>7. qlock = Reader /\ back'[Reader] = "bare"
  BY <1>t, <1>1, <1>2 DEF Inv, ThreadInv, BareInv, Holding, Sending
<1>8. ThreadInv(Reader)'
  BY <1>t, <1>1, <1>2, <1>7, FreeThread DEF Sending
<1>9. Order' /\ Frame(Reader) /\ Forward
  BY <1>2, <1>7 DEF Inv, Order, Frame, Forward, modemVars
<1>10. QED BY <1>3, <1>5, <1>6, <1>8, <1>9 DEF Good, TypeOK

LEMMA PopAndSendGood ==
    ASSUME Inv, PopAndSend
    PROVE Good(Reader)
<1>t. /\ ThreadTypes /\ QueueTypes /\ FlagTypes /\ StatusTypes /\ ModemTypes
      /\ Reader \in Thread
  BY DEF Inv, TypeOK, Thread
<1>1. /\ pc' \in [Thread -> Step] /\ pc[Reader] = "pop" /\ pc'[Reader] = "send"
      /\ \A u \in Thread \ {Reader} : pc'[u] = pc[u]
  BY <1>t, GotoLocal DEF PopAndSend, Step
<1>2. /\ Len(queue) > 1 /\ queue' = Tail(queue)
      /\ msg' = [msg EXCEPT ![Reader] = Head(Tail(queue))]
      /\ back' = [back EXCEPT ![Reader] = "consume"]
      /\ UNCHANGED <<got, qlock, waitAck, accepted, statusVars, bufVars, modemVars>>
  BY DEF PopAndSend
<1>3. /\ queue \in Seq(Message) /\ queue' \in Seq(Message) /\ queue' # <<>>
      /\ Len(queue) \in Nat /\ DOMAIN queue = 1 .. Len(queue)
      /\ DOMAIN queue' = 1 .. Len(queue) - 1
      /\ \A i \in DOMAIN queue' : queue'[i] = queue[i + 1]
      /\ Head(queue') = queue[2] /\ Head(queue') \in Message
  BY <1>t, <1>2 DEF QueueTypes
<1>4. ThreadTypes' /\ Local(Reader) /\ msg'[Reader] = Head(queue') /\ back'[Reader] = "consume"
  BY <1>t, <1>1, <1>2, <1>3 DEF ThreadTypes, Local
<1>5. QueueTypes' /\ StatusTypes' /\ ModemTypes'
  BY <1>t, <1>2, <1>3
     DEF QueueTypes, StatusTypes, ModemTypes, statusVars, bufVars, modemVars
<1>6. FlagTypes'
  BY <1>t, <1>2 DEF FlagTypes, statusVars, bufVars
<1>7. qlock = Reader
  BY <1>t, <1>1 DEF Inv, ThreadInv, Holding
<1>8. sent' = sent /\ sent.n < queue[2].n
  BY <1>2, <1>3 DEF Inv, Order, modemVars
<1>9. ThreadInv(Reader)'
  <2>1. Sending(Reader)' /\ pc'[Reader] # "pop" /\ Holding(Reader)' /\ qlock' = Reader
    BY <1>1, <1>2, <1>4, <1>7 DEF Sending, Holding
  <2>2. HeldInv(Reader)'
    BY <1>1, <1>3, <1>4, <1>8 DEF HeldInv
  <2>3. BareInv(Reader)'
    BY <2>1, <1>4 DEF BareInv
  <2>4. QED BY <2>1, <2>2, <2>3 DEF ThreadInv
<1>10. Order'
  <2>1. \A i \in DOMAIN queue' : i \in Nat /\ i + 1 \in DOMAIN queue /\ 1 < i + 1
    BY <1>3
  <2>2. \A i, j \in DOMAIN queue' : i < j => queue'[i].n < queue'[j].n
    BY <1>3, <2>1 DEF Inv, Order
  <2>3. \A i \in DOMAIN queue' : queue'[i].n <= accepted /\ sent.n < queue'[i].n
    BY <1>3, <2>1 DEF Inv, Order
  <2>4. QED BY <1>2, <1>8, <2>2, <2>3 DEF Inv, Order
<1>11. Frame(Reader) /\ Forward
  BY <1>2, <1>7, <1>8 DEF Frame, Forward
<1>12. QED BY <1>4, <1>5, <1>6, <1>9, <1>10, <1>11 DEF Good, TypeOK

LEMMA CheckQueueGood ==
    ASSUME NEW t \in Thread, Inv, CheckQueue(t)
    PROVE Good(t)
<1>t. /\ ThreadTypes /\ QueueTypes /\ FlagTypes /\ StatusTypes /\ ModemTypes /\ t # None
  BY NoneIsNoThread DEF Inv, TypeOK, Thread
<1>1. /\ pc' \in [Thread -> Step] /\ pc[t] = "check" /\ pc'[t] = "flush"
      /\ \A u \in Thread \ {t} : pc'[u] = pc[u]
  BY <1>t, GotoLocal DEF CheckQueue, Step
<1>2. /\ qlock = None /\ queue' = <<>>
      /\ UNCHANGED <<msg, back, got, qlock, waitAck, accepted, resetInCall, mdReset, epof,
                     apSide, seen, wanted, buffer, payload, modemVars>>
  BY DEF CheckQueue
<1>3. modemSide' \subseteq Func
  BY DEF CheckQueue
<1>4. bufHeld' \in BOOLEAN
  BY DEF CheckQueue
<1>5. ThreadTypes' /\ Local(t)
  BY <1>t, <1>1, <1>2 DEF ThreadTypes, Local
<1>6. queue' \in Seq(Message)
  <2>1. <<>> \in Seq(Message) OBVIOUS
  <2>2. QED BY <1>2, <2>1
<1>7. QueueTypes' /\ StatusTypes' /\ ModemTypes'
  BY <1>t, <1>2, <1>3, <1>6 DEF QueueTypes, StatusTypes, ModemTypes, modemVars
<1>8. FlagTypes'
  BY <1>t, <1>2, <1>4 DEF FlagTypes
<1>9. back'[t] = "bare"
  BY <1>t, <1>1, <1>2 DEF Inv, ThreadInv, BareInv, Sending
<1>10. ThreadInv(t)'
  BY <1>t, <1>1, <1>2, <1>9, FreeThread DEF Sending
<1>11. Order' /\ Frame(t) /\ Forward
  BY <1>2 DEF Inv, Order, Frame, Forward, modemVars
<1>12. QED BY <1>5, <1>7, <1>8, <1>10, <1>11 DEF Good, TypeOK

LEMMA FlushQueueGood ==
    ASSUME NEW t \in Thread, Inv, FlushQueue(t)
    PROVE Good(t)
<1>t. /\ ThreadTypes /\ QueueTypes /\ FlagTypes /\ StatusTypes /\ ModemTypes /\ t # None
  BY NoneIsNoThread DEF Inv, TypeOK, Thread
<1>1. /\ pc' \in [Thread -> Step] /\ pc[t] = "flush"
      /\ pc'[t] = IF t = Reader THEN "send" ELSE "ready"
      /\ \A u \in Thread \ {t} : pc'[u] = pc[u]
  BY <1>t, GotoLocal DEF FlushQueue, Step
<1>2. /\ qlock = None /\ queue' = <<>>
      /\ msg' = [msg EXCEPT ![t] = IF t = Reader THEN New("epofAck", Reader) ELSE @]
      /\ UNCHANGED <<back, got, qlock, waitAck, accepted, statusVars, bufVars, modemVars>>
  BY DEF FlushQueue
<1>3. ThreadTypes' /\ Local(t)
  BY <1>t, <1>1, <1>2, NewIsMessage DEF ThreadTypes, Local
<1>4. queue' \in Seq(Message)
  <2>1. <<>> \in Seq(Message) OBVIOUS
  <2>2. QED BY <1>2, <2>1
<1>5. QueueTypes' /\ StatusTypes' /\ ModemTypes'
  BY <1>t, <1>2, <1>4
     DEF QueueTypes, StatusTypes, ModemTypes, statusVars, bufVars, modemVars
<1>6. FlagTypes'
  BY <1>t, <1>2 DEF FlagTypes, statusVars, bufVars
<1>7. back'[t] = "bare"
  BY <1>t, <1>1, <1>2 DEF Inv, ThreadInv, BareInv, Sending
<1>8. t = Reader => msg'[t].n = 0 /\ msg'[t].kind = "epofAck"
  BY <1>t, <1>2 DEF ThreadTypes, New
<1>9. ThreadInv(t)'
  BY <1>t, <1>1, <1>2, <1>7, <1>8
     DEF ThreadInv, BareInv, HeldInv, Holding, Sending, NeedAck
<1>10. Order' /\ Frame(t) /\ Forward
  BY <1>2 DEF Inv, Order, Frame, Forward, modemVars
<1>11. QED BY <1>3, <1>5, <1>6, <1>9, <1>10 DEF Good, TypeOK

-----------------------------------------------------------------------------
(* The modem.                                                               *)

\* A step of the modem leaves the threads and the queue alone.
LEMMA ModemGood ==
    ASSUME Inv, UNCHANGED <<threadRest, sent>>, ModemTypes'
    PROVE Inv' /\ Forward
<1>1. UNCHANGED <<threadVars, queueVars, statusVars, bufVars, sent>>
  BY DEF threadRest
<1>2. ThreadTypes' /\ QueueTypes' /\ StatusTypes'
  BY <1>1 DEF Inv, TypeOK, ThreadTypes, QueueTypes, StatusTypes,
              threadVars, queueVars, statusVars, bufVars
<1>3. FlagTypes'
  BY <1>1 DEF Inv, TypeOK, FlagTypes, statusVars, bufVars
<1>4. Order' /\ Forward
  BY <1>1 DEF Inv, Order, Forward, queueVars
<1>5. ASSUME NEW t \in Thread PROVE ThreadInv(t)'
  BY <1>1 DEF Inv, ThreadInv, BareInv, HeldInv, Holding, Sending, NeedAck, threadVars, queueVars
<1>6. QED BY <1>2, <1>3, <1>4, <1>5 DEF Inv, TypeOK

LEMMA ModemStepKeeps ==
    ASSUME Inv, ModemStep
    PROVE Inv' /\ Forward
<1>t. ModemTypes
  BY DEF Inv, TypeOK
<1>1. CASE Answer
  <2>1. Head(outbox) \in AckId /\ outbox' \in Seq(AckId)
    BY <1>1, <1>t DEF Answer, ModemTypes
  <2>2. inbox' \in Seq(Incoming)
    BY <1>1, <1>t, <2>1 DEF Answer, ModemTypes, Incoming
  <2>3. ModemTypes'
    BY <1>1, <1>t, <2>1, <2>2, AckedInFunc DEF Answer, ModemTypes
  <2>4. QED BY <1>1, <2>3, ModemGood DEF Answer
<1>2. ASSUME NEW f \in Func, RecordData(f) PROVE Inv' /\ Forward
  <2>1. <<"data", f>> \in Incoming
    BY DEF Incoming
  <2>2. ModemTypes'
    BY <1>2, <1>t, <2>1 DEF RecordData, ModemTypes
  <2>3. QED BY <1>2, <2>2, ModemGood DEF RecordData
<1>s. ASSUME StopsRunning, faults' \in Nat PROVE Inv' /\ Forward
  <2>1. <<>> \in Seq(AckId) OBVIOUS
  <2>2. ModemTypes'
    BY <1>s, <1>t, <2>1 DEF StopsRunning, ModemTypes
  <2>3. QED BY <1>s, <2>2, ModemGood DEF StopsRunning
<1>3. CASE ModemReset
  BY <1>3, <1>t, <1>s DEF ModemReset, ModemTypes
<1>4. CASE PowerOff
  BY <1>4, <1>t, <1>s DEF PowerOff, ModemTypes
<1>5. CASE AnnouncePowerOff
  <2>1. <<"epofNotify", None>> \in Incoming
    BY DEF Incoming
  <2>2. ModemTypes'
    BY <1>5, <1>t, <2>1 DEF AnnouncePowerOff, ModemTypes
  <2>3. QED BY <1>5, <2>2, ModemGood DEF AnnouncePowerOff
<1>6. CASE ModemBoot
  <2>1. <<"request", None>> \in Incoming
    BY DEF Incoming
  <2>2. ModemTypes'
    BY <1>6, <1>t, <2>1 DEF ModemBoot, ModemTypes
  <2>3. QED BY <1>6, <2>2, ModemGood DEF ModemBoot
<1>7. QED BY <1>1, <1>2, <1>3, <1>4, <1>5, <1>6 DEF ModemStep

-----------------------------------------------------------------------------
(* The invariant and the theorems.                                          *)

LEMMA InitInv == Init => Inv
<1> SUFFICES ASSUME Init PROVE Inv
  OBVIOUS
<1>1. <<>> \in Seq(Message) /\ <<>> \in Seq(AckId) /\ <<>> \in Seq(Incoming)
  OBVIOUS
<1>2. ThreadTypes
  BY NewIsMessage DEF Init, ThreadTypes, Step
<1>3. QueueTypes /\ FlagTypes /\ StatusTypes
  BY <1>1 DEF Init, QueueTypes, FlagTypes, StatusTypes
<1>4. ModemTypes
  BY <1>1 DEF Init, ModemTypes, Thread
<1>5. Order
  BY DEF Init, Order
<1>6. ASSUME NEW t \in Thread PROVE ThreadInv(t)
  <2>1. pc[t] = "idle" /\ back[t] = "bare" /\ qlock = None /\ t # None
    BY <1>6, NoneIsNoThread DEF Init, Thread
  <2>2. QED BY <2>1 DEF ThreadInv, BareInv, HeldInv, Holding, Sending
<1>7. QED BY <1>2, <1>3, <1>4, <1>5, <1>6 DEF Inv, TypeOK

LEMMA NextInv == Inv /\ [Next]_vars => Inv' /\ Forward
<1> SUFFICES ASSUME Inv, [Next]_vars PROVE Inv' /\ Forward
  OBVIOUS
<1>1. ASSUME NEW t \in Func, StartCall(t) \/ WriteStatus(t) PROVE Inv' /\ Forward
  <2>1. t \in Thread
    BY DEF Thread
  <2>2. Good(t)
    BY <1>1, <2>1, TurnOnGood, TurnOffGood, SetGainGood, SetParamGood, WriteStatusGood
       DEF StartCall
  <2>3. QED BY <2>1, <2>2, GoodKeeps
<1>2. ASSUME NEW t \in Thread, SendStep(t) PROVE Inv' /\ Forward
  <2>1. Good(t)
    BY <1>2, LockBufferGood, LockTimeoutGood, EnterQueueGood, EnterEmptyGood, SendGood,
       SendDroppedGood, SendNotReadyGood, SendDownGood, WriteDoneGood, WriteRetryGood,
       WriteGivesUpGood, WriteSkippedGood, SendFailsGood
       DEF SendStep
  <2>2. QED BY <2>1, GoodKeeps
<1>3. ASSUME NEW t \in Thread, ResetStep(t) PROVE Inv' /\ Forward
  BY <1>3, CheckQueueGood, FlushQueueGood, GoodKeeps DEF ResetStep
<1>4. CASE ReaderStep
  <2>1. Reader \in Thread
    BY DEF Thread
  <2>2. CASE HandleRequest
    BY <2>2, HandleRequestKeeps
  <2>3. CASE ~HandleRequest
    <3>1. Good(Reader)
      BY <1>4, <2>3, ReadGood, HandleAckGood, HandleDataGood, HandleEpofGood, EpofDoneGood,
         MatchAckGood, ClearWaitAckGood, ConsumeGood, PopLastGood, PopAndSendGood
         DEF ReaderStep
    <3>2. QED BY <2>1, <3>1, GoodKeeps
  <2>4. QED BY <2>2, <2>3
<1>5. CASE ParaStep
  <2>1. Para \in Thread
    BY DEF Thread
  <2>2. Good(Para)
    BY <1>5, ModemReadyGood, ModemNotReadyGood, SendAllParamsGood DEF ParaStep
  <2>3. QED BY <2>1, <2>2, GoodKeeps
<1>6. CASE ModemStep
  BY <1>6, ModemStepKeeps
<1>7. CASE UNCHANGED vars
  <2>1. ModemTypes'
    BY <1>7 DEF Inv, TypeOK, ModemTypes, vars, modemVars
  <2>2. QED BY <1>7, <2>1, ModemGood DEF vars, threadRest, modemVars
<1>8. QED BY <1>1, <1>2, <1>3, <1>4, <1>5, <1>6, <1>7 DEF Next

LEMMA InvAlways == Spec => []Inv
BY InitInv, NextInv, PTL DEF Spec

\* Every variable keeps its type, whatever messages fail, are dropped or are
\* flushed by a modem reset.
THEOREM TypesKept == Spec => []TypeOK
<1>1. Inv => TypeOK
  BY DEF Inv
<1>2. QED BY <1>1, InvAlways, PTL

\* SendMessageInQueue, ConsumeMessageInQueue and the two passes of a reset: no two
\* threads are between lock and unlock of mCCCIMessageQueueMutex at once, through
\* every return of SendMessage.
OneHolder == \A t, u \in Thread : Holding(t) /\ Holding(u) => t = u

THEOREM QueueLockExcludes == Spec => []OneHolder
<1>1. Inv => OneHolder
  BY DEF Inv, OneHolder, ThreadInv
<1>2. QED BY <1>1, InvAlways, PTL

\* The modem gets the messages of all callers in the order of acceptance, each at
\* most once, for any number of functions, messages, resets and failed writes,
\* and also when the ring of the queue overflows.
THEOREM MessagesInOrder == Spec => InOrder
<1>1. Inv /\ [Next]_vars => [sent' # sent => sent'.n > sent.n]_vars
  <2>1. ASSUME Inv, [Next]_vars PROVE [sent' # sent => sent'.n > sent.n]_vars
    <3>1. Forward /\ sent.n \in Nat /\ sent'.n \in Nat
      BY <2>1, NextInv DEF Inv, TypeOK, ModemTypes
    <3>2. QED BY <3>1 DEF Forward
  <2>2. QED BY <2>1
<1>2. QED BY <1>1, InvAlways, PTL DEF Spec, InOrder
=============================================================================
