------------------------- MODULE BatchServerProofs -------------------------
(***************************************************************************)
(* Theorems about BatchServer, for any number of clients, runs, calls and  *)
(* crashes, any batch size and type, and with timeouts, unless a theorem   *)
(* says otherwise: that everything has its type and every answer its call; *)
(* which experiment a request is served in, what begin_experiment drops,   *)
(* when the barrier opens and when the last client is counted; and which   *)
(* cache the inference process loads for a request.                        *)
(***************************************************************************)
EXTENDS BatchServer, FiniteSetTheorems, TLAPS

\* While a batch is answered and stored, slot points into it; while one is
\* collected, at its first request.  TypeOK alone is not inductive: an answer
\* takes its client and call from batches[slot].
SlotInRange ==
  /\ inf = "collect" => slot = 1
  /\ inf \in {"reply", "store"} => slot <= Len(batches)

LEMMA InitType == Init => TypeOK /\ SlotInRange
<1>1. Init => TypeOK
  BY DEF Init, TypeOK, Futures, NoFuture
<1>2. Init => SlotInRange
  BY DEF Init, SlotInRange
<1>3. QED
  BY <1>1, <1>2

LEMMA SlotStep == TypeOK /\ SlotInRange /\ [Next]_vars => SlotInRange'
<1> SUFFICES ASSUME TypeOK, SlotInRange, [Next]_vars PROVE SlotInRange'
  OBVIOUS
<1> slot \in Nat /\ batches \in Seq(Requests)
  BY DEF TypeOK
<1> USE DEF SlotInRange, clientVars, frontVars, infVars
<1>1. CASE UNCHANGED infVars
  BY <1>1
<1>2. CASE GetBegin \/ GetRequest \/ TerminateInference \/ InferenceDies
  BY <1>2 DEF GetBegin, GetRequest, TerminateInference, InferenceDies
<1>3. CASE GetSentinel \/ Forward
  <2>1. batches # <<>> => 1 <= Len(batches)
    OBVIOUS
  <2>2. QED
    BY <1>3, <2>1 DEF GetSentinel, Forward
<1>4. CASE Reply
  <2>1. inf = "reply" /\ slot <= Len(batches) /\ batches' = batches
    BY <1>4 DEF Reply
  <2>2. CASE slot < Len(batches)
    BY <1>4, <2>1, <2>2 DEF Reply
  <2>3. CASE ~(slot < Len(batches))
    BY <1>4, <2>1, <2>3, batches # <<>> => 1 <= Len(batches), 1 <= slot DEF Reply, TypeOK
  <2>4. QED
    BY <2>2, <2>3
<1>5. CASE StoreKV
  BY <1>5 DEF StoreKV
<1>6. QED
  BY <1>1, <1>2, <1>3, <1>4, <1>5
  DEF Next, Client, FrontEnd, Inference, vars, Launch, Sync, Validate, Return,
      Timeout, Done, CallRefused, ClientDies, Deliver, RespLoopEnds,
      RequestShutdown, EndGrace, PutSentinel, CloseQueues

LEMMA TypeStep == TypeOK /\ SlotInRange /\ [Next]_vars => TypeOK'
<1> SUFFICES ASSUME TypeOK, SlotInRange, [Next]_vars PROVE TypeOK'
  OBVIOUS
<1> USE DEF TypeOK, clientVars, frontVars, infVars
<1> DEFINE Message == Requests \cup Begins \cup {Sentinel}
<1>1. CASE Launch
  BY <1>1 DEF Launch
<1>2. ASSUME NEW c \in Clients, Sync(c) PROVE TypeOK'
  <2>1. BeginExperiment(run) \in Message
    BY DEF BeginExperiment, Begins
  <2>2. CASE OpenBarrier(c)
    <3>1. recvQueue' \in Seq(Message)
      BY <2>1, <2>2 DEF OpenBarrier
    <3>2. pc' \in [Clients -> {"off", "loading", "syncing", "ready", "validating"}]
      BY <2>2 DEF OpenBarrier
    <3>3. QED
      BY <1>2, <2>2, <3>1, <3>2 DEF Sync, OpenBarrier
  <2>3. CASE WaitAtBarrier(c)
    BY <1>2, <2>3 DEF Sync, WaitAtBarrier
  <2>4. QED
    BY <1>2, <2>2, <2>3 DEF Sync
<1>3. ASSUME NEW c \in Clients, Validate(c) PROVE TypeOK'
  <2>1. \A prefill \in BOOLEAN : Request(c, calls[c] + 1, prefill) \in Message
    BY DEF Request, Requests
  <2>2. recvQueue' \in Seq(Message)
    BY <1>3, <2>1 DEF Validate
  <2>3. Pending \in Futures
    BY DEF Pending, Futures
  <2>4. QED
    BY <1>3, <2>2, <2>3 DEF Validate, Registered
<1>4. ASSUME NEW c \in Clients, Return(c) PROVE TypeOK'
  BY <1>4 DEF Return, Futures
<1>5. Cancelled \in Futures
  BY DEF Cancelled, Futures
<1>6. ASSUME NEW c \in Clients, Timeout(c) PROVE TypeOK'
  BY <1>5, <1>6 DEF Timeout
<1>7. ASSUME NEW c \in Clients, Done(c) PROVE TypeOK'
  <2>1. finished' \in Nat
    BY <1>7 DEF Done
  <2>2. QED
    BY <1>7, <2>1 DEF Done
<1>21. ASSUME NEW c \in Clients, CallRefused(c) PROVE TypeOK'
  BY <1>21 DEF CallRefused
<1>22. ASSUME NEW c \in Clients, ClientDies(c) PROVE TypeOK'
  <2>1. future' \in [Clients -> Futures] /\ abandoned' \subseteq Clients
    BY <1>5, <1>22 DEF ClientDies
  <2>2. /\ crashes' \in Nat
        /\ pc' \in [Clients -> {"off", "loading", "syncing", "ready", "validating"}]
        /\ UNCHANGED <<run, calls, open, applied, srv, synced, finished, respLoop>>
        /\ UNCHANGED <<recvQueue, respQueue, infVars>>
    BY <1>22 DEF ClientDies
  <2>3. QED
    BY <2>1, <2>2
<1>8. CASE Deliver
  <2>1. Head(respQueue) \in Answers /\ respQueue' \in Seq(Answers \cup {Sentinel})
    <3>1. Head(respQueue) \in Answers \cup {Sentinel}
      BY <1>8 DEF Deliver
    <3>2. QED
      BY <1>8, <3>1 DEF Deliver, Sentinel
  <2>2. Resolved(Head(respQueue).call) \in Futures
    BY <2>1 DEF Resolved, Futures, Answers
  <2>3. QED
    BY <1>8, <2>1, <2>2 DEF Deliver
<1>9. CASE RespLoopEnds
  <2>1. respQueue' \in Seq(Answers \cup {Sentinel})
    <3>1. CASE UNCHANGED respQueue
      BY <3>1
    <3>2. CASE respQueue # <<>> /\ respQueue' = Tail(respQueue)
      BY <3>2
    <3>3. QED
      BY <1>9, <3>1, <3>2 DEF RespLoopEnds
  <2>2. QED
    BY <1>9, <2>1 DEF RespLoopEnds
<1>10. CASE RequestShutdown \/ TerminateInference
  BY <1>10 DEF RequestShutdown, TerminateInference
<1>24. CASE CloseQueues
  <2>1. srv' \in {"stopped", "blocked"}
    BY <1>24 DEF CloseQueues
  <2>2. QED
    BY <1>24, <2>1 DEF CloseQueues
<1>23. CASE PutSentinel
  BY <1>23 DEF PutSentinel
<1>11. CASE EndGrace
  BY <1>5, <1>11 DEF EndGrace
<1>12. CASE GetBegin
  <2>1. Head(recvQueue).run \in Nat
    <3>1. Head(recvQueue) \in Message
      BY <1>12 DEF GetBegin
    <3>2. QED
      BY <1>12, <3>1 DEF GetBegin, Requests, Begins, Sentinel
  <2>2. recvQueue' \in Seq(Message)
    BY <1>12 DEF GetBegin
  <2>3. QED
    BY <1>12, <2>1, <2>2 DEF GetBegin
<1>13. CASE GetRequest
  <2>1. Head(recvQueue) \in Requests
    <3>1. Head(recvQueue) \in Message
      BY <1>13 DEF GetRequest
    <3>2. QED
      BY <1>13, <3>1 DEF GetRequest, Begins, Sentinel
  <2>2. batches' \in Seq(Requests) /\ recvQueue' \in Seq(Message)
    BY <1>13, <2>1 DEF GetRequest
  <2>3. QED
    BY <1>13, <2>2 DEF GetRequest
<1>14. CASE GetSentinel
  BY <1>14 DEF GetSentinel
<1>15. CASE Forward \/ InferenceDies
  BY <1>15 DEF Forward, InferenceDies
<1>16. ASSUME inf \in {"reply", "store"}
       PROVE  batches[slot].client \in Clients /\ batches[slot].call \in Nat
  <2>1. batches[slot] \in Requests
    BY <1>16 DEF SlotInRange
  <2>2. QED
    BY <2>1 DEF Requests
<1>17. CASE Reply
  <2>1. Answer(batches[slot].client, batches[slot].call) \in Answers
    BY <1>16, <1>17 DEF Reply, Answer, Answers
  <2>2. respQueue' \in Seq(Answers \cup {Sentinel})
    BY <1>17, <2>1 DEF Reply
  <2>3. QED
    BY <1>17, <2>2 DEF Reply
<1>18. CASE StoreKV
  <2>1. kv' \in [Clients -> Nat]
    BY <1>16, <1>18 DEF StoreKV, Stored
  <2>2. slot' \in Nat \ {0} /\ batches' \in Seq(Requests)
    <3>1. CASE slot < Len(batches)
      BY <1>18, <3>1 DEF StoreKV
    <3>2. CASE ~(slot < Len(batches))
      <4>1. slot' = 1 /\ batches' = <<>>
        BY <1>18, <3>2 DEF StoreKV
      <4>2. QED
        BY <4>1
    <3>3. QED
      BY <3>1, <3>2
  <2>3. inf' \in {"collect", "reply", "store", "stopped"}
    BY <1>18 DEF StoreKV
  <2>4. QED
    BY <1>18, <2>1, <2>2, <2>3 DEF StoreKV
<1>19. CASE UNCHANGED vars
  BY <1>19 DEF vars
<1>20. QED
  BY <1>1, <1>2, <1>3, <1>4, <1>6, <1>7, <1>8, <1>9, <1>10, <1>24, <1>11, <1>12, <1>13,
     <1>14, <1>15, <1>17, <1>18, <1>19, <1>21, <1>22, <1>23
  DEF Next, Client, FrontEnd, Inference

LEMMA TypeInductive == Spec => [](TypeOK /\ SlotInRange)
<1>1. TypeOK /\ SlotInRange /\ [Next]_vars => (TypeOK /\ SlotInRange)'
  BY SlotStep, TypeStep
<1>2. QED
  BY <1>1, InitType, PTL DEF Spec

\* Every variable keeps its type.
THEOREM TypeCorrect == Spec => []TypeOK
BY TypeInductive, PTL
-----------------------------------------------------------------------------
(* Answers match their calls.  AnswersMatch says nothing about the queues, so *)
(* it is not inductive.  The strengthening follows a call of a client that    *)
(* was never cut off through the stores it passes: received, collected,       *)
(* answered.  It lies in at most one place, it is the client's current call,  *)
(* and it is anywhere only while the client's future is pending.  The answer  *)
(* that resolves the future is then the one to the current call.              *)

ReceivedOf(c) ==
  {i \in 1..Len(recvQueue) :
     recvQueue[i].kind = "validate" /\ recvQueue[i].client = c}

\* The slots before slot are answered; from "store" on they all are.
CollectedOf(c) ==
  {i \in slot..Len(batches) :
     inf \in {"collect", "reply"} /\ batches[i].client = c}

AnsweredOf(c) ==
  {i \in 1..Len(respQueue) :
     respQueue[i].kind = "answer" /\ respQueue[i].client = c}

OneCopy(c) ==
  /\ \A i \in ReceivedOf(c) : recvQueue[i].call = calls[c]
  /\ \A i \in CollectedOf(c) : batches[i].call = calls[c]
  /\ \A i \in AnsweredOf(c) : respQueue[i].call = calls[c]
  /\ \A i, j \in ReceivedOf(c) : i = j
  /\ \A i, j \in CollectedOf(c) : i = j
  /\ \A i, j \in AnsweredOf(c) : i = j
  /\ ReceivedOf(c) # {} => CollectedOf(c) = {} /\ AnsweredOf(c) = {}
  /\ CollectedOf(c) # {} => AnsweredOf(c) = {}

FutureTracks(c) ==
  /\ future[c].state # "pending" =>
       ReceivedOf(c) = {} /\ CollectedOf(c) = {} /\ AnsweredOf(c) = {}
  /\ future[c].state = "pending" => pc[c] = "validating"
  /\ future[c].state = "resolved" => future[c].result = calls[c]

CallInv(c) == OneCopy(c) /\ FutureTracks(c)

CallsTracked == \A c \in Clients \ abandoned : CallInv(c)

LEMMA AppendPositions ==
  ASSUME NEW S, NEW q \in Seq(S), NEW m \in S
  PROVE  /\ Len(Append(q, m)) = Len(q) + 1 /\ Len(q) \in Nat
         /\ \A i \in 1..Len(q) : Append(q, m)[i] = q[i]
         /\ Append(q, m)[Len(q) + 1] = m
OBVIOUS

LEMMA TailPositions ==
  ASSUME NEW S, NEW q \in Seq(S), q # <<>>
  PROVE  /\ Len(Tail(q)) = Len(q) - 1 /\ Len(q) \in Nat \ {0}
         /\ \A i \in 1..Len(Tail(q)) : Tail(q)[i] = q[i + 1]
         /\ Head(q) = q[1]
OBVIOUS

\* What a step leaves of one store: the other copies of c's calls stay what
\* they are when the store only loses its first entry, or gains one of others.
LEMMA ReceivedTail ==
  ASSUME TypeOK, NEW c \in Clients, recvQueue # <<>>, recvQueue' = Tail(recvQueue)
  PROVE  \A i \in ReceivedOf(c)' :
           i + 1 \in ReceivedOf(c) /\ i \in Nat /\ recvQueue'[i] = recvQueue[i + 1]
BY TailPositions DEF TypeOK, ReceivedOf

LEMMA AnsweredTail ==
  ASSUME TypeOK, NEW c \in Clients, respQueue # <<>>, respQueue' = Tail(respQueue)
  PROVE  \A i \in AnsweredOf(c)' :
           i + 1 \in AnsweredOf(c) /\ i \in Nat /\ respQueue'[i] = respQueue[i + 1]
BY TailPositions DEF TypeOK, AnsweredOf

LEMMA ReceivedOther ==
  ASSUME TypeOK, NEW c \in Clients,
         NEW m \in Requests \cup Begins \cup {Sentinel},
         ~(m.kind = "validate" /\ m.client = c),
         recvQueue' = Append(recvQueue, m)
  PROVE  /\ ReceivedOf(c)' = ReceivedOf(c)
         /\ \A i \in ReceivedOf(c) : recvQueue'[i] = recvQueue[i]
BY AppendPositions DEF TypeOK, ReceivedOf

LEMMA AnsweredOther ==
  ASSUME TypeOK, NEW c \in Clients,
         NEW m \in Answers \cup {Sentinel},
         ~(m.kind = "answer" /\ m.client = c),
         respQueue' = Append(respQueue, m)
  PROVE  /\ AnsweredOf(c)' = AnsweredOf(c)
         /\ \A i \in AnsweredOf(c) : respQueue'[i] = respQueue[i]
BY AppendPositions DEF TypeOK, AnsweredOf

LEMMA CollectedSame ==
  ASSUME NEW c \in Clients, UNCHANGED <<inf, batches, slot>>
  PROVE  CollectedOf(c)' = CollectedOf(c)
BY DEF CollectedOf

LEMMA ReceivedSame ==
  ASSUME NEW c \in Clients, UNCHANGED recvQueue
  PROVE  ReceivedOf(c)' = ReceivedOf(c)
BY DEF ReceivedOf

LEMMA AnsweredSame ==
  ASSUME NEW c \in Clients, UNCHANGED respQueue
  PROVE  AnsweredOf(c)' = AnsweredOf(c)
BY DEF AnsweredOf

\* A step that leaves c's copies, its call count and its future alone, and c
\* waiting if its future is pending, keeps what holds of c.
LEMMA Unaffected ==
  ASSUME NEW c \in Clients, CallInv(c),
         ReceivedOf(c)' = ReceivedOf(c),
         CollectedOf(c)' = CollectedOf(c),
         AnsweredOf(c)' = AnsweredOf(c),
         \A i \in ReceivedOf(c) : recvQueue'[i] = recvQueue[i],
         \A i \in CollectedOf(c) : batches'[i] = batches[i],
         \A i \in AnsweredOf(c) : respQueue'[i] = respQueue[i],
         calls'[c] = calls[c], future'[c] = future[c],
         future[c].state = "pending" => pc'[c] = "validating"
  PROVE  CallInv(c)'
<1> CallInv(c)
  OBVIOUS
<1>1. OneCopy(c)'
  BY DEF CallInv, OneCopy
<1>2. FutureTracks(c)'
  BY DEF CallInv, FutureTracks
<1>3. QED
  BY <1>1, <1>2 DEF CallInv

\* The steps of the client processes.
LEMMA ClientSteps ==
  ASSUME TypeOK, NEW c \in Clients, c \notin abandoned', CallInv(c),
         NEW d \in Clients, Client(d)
  PROVE  CallInv(c)'
<1> USE DEF clientVars, frontVars, infVars
<1>1. CASE Sync(d)
  <2>1. UNCHANGED <<calls, future, respQueue, inf, batches, slot>>
    BY <1>1 DEF Sync
  <2>2. future[c].state = "pending" => pc'[c] = "validating"
    <3>1. pc[d] = "loading" /\ (future[c].state = "pending" => pc[c] = "validating")
      BY <1>1 DEF Sync, CallInv, FutureTracks
    <3>2. CASE OpenBarrier(d)
      BY <3>1, <3>2 DEF OpenBarrier
    <3>3. CASE WaitAtBarrier(d)
      BY <3>1, <3>3 DEF WaitAtBarrier, TypeOK
    <3>4. QED
      BY <1>1, <3>2, <3>3 DEF Sync
  <2>3. /\ ReceivedOf(c)' = ReceivedOf(c)
        /\ \A i \in ReceivedOf(c) : recvQueue'[i] = recvQueue[i]
    <3>1. CASE OpenBarrier(d)
      <4>1. BeginExperiment(run) \in Begins /\ BeginExperiment(run).kind # "validate"
        BY DEF BeginExperiment, Begins, TypeOK
      <4>2. QED
        BY <3>1, <4>1, ReceivedOther DEF OpenBarrier
    <3>2. CASE WaitAtBarrier(d)
      BY <3>2, ReceivedSame DEF WaitAtBarrier
    <3>3. QED
      BY <1>1, <3>1, <3>2 DEF Sync
  <2>4. QED
    BY <2>1, <2>2, <2>3, CollectedSame, AnsweredSame, Unaffected
<1>2. CASE Validate(d)
  <2>1. PICK prefill \in BOOLEAN :
          recvQueue' = Append(recvQueue, Request(d, calls[d] + 1, prefill))
    BY <1>2 DEF Validate
  <2> DEFINE m == Request(d, calls[d] + 1, prefill)
  <2>2. /\ m \in Requests \cup Begins \cup {Sentinel}
        /\ m.kind = "validate" /\ m.client = d /\ m.call = calls[d] + 1
    BY DEF Request, Requests, TypeOK
  <2>3. UNCHANGED <<respQueue, inf, batches, slot>>
    BY <1>2 DEF Validate
  <2>4. CollectedOf(c)' = CollectedOf(c) /\ AnsweredOf(c)' = AnsweredOf(c)
    BY <2>3, CollectedSame, AnsweredSame
  <2>5. CASE c # d
    <3>1. calls'[c] = calls[c] /\ future'[c] = future[c] /\ pc'[c] = pc[c]
      BY <1>2, <2>5 DEF Validate, Registered, TypeOK
    <3>2. /\ ReceivedOf(c)' = ReceivedOf(c)
          /\ \A i \in ReceivedOf(c) : recvQueue'[i] = recvQueue[i]
      BY <2>1, <2>2, <2>5, ReceivedOther
    <3>3. future[c].state = "pending" => pc'[c] = "validating"
      BY <3>1 DEF CallInv, FutureTracks
    <3>4. QED
      BY <2>3, <2>4, <3>1, <3>2, <3>3, Unaffected
  <2>6. CASE c = d
    <3>1. ReceivedOf(c) = {} /\ CollectedOf(c) = {} /\ AnsweredOf(c) = {}
      BY <1>2, <2>6 DEF Validate, CallInv, FutureTracks
    <3>2. /\ calls'[c] = calls[c] + 1 /\ future'[c] = Pending
          /\ pc'[c] = "validating"
      BY <1>2, <2>6 DEF Validate, Registered, TypeOK
    <3>3. /\ ReceivedOf(c)' = {Len(recvQueue) + 1}
          /\ recvQueue'[Len(recvQueue) + 1].call = calls'[c]
      <4>1. recvQueue \in Seq(Requests \cup Begins \cup {Sentinel})
        BY DEF TypeOK
      <4>2. /\ Len(recvQueue') = Len(recvQueue) + 1 /\ Len(recvQueue) \in Nat
            /\ \A i \in 1..Len(recvQueue) : recvQueue'[i] = recvQueue[i]
            /\ recvQueue'[Len(recvQueue) + 1] = m
        BY <2>1, <2>2, <4>1, AppendPositions
      <4>3. \A i \in 1..Len(recvQueue) :
              ~(recvQueue'[i].kind = "validate" /\ recvQueue'[i].client = c)
        BY <3>1, <4>2 DEF ReceivedOf
      <4>4. QED
        BY <2>2, <2>6, <3>2, <4>2, <4>3 DEF ReceivedOf
    <3>4. OneCopy(c)'
      BY <2>4, <3>1, <3>3 DEF OneCopy
    <3>5. FutureTracks(c)'
      BY <3>2 DEF FutureTracks, Pending
    <3>6. QED
      BY <3>4, <3>5 DEF CallInv
  <2>7. QED
    BY <2>5, <2>6
<1>3. CASE Return(d) \/ Done(d) \/ CallRefused(d)
  <2>1. UNCHANGED <<calls, future, recvQueue, respQueue, inf, batches, slot>>
    BY <1>3 DEF Return, Done, CallRefused
  <2>2. future[c].state = "pending" => pc'[c] = "validating"
    BY <1>3 DEF Return, Done, CallRefused, CallInv, FutureTracks, TypeOK
  <2>3. QED
    BY <2>1, <2>2, ReceivedSame, CollectedSame, AnsweredSame, Unaffected
<1>4. CASE Timeout(d) \/ ClientDies(d)
  <2>1. UNCHANGED <<calls, recvQueue, respQueue, inf, batches, slot>>
    BY <1>4 DEF Timeout, ClientDies
  <2>2. future'[c] = future[c]
    BY <1>4 DEF Timeout, ClientDies, TypeOK
  <2>3. future[c].state = "pending" => pc'[c] = "validating"
    BY <1>4 DEF Timeout, ClientDies, CallInv, FutureTracks, TypeOK
  <2>4. QED
    BY <2>1, <2>2, <2>3, ReceivedSame, CollectedSame, AnsweredSame, Unaffected
<1>5. QED
  BY <1>1, <1>2, <1>3, <1>4 DEF Client

\* The answer at the head resolves its client's future, if that still waits;
\* it was the only copy of the call.
LEMMA DeliverStep ==
  ASSUME TypeOK, NEW c \in Clients, CallInv(c), Deliver
  PROVE  CallInv(c)'
<1> USE DEF clientVars, frontVars, infVars
<1> DEFINE a == Head(respQueue)
<1>1. /\ respQueue # <<>> /\ respQueue' = Tail(respQueue) /\ a.kind = "answer"
      /\ UNCHANGED <<calls, pc, recvQueue, inf, batches, slot>>
  BY DEF Deliver
<1>2. a \in Answers /\ a = respQueue[1] /\ Len(respQueue) \in Nat \ {0}
  <2>1. respQueue \in Seq(Answers \cup {Sentinel})
    BY DEF TypeOK
  <2>2. a = respQueue[1] /\ Len(respQueue) \in Nat \ {0}
    BY <1>1, <2>1, TailPositions
  <2>3. a \in Answers \cup {Sentinel}
    BY <2>1, <2>2
  <2>4. QED
    BY <1>1, <2>2, <2>3 DEF Sentinel
<1>3. ReceivedOf(c)' = ReceivedOf(c) /\ CollectedOf(c)' = CollectedOf(c)
  BY <1>1, ReceivedSame, CollectedSame
<1>4. \A i \in AnsweredOf(c)' :
        i + 1 \in AnsweredOf(c) /\ i \in Nat /\ respQueue'[i] = respQueue[i + 1]
  BY <1>1, AnsweredTail
<1>5. OneCopy(c)'
  <2>1. \A i \in AnsweredOf(c)' : respQueue'[i].call = calls[c]
    BY <1>4 DEF CallInv, OneCopy
  <2>2. \A i, j \in AnsweredOf(c)' : i = j
    BY <1>4 DEF CallInv, OneCopy
  <2>3. AnsweredOf(c)' # {} => AnsweredOf(c) # {}
    BY <1>4
  <2>4. QED
    BY <1>1, <1>3, <2>1, <2>2, <2>3 DEF CallInv, OneCopy
<1>6. FutureTracks(c)'
  <2>1. CASE a.client = c
    <3>1. 1 \in AnsweredOf(c)
      BY <1>1, <1>2, <2>1 DEF AnsweredOf
    <3>2. a.call = calls[c] /\ ReceivedOf(c) = {} /\ CollectedOf(c) = {}
      BY <1>2, <3>1 DEF CallInv, OneCopy
    <3>3. AnsweredOf(c)' = {}
      <4>1. \A i \in AnsweredOf(c) : i = 1
        BY <3>1 DEF CallInv, OneCopy
      <4>2. \A i \in AnsweredOf(c)' : i + 1 = 1 /\ i \in Nat /\ i \in 1..Len(respQueue')
        BY <1>4, <4>1 DEF AnsweredOf
      <4>3. QED
        BY <4>2
    <3>4. future[c].state = "pending"
      BY <3>1 DEF CallInv, FutureTracks
    <3>5. future'[c] = Resolved(a.call)
      BY <2>1, <3>4 DEF Deliver, TypeOK
    <3>6. QED
      BY <1>1, <1>3, <3>2, <3>3, <3>5 DEF FutureTracks, Resolved
  <2>2. CASE a.client # c
    <3>1. future'[c] = future[c]
      BY <1>2, <2>2 DEF Deliver, TypeOK, Answers
    <3>2. AnsweredOf(c)' # {} => AnsweredOf(c) # {}
      BY <1>4
    <3>3. QED
      BY <1>1, <1>3, <3>1, <3>2 DEF CallInv, FutureTracks
  <2>3. QED
    BY <2>1, <2>2
<1>7. QED
  BY <1>5, <1>6 DEF CallInv

\* The other steps of the front end.
LEMMA FrontEndSteps ==
  ASSUME TypeOK, NEW c \in Clients, c \notin abandoned', CallInv(c), FrontEnd
  PROVE  CallInv(c)'
<1> USE DEF clientVars, frontVars, infVars
<1>1. CASE RespLoopEnds
  <2>1. UNCHANGED <<calls, future, pc, recvQueue, inf, batches, slot>>
    BY <1>1 DEF RespLoopEnds
  <2>2. ReceivedOf(c)' = ReceivedOf(c) /\ CollectedOf(c)' = CollectedOf(c)
    BY <2>1, ReceivedSame, CollectedSame
  <2>3. CASE UNCHANGED respQueue
    BY <2>1, <2>2, <2>3, AnsweredSame, Unaffected DEF CallInv, FutureTracks
  <2>4. CASE respQueue # <<>> /\ respQueue' = Tail(respQueue)
    <3>1. \A i \in AnsweredOf(c)' :
            i + 1 \in AnsweredOf(c) /\ i \in Nat /\ respQueue'[i] = respQueue[i + 1]
      BY <2>4, AnsweredTail
    <3>2. OneCopy(c)'
      <4>1. \A i \in AnsweredOf(c)' : respQueue'[i].call = calls[c]
        BY <3>1 DEF CallInv, OneCopy
      <4>2. \A i, j \in AnsweredOf(c)' : i = j
        BY <3>1 DEF CallInv, OneCopy
      <4>3. AnsweredOf(c)' # {} => AnsweredOf(c) # {}
        BY <3>1
      <4>4. QED
        BY <2>1, <2>2, <4>1, <4>2, <4>3 DEF CallInv, OneCopy
    <3>3. FutureTracks(c)'
      BY <2>1, <2>2, <3>1 DEF CallInv, FutureTracks
    <3>4. QED
      BY <3>2, <3>3 DEF CallInv
  <2>5. QED
    BY <1>1, <2>3, <2>4 DEF RespLoopEnds
<1>2. CASE RequestShutdown \/ CloseQueues
  <2>1. UNCHANGED <<calls, future, pc, recvQueue, respQueue, inf, batches, slot>>
    BY <1>2 DEF RequestShutdown, CloseQueues
  <2>2. QED
    BY <2>1, ReceivedSame, CollectedSame, AnsweredSame, Unaffected
    DEF CallInv, FutureTracks
<1>3. CASE EndGrace
  <2>1. UNCHANGED <<calls, respQueue, inf, batches, slot>>
    BY <1>3 DEF EndGrace
  <2>2. pc[c] # "validating"
    BY <1>3 DEF EndGrace
  <2>3. future'[c] = future[c] /\ future[c].state # "pending"
    BY <1>3, <2>2 DEF EndGrace, CallInv, FutureTracks
  <2>4. /\ ReceivedOf(c)' = ReceivedOf(c)
        /\ \A i \in ReceivedOf(c) : recvQueue'[i] = recvQueue[i]
    BY <1>3, ReceivedOther DEF EndGrace, Sentinel
  <2>5. QED
    BY <2>1, <2>3, <2>4, CollectedSame, AnsweredSame, Unaffected
<1>4. CASE TerminateInference
  <2>1. UNCHANGED <<calls, future, pc, recvQueue, respQueue, batches>> /\ inf' = "stopped"
    BY <1>4 DEF TerminateInference
  <2>2. CollectedOf(c)' = {}
    BY <2>1 DEF CollectedOf
  <2>3. QED
    BY <2>1, <2>2, ReceivedSame, AnsweredSame DEF CallInv, OneCopy, FutureTracks
<1>5. CASE PutSentinel
  <2>1. UNCHANGED <<calls, future, pc, recvQueue, inf, batches, slot>>
    BY <1>5 DEF PutSentinel
  <2>2. /\ AnsweredOf(c)' = AnsweredOf(c)
        /\ \A i \in AnsweredOf(c) : respQueue'[i] = respQueue[i]
    BY <1>5, AnsweredOther DEF PutSentinel, Sentinel
  <2>3. QED
    BY <2>1, <2>2, CollectedSame, ReceivedSame, Unaffected DEF CallInv, FutureTracks
<1>6. QED
  BY <1>1, <1>2, <1>3, <1>4, <1>5, DeliverStep DEF FrontEnd

\* What is left of c's copies when the head of _recv_queue is taken and not
\* kept: fewer copies, in the same order.
LEMMA ReceivedDropped ==
  ASSUME TypeOK, NEW c \in Clients, CallInv(c),
         recvQueue # <<>>, recvQueue' = Tail(recvQueue),
         CollectedOf(c)' \subseteq CollectedOf(c),
         \A i \in CollectedOf(c)' : batches'[i] = batches[i],
         UNCHANGED <<calls, future, pc, respQueue>>
  PROVE  CallInv(c)'
<1>1. \A i \in ReceivedOf(c)' :
        i + 1 \in ReceivedOf(c) /\ i \in Nat /\ recvQueue'[i] = recvQueue[i + 1]
  BY ReceivedTail
<1>2. AnsweredOf(c)' = AnsweredOf(c)
  BY AnsweredSame
<1>3. OneCopy(c)'
  <2>1. \A i \in ReceivedOf(c)' : recvQueue'[i].call = calls[c]
    BY <1>1 DEF CallInv, OneCopy
  <2>2. \A i, j \in ReceivedOf(c)' : i = j
    BY <1>1 DEF CallInv, OneCopy
  <2>3. ReceivedOf(c)' # {} => ReceivedOf(c) # {}
    BY <1>1
  <2>4. QED
    BY <1>2, <2>1, <2>2, <2>3 DEF CallInv, OneCopy
<1>4. FutureTracks(c)'
  BY <1>1, <1>2 DEF CallInv, FutureTracks
<1>5. QED
  BY <1>3, <1>4 DEF CallInv

\* The head of _recv_queue becomes the last entry of _request_batches.
LEMMA GetRequestStep ==
  ASSUME TypeOK, SlotInRange, NEW c \in Clients, CallInv(c), GetRequest
  PROVE  CallInv(c)'
<1> USE DEF clientVars, frontVars, infVars
<1> DEFINE r == Head(recvQueue)
           n == Len(batches) + 1
<1>1. /\ recvQueue # <<>> /\ recvQueue' = Tail(recvQueue) /\ r.kind = "validate"
      /\ batches' = Append(batches, r) /\ inf = "collect" /\ slot = 1
      /\ UNCHANGED <<calls, future, pc, respQueue, inf, slot>>
  BY DEF GetRequest, SlotInRange
<1>2. r \in Requests /\ r = recvQueue[1] /\ Len(recvQueue) \in Nat \ {0}
  <2>1. recvQueue \in Seq(Requests \cup Begins \cup {Sentinel})
    BY DEF TypeOK
  <2>2. r = recvQueue[1] /\ Len(recvQueue) \in Nat \ {0}
    BY <1>1, <2>1, TailPositions
  <2>3. r \in Requests \cup Begins \cup {Sentinel}
    BY <2>1, <2>2
  <2>4. QED
    BY <1>1, <2>2, <2>3 DEF Begins, Sentinel
<1>3. /\ Len(batches') = n /\ n \in Nat \ {0}
      /\ \A i \in 1..Len(batches) : batches'[i] = batches[i]
      /\ batches'[n] = r
  <2>1. batches \in Seq(Requests)
    BY DEF TypeOK
  <2>2. QED
    BY <1>1, <1>2, <2>1, AppendPositions
<1>4. CASE r.client # c
  <2>1. CollectedOf(c)' \subseteq CollectedOf(c)
    BY <1>1, <1>3, <1>4 DEF CollectedOf
  <2>2. \A i \in CollectedOf(c)' : batches'[i] = batches[i]
    BY <1>1, <1>3, <2>1 DEF CollectedOf
  <2>3. QED
    BY <1>1, <2>1, <2>2, ReceivedDropped
<1>5. CASE r.client = c
  <2>1. 1 \in ReceivedOf(c)
    BY <1>1, <1>2, <1>5 DEF ReceivedOf
  <2>2. /\ r.call = calls[c] /\ CollectedOf(c) = {} /\ AnsweredOf(c) = {}
        /\ \A i \in ReceivedOf(c) : i = 1
    BY <1>2, <2>1 DEF CallInv, OneCopy
  <2>3. CollectedOf(c)' = {n}
    <3>1. \A i \in 1..Len(batches) : batches'[i].client # c
      BY <1>1, <1>3, <2>2 DEF CollectedOf
    <3>2. QED
      BY <1>1, <1>3, <1>5, <3>1 DEF CollectedOf
  <2>4. ReceivedOf(c)' = {}
    <3>1. \A i \in ReceivedOf(c)' : i + 1 \in ReceivedOf(c) /\ i \in Nat /\ i # 0
      BY <1>1, ReceivedTail DEF ReceivedOf
    <3>2. QED
      BY <2>2, <3>1
  <2>5. AnsweredOf(c)' = {}
    BY <1>1, <2>2, AnsweredSame
  <2>6. OneCopy(c)'
    BY <1>1, <1>3, <2>2, <2>3, <2>4, <2>5 DEF OneCopy
  <2>7. future[c].state = "pending"
    BY <2>1 DEF CallInv, FutureTracks
  <2>8. FutureTracks(c)'
    BY <1>1, <2>7 DEF CallInv, FutureTracks
  <2>9. QED
    BY <2>6, <2>8 DEF CallInv
<1>6. QED
  BY <1>4, <1>5

\* The request in the current slot becomes the last answer.
LEMMA ReplyStep ==
  ASSUME TypeOK, SlotInRange, NEW c \in Clients, CallInv(c), Reply
  PROVE  CallInv(c)'
<1> USE DEF clientVars, frontVars, infVars
<1> DEFINE r == batches[slot]
           a == Answer(r.client, r.call)
           n == Len(respQueue) + 1
<1>1. /\ inf = "reply" /\ slot <= Len(batches) /\ slot \in Nat \ {0}
      /\ Len(batches) \in Nat /\ respQueue' = Append(respQueue, a)
      /\ UNCHANGED <<calls, future, pc, recvQueue, batches>>
  BY DEF Reply, SlotInRange, TypeOK
<1>2. r \in Requests /\ a \in Answers /\ a.kind = "answer" /\ a.client = r.client
      /\ a.call = r.call
  <2>1. r \in Requests
    BY <1>1 DEF TypeOK
  <2>2. QED
    BY <2>1 DEF Answer, Answers, Requests
<1>3. /\ CollectedOf(c)' \subseteq CollectedOf(c)
      /\ slot \notin CollectedOf(c)'
  <2>1. CASE slot < Len(batches)
    BY <1>1, <2>1 DEF Reply, CollectedOf
  <2>2. CASE ~(slot < Len(batches))
    <3>1. inf' = "store"
      BY <2>2 DEF Reply
    <3>2. QED
      BY <3>1 DEF CollectedOf
  <2>3. QED
    BY <2>1, <2>2
<1>4. ReceivedOf(c)' = ReceivedOf(c)
  BY <1>1, ReceivedSame
<1>5. CASE r.client # c
  <2>1. /\ AnsweredOf(c)' = AnsweredOf(c)
        /\ \A i \in AnsweredOf(c) : respQueue'[i] = respQueue[i]
    BY <1>1, <1>2, <1>5, AnsweredOther
  <2>2. OneCopy(c)'
    BY <1>1, <1>3, <1>4, <2>1 DEF CallInv, OneCopy
  <2>3. FutureTracks(c)'
    BY <1>1, <1>3, <1>4, <2>1 DEF CallInv, FutureTracks
  <2>4. QED
    BY <2>2, <2>3 DEF CallInv
<1>6. CASE r.client = c
  <2>1. slot \in CollectedOf(c)
    BY <1>1, <1>6 DEF CollectedOf
  <2>2. /\ r.call = calls[c] /\ ReceivedOf(c) = {} /\ AnsweredOf(c) = {}
        /\ \A i \in CollectedOf(c) : i = slot
    BY <2>1 DEF CallInv, OneCopy
  <2>3. CollectedOf(c)' = {}
    BY <1>3, <2>2
  <2>4. AnsweredOf(c)' = {n} /\ respQueue'[n].call = calls[c]
    <3>1. respQueue \in Seq(Answers \cup {Sentinel})
      BY DEF TypeOK
    <3>2. /\ Len(respQueue') = n /\ Len(respQueue) \in Nat
          /\ \A i \in 1..Len(respQueue) : respQueue'[i] = respQueue[i]
          /\ respQueue'[n] = a
      BY <1>1, <1>2, <3>1, AppendPositions
    <3>3. \A i \in 1..Len(respQueue) :
            ~(respQueue'[i].kind = "answer" /\ respQueue'[i].client = c)
      BY <2>2, <3>2 DEF AnsweredOf
    <3>4. QED
      BY <1>2, <1>6, <2>2, <3>2, <3>3 DEF AnsweredOf
  <2>5. OneCopy(c)'
    BY <1>1, <1>4, <2>2, <2>3, <2>4 DEF OneCopy
  <2>6. future[c].state = "pending"
    BY <2>1 DEF CallInv, FutureTracks
  <2>7. FutureTracks(c)'
    BY <1>1, <2>6 DEF CallInv, FutureTracks
  <2>8. QED
    BY <2>5, <2>7 DEF CallInv
<1>7. QED
  BY <1>5, <1>6

\* The steps of the inference process.
LEMMA InferenceSteps ==
  ASSUME TypeOK, SlotInRange, NEW c \in Clients, CallInv(c), Inference
  PROVE  CallInv(c)'
<1> USE DEF clientVars, frontVars, infVars
<1>1. CASE GetBegin
  <2>1. CollectedOf(c)' = {}
    BY <1>1 DEF GetBegin, CollectedOf, TypeOK
  <2>2. QED
    BY <1>1, <2>1, ReceivedDropped DEF GetBegin
<1>2. CASE GetSentinel
  <2>1. UNCHANGED <<batches, slot>> /\ inf = "collect"
    BY <1>2 DEF GetSentinel
  <2>2. CollectedOf(c)' \subseteq CollectedOf(c)
    BY <2>1 DEF CollectedOf
  <2>3. QED
    BY <1>2, <2>1, <2>2, ReceivedDropped DEF GetSentinel
<1>3. CASE Forward
  <2>1. UNCHANGED <<calls, future, pc, recvQueue, respQueue, batches, slot>>
        /\ inf = "collect" /\ inf' = "reply"
    BY <1>3 DEF Forward
  <2>2. CollectedOf(c)' = CollectedOf(c)
    BY <2>1 DEF CollectedOf
  <2>3. QED
    BY <2>1, <2>2, ReceivedSame, AnsweredSame, Unaffected DEF CallInv, FutureTracks
<1>4. CASE StoreKV \/ InferenceDies
  <2>1. UNCHANGED <<calls, future, pc, recvQueue, respQueue>>
    BY <1>4 DEF StoreKV, InferenceDies
  <2>2. CollectedOf(c)' = {}
    <3>1. CASE StoreKV /\ ~(slot < Len(batches))
      <4>1. batches' = <<>> /\ slot' = 1
        BY <3>1 DEF StoreKV
      <4>2. QED
        BY <4>1 DEF CollectedOf
    <3>2. CASE InferenceDies \/ (StoreKV /\ slot < Len(batches))
      <4>1. inf' \notin {"collect", "reply"}
        BY <3>2 DEF InferenceDies, StoreKV
      <4>2. QED
        BY <4>1 DEF CollectedOf
    <3>3. QED
      BY <1>4, <3>1, <3>2
  <2>3. OneCopy(c)'
    BY <2>1, <2>2, ReceivedSame, AnsweredSame DEF CallInv, OneCopy
  <2>4. FutureTracks(c)'
    BY <2>1, <2>2, ReceivedSame, AnsweredSame DEF CallInv, FutureTracks
  <2>5. QED
    BY <2>3, <2>4 DEF CallInv
<1>5. QED
  BY <1>1, <1>2, <1>3, <1>4, GetRequestStep, ReplyStep DEF Inference

LEMMA CallsTrackedInductive ==
  TypeOK /\ SlotInRange /\ CallsTracked /\ [Next]_vars => CallsTracked'
<1> SUFFICES ASSUME TypeOK, SlotInRange, CallsTracked, [Next]_vars,
                    NEW c \in Clients, c \notin abandoned'
             PROVE  CallInv(c)'
  BY DEF CallsTracked
<1>1. CallInv(c)
  <2>1. abandoned \subseteq abandoned'
    BY DEF Next, Client, FrontEnd, Inference, vars, clientVars, frontVars, infVars,
       Launch, Sync, Validate, Return, Timeout, Done, CallRefused, ClientDies,
       Deliver, RespLoopEnds, RequestShutdown, EndGrace, TerminateInference,
       PutSentinel, CloseQueues, GetBegin, GetRequest, GetSentinel, Forward,
       Reply, StoreKV, InferenceDies
  <2>2. QED
    BY <2>1 DEF CallsTracked
<1>2. CASE Launch \/ UNCHANGED vars
  <2>1. /\ UNCHANGED <<calls, future, recvQueue, respQueue, inf, batches, slot>>
        /\ future[c].state = "pending" => pc'[c] = "validating"
    BY <1>1, <1>2
    DEF Launch, vars, clientVars, frontVars, infVars, CallInv, FutureTracks
  <2>2. QED
    BY <1>1, <2>1, ReceivedSame, CollectedSame, AnsweredSame, Unaffected
<1>3. QED
  BY <1>1, <1>2, ClientSteps, FrontEndSteps, InferenceSteps DEF Next

LEMMA CallsTrackedInitially == Init => CallsTracked
<1> SUFFICES ASSUME Init, NEW c \in Clients PROVE CallInv(c)
  BY DEF CallsTracked
<1>1. ReceivedOf(c) = {} /\ CollectedOf(c) = {} /\ AnsweredOf(c) = {}
  BY DEF Init, ReceivedOf, CollectedOf, AnsweredOf
<1>2. future[c].state = "none"
  BY DEF Init, NoFuture
<1>3. QED
  BY <1>1, <1>2 DEF CallInv, OneCopy, FutureTracks

\* Whatever times out, dies, restarts or is shut down: a client index none of
\* whose calls was ever cut off is only ever given the answer to its own
\* current call.
THEOREM AnswersMatchTheirCalls == Spec => []AnswersMatch
<1>1. CallsTracked => AnswersMatch
  BY DEF CallsTracked, CallInv, FutureTracks, AnswersMatch
<1>2. QED
  BY <1>1, CallsTrackedInitially, CallsTrackedInductive, TypeInductive, PTL DEF Spec

-----------------------------------------------------------------------------
(* The inductive invariant.  An experiment is opened when its begin message  *)
(* is in the queue or has been read.  Clients killed at the barrier may make *)
(* it open before everybody is there, but never twice in one run: what is    *)
(* counted and who has yet to arrive are together too few.  So the begin     *)
(* messages in the queue are in the order of their runs, and a request that  *)
(* somebody waits for is behind the one of its own run.                      *)

Positions  == 1..Len(recvQueue)
IsBegin(i) == recvQueue[i].kind = "begin"

Loading == {c \in Clients : pc[c] = "loading"}
Off     == {c \in Clients : pc[c] = "off"}
Past(c) == pc[c] \in {"ready", "validating"}

Opened ==
  expName = run \/ \E i \in Positions : IsBegin(i) /\ recvQueue[i].run = run

BeginsInOrder ==
  /\ expName <= run
  /\ \A i \in Positions : IsBegin(i) => expName < recvQueue[i].run /\ recvQueue[i].run <= run
  /\ \A i, j \in Positions :
       IsBegin(i) /\ IsBegin(j) /\ i < j => recvQueue[i].run < recvQueue[j].run

CallsCounted ==
  /\ \A i \in Positions :
       recvQueue[i].kind = "validate" => recvQueue[i].call <= calls[recvQueue[i].client]
  /\ \A i \in 1..Len(batches) : batches[i].call <= calls[batches[i].client]

OpensOnce ==
  /\ synced < NumClients
  /\ Opened => synced + Cardinality(Loading) < NumClients
  /\ \A c \in Clients : Past(c) => Opened

AwaitedInRun ==
  /\ \A i \in Positions :
       recvQueue[i].kind = "validate" /\ Awaited(recvQueue[i]) =>
         expName = run \/ \E j \in 1..i - 1 : IsBegin(j) /\ recvQueue[j].run = run
  /\ \A i \in 1..Len(batches) : Awaited(batches[i]) => expName = run

RunInv == BeginsInOrder /\ CallsCounted /\ OpensOnce /\ AwaitedInRun

LEMMA QueueTypes ==
  ASSUME TypeOK
  PROVE  /\ Len(recvQueue) \in Nat
         /\ \A i \in Positions :
              /\ recvQueue[i] \in Requests \cup Begins \cup {Sentinel}
              /\ IsBegin(i) => recvQueue[i].run \in Nat
              /\ recvQueue[i].kind = "validate" =>
                   /\ recvQueue[i].client \in Clients /\ recvQueue[i].call \in Nat
                   /\ ~IsBegin(i)
         /\ Len(batches) \in Nat
         /\ \A i \in 1..Len(batches) : batches[i].client \in Clients /\ batches[i].call \in Nat
<1> recvQueue \in Seq(Requests \cup Begins \cup {Sentinel}) /\ batches \in Seq(Requests)
  BY DEF TypeOK
<1>1. \A i \in Positions : recvQueue[i] \in Requests \cup Begins \cup {Sentinel}
  BY DEF Positions
<1>2. \A i \in 1..Len(batches) : batches[i] \in Requests
  OBVIOUS
<1>3. QED
  BY <1>1, <1>2 DEF Positions, IsBegin, Requests, Begins, Sentinel

LEMMA LoadingFinite ==
  /\ IsFiniteSet(Clients) /\ IsFiniteSet(Loading) /\ IsFiniteSet(Off)
  /\ NumClients \in Nat \ {0} /\ NumClients = Cardinality(Clients)
  /\ Cardinality(Loading) \in Nat /\ Cardinality(Off) \in Nat
  /\ Cardinality(Loading) <= NumClients /\ Cardinality(Off) <= NumClients
<1>1. IsFiniteSet(Clients) /\ NumClients = Cardinality(Clients) /\ NumClients \in Nat \ {0}
  BY ClientsAssumption
<1>2. Loading \in SUBSET Clients /\ Off \in SUBSET Clients
  BY DEF Loading, Off
<1>3. QED
  BY <1>1, <1>2, FS_Subset, FS_CardinalityType

\* A step that leaves the counts and the run alone and adds at most sentinels
\* to the queue, in which clients only come back from a call or end.
LEMMA QuietStep ==
  ASSUME TypeOK, RunInv,
         UNCHANGED <<run, calls, expName, synced>>,
         Positions \subseteq Positions',
         \A i \in Positions : recvQueue'[i] = recvQueue[i],
         \A i \in Positions' \ Positions : recvQueue'[i] = Sentinel,
         batches' = batches \/ batches' = <<>>,
         \A c \in Clients : \/ pc'[c] = pc[c] \/ pc'[c] = "off"
                            \/ pc[c] = "validating" /\ pc'[c] = "ready"
  PROVE  RunInv'
<1> USE DEF RunInv
<1>1. \A i \in Positions' : recvQueue'[i].kind # "stop" =>
        i \in Positions /\ recvQueue'[i] = recvQueue[i]
  BY DEF Sentinel
<1>2. BeginsInOrder'
  BY <1>1 DEF BeginsInOrder, IsBegin
<1>3. CallsCounted'
  BY <1>1 DEF CallsCounted
<1>4. OpensOnce'
  <2>1. Loading' \in SUBSET Loading
    BY DEF Loading
  <2>2. Cardinality(Loading') <= Cardinality(Loading) /\ Cardinality(Loading') \in Nat
    BY <2>1, LoadingFinite, FS_Subset, FS_CardinalityType
  <2>3. Opened' = Opened
    BY <1>1 DEF Opened, IsBegin
  <2>4. \A c \in Clients : Past(c)' => Past(c)
    BY DEF Past
  <2>5. synced \in Nat
    BY DEF TypeOK
  <2>6. QED
    BY <2>2, <2>3, <2>4, <2>5, LoadingFinite DEF OpensOnce
<1>5. AwaitedInRun'
  <2>1. ASSUME NEW r, r.client \in Clients, Awaited(r)' PROVE Awaited(r)
    BY <2>1 DEF Awaited
  <2>2. ASSUME NEW i \in Positions', recvQueue'[i].kind = "validate", Awaited(recvQueue[i])'
        PROVE  (expName = run \/ \E j \in 1..i - 1 : IsBegin(j) /\ recvQueue[j].run = run)'
    <3>1. i \in Positions /\ recvQueue'[i] = recvQueue[i]
      BY <1>1, <2>2
    <3>2. recvQueue[i].client \in Clients
      BY <2>2, <3>1, QueueTypes
    <3>3. Awaited(recvQueue[i])
      BY <2>1, <2>2, <3>1, <3>2 DEF Awaited
    <3>4. \A j \in 1..i - 1 : j \in Positions /\ recvQueue'[j] = recvQueue[j]
      BY <3>1, QueueTypes DEF Positions
    <3>5. QED
      BY <2>2, <3>1, <3>3, <3>4 DEF AwaitedInRun, Awaited, IsBegin
  <2>3. ASSUME NEW i \in 1..Len(batches'), Awaited(batches[i])' PROVE (expName = run)'
    <3>1. CASE batches' = batches
      BY <2>1, <2>3, <3>1, QueueTypes DEF AwaitedInRun, Awaited
    <3>2. CASE batches' = <<>>
      BY <2>3, <3>2
    <3>3. QED
      BY <3>1, <3>2
  <2>4. QED
    BY <2>2, <2>3 DEF AwaitedInRun, Awaited
<1>6. QED
  BY <1>2, <1>3, <1>4, <1>5

\* The next experiment: its begin message is neither queued nor read, and no
\* process waits for a call.
LEMMA LaunchStep == ASSUME TypeOK, RunInv, Launch PROVE RunInv'
<1> USE DEF RunInv
<1>1. /\ run \in Nat /\ run' = run + 1 /\ pc' = [c \in Clients |-> "loading"]
      /\ UNCHANGED <<calls, recvQueue, batches, expName, synced>>
  BY DEF Launch, TypeOK, frontVars, infVars
<1>2. expName \in Nat /\ synced \in Nat
  BY DEF TypeOK
<1>3. BeginsInOrder'
  BY <1>1, <1>2, QueueTypes DEF BeginsInOrder, Positions, IsBegin
<1>4. CallsCounted'
  BY <1>1 DEF CallsCounted, Positions
<1>5. ~Opened'
  BY <1>1, <1>2, QueueTypes DEF Opened, BeginsInOrder, Positions, IsBegin
<1>6. OpensOnce'
  BY <1>1, <1>5 DEF OpensOnce, Past
<1>7. AwaitedInRun'
  <2>1. \A r : r.client \in Clients => ~Awaited(r)'
    BY <1>1 DEF Awaited
  <2>2. QED
    BY <1>1, <2>1, QueueTypes DEF AwaitedInRun, Awaited, Positions
<1>8. QED
  BY <1>3, <1>4, <1>6, <1>7

\* Sync of a client that has to wait: one more counted, one less to arrive.
LEMMA WaitStep ==
  ASSUME TypeOK, RunInv, NEW c \in Clients, pc[c] = "loading",
         synced + 1 # NumClients, WaitAtBarrier(c),
         UNCHANGED <<run, calls, batches, expName>>
  PROVE  RunInv'
<1> USE DEF RunInv
<1>1. /\ pc' = [pc EXCEPT ![c] = "syncing"] /\ synced' = synced + 1
      /\ synced \in Nat /\ UNCHANGED recvQueue
      /\ pc \in [Clients -> {"off", "loading", "syncing", "ready", "validating"}]
  BY DEF WaitAtBarrier, TypeOK
<1>2. BeginsInOrder' /\ CallsCounted'
  BY <1>1 DEF BeginsInOrder, CallsCounted, Positions, IsBegin
<1>3. OpensOnce'
  <2>1. Loading' = Loading \ {c} /\ c \in Loading
    BY <1>1 DEF Loading
  <2>2. Cardinality(Loading') = Cardinality(Loading) - 1
    BY <2>1, LoadingFinite, FS_RemoveElement
  <2>3. Opened' = Opened /\ \A d \in Clients : Past(d)' => Past(d)
    BY <1>1 DEF Opened, Past, Positions, IsBegin
  <2>4. QED
    BY <1>1, <2>2, <2>3, LoadingFinite DEF OpensOnce
<1>4. AwaitedInRun'
  <2>1. \A r : r.client \in Clients /\ Awaited(r)' => Awaited(r)
    BY <1>1 DEF Awaited
  <2>2. QED
    BY <1>1, <2>1, QueueTypes DEF AwaitedInRun, Awaited, Positions, IsBegin
<1>5. QED
  BY <1>2, <1>3, <1>4

\* Sync of the client that opens the experiment.  Had it been opened before,
\* counted and arriving clients would be too few: it has not, so nobody is past
\* the barrier and nobody waits for a call.
LEMMA OpenStep ==
  ASSUME TypeOK, RunInv, NEW c \in Clients, pc[c] = "loading",
         synced + 1 = NumClients, OpenBarrier(c),
         UNCHANGED <<run, calls, batches, expName>>
  PROVE  RunInv'
<1> USE DEF RunInv
<1> DEFINE n == Len(recvQueue) + 1
<1>1. /\ recvQueue' = Append(recvQueue, BeginExperiment(run)) /\ synced' = 0
      /\ pc' = [d \in Clients |-> IF d = c \/ pc[d] = "syncing" THEN "ready" ELSE pc[d]]
      /\ run \in Nat /\ expName \in Nat /\ synced \in Nat
  BY DEF OpenBarrier, TypeOK
<1>2. /\ n \in Nat /\ Positions' = 1..n /\ Positions = 1..n - 1
      /\ \A i \in Positions : recvQueue'[i] = recvQueue[i]
      /\ recvQueue'[n].kind = "begin" /\ recvQueue'[n].run = run
  <2>1. recvQueue \in Seq(Requests \cup Begins \cup {Sentinel})
    BY DEF TypeOK
  <2>2. BeginExperiment(run) \in Requests \cup Begins \cup {Sentinel}
    BY <1>1 DEF BeginExperiment, Begins
  <2>3. QED
    BY <1>1, <2>1, <2>2, AppendPositions DEF BeginExperiment, Positions
<1>3. /\ Loading' = Loading \ {c} /\ c \in Loading
      /\ Cardinality(Loading') = Cardinality(Loading) - 1
      /\ Cardinality(Loading) \in Nat \ {0} /\ Cardinality(Loading') < NumClients
  <2>1. Loading' = Loading \ {c} /\ c \in Loading
    BY <1>1 DEF Loading
  <2>2. Cardinality(Loading') = Cardinality(Loading) - 1
    BY <2>1, LoadingFinite, FS_RemoveElement
  <2>3. Loading # {}
    BY <2>1
  <2>4. Cardinality(Loading) # 0
    BY <2>3, LoadingFinite, FS_EmptySet
  <2>5. QED
    BY <2>1, <2>2, <2>4, LoadingFinite
<1>4. ~Opened
  BY <1>1, <1>3, LoadingFinite DEF OpensOnce
<1>5. BeginsInOrder'
  <2>1. expName < run
    BY <1>1, <1>4 DEF Opened, BeginsInOrder
  <2>2. \A i \in Positions : IsBegin(i) =>
          recvQueue[i].run \in Nat /\ expName < recvQueue[i].run /\ recvQueue[i].run < run
    BY <1>1, <1>4, QueueTypes DEF Opened, BeginsInOrder
  <2>3. \A i \in Positions' : i = n \/ i \in Positions
    BY <1>2
  <2>4. \A i \in Positions : IsBegin(i)' = IsBegin(i)
    BY <1>2 DEF IsBegin
  <2>5. n \notin Positions
    BY <1>2
  <2>6. \A i, j \in Positions' : i < j => i \in Positions
    BY <1>2
  <2>7. \A i \in Positions' : IsBegin(i)' =>
          expName < recvQueue'[i].run /\ recvQueue'[i].run <= run
    BY <1>1, <1>2, <2>1, <2>2, <2>3, <2>4
  <2>8. ASSUME NEW i \in Positions', NEW j \in Positions', IsBegin(i)', IsBegin(j)', i < j
        PROVE  recvQueue'[i].run < recvQueue'[j].run
    BY <1>2, <2>2, <2>3, <2>4, <2>6, <2>8 DEF BeginsInOrder
  <2>9. QED
    BY <1>1, <2>1, <2>7, <2>8 DEF BeginsInOrder
<1>6. CallsCounted'
  BY <1>1, <1>2 DEF CallsCounted
<1>7. OpensOnce'
  <2>1. Opened'
    BY <1>2 DEF Opened, IsBegin
  <2>2. QED
    BY <1>1, <1>3, <2>1, LoadingFinite DEF OpensOnce
<1>8. AwaitedInRun'
  <2>1. \A d \in Clients : pc'[d] # "validating"
    BY <1>1, <1>4 DEF OpensOnce, Past
  <2>2. \A r : r.client \in Clients => ~Awaited(r)'
    BY <2>1 DEF Awaited
  <2>3. \A i \in Positions' : recvQueue'[i].kind = "validate" =>
          recvQueue'[i].client \in Clients
    BY <1>2, QueueTypes
  <2>4. QED
    BY <2>2, <2>3, QueueTypes DEF AwaitedInRun, Awaited
<1>9. QED
  BY <1>5, <1>6, <1>7, <1>8

\* A new call: behind the begin message of its run, or that one has been read.
\* Requests of earlier calls of this client are no longer awaited.
LEMMA ValidateStep == ASSUME TypeOK, RunInv, NEW c \in Clients, Validate(c) PROVE RunInv'
<1> USE DEF RunInv
<1> DEFINE n == Len(recvQueue) + 1
<1>1. PICK prefill \in BOOLEAN :
        recvQueue' = Append(recvQueue, Request(c, calls[c] + 1, prefill))
  BY DEF Validate
<1>2. /\ pc[c] = "ready" /\ pc' = [pc EXCEPT ![c] = "validating"]
      /\ calls' = [calls EXCEPT ![c] = @ + 1] /\ calls \in [Clients -> Nat]
      /\ pc \in [Clients -> {"off", "loading", "syncing", "ready", "validating"}]
      /\ UNCHANGED <<run, batches, expName, synced>>
  BY DEF Validate, TypeOK, infVars
<1>3. /\ n \in Nat /\ Positions' = 1..n /\ Positions = 1..n - 1
      /\ \A i \in Positions : recvQueue'[i] = recvQueue[i]
      /\ recvQueue'[n] = Request(c, calls[c] + 1, prefill)
  <2>1. recvQueue \in Seq(Requests \cup Begins \cup {Sentinel})
    BY DEF TypeOK
  <2>2. Request(c, calls[c] + 1, prefill) \in Requests \cup Begins \cup {Sentinel}
    BY <1>2 DEF Request, Requests
  <2>3. QED
    BY <1>1, <2>1, <2>2, AppendPositions DEF Positions
<1>4. /\ recvQueue'[n].kind = "validate" /\ recvQueue'[n].client = c
      /\ recvQueue'[n].call = calls'[c] /\ recvQueue'[n].kind # "begin"
  BY <1>2, <1>3 DEF Request
<1>5. \A i \in Positions' : i = n \/ (i \in Positions /\ recvQueue'[i] = recvQueue[i])
  BY <1>3
<1>6. BeginsInOrder'
  BY <1>2, <1>4, <1>5 DEF BeginsInOrder, IsBegin
<1>7. CallsCounted'
  <2>1. \A d \in Clients, k \in Nat : k <= calls[d] => k <= calls'[d]
    BY <1>2
  <2>2. \A i \in Positions : recvQueue[i].kind = "validate" =>
          recvQueue[i].call <= calls'[recvQueue[i].client]
    BY <2>1, QueueTypes DEF CallsCounted
  <2>3. \A i \in 1..Len(batches) : batches[i].call <= calls'[batches[i].client]
    BY <2>1, QueueTypes DEF CallsCounted
  <2>4. calls'[c] \in Nat
    BY <1>2
  <2>5. QED
    BY <1>2, <1>4, <1>5, <2>2, <2>3, <2>4 DEF CallsCounted
<1>8. Opened' = Opened /\ Opened
  <2>1. Opened
    BY <1>2 DEF OpensOnce, Past
  <2>2. Opened'
    BY <1>2, <1>3, <2>1 DEF Opened, IsBegin
  <2>3. QED
    BY <2>1, <2>2
<1>9. OpensOnce'
  <2>1. Loading' = Loading
    BY <1>2 DEF Loading
  <2>2. QED
    BY <1>2, <1>8, <2>1 DEF OpensOnce
<1>10. AwaitedInRun'
  <2>1. ASSUME NEW r, r.client \in Clients, r.call \in Nat, r.call <= calls[r.client],
               Awaited(r)'
        PROVE  Awaited(r)
    BY <1>2, <2>1 DEF Awaited
  <2>2. ASSUME NEW i \in Positions', recvQueue'[i].kind = "validate", Awaited(recvQueue[i])'
        PROVE  (expName = run \/ \E j \in 1..i - 1 : IsBegin(j) /\ recvQueue[j].run = run)'
    <3>1. CASE i = n
      BY <1>2, <1>3, <1>8, <3>1 DEF Opened, IsBegin
    <3>2. CASE i \in Positions
      <4>1. recvQueue'[i] = recvQueue[i]
        BY <1>3, <3>2
      <4>2. Awaited(recvQueue[i])
        BY <2>1, <2>2, <3>2, <4>1, QueueTypes DEF CallsCounted, Awaited
      <4>3. \A j \in 1..i - 1 : j \in Positions
        BY <1>3, <3>2
      <4>4. QED
        BY <1>2, <1>3, <2>2, <3>2, <4>1, <4>2, <4>3 DEF AwaitedInRun, Awaited, IsBegin
    <3>3. QED
      BY <1>5, <3>1, <3>2
  <2>3. ASSUME NEW i \in 1..Len(batches'), Awaited(batches[i])' PROVE (expName = run)'
    <3>1. i \in 1..Len(batches) /\ batches'[i] = batches[i]
      BY <1>2
    <3>2. Awaited(batches[i])
      BY <2>1, <2>3, <3>1, QueueTypes DEF CallsCounted, Awaited
    <3>3. QED
      BY <1>2, <3>1, <3>2 DEF AwaitedInRun, Awaited
  <2>4. QED
    BY <2>2, <2>3 DEF AwaitedInRun, Awaited
<1>11. QED
  BY <1>6, <1>7, <1>9, <1>10

\* The head of the queue after its removal.
LEMMA QueueTail ==
  ASSUME TypeOK, recvQueue # <<>>, recvQueue' = Tail(recvQueue)
  PROVE  /\ 1 \in Positions /\ Head(recvQueue) = recvQueue[1]
         /\ \A i \in Positions' : /\ i \in Nat \ {0} /\ i + 1 \in Positions
                                  /\ recvQueue'[i] = recvQueue[i + 1]
         /\ \A i \in Positions : i # 1 =>
              i - 1 \in Positions' /\ recvQueue'[i - 1] = recvQueue[i]
<1>1. recvQueue \in Seq(Requests \cup Begins \cup {Sentinel})
  BY DEF TypeOK
<1>2. /\ Len(recvQueue') = Len(recvQueue) - 1 /\ Len(recvQueue) \in Nat \ {0}
      /\ \A i \in 1..Len(recvQueue') : recvQueue'[i] = recvQueue[i + 1]
      /\ Head(recvQueue) = recvQueue[1]
  BY <1>1, TailPositions
<1>3. \A i \in Positions : i # 1 => i - 1 \in 1..Len(recvQueue') /\ (i - 1) + 1 = i
  BY <1>2 DEF Positions
<1>4. QED
  BY <1>2, <1>3 DEF Positions

\* A message other than begin is taken; a request is collected.
LEMMA TakeStep ==
  ASSUME TypeOK, RunInv, recvQueue # <<>>, recvQueue' = Tail(recvQueue), ~IsBegin(1),
         UNCHANGED <<run, pc, calls, expName, synced>>,
         \/ UNCHANGED batches
         \/ recvQueue[1].kind = "validate" /\ batches' = Append(batches, recvQueue[1])
  PROVE  RunInv'
<1> USE DEF RunInv
<1>1. /\ 1 \in Positions /\ Head(recvQueue) = recvQueue[1]
      /\ \A i \in Positions' : /\ i \in Nat \ {0} /\ i + 1 \in Positions
                               /\ recvQueue'[i] = recvQueue[i + 1]
      /\ \A i \in Positions : i # 1 =>
           i - 1 \in Positions' /\ recvQueue'[i - 1] = recvQueue[i]
  BY QueueTail
<1>2. BeginsInOrder'
  <2>1. \A i \in Positions' : IsBegin(i)' =>
          expName < recvQueue'[i].run /\ recvQueue'[i].run <= run
    BY <1>1 DEF BeginsInOrder, IsBegin
  <2>2. \A i, j \in Positions' : IsBegin(i)' /\ IsBegin(j)' /\ i < j =>
          recvQueue'[i].run < recvQueue'[j].run
    <3>1. \A i, j \in Nat : i < j => i + 1 < j + 1
      OBVIOUS
    <3>2. \A i, j \in Positions' : i < j => i + 1 < j + 1
      BY <1>1, <3>1
    <3>3. ASSUME NEW i \in Positions', NEW j \in Positions', IsBegin(i)', IsBegin(j)', i < j
          PROVE  recvQueue'[i].run < recvQueue'[j].run
      <4>1. IsBegin(i + 1) /\ IsBegin(j + 1)
        BY <1>1, <3>3 DEF IsBegin
      <4>2. recvQueue[i + 1].run < recvQueue[j + 1].run
        BY <1>1, <3>2, <3>3, <4>1 DEF BeginsInOrder
      <4>3. QED
        BY <1>1, <4>2
    <3>4. QED
      BY <3>3
  <2>3. QED
    BY <2>1, <2>2 DEF BeginsInOrder
<1>3. \A i \in 1..Len(batches') :
        \/ i \in 1..Len(batches) /\ batches'[i] = batches[i]
        \/ recvQueue[1].kind = "validate" /\ batches'[i] = recvQueue[1]
  <2>1. CASE UNCHANGED batches
    BY <2>1
  <2>2. CASE recvQueue[1].kind = "validate" /\ batches' = Append(batches, recvQueue[1])
    <3>1. recvQueue[1] \in Requests
      BY <1>1, <2>2, QueueTypes DEF Begins, Sentinel
    <3>3. batches \in Seq(Requests)
      BY DEF TypeOK
    <3>2. QED
      BY <2>2, <3>1, <3>3, AppendPositions
  <2>3. QED
    BY <2>1, <2>2
<1>4. CallsCounted'
  <2>1. \A i \in Positions' : recvQueue'[i].kind = "validate" =>
          recvQueue'[i].call <= calls[recvQueue'[i].client]
    <3> TAKE i \in Positions'
    <3>1. i + 1 \in Positions /\ recvQueue'[i] = recvQueue[i + 1]
      BY <1>1
    <3>2. QED
      BY <3>1 DEF CallsCounted
  <2>2. \A i \in 1..Len(batches') : batches'[i].call <= calls[batches'[i].client]
    BY <1>1, <1>3 DEF CallsCounted
  <2>3. QED
    BY <2>1, <2>2 DEF CallsCounted
<1>5. Opened' = Opened
  <2>1. \A i \in Positions : IsBegin(i) => i - 1 \in Positions' /\ IsBegin(i - 1)'
          /\ recvQueue'[i - 1] = recvQueue[i]
    BY <1>1 DEF IsBegin
  <2>2. \A i \in Positions' : IsBegin(i)' => i + 1 \in Positions /\ IsBegin(i + 1)
          /\ recvQueue'[i] = recvQueue[i + 1]
    BY <1>1 DEF IsBegin
  <2>3. QED
    BY <2>1, <2>2 DEF Opened
<1>6. OpensOnce'
  BY <1>5 DEF OpensOnce, Loading, Past
<1>7. AwaitedInRun'
  <2>1. \A r : Awaited(r)' = Awaited(r)
    BY DEF Awaited
  <2>2. ASSUME NEW i \in Positions', recvQueue'[i].kind = "validate", Awaited(recvQueue[i])'
        PROVE  (expName = run \/ \E j \in 1..i - 1 : IsBegin(j) /\ recvQueue[j].run = run)'
    <3>1. i + 1 \in Positions /\ recvQueue'[i] = recvQueue[i + 1] /\ i \in Nat \ {0}
      BY <1>1
    <3>2. expName = run \/ \E j \in 1..(i + 1) - 1 : IsBegin(j) /\ recvQueue[j].run = run
      BY <2>1, <2>2, <3>1 DEF AwaitedInRun, Awaited
    <3>3. ASSUME NEW j \in 1..(i + 1) - 1, IsBegin(j), recvQueue[j].run = run
          PROVE  j - 1 \in 1..i - 1 /\ IsBegin(j - 1)' /\ recvQueue'[j - 1].run = run
      <4>1. j # 1 /\ j \in Positions
        BY <3>1, <3>3, QueueTypes DEF Positions
      <4>2. j - 1 \in 1..i - 1
        BY <3>1, <3>3, <4>1
      <4>3. recvQueue'[j - 1] = recvQueue[j]
        BY <1>1, <4>1
      <4>4. QED
        BY <3>3, <4>2, <4>3 DEF IsBegin
    <3>4. QED
      BY <3>2, <3>3
  <2>3. Awaited(recvQueue[1]) /\ recvQueue[1].kind = "validate" => expName = run
    BY <1>1 DEF AwaitedInRun, Awaited
  <2>4. \A i \in 1..Len(batches') : Awaited(batches[i])' => (expName = run)'
    BY <1>3, <2>1, <2>3 DEF AwaitedInRun, Awaited
  <2>5. QED
    BY <2>2, <2>4 DEF AwaitedInRun, Awaited
<1>8. QED
  BY <1>2, <1>4, <1>6, <1>7

\* begin_experiment: the message read is older than those behind it, and
\* newer than the experiment served so far.
LEMMA BeginStep == ASSUME TypeOK, RunInv, GetBegin PROVE RunInv'
<1> USE DEF RunInv
<1>1. /\ 1 \in Positions /\ Head(recvQueue) = recvQueue[1]
      /\ \A i \in Positions' : /\ i \in Nat \ {0} /\ i + 1 \in Positions
                               /\ recvQueue'[i] = recvQueue[i + 1]
      /\ \A i \in Positions : i # 1 =>
           i - 1 \in Positions' /\ recvQueue'[i - 1] = recvQueue[i]
  BY QueueTail DEF GetBegin
<1>2. /\ IsBegin(1) /\ expName' = recvQueue[1].run /\ batches' = <<>>
      /\ UNCHANGED <<run, pc, calls, synced>>
  BY <1>1 DEF GetBegin, IsBegin, clientVars, frontVars
<1>3. /\ run \in Nat /\ expName \in Nat /\ expName' \in Nat
      /\ expName < expName' /\ expName' <= run
  BY <1>1, <1>2, QueueTypes DEF BeginsInOrder, TypeOK
<1>4. BeginsInOrder'
  <2>1. \A i \in Positions' : IsBegin(i)' =>
          expName' < recvQueue'[i].run /\ recvQueue'[i].run <= run
    <3>1. \A i \in Nat \ {0} : 1 < i + 1
      OBVIOUS
    <3>2. QED
      BY <1>1, <1>2, <3>1 DEF BeginsInOrder, IsBegin
  <2>2. \A i, j \in Positions' : IsBegin(i)' /\ IsBegin(j)' /\ i < j =>
          recvQueue'[i].run < recvQueue'[j].run
    <3>1. \A i, j \in Nat : i < j => i + 1 < j + 1
      OBVIOUS
    <3>2. QED
      BY <1>1, <3>1 DEF BeginsInOrder, IsBegin
  <2>3. QED
    BY <1>2, <1>3, <2>1, <2>2 DEF BeginsInOrder
<1>5. CallsCounted'
  BY <1>1, <1>2 DEF CallsCounted
<1>6. expName # run
  BY <1>3
<1>7. OpensOnce'
  <2>1. Opened => Opened'
    BY <1>1, <1>2, <1>6 DEF Opened, IsBegin
  <2>2. Opened' => Opened
    BY <1>1, <1>2 DEF Opened, IsBegin
  <2>3. QED
    BY <1>2, <2>1, <2>2 DEF OpensOnce, Loading, Past
<1>8. AwaitedInRun'
  <2>1. \A r : Awaited(r)' = Awaited(r)
    BY <1>2 DEF Awaited
  <2>2. ASSUME NEW i \in Positions', recvQueue'[i].kind = "validate", Awaited(recvQueue[i])'
        PROVE  (expName = run \/ \E j \in 1..i - 1 : IsBegin(j) /\ recvQueue[j].run = run)'
    <3>1. i + 1 \in Positions /\ recvQueue'[i] = recvQueue[i + 1] /\ i \in Nat \ {0}
      BY <1>1
    <3>2. PICK j \in 1..(i + 1) - 1 : IsBegin(j) /\ recvQueue[j].run = run
      BY <1>6, <2>1, <2>2, <3>1 DEF AwaitedInRun, Awaited
    <3>3. CASE j = 1
      BY <1>2, <3>2, <3>3
    <3>4. CASE j # 1
      <4>1. j \in Positions
        BY <3>1, QueueTypes DEF Positions
      <4>2. j - 1 \in 1..i - 1 /\ IsBegin(j - 1)' /\ recvQueue'[j - 1].run = run
        BY <1>1, <3>1, <3>2, <3>4, <4>1 DEF IsBegin
      <4>3. QED
        BY <1>2, <4>2
    <3>5. QED
      BY <3>3, <3>4
  <2>3. QED
    BY <1>2, <2>2 DEF AwaitedInRun, Awaited
<1>9. QED
  BY <1>4, <1>5, <1>7, <1>8

LEMMA RunInvInductive == TypeOK /\ SlotInRange /\ RunInv /\ [Next]_vars => RunInv'
<1> SUFFICES ASSUME TypeOK, SlotInRange, RunInv, [Next]_vars PROVE RunInv'
  OBVIOUS
<1> USE DEF clientVars, frontVars, infVars
<1>1. CASE Launch
  BY <1>1, LaunchStep
<1>2. ASSUME NEW c \in Clients, Sync(c) PROVE RunInv'
  <2>1. pc[c] = "loading" /\ UNCHANGED <<run, calls, batches, expName>>
    BY <1>2 DEF Sync
  <2>2. QED
    BY <1>2, <2>1, OpenStep, WaitStep DEF Sync
<1>3. ASSUME NEW c \in Clients, Validate(c) PROVE RunInv'
  BY <1>3, ValidateStep
<1>4. ASSUME NEW c \in Clients,
             Return(c) \/ Timeout(c) \/ Done(c) \/ CallRefused(c) \/ ClientDies(c)
      PROVE  RunInv'
  <2>1. UNCHANGED <<run, calls, recvQueue, expName, synced, batches>>
    BY <1>4 DEF Return, Timeout, Done, CallRefused, ClientDies
  <2>2. \/ pc' = [pc EXCEPT ![c] = "off"]
        \/ pc[c] = "validating" /\ pc' = [pc EXCEPT ![c] = "ready"]
    BY <1>4 DEF Return, Timeout, Done, CallRefused, ClientDies
  <2>3. \A d \in Clients : \/ pc'[d] = pc[d] \/ pc'[d] = "off"
                           \/ pc[d] = "validating" /\ pc'[d] = "ready"
    BY <2>2 DEF TypeOK
  <2>4. Positions' = Positions
    BY <2>1 DEF Positions
  <2>5. QED
    BY <2>1, <2>3, <2>4, QuietStep
<1>5. CASE EndGrace
  <2>1. UNCHANGED <<run, calls, expName, synced, batches>>
        /\ recvQueue' = Append(recvQueue, Sentinel)
    BY <1>5 DEF EndGrace
  <2>2. recvQueue \in Seq(Requests \cup Begins \cup {Sentinel})
    BY DEF TypeOK
  <2>3. /\ Len(recvQueue') = Len(recvQueue) + 1 /\ Len(recvQueue) \in Nat
        /\ \A i \in Positions : recvQueue'[i] = recvQueue[i]
        /\ recvQueue'[Len(recvQueue) + 1] = Sentinel
    BY <2>1, <2>2, AppendPositions DEF Positions
  <2>4. Positions \subseteq Positions' /\ Positions' \ Positions = {Len(recvQueue) + 1}
    BY <2>3 DEF Positions
  <2>5. \A c \in Clients : pc'[c] = pc[c] \/ pc'[c] = "off"
    BY <1>5 DEF EndGrace
  <2>6. QED
    BY <2>1, <2>3, <2>4, <2>5, QuietStep
<1>6. CASE GetBegin
  BY <1>6, BeginStep
<1>7. CASE GetRequest \/ GetSentinel
  <2>1. /\ recvQueue # <<>> /\ recvQueue' = Tail(recvQueue)
        /\ UNCHANGED <<run, pc, calls, expName, synced>>
    BY <1>7 DEF GetRequest, GetSentinel
  <2>2. recvQueue[1] = Head(recvQueue)
    BY <2>1, QueueTail
  <2>3. ~IsBegin(1)
    BY <1>7, <2>2 DEF GetRequest, GetSentinel, IsBegin, Sentinel
  <2>4. \/ UNCHANGED batches
        \/ recvQueue[1].kind = "validate" /\ batches' = Append(batches, recvQueue[1])
    BY <1>7, <2>2 DEF GetRequest, GetSentinel
  <2>5. QED
    BY <2>1, <2>3, <2>4, TakeStep
<1>8. CASE \/ Deliver \/ RespLoopEnds \/ RequestShutdown \/ TerminateInference
           \/ PutSentinel \/ CloseQueues
           \/ Forward \/ Reply \/ StoreKV \/ InferenceDies \/ UNCHANGED vars
  <2>1. UNCHANGED <<run, pc, calls, recvQueue, expName, synced>>
        /\ (batches' = batches \/ batches' = <<>>)
    BY <1>8 DEF Deliver, RespLoopEnds, RequestShutdown, TerminateInference, PutSentinel,
      CloseQueues, Forward, Reply, StoreKV, InferenceDies, vars
  <2>2. Positions' = Positions
    BY <2>1 DEF Positions
  <2>3. QED
    BY <2>1, <2>2, QuietStep
<1>9. QED
  BY <1>1, <1>2, <1>3, <1>4, <1>5, <1>6, <1>7, <1>8 DEF Next, Client, FrontEnd, Inference

LEMMA RunInvInitially == Init => RunInv
<1> SUFFICES ASSUME Init PROVE RunInv
  OBVIOUS
<1>1. Positions = {} /\ 1..Len(batches) = {} /\ expName = 0 /\ run = 0 /\ synced = 0
  BY DEF Init, Positions
<1>2. Loading = {} /\ \A c \in Clients : ~Past(c)
  BY DEF Init, Loading, Past
<1>3. OpensOnce
  BY <1>1, <1>2, LoadingFinite, FS_EmptySet DEF OpensOnce
<1>4. QED
  BY <1>1, <1>3 DEF RunInv, BeginsInOrder, CallsCounted, AwaitedInRun

LEMMA RunInvHolds == Spec => [](TypeOK /\ RunInv)
<1>1. QED
  BY RunInvInitially, RunInvInductive, TypeInductive, PTL DEF Spec

-----------------------------------------------------------------------------
\* A request that its client still waits for is never run with the result
\* logger, the seed or the caches of another experiment than its client's,
\* also when clients killed at the barrier made an experiment begin early.
THEOREM RequestsAreServedInTheirRun == Spec => []ServedInOwnRun
<1>1. RunInv => ServedInOwnRun
  BY DEF RunInv, AwaitedInRun, ServedInOwnRun
<1>2. QED
  BY <1>1, RunInvHolds, PTL

\* begin_experiment empties the batch being collected: the requests it drops
\* are those nobody waits for any more.
THEOREM BeginDropsOnlyDeadRequests == Spec => []BeginDropsNoLiveRequest
<1>1. TypeOK /\ RunInv => BeginDropsNoLiveRequest
  <2> SUFFICES ASSUME TypeOK, RunInv, recvQueue # <<>>, Head(recvQueue).kind = "begin",
                      NEW i \in 1..Len(batches), Awaited(batches[i])
               PROVE  FALSE
    BY DEF BeginDropsNoLiveRequest
  <2>1. recvQueue \in Seq(Requests \cup Begins \cup {Sentinel})
    BY DEF TypeOK
  <2>2. 1 \in Positions /\ IsBegin(1)
    BY <2>1, TailPositions DEF Positions, IsBegin
  <2>3. expName < recvQueue[1].run /\ recvQueue[1].run <= run
    BY <2>2 DEF RunInv, BeginsInOrder
  <2>4. expName = run
    BY DEF RunInv, AwaitedInRun
  <2>5. QED
    BY <2>2, <2>3, <2>4, QueueTypes DEF TypeOK
<1>2. QED
  BY <1>1, RunInvHolds, PTL

-----------------------------------------------------------------------------
(* _finished counts Done calls and is reset when an experiment opens; clients *)
(* that die or time out are never counted.  While anybody is past the barrier *)
(* it is therefore at most the number of processes that have ended.           *)

DoneCounted == (\E c \in Clients : Past(c)) => finished <= Cardinality(Off)

\* The count of ended processes when no client starts.
LEMMA OffGrows ==
  ASSUME \A c \in Clients : pc[c] = "off" => pc'[c] = "off"
  PROVE  Cardinality(Off) <= Cardinality(Off)' /\ Cardinality(Off)' \in Nat
<1>1. Off \in SUBSET Off' /\ Off' \in SUBSET Clients
  BY DEF Off
<1>2. QED
  BY <1>1, LoadingFinite, FS_Subset, FS_CardinalityType

\* Done of a client: one more has ended.
LEMMA DoneEnds ==
  ASSUME TypeOK, NEW c \in Clients, Done(c)
  PROVE  /\ Off' = Off \cup {c} /\ Cardinality(Off') = Cardinality(Off) + 1
         /\ Cardinality(Off') \in Nat /\ Off' \subseteq Clients
<1>1. pc[c] = "ready" /\ pc' = [pc EXCEPT ![c] = "off"]
  BY DEF Done
<1>2. Off' = Off \cup {c} /\ c \notin Off /\ Off' \subseteq Clients
  BY <1>1 DEF Off, TypeOK
<1>3. Cardinality(Off \cup {c}) = Cardinality(Off) + 1 /\ Cardinality(Off) \in Nat
  BY <1>2, LoadingFinite, FS_AddElement
<1>4. QED
  BY <1>2, <1>3

LEMMA DoneCountedInductive == TypeOK /\ DoneCounted /\ [Next]_vars => DoneCounted'
<1> SUFFICES ASSUME TypeOK, DoneCounted, [Next]_vars PROVE DoneCounted'
  OBVIOUS
<1> USE DEF clientVars, frontVars, infVars
<1> finished \in Nat /\ pc \in [Clients -> {"off", "loading", "syncing", "ready", "validating"}]
  BY DEF TypeOK
<1>1. CASE Launch
  BY <1>1 DEF Launch, DoneCounted, Past
<1>2. ASSUME NEW c \in Clients, Sync(c) PROVE DoneCounted'
  <2>1. CASE OpenBarrier(c)
    <3>1. \A d \in Clients : pc[d] = "off" => pc'[d] = "off"
      BY <1>2, <2>1 DEF Sync, OpenBarrier
    <3>2. finished' = 0
      BY <2>1 DEF OpenBarrier
    <3>3. QED
      BY <3>1, <3>2, OffGrows DEF DoneCounted
  <2>2. CASE WaitAtBarrier(c)
    <3>1. \A d \in Clients : (pc[d] = "off" => pc'[d] = "off") /\ (Past(d)' => Past(d))
      BY <1>2, <2>2 DEF Sync, WaitAtBarrier, Past
    <3>2. finished' = finished
      BY <2>2 DEF WaitAtBarrier
    <3>3. QED
      BY <3>1, <3>2, OffGrows, LoadingFinite DEF DoneCounted
  <2>3. QED
    BY <1>2, <2>1, <2>2 DEF Sync
<1>3. ASSUME NEW c \in Clients, Done(c) PROVE DoneCounted'
  <2>1. finished <= Cardinality(Off)
    BY <1>3 DEF Done, Past, DoneCounted
  <2>2. finished' = 0 \/ finished' = finished + 1
    BY <1>3 DEF Done
  <2>3. QED
    BY <1>3, <2>1, <2>2, DoneEnds, LoadingFinite DEF DoneCounted
<1>4. ASSUME UNCHANGED finished,
             \A c \in Clients : /\ pc[c] = "off" => pc'[c] = "off"
                                /\ Past(c)' => Past(c)
      PROVE  DoneCounted'
  BY <1>4, OffGrows, LoadingFinite DEF DoneCounted
<1>5. ASSUME NEW c \in Clients,
             Validate(c) \/ Return(c) \/ Timeout(c) \/ CallRefused(c) \/ ClientDies(c)
      PROVE  DoneCounted'
  BY <1>4, <1>5 DEF Validate, Return, Timeout, CallRefused, ClientDies, Past
<1>6. CASE EndGrace
  BY <1>4, <1>6 DEF EndGrace, Past
<1>7. CASE \/ Deliver \/ RespLoopEnds \/ RequestShutdown \/ TerminateInference
           \/ PutSentinel \/ CloseQueues \/ Inference \/ UNCHANGED vars
  <2>1. UNCHANGED <<finished, pc>>
    BY <1>7 DEF Deliver, RespLoopEnds, RequestShutdown, TerminateInference, PutSentinel,
      CloseQueues, Inference, GetBegin, GetRequest, GetSentinel, Forward, Reply, StoreKV,
      InferenceDies, vars
  <2>2. QED
    BY <1>4, <2>1 DEF Past
<1>8. QED
  BY <1>1, <1>2, <1>3, <1>5, <1>6, <1>7 DEF Next, Client, FrontEnd

\* The Done that wraps _finished around is the last of its experiment: every
\* client process has ended, whichever of them died or timed out on the way.
THEOREM DoneWrapsOnce == Spec => DoneCountsEveryClient
<1>1. Init => DoneCounted
  BY DEF Init, DoneCounted, Past
<1>2. TypeOK /\ DoneCounted =>
        \A c \in Clients : Done(c) /\ finished' = 0 => \A d \in Clients : pc'[d] = "off"
  <2> SUFFICES ASSUME TypeOK, DoneCounted, NEW c \in Clients, Done(c), finished' = 0
               PROVE  \A d \in Clients : pc'[d] = "off"
    OBVIOUS
  <2>1. finished \in Nat /\ finished <= Cardinality(Off)
    BY DEF Done, DoneCounted, Past, TypeOK
  <2>2. finished + 1 >= NumClients
    BY <2>1 DEF Done
  <2>3. Cardinality(Off') = Cardinality(Off) + 1 /\ Off' \in SUBSET Clients
    BY DoneEnds
  <2>4. Cardinality(Off') = Cardinality(Clients)
    BY <2>1, <2>2, <2>3, LoadingFinite, FS_Subset, FS_CardinalityType
  <2>5. Off' = Clients
    BY <2>3, <2>4, LoadingFinite, FS_Subset
  <2>6. QED
    BY <2>5 DEF Off
<1>3. QED
  BY <1>1, <1>2, DoneCountedInductive, TypeInductive, PTL DEF Spec, DoneCountsEveryClient

-----------------------------------------------------------------------------
(* The barrier.  A client killed while it waits stays counted (the run        *)
(* "overcount" shows it), so that nobody dies by itself is assumed.           *)

Syncing    == {c \in Clients : pc[c] = "syncing"}
Arrives(c) == pc[c] \in {"loading", "syncing"}

Together ==
  /\ crashes = 0
  /\ (\A c \in Clients : ~Past(c)) \/ (\A c \in Clients : ~Arrives(c))
  /\ srv = "serving" =>
       /\ synced = Cardinality(Syncing)
       /\ (\A c \in Clients : Arrives(c)) \/ (\A c \in Clients : ~Arrives(c))

\* Sync while the server serves: everybody has yet to pass the barrier, and
\* the last to arrive takes all of them past it.
LEMMA SyncTogether ==
  ASSUME TypeOK, Together, NEW c \in Clients, Sync(c) PROVE Together'
<1>1. /\ pc[c] = "loading" /\ srv = "serving" /\ srv' = srv /\ crashes' = crashes
      /\ pc \in [Clients -> {"off", "loading", "syncing", "ready", "validating"}]
  BY DEF Sync, TypeOK
<1>2. synced = Cardinality(Syncing) /\ \A d \in Clients : Arrives(d)
  BY <1>1 DEF Together, Arrives
<1>3. /\ Syncing \in SUBSET Clients /\ c \notin Syncing /\ IsFiniteSet(Syncing)
      /\ Cardinality(Syncing \cup {c}) = Cardinality(Syncing) + 1
  <2>1. Syncing \in SUBSET Clients /\ c \notin Syncing
    BY <1>1 DEF Syncing
  <2>2. QED
    BY <2>1, LoadingFinite, FS_Subset, FS_AddElement
<1>4. CASE WaitAtBarrier(c)
  <2>1. Syncing' = Syncing \cup {c}
    BY <1>1, <1>4 DEF WaitAtBarrier, Syncing
  <2>2. \A d \in Clients : Arrives(d)' /\ ~Past(d)'
    BY <1>1, <1>2, <1>4 DEF WaitAtBarrier, Arrives, Past
  <2>3. synced' = Cardinality(Syncing')
    BY <1>2, <1>3, <1>4, <2>1 DEF WaitAtBarrier
  <2>4. QED
    BY <1>1, <2>2, <2>3 DEF Together
<1>5. CASE OpenBarrier(c) /\ synced + 1 = NumClients
  <2>1. Syncing \cup {c} = Clients
    BY <1>2, <1>3, <1>5, LoadingFinite, FS_Subset
  <2>2. \A d \in Clients : pc'[d] = "ready"
    BY <1>5, <2>1 DEF OpenBarrier, Syncing
  <2>3. Syncing' = {} /\ \A d \in Clients : ~Arrives(d)'
    BY <2>2 DEF Syncing, Arrives
  <2>4. synced' = Cardinality(Syncing')
    BY <1>5, <2>3, FS_EmptySet DEF OpenBarrier
  <2>5. QED
    BY <1>1, <2>3, <2>4 DEF Together
<1>6. QED
  BY <1>4, <1>5 DEF Sync

LEMMA TogetherInductive ==
  ASSUME MaxCrashes = 0 PROVE TypeOK /\ Together /\ [Next]_vars => Together'
<1> SUFFICES ASSUME TypeOK, Together, [Next]_vars PROVE Together'
  OBVIOUS
<1> USE DEF clientVars, frontVars, infVars
<1> pc \in [Clients -> {"off", "loading", "syncing", "ready", "validating"}]
  BY DEF TypeOK
<1>1. CASE Launch
  <2>1. Syncing = {} /\ Syncing' = {} /\ \A c \in Clients : ~Past(c)' /\ Arrives(c)'
    BY <1>1 DEF Launch, Syncing, Past, Arrives
  <2>2. UNCHANGED <<crashes, srv, synced>>
    BY <1>1 DEF Launch
  <2>3. QED
    BY <2>1, <2>2 DEF Together
<1>2. ASSUME NEW c \in Clients, Sync(c) PROVE Together'
  BY <1>2, SyncTogether
<1>3. ASSUME UNCHANGED <<crashes, synced>>, srv' = "serving" => srv = "serving",
             \A c \in Clients :
               /\ pc'[c] # pc[c] => pc'[c] \notin {"loading", "syncing"}
               /\ Past(c)' => Past(c)
               /\ srv' = "serving" /\ Arrives(c) => pc'[c] = pc[c]
      PROVE  Together'
  <2>1. srv' = "serving" => Syncing' = Syncing
    BY <1>3 DEF Syncing, Arrives
  <2>2. \A c \in Clients : Arrives(c)' => Arrives(c)
    BY <1>3 DEF Arrives
  <2>3. srv' = "serving" => \A c \in Clients : Arrives(c) => Arrives(c)'
    BY <1>3 DEF Arrives
  <2>4. QED
    BY <1>3, <2>1, <2>2, <2>3 DEF Together
<1>4. ASSUME NEW c \in Clients, Validate(c) \/ Return(c) \/ Timeout(c) \/ Done(c)
      PROVE  Together'
  BY <1>3, <1>4 DEF Validate, Return, Timeout, Done, Past, Arrives
<1>5. ASSUME NEW c \in Clients, CallRefused(c) PROVE Together'
  BY <1>3, <1>5 DEF CallRefused, Past
<1>6. ASSUME NEW c \in Clients, ClientDies(c) \/ InferenceDies PROVE FALSE
  BY <1>6 DEF ClientDies, InferenceDies, Together
<1>7. CASE EndGrace
  BY <1>3, <1>7 DEF EndGrace, Past
<1>8. CASE \/ Deliver \/ RespLoopEnds \/ RequestShutdown \/ TerminateInference
           \/ PutSentinel \/ CloseQueues \/ GetBegin \/ GetRequest \/ GetSentinel
           \/ Forward \/ Reply \/ StoreKV \/ UNCHANGED vars
  <2>1. UNCHANGED <<pc, crashes, synced>> /\ (srv' = "serving" => srv = "serving")
    BY <1>8 DEF Deliver, RespLoopEnds, RequestShutdown, TerminateInference, PutSentinel,
      CloseQueues, GetBegin, GetRequest, GetSentinel, Forward, Reply, StoreKV, vars
  <2>2. QED
    BY <1>3, <2>1 DEF Past
<1>9. CASE InferenceDies
  BY <1>9 DEF InferenceDies, Together
<1>10. QED
  BY <1>1, <1>2, <1>4, <1>5, <1>6, <1>7, <1>8, <1>9 DEF Next, Client, FrontEnd, Inference

LEMMA TogetherHolds == ASSUME MaxCrashes = 0 PROVE Spec => []Together
<1>1. Init => Together
  <2> SUFFICES ASSUME Init PROVE Together
    OBVIOUS
  <2>1. Syncing = {} /\ \A c \in Clients : ~Past(c) /\ ~Arrives(c)
    BY DEF Init, Syncing, Past, Arrives
  <2>2. QED
    BY <2>1, FS_EmptySet DEF Init, Together
<1>2. QED
  BY <1>1, TogetherInductive, TypeInductive, PTL DEF Spec

\* As long as no client process is killed, nobody starts an experiment that
\* another client has yet to join, timeouts and shutdowns included.
THEOREM BarrierKeepsClientsTogether == ASSUME MaxCrashes = 0 PROVE Spec => []BarrierHolds
<1>1. Together => BarrierHolds
  BY DEF Together, BarrierHolds, Past, Arrives
<1>2. QED
  BY <1>1, TogetherHolds, PTL

-----------------------------------------------------------------------------
(* The server implements VerifyService.  Without timeouts a call is only cut  *)
(* off by a shutdown, and no call is made after it: whoever waits was never   *)
(* cut off and gets its own answer; whoever arrives finds the others as the   *)
(* service says.  A killed client would stay held at the barrier, and a late  *)
(* answer may reach a later call (the run "stale" shows it): hence the        *)
(* assumptions.                                                               *)

CutOffAtTheEnd ==
  abandoned # {} =>
    srv \notin {"serving", "stopping"} /\ \A c \in Clients : pc[c] # "validating"

LEMMA CutOffInductive ==
  ASSUME MaxCrashes = 0, SlowAnswers = FALSE
  PROVE  TypeOK /\ Together /\ CutOffAtTheEnd /\ [Next]_vars => CutOffAtTheEnd'
<1> SUFFICES ASSUME TypeOK, Together, CutOffAtTheEnd, [Next]_vars PROVE CutOffAtTheEnd'
  OBVIOUS
<1> USE DEF CutOffAtTheEnd, clientVars, frontVars, infVars
<1> pc \in [Clients -> {"off", "loading", "syncing", "ready", "validating"}]
  BY DEF TypeOK
<1>1. CASE Launch
  BY <1>1 DEF Launch
<1>2. ASSUME NEW c \in Clients, Client(c) PROVE CutOffAtTheEnd'
  <2>1. CASE Sync(c) \/ Validate(c)
    BY <2>1 DEF Sync, Validate
  <2>2. CASE Return(c) \/ Done(c) \/ CallRefused(c)
    BY <2>2 DEF Return, Done, CallRefused
  <2>3. ~Timeout(c) /\ ~ClientDies(c)
    BY DEF Timeout, ClientDies, Together
  <2>4. QED
    BY <1>2, <2>1, <2>2, <2>3 DEF Client
<1>3. CASE FrontEnd
  <2>1. CASE EndGrace
    BY <2>1 DEF EndGrace
  <2>2. CASE ~EndGrace
    BY <1>3, <2>2 DEF FrontEnd, Deliver, RespLoopEnds, RequestShutdown,
      TerminateInference, PutSentinel, CloseQueues
  <2>3. QED
    BY <2>1, <2>2
<1>4. CASE Inference \/ UNCHANGED vars
  BY <1>4 DEF Inference, GetBegin, GetRequest, GetSentinel, Forward, Reply, StoreKV,
    InferenceDies, vars
<1>5. QED
  BY <1>1, <1>2, <1>3, <1>4 DEF Next

\* The steps of a client that the service sees.
LEMMA ArriveStep ==
  ASSUME TypeOK, Together, NEW c \in Clients, Sync(c) PROVE Service!Arrive(c)
<1>1. /\ pc[c] = "loading" /\ srv = "serving" /\ UNCHANGED <<calls, applied>>
      /\ pc \in [Clients -> {"off", "loading", "syncing", "ready", "validating"}]
  BY DEF Sync, TypeOK
<1>2. synced = Cardinality(Syncing) /\ \A d \in Clients : Arrives(d)
  BY <1>1 DEF Together, Arrives
<1>3. /\ Syncing \in SUBSET Clients /\ c \notin Syncing
      /\ Cardinality(Syncing \cup {c}) = synced + 1
      /\ Phase(c) = "arriving"
      /\ \A d \in Clients : Phase(d) = "held" <=> d \in Syncing
  <2>1. Syncing \in SUBSET Clients /\ c \notin Syncing
    BY <1>1 DEF Syncing
  <2>2. Cardinality(Syncing \cup {c}) = synced + 1
    BY <1>2, <2>1, LoadingFinite, FS_Subset, FS_AddElement
  <2>3. Phase(c) = "arriving" /\ \A d \in Clients : Phase(d) = "held" <=> d \in Syncing
    BY <1>1 DEF Phase, Syncing
  <2>4. QED
    BY <2>1, <2>2, <2>3
<1>4. CASE WaitAtBarrier(c) /\ synced + 1 # NumClients
  <2>1. Syncing \cup {c} # Clients
    BY <1>3, <1>4, LoadingFinite
  <2>2. \E d \in Clients \ {c} : Phase(d) # "held"
    BY <1>3, <2>1
  <2>3. \A d \in Clients : Phase(d)' = IF d = c THEN "held" ELSE Phase(d)
    BY <1>1, <1>4 DEF WaitAtBarrier, Phase
  <2>4. QED
    BY <1>1, <1>3, <2>2, <2>3 DEF Service!Arrive
<1>5. CASE OpenBarrier(c) /\ synced + 1 = NumClients
  <2>1. Syncing \cup {c} = Clients
    BY <1>3, <1>5, LoadingFinite, FS_Subset
  <2>2. \A d \in Clients \ {c} : Phase(d) = "held"
    BY <1>3, <2>1
  <2>3. \A d \in Clients : Phase(d)' = "free"
    BY <1>5, <2>1 DEF OpenBarrier, Syncing, Phase
  <2>4. QED
    BY <1>1, <1>3, <2>2, <2>3 DEF Service!Arrive
<1>6. QED
  BY <1>4, <1>5 DEF Sync

LEMMA LeaveStep ==
  ASSUME TypeOK, NEW S \in SUBSET Clients, UNCHANGED <<calls, applied>>,
         \A c \in Clients : pc'[c] = IF c \in S THEN "off" ELSE pc[c]
  PROVE  Service!Leave(S)
<1>1. \A c \in Clients : Phase(c)' = IF c \in S THEN "away" ELSE Phase(c)
  BY DEF Phase, TypeOK
<1>2. QED
  BY <1>1 DEF Service!Leave

LEMMA ServiceStep ==
  ASSUME MaxCrashes = 0, SlowAnswers = FALSE
  PROVE  TypeOK /\ Together /\ CutOffAtTheEnd /\ AnswersMatch /\ [Next]_vars
           => [Service!Next]_(Service!vars)
<1> SUFFICES ASSUME TypeOK, Together, CutOffAtTheEnd, AnswersMatch, [Next]_vars
             PROVE  Service!Next \/ UNCHANGED Service!vars
  OBVIOUS
<1> USE DEF clientVars, frontVars, infVars
<1> /\ pc \in [Clients -> {"off", "loading", "syncing", "ready", "validating"}]
    /\ calls \in [Clients -> Nat] /\ applied \in [Clients -> Nat]
  BY DEF TypeOK
<1>1. CASE Launch
  <2>1. \A c \in Clients : Phase(c) = "away" /\ Phase(c)' = "arriving"
    BY <1>1 DEF Launch, Phase
  <2>2. Service!Start
    BY <1>1, <2>1 DEF Launch, Service!Start
  <2>3. QED
    BY <2>2 DEF Service!Next
<1>2. ASSUME NEW c \in Clients, Client(c) PROVE Service!Next
  <2>1. CASE Sync(c)
    BY <2>1, ArriveStep DEF Service!Next
  <2>2. CASE Validate(c)
    <3>1. Phase(c) = "free" /\ \A d \in Clients : Phase(d)' = IF d = c THEN "asking" ELSE Phase(d)
      BY <2>2 DEF Validate, Phase
    <3>2. Service!Ask(c)
      BY <2>2, <3>1 DEF Validate, Service!Ask
    <3>3. QED
      BY <3>2 DEF Service!Next
  <2>3. CASE Return(c)
    <3>1. Phase(c) = "asking" /\ \A d \in Clients : Phase(d)' = IF d = c THEN "free" ELSE Phase(d)
      BY <2>3 DEF Return, Phase
    <3>2. c \notin abandoned
      BY <2>3 DEF Return, CutOffAtTheEnd
    <3>3. future[c].result = calls[c]
      BY <2>3, <3>2 DEF Return, AnswersMatch
    <3>4. Service!Reply(c)
      BY <2>3, <3>1, <3>3 DEF Return, Service!Reply
    <3>5. QED
      BY <3>4 DEF Service!Next
  <2>4. CASE Done(c) \/ CallRefused(c)
    <3>1. Service!Leave({c})
      BY <2>4, LeaveStep DEF Done, CallRefused
    <3>2. QED
      BY <3>1 DEF Service!Next
  <2>5. ~Timeout(c) /\ ~ClientDies(c)
    BY DEF Timeout, ClientDies, Together
  <2>6. QED
    BY <1>2, <2>1, <2>2, <2>3, <2>4, <2>5 DEF Client
<1>3. CASE EndGrace
  <2>1. Service!Leave({c \in Clients : pc[c] = "validating" \/ pc[c] = "syncing"})
    BY <1>3, LeaveStep DEF EndGrace
  <2>2. QED
    BY <2>1 DEF Service!Next
<1>4. CASE (FrontEnd /\ ~EndGrace) \/ Inference \/ UNCHANGED vars
  <2>1. UNCHANGED <<pc, calls, applied>>
    BY <1>4 DEF FrontEnd, Deliver, RespLoopEnds, RequestShutdown, TerminateInference,
      PutSentinel, CloseQueues, Inference, GetBegin, GetRequest, GetSentinel, Forward,
      Reply, StoreKV, InferenceDies, vars
  <2>2. QED
    BY <2>1 DEF Service!vars, Phase
<1>5. QED
  BY <1>1, <1>2, <1>3, <1>4 DEF Next

\* Without crashes and with answers in time, every behaviour of the server,
\* its queues and its processes is one the service promises: experiments start
\* for all clients together, each call is answered once, with its own answer.
THEOREM ServerIsAVerifyService ==
  ASSUME MaxCrashes = 0, SlowAnswers = FALSE PROVE Spec => ImplementsService
<1>1. Init => Service!Init
  BY DEF Init, Service!Init, Phase
<1>2. Init => CutOffAtTheEnd
  BY DEF Init, CutOffAtTheEnd
<1>3. QED
  BY <1>1, <1>2, CutOffInductive, ServiceStep, TypeInductive, TogetherHolds,
     AnswersMatchTheirCalls, PTL DEF Spec, ImplementsService, Service!Spec

-----------------------------------------------------------------------------
(* The inductive invariant, for a client index none of whose calls was ever   *)
(* cut off.  A call's cache is written only after its answer has been sent:   *)
(* when the client's next request comes, it is in the store or still in a     *)
(* slot of the batch being answered or stored.  It is needed only inside      *)
(* generate(), and there begin_experiment cannot zero it: the experiment of a *)
(* client that has been answered has begun already.                           *)

SlotsOf(c) == {i \in 1..Len(batches) : batches[i].client = c}

\* The slot of c that has been answered and not been stored.
StoringOf(c) ==
  {i \in SlotsOf(c) : (inf = "reply" /\ i < slot) \/ (inf = "store" /\ i >= slot)}

\* The cache of call n will be in the store before the next batch is run.
Kept(c, n) ==
  IF StoringOf(c) = {} THEN kv[c] = n ELSE \A i \in StoringOf(c) : batches[i].call = n

HasAnswer(c) ==
  pc[c] = "validating" /\ (AnsweredOf(c) # {} \/ future[c].state = "resolved")

NeedsKV(c) ==
  \/ \E i \in ReceivedOf(c) : ~recvQueue[i].prefill
  \/ \E i \in CollectedOf(c) : ~batches[i].prefill

InGenerate(c) ==
  /\ Arrives(c) => ~open[c]
  /\ (Past(c) /\ open[c]) \/ HasAnswer(c) => expName = run
  /\ NeedsKV(c) => open[c]

CacheKept(c) ==
  inf # "stopped" =>
    /\ \A i, j \in SlotsOf(c) : i = j
    /\ NeedsKV(c) => Kept(c, calls[c] - 1)
    /\ HasAnswer(c) \/ (pc[c] = "ready" /\ open[c]) => Kept(c, calls[c])
    /\ inf = "reply" =>
         \A i \in SlotsOf(c) : ~batches[i].prefill => kv[c] = batches[i].call - 1

KvInv(c) == InGenerate(c) /\ CacheKept(c)

CachesFollow == \A c \in Clients \ abandoned : KvInv(c)

\* A request that waits to be run belongs to a client that waits for it.
LEMMA NeedsKVMeans ==
  ASSUME NEW c \in Clients, CallInv(c), NeedsKV(c)
  PROVE  pc[c] = "validating" /\ Past(c) /\ future[c].state = "pending"
BY DEF NeedsKV, CallInv, FutureTracks, Past

\* A step of others, or one in which c's process arrives or ends, and that
\* leaves the store and the batch alone.
LEMMA KvUnaffected ==
  ASSUME NEW c \in Clients, KvInv(c),
         UNCHANGED <<run, expName, kv, batches, slot>>,
         inf' = inf \/ inf' = "stopped",
         calls'[c] = calls[c], open'[c] = open[c],
         Arrives(c)' => Arrives(c),
         Past(c)' /\ open[c] => pc'[c] = pc[c],
         NeedsKV(c)' => NeedsKV(c), HasAnswer(c)' => HasAnswer(c)
  PROVE  KvInv(c)'
<1> USE DEF KvInv
<1>1. InGenerate(c)'
  BY DEF InGenerate, Past
<1>2. CacheKept(c)'
  <2> SUFFICES ASSUME inf' # "stopped" PROVE CacheKept(c)'
    BY DEF CacheKept
  <2>1. inf' = inf /\ inf # "stopped"
    OBVIOUS
  <2>2. SlotsOf(c)' = SlotsOf(c) /\ StoringOf(c)' = StoringOf(c)
    BY <2>1 DEF SlotsOf, StoringOf
  <2>3. \A n : Kept(c, n) => (Kept(c, n))'
    BY <2>2 DEF Kept
  <2>4. pc'[c] = "ready" /\ open'[c] => pc[c] = "ready" /\ open[c]
    BY DEF Past
  <2>5. HasAnswer(c)' \/ (pc'[c] = "ready" /\ open'[c]) => (Kept(c, calls[c]))'
    BY <2>1, <2>2, <2>4 DEF CacheKept, Kept
  <2>6. NeedsKV(c)' => (Kept(c, calls[c] - 1))'
    BY <2>1, <2>2 DEF CacheKept, Kept
  <2>7. QED
    BY <2>1, <2>2, <2>5, <2>6 DEF CacheKept
<1>3. QED
  BY <1>1, <1>2

LEMMA NeedsSame ==
  ASSUME NEW c \in Clients, ReceivedOf(c)' = ReceivedOf(c),
         \A i \in ReceivedOf(c) : recvQueue'[i] = recvQueue[i],
         UNCHANGED <<inf, batches, slot>>
  PROVE  NeedsKV(c)' = NeedsKV(c)
BY CollectedSame DEF NeedsKV

\* The queue loses its head, the batch no request of c that is not c's.
LEMMA NeedsDropped ==
  ASSUME TypeOK, NEW c \in Clients, recvQueue # <<>>, recvQueue' = Tail(recvQueue),
         CollectedOf(c)' \subseteq CollectedOf(c),
         \A i \in CollectedOf(c)' : batches'[i] = batches[i]
  PROVE  NeedsKV(c)' => NeedsKV(c)
<1>1. \A i \in ReceivedOf(c)' : i + 1 \in ReceivedOf(c) /\ recvQueue'[i] = recvQueue[i + 1]
  BY ReceivedTail
<1>2. QED
  BY <1>1 DEF NeedsKV

\* The steps of the client processes, c's own first.
LEMMA KvValidate ==
  ASSUME TypeOK, NEW c \in Clients, CallInv(c), KvInv(c), NEW d \in Clients, Validate(d)
  PROVE  KvInv(c)'
<1> USE DEF infVars
<1>1. PICK prefill \in BOOLEAN :
        /\ prefill \/ open[d]
        /\ recvQueue' = Append(recvQueue, Request(d, calls[d] + 1, prefill))
  BY DEF Validate
<1> DEFINE m == Request(d, calls[d] + 1, prefill)
           n == Len(recvQueue) + 1
<1>2. /\ pc[d] = "ready" /\ pc' = [pc EXCEPT ![d] = "validating"]
      /\ calls' = [calls EXCEPT ![d] = @ + 1] /\ calls \in [Clients -> Nat]
      /\ future' = [future EXCEPT ![d] = Pending] /\ future \in [Clients -> Futures]
      /\ pc \in [Clients -> {"off", "loading", "syncing", "ready", "validating"}]
      /\ UNCHANGED <<run, open, respQueue, inf, batches, slot, kv, expName>>
  BY DEF Validate, Registered, TypeOK
<1>3. /\ m \in Requests \cup Begins \cup {Sentinel}
      /\ m.kind = "validate" /\ m.client = d /\ m.prefill = prefill
  BY <1>2 DEF Request, Requests
<1>4. AnsweredOf(c)' = AnsweredOf(c) /\ CollectedOf(c)' = CollectedOf(c)
  BY <1>2, AnsweredSame, CollectedSame
<1>5. CASE c # d
  <2>1. /\ ReceivedOf(c)' = ReceivedOf(c)
        /\ \A i \in ReceivedOf(c) : recvQueue'[i] = recvQueue[i]
    BY <1>1, <1>3, <1>5, ReceivedOther
  <2>2. NeedsKV(c)' = NeedsKV(c)
    BY <1>2, <2>1, NeedsSame
  <2>3. pc'[c] = pc[c] /\ calls'[c] = calls[c] /\ future'[c] = future[c]
    BY <1>2, <1>5
  <2>4. HasAnswer(c)' = HasAnswer(c) /\ Arrives(c)' = Arrives(c)
    BY <1>4, <2>3 DEF HasAnswer, Arrives
  <2>5. QED
    BY <1>2, <2>2, <2>3, <2>4, KvUnaffected
<1>6. CASE c = d
  <2>1. /\ pc[c] = "ready" /\ pc'[c] = "validating" /\ calls'[c] = calls[c] + 1
        /\ calls[c] \in Nat /\ future'[c] = Pending
    BY <1>2, <1>6
  <2>2. ReceivedOf(c) = {} /\ CollectedOf(c) = {} /\ AnsweredOf(c) = {}
    BY <2>1 DEF CallInv, FutureTracks
  <2>3. NeedsKV(c)' => ~prefill
    <3>1. recvQueue \in Seq(Requests \cup Begins \cup {Sentinel})
      BY DEF TypeOK
    <3>2. /\ Len(recvQueue') = n /\ Len(recvQueue) \in Nat
          /\ \A i \in 1..Len(recvQueue) : recvQueue'[i] = recvQueue[i]
          /\ recvQueue'[n] = m
      BY <1>1, <1>3, <3>1, AppendPositions
    <3>3. \A i \in ReceivedOf(c)' : i = n
      BY <2>2, <3>2 DEF ReceivedOf
    <3>4. QED
      BY <1>3, <1>4, <2>2, <3>2, <3>3 DEF NeedsKV
  <2>4. NeedsKV(c)' => open[c]
    BY <1>1, <1>6, <2>3
  <2>5. ~HasAnswer(c)'
    BY <1>4, <2>1, <2>2 DEF HasAnswer, Pending
  <2>6. InGenerate(c)'
    BY <1>2, <2>1, <2>4, <2>5 DEF KvInv, InGenerate, Past, Arrives
  <2>7. SlotsOf(c)' = SlotsOf(c) /\ StoringOf(c)' = StoringOf(c)
    BY <1>2 DEF SlotsOf, StoringOf
  <2>8. CacheKept(c)'
    <3>1. inf # "stopped" /\ open[c] => Kept(c, calls[c])
      BY <2>1 DEF KvInv, CacheKept
    <3>2. calls'[c] - 1 = calls[c]
      BY <2>1
    <3>3. inf # "stopped" /\ NeedsKV(c)' => (Kept(c, calls[c] - 1))'
      BY <1>2, <2>4, <2>7, <3>1, <3>2 DEF Kept
    <3>4. QED
      BY <1>2, <2>1, <2>5, <2>7, <3>3 DEF KvInv, CacheKept
  <2>9. QED
    BY <2>6, <2>8 DEF KvInv
<1>7. QED
  BY <1>5, <1>6

LEMMA KvReturn ==
  ASSUME TypeOK, NEW c \in Clients, CallInv(c), KvInv(c), NEW d \in Clients, Return(d)
  PROVE  KvInv(c)'
<1> USE DEF frontVars, infVars
<1>1. /\ pc[d] = "validating" /\ future[d].state = "resolved"
      /\ pc' = [pc EXCEPT ![d] = "ready"] /\ open' = [open EXCEPT ![d] = TRUE]
      /\ pc \in [Clients -> {"off", "loading", "syncing", "ready", "validating"}]
      /\ open \in [Clients -> BOOLEAN]
      /\ UNCHANGED <<run, calls, future, recvQueue, respQueue, inf, batches, slot, kv, expName>>
  BY DEF Return, TypeOK
<1>2. NeedsKV(c)' = NeedsKV(c)
  BY <1>1, ReceivedSame, NeedsSame
<1>3. AnsweredOf(c)' = AnsweredOf(c)
  BY <1>1, AnsweredSame
<1>4. CASE c # d
  <2>1. pc'[c] = pc[c] /\ open'[c] = open[c]
    BY <1>1, <1>4
  <2>2. HasAnswer(c)' = HasAnswer(c) /\ Arrives(c)' = Arrives(c)
    BY <1>1, <1>3, <2>1 DEF HasAnswer, Arrives
  <2>3. QED
    BY <1>1, <1>2, <2>1, <2>2, KvUnaffected
<1>5. CASE c = d
  <2>1. pc'[c] = "ready" /\ open'[c] = TRUE /\ HasAnswer(c) /\ ~HasAnswer(c)'
    BY <1>1, <1>5 DEF HasAnswer
  <2>2. ~NeedsKV(c)'
    BY <1>1, <1>2, <1>5, NeedsKVMeans
  <2>3. InGenerate(c)'
    BY <1>1, <2>1, <2>2 DEF KvInv, InGenerate, Arrives
  <2>4. SlotsOf(c)' = SlotsOf(c) /\ StoringOf(c)' = StoringOf(c)
    BY <1>1 DEF SlotsOf, StoringOf
  <2>5. CacheKept(c)'
    BY <1>1, <2>1, <2>2, <2>4 DEF KvInv, CacheKept, Kept
  <2>6. QED
    BY <2>3, <2>5 DEF KvInv
<1>6. QED
  BY <1>4, <1>5

LEMMA KvClient ==
  ASSUME TypeOK, NEW c \in Clients, c \notin abandoned', CallInv(c), KvInv(c),
         NEW d \in Clients, Client(d)
  PROVE  KvInv(c)'
<1> USE DEF clientVars, frontVars, infVars
<1> pc \in [Clients -> {"off", "loading", "syncing", "ready", "validating"}]
  BY DEF TypeOK
<1>1. CASE Sync(d)
  <2>1. /\ pc[d] = "loading"
        /\ UNCHANGED <<run, calls, open, future, respQueue, inf, batches, slot, kv, expName>>
    BY <1>1 DEF Sync
  <2>2. /\ pc'[c] = pc[c] \/ Arrives(c)
        /\ Arrives(c)' => Arrives(c)
        /\ pc'[c] = "validating" => pc[c] = "validating"
    <3>1. CASE OpenBarrier(d)
      BY <2>1, <3>1 DEF OpenBarrier, Arrives
    <3>2. CASE WaitAtBarrier(d)
      BY <2>1, <3>2 DEF WaitAtBarrier, Arrives
    <3>3. QED
      BY <1>1, <3>1, <3>2 DEF Sync
  <2>3. Past(c)' /\ open[c] => pc'[c] = pc[c]
    BY <2>2 DEF KvInv, InGenerate
  <2>4. /\ ReceivedOf(c)' = ReceivedOf(c)
        /\ \A i \in ReceivedOf(c) : recvQueue'[i] = recvQueue[i]
    <3>1. CASE OpenBarrier(d)
      <4>1. /\ BeginExperiment(run) \in Requests \cup Begins \cup {Sentinel}
            /\ BeginExperiment(run).kind = "begin"
        BY DEF BeginExperiment, Begins, TypeOK
      <4>2. QED
        BY <3>1, <4>1, ReceivedOther DEF OpenBarrier
    <3>2. CASE WaitAtBarrier(d)
      BY <3>2, ReceivedSame DEF WaitAtBarrier
    <3>3. QED
      BY <1>1, <3>1, <3>2 DEF Sync
  <2>5. NeedsKV(c)' = NeedsKV(c)
    BY <2>1, <2>4, NeedsSame
  <2>6. HasAnswer(c)' => HasAnswer(c)
    BY <2>1, <2>2, AnsweredSame DEF HasAnswer
  <2>7. QED
    BY <2>1, <2>2, <2>3, <2>5, <2>6, KvUnaffected
<1>2. CASE Timeout(d) \/ Done(d) \/ CallRefused(d) \/ ClientDies(d)
  <2>1. /\ pc' = [pc EXCEPT ![d] = "off"]
        /\ UNCHANGED <<run, calls, open, recvQueue, respQueue, inf, batches, slot, kv, expName>>
    BY <1>2 DEF Timeout, Done, CallRefused, ClientDies
  <2>2. pc'[c] = pc[c] \/ pc'[c] = "off"
    BY <2>1
  <2>3. future'[c] = future[c]
    BY <1>2 DEF Timeout, Done, CallRefused, ClientDies, TypeOK
  <2>4. NeedsKV(c)' = NeedsKV(c)
    BY <2>1, ReceivedSame, NeedsSame
  <2>5. HasAnswer(c)' => HasAnswer(c)
    BY <2>1, <2>2, <2>3, AnsweredSame DEF HasAnswer
  <2>6. (Arrives(c)' => Arrives(c)) /\ (Past(c)' => pc'[c] = pc[c])
    BY <2>2 DEF Arrives, Past
  <2>7. QED
    BY <2>1, <2>4, <2>5, <2>6, KvUnaffected
<1>3. QED
  BY <1>1, <1>2, KvValidate, KvReturn DEF Client

\* The steps of the front end: no request, slot or cache is touched.
LEMMA KvFrontEnd ==
  ASSUME TypeOK, NEW c \in Clients, c \notin abandoned', CallInv(c), KvInv(c), FrontEnd
  PROVE  KvInv(c)'
<1> USE DEF clientVars, frontVars, infVars
<1>1. /\ UNCHANGED <<run, calls, open, batches, slot, kv, expName>>
      /\ inf' = inf \/ inf' = "stopped"
  BY DEF FrontEnd, Deliver, RespLoopEnds, RequestShutdown, EndGrace, TerminateInference,
     PutSentinel, CloseQueues
<1>2. /\ ReceivedOf(c)' = ReceivedOf(c)
      /\ \A i \in ReceivedOf(c) : recvQueue'[i] = recvQueue[i]
  <2>1. CASE EndGrace
    BY <2>1, ReceivedOther DEF EndGrace, Sentinel
  <2>2. CASE ~EndGrace
    <3>1. UNCHANGED recvQueue
      BY <2>2 DEF FrontEnd, Deliver, RespLoopEnds, RequestShutdown, TerminateInference,
        PutSentinel, CloseQueues
    <3>2. QED
      BY <3>1, ReceivedSame
  <2>3. QED
    BY <2>1, <2>2
<1>3. NeedsKV(c)' => NeedsKV(c)
  <2>1. CollectedOf(c)' \subseteq CollectedOf(c)
    BY <1>1 DEF CollectedOf
  <2>2. QED
    BY <1>1, <1>2, <2>1 DEF NeedsKV
<1>4. pc'[c] = pc[c] \/ pc'[c] = "off"
  BY DEF FrontEnd, Deliver, RespLoopEnds, RequestShutdown, EndGrace, TerminateInference,
     PutSentinel, CloseQueues
<1>5. HasAnswer(c)' => HasAnswer(c)
  <2>1. CASE Deliver
    <3>1. /\ respQueue # <<>> /\ respQueue' = Tail(respQueue)
          /\ Head(respQueue).kind = "answer" /\ pc' = pc
      BY <2>1 DEF Deliver
    <3>2. Head(respQueue) = respQueue[1] /\ 1 \in 1..Len(respQueue)
      <4>1. respQueue \in Seq(Answers \cup {Sentinel})
        BY DEF TypeOK
      <4>2. QED
        BY <3>1, <4>1, TailPositions
    <3>3. \A i \in AnsweredOf(c)' : i + 1 \in AnsweredOf(c)
      BY <3>1, AnsweredTail
    <3>4. future'[c] # future[c] => 1 \in AnsweredOf(c)
      BY <2>1, <3>1, <3>2 DEF Deliver, TypeOK, AnsweredOf
    <3>5. QED
      BY <3>1, <3>3, <3>4 DEF HasAnswer
  <2>2. CASE ~Deliver
    <3>1. future'[c] = future[c] \/ pc'[c] = "off"
      BY <2>2 DEF FrontEnd, RespLoopEnds, RequestShutdown, EndGrace, TerminateInference,
        PutSentinel, CloseQueues
    <3>2. AnsweredOf(c)' # {} => AnsweredOf(c) # {}
      <4>1. CASE RespLoopEnds /\ respQueue # <<>> /\ respQueue' = Tail(respQueue)
        BY <4>1, AnsweredTail
      <4>2. CASE PutSentinel
        BY <4>2, AnsweredOther DEF PutSentinel, Sentinel
      <4>3. CASE UNCHANGED respQueue
        BY <4>3, AnsweredSame
      <4>4. QED
        BY <2>2, <4>1, <4>2, <4>3 DEF FrontEnd, RespLoopEnds, RequestShutdown, EndGrace,
          TerminateInference, CloseQueues
    <3>3. QED
      BY <1>4, <3>1, <3>2 DEF HasAnswer
  <2>3. QED
    BY <2>1, <2>2
<1>6. (Arrives(c)' => Arrives(c)) /\ (Past(c)' => pc'[c] = pc[c])
  BY <1>4 DEF Arrives, Past
<1>7. QED
  BY <1>1, <1>3, <1>5, <1>6, KvUnaffected

\* The next experiment: nothing of c is under way, and no client is open.
LEMMA KvLaunch ==
  ASSUME TypeOK, NEW c \in Clients, CallInv(c), KvInv(c), Launch PROVE KvInv(c)'
<1> USE DEF frontVars, infVars
<1>1. /\ pc[c] = "off" /\ pc'[c] = "loading" /\ open'[c] = FALSE
      /\ UNCHANGED <<calls, recvQueue, respQueue, future, inf, batches, slot, kv, expName>>
  BY DEF Launch
<1>2. ~NeedsKV(c)'
  <2>1. NeedsKV(c)' = NeedsKV(c)
    BY <1>1, ReceivedSame, NeedsSame
  <2>2. QED
    BY <1>1, <2>1, NeedsKVMeans
<1>3. ~HasAnswer(c)' /\ ~Past(c)'
  BY <1>1 DEF HasAnswer, Past
<1>4. SlotsOf(c)' = SlotsOf(c)
  BY <1>1 DEF SlotsOf
<1>5. InGenerate(c)'
  BY <1>1, <1>2, <1>3 DEF InGenerate
<1>6. CacheKept(c)'
  BY <1>1, <1>2, <1>3, <1>4 DEF KvInv, CacheKept
<1>7. QED
  BY <1>5, <1>6 DEF KvInv

\* begin_experiment zeroes the caches of clients of an earlier experiment only.
LEMMA KvBegin ==
  ASSUME TypeOK, RunInv, NEW c \in Clients, CallInv(c), KvInv(c), GetBegin PROVE KvInv(c)'
<1> USE DEF clientVars, frontVars
<1>1. /\ inf = "collect" /\ inf' = "collect" /\ batches' = <<>>
      /\ recvQueue # <<>> /\ recvQueue' = Tail(recvQueue) /\ Head(recvQueue).kind = "begin"
      /\ UNCHANGED <<run, pc, calls, open, future, respQueue, slot>>
  BY DEF GetBegin
<1>2. expName # run
  <2>1. 1 \in Positions /\ IsBegin(1)
    BY <1>1, QueueTail DEF IsBegin
  <2>2. expName < recvQueue[1].run /\ recvQueue[1].run <= run /\ recvQueue[1].run \in Nat
    BY <2>1, QueueTypes DEF RunInv, BeginsInOrder
  <2>3. QED
    BY <2>2 DEF TypeOK
<1>3. ~(Past(c) /\ open[c]) /\ ~HasAnswer(c)
  BY <1>2 DEF KvInv, InGenerate
<1>4. ~NeedsKV(c)
  BY <1>3, NeedsKVMeans DEF KvInv, InGenerate
<1>5. SlotsOf(c)' = {} /\ CollectedOf(c)' = {}
  BY <1>1 DEF SlotsOf, CollectedOf, TypeOK
<1>6. ~NeedsKV(c)'
  BY <1>1, <1>4, <1>5, NeedsDropped
<1>7. ~(Past(c)' /\ open'[c]) /\ ~HasAnswer(c)' /\ (Arrives(c)' => ~open'[c])
  BY <1>1, <1>3, AnsweredSame DEF KvInv, InGenerate, Past, HasAnswer, Arrives
<1>8. InGenerate(c)'
  BY <1>6, <1>7 DEF InGenerate
<1>9. CacheKept(c)'
  BY <1>1, <1>5, <1>6, <1>7 DEF CacheKept, Past
<1>10. QED
  BY <1>8, <1>9 DEF KvInv

\* A request of c is collected: it is the only one in the batch.
LEMMA KvGetRequest ==
  ASSUME TypeOK, SlotInRange, NEW c \in Clients, CallInv(c), KvInv(c), GetRequest
  PROVE  KvInv(c)'
<1> USE DEF clientVars, frontVars
<1> DEFINE r == Head(recvQueue)
           n == Len(batches) + 1
<1>1. /\ inf = "collect" /\ inf' = inf /\ slot = 1 /\ slot' = slot
      /\ recvQueue # <<>> /\ recvQueue' = Tail(recvQueue) /\ r.kind = "validate"
      /\ batches' = Append(batches, r)
      /\ UNCHANGED <<run, pc, calls, open, future, respQueue, kv, expName>>
  BY DEF GetRequest, SlotInRange
<1>2. 1 \in Positions /\ r = recvQueue[1]
  BY <1>1, QueueTail
<1>3. /\ Len(batches') = n /\ n \in Nat \ {0} /\ batches'[n] = r
      /\ \A i \in 1..Len(batches) : batches'[i] = batches[i]
  <2>1. r \in Requests
    BY <1>1, <1>2, QueueTypes DEF Begins, Sentinel
  <2>2. batches \in Seq(Requests)
    BY DEF TypeOK
  <2>3. QED
    BY <1>1, <2>1, <2>2, AppendPositions
<1>4. CollectedOf(c) = SlotsOf(c) /\ CollectedOf(c)' = SlotsOf(c)'
  BY <1>1 DEF CollectedOf, SlotsOf
<1>5. \A i \in SlotsOf(c)' : (i \in SlotsOf(c) /\ batches'[i] = batches[i])
                             \/ (i = n /\ 1 \in ReceivedOf(c))
  BY <1>1, <1>2, <1>3 DEF SlotsOf, ReceivedOf, Positions
<1>6. NeedsKV(c)' => NeedsKV(c)
  <2>1. \A i \in ReceivedOf(c)' : i + 1 \in ReceivedOf(c) /\ recvQueue'[i] = recvQueue[i + 1]
    BY <1>1, ReceivedTail
  <2>2. \A i \in SlotsOf(c)' : ~batches'[i].prefill => NeedsKV(c)
    BY <1>2, <1>3, <1>4, <1>5 DEF NeedsKV
  <2>3. QED
    BY <1>4, <2>1, <2>2 DEF NeedsKV
<1>7. HasAnswer(c)' = HasAnswer(c)
  BY <1>1, AnsweredSame DEF HasAnswer
<1>8. InGenerate(c)'
  BY <1>1, <1>6, <1>7 DEF KvInv, InGenerate, Past, Arrives
<1>9. StoringOf(c) = {} /\ StoringOf(c)' = {}
  BY <1>1 DEF StoringOf
<1>10. \A i, j \in SlotsOf(c)' : i = j
  <2>1. 1 \in ReceivedOf(c) => SlotsOf(c) = {}
    BY <1>4 DEF CallInv, OneCopy
  <2>2. QED
    BY <1>1, <1>5, <2>1 DEF KvInv, CacheKept
<1>11. CacheKept(c)'
  BY <1>1, <1>6, <1>7, <1>9, <1>10 DEF KvInv, CacheKept, Kept
<1>12. QED
  BY <1>8, <1>11 DEF KvInv

\* A batch is run: nothing is left to be stored, the caches it needs are there.
LEMMA KvForward ==
  ASSUME TypeOK, SlotInRange, NEW c \in Clients, CallInv(c), KvInv(c), Forward \/ GetSentinel
  PROVE  KvInv(c)'
<1> USE DEF clientVars, frontVars
<1>1. /\ inf = "collect" /\ inf' \in {"reply", "stopped"} /\ slot = 1
      /\ UNCHANGED <<run, pc, calls, open, future, respQueue, batches, slot, kv, expName>>
  BY DEF Forward, GetSentinel, SlotInRange
<1>2. CollectedOf(c)' \subseteq CollectedOf(c) /\ CollectedOf(c) = SlotsOf(c)
  BY <1>1 DEF CollectedOf, SlotsOf
<1>3. NeedsKV(c)' => NeedsKV(c)
  <2>1. CASE Forward
    BY <1>1, <1>2, <2>1, ReceivedSame DEF Forward, NeedsKV
  <2>2. CASE GetSentinel
    BY <1>1, <1>2, <2>2, NeedsDropped DEF GetSentinel
  <2>3. QED
    BY <2>1, <2>2
<1>4. HasAnswer(c)' = HasAnswer(c)
  BY <1>1, AnsweredSame DEF HasAnswer
<1>5. InGenerate(c)'
  BY <1>1, <1>3, <1>4 DEF KvInv, InGenerate, Past, Arrives
<1>6. StoringOf(c) = {} /\ StoringOf(c)' = {} /\ SlotsOf(c)' = SlotsOf(c)
  BY <1>1 DEF StoringOf, SlotsOf
<1>7. \A i \in SlotsOf(c) : ~batches[i].prefill => kv[c] = batches[i].call - 1
  BY <1>1, <1>2, <1>6 DEF KvInv, CacheKept, Kept, NeedsKV, CallInv, OneCopy
<1>8. CacheKept(c)'
  BY <1>1, <1>3, <1>4, <1>6, <1>7 DEF KvInv, CacheKept, Kept
<1>9. QED
  BY <1>5, <1>8 DEF KvInv

\* An answer is sent: c's slot is now the one to be stored, and its experiment
\* is the one being served.
LEMMA KvReply ==
  ASSUME TypeOK, SlotInRange, RunInv, NEW c \in Clients, CallInv(c), KvInv(c), Reply
  PROVE  KvInv(c)'
<1> USE DEF clientVars, frontVars
<1> DEFINE r == batches[slot]
<1>1. /\ inf = "reply" /\ slot \in Nat \ {0} /\ Len(batches) \in Nat /\ slot <= Len(batches)
      /\ respQueue' = Append(respQueue, Answer(r.client, r.call))
      /\ UNCHANGED <<run, pc, calls, open, future, recvQueue, batches, kv, expName>>
      /\ \/ slot < Len(batches) /\ slot' = slot + 1 /\ inf' = "reply"
         \/ slot = Len(batches) /\ slot' = 1 /\ inf' = "store"
  BY DEF Reply, SlotInRange, TypeOK
<1>2. r.client \in Clients /\ r.call \in Nat
  BY <1>1, QueueTypes
<1>3. SlotsOf(c)' = SlotsOf(c) /\ ReceivedOf(c)' = ReceivedOf(c)
  BY <1>1, ReceivedSame DEF SlotsOf
<1>4. CollectedOf(c)' = CollectedOf(c) \ {slot}
  BY <1>1 DEF CollectedOf
<1>5. StoringOf(c)' = IF r.client = c THEN StoringOf(c) \cup {slot} ELSE StoringOf(c)
  <2>1. \A i \in SlotsOf(c) : i \in StoringOf(c)' <=> i < slot \/ i = slot
    BY <1>1, <1>3 DEF StoringOf, SlotsOf
  <2>2. \A i \in SlotsOf(c) : i \in StoringOf(c) <=> i < slot
    BY <1>1 DEF StoringOf
  <2>3. slot \in SlotsOf(c) <=> r.client = c
    BY <1>1 DEF SlotsOf
  <2>4. StoringOf(c) \subseteq SlotsOf(c) /\ StoringOf(c)' \subseteq SlotsOf(c)
    BY <1>3 DEF StoringOf
  <2>5. QED
    BY <2>1, <2>2, <2>3, <2>4
<1>6. NeedsKV(c)' => NeedsKV(c)
  BY <1>1, <1>3, <1>4 DEF NeedsKV
<1>7. CASE r.client # c
  <2>1. AnsweredOf(c)' = AnsweredOf(c)
    <3>1. /\ Answer(r.client, r.call) \in Answers \cup {Sentinel}
          /\ Answer(r.client, r.call).client = r.client
      BY <1>2 DEF Answer, Answers
    <3>2. QED
      BY <1>1, <1>7, <3>1, AnsweredOther
  <2>2. HasAnswer(c)' = HasAnswer(c)
    BY <1>1, <2>1 DEF HasAnswer
  <2>3. InGenerate(c)'
    BY <1>1, <1>6, <2>2 DEF KvInv, InGenerate, Past, Arrives
  <2>4. CacheKept(c)'
    BY <1>1, <1>3, <1>5, <1>6, <1>7, <2>2 DEF KvInv, CacheKept, Kept
  <2>5. QED
    BY <2>3, <2>4 DEF KvInv
<1>8. CASE r.client = c
  <2>1. slot \in CollectedOf(c) /\ slot \in SlotsOf(c)
    BY <1>1, <1>8 DEF CollectedOf, SlotsOf
  <2>2. /\ r.call = calls[c] /\ pc[c] = "validating"
        /\ CollectedOf(c)' = {} /\ ReceivedOf(c)' = {}
    BY <1>3, <1>4, <2>1 DEF CallInv, OneCopy, FutureTracks
  <2>3. expName = run
    BY <1>1, <1>8, <2>2 DEF RunInv, AwaitedInRun, Awaited
  <2>4. ~NeedsKV(c)'
    BY <2>2 DEF NeedsKV
  <2>5. InGenerate(c)'
    BY <1>1, <2>2, <2>3, <2>4 DEF KvInv, InGenerate, Arrives
  <2>6. StoringOf(c)' = {slot}
    BY <1>1, <1>5, <1>8, <2>1 DEF KvInv, CacheKept, StoringOf
  <2>7. (Kept(c, calls[c]))'
    BY <1>1, <2>2, <2>6 DEF Kept
  <2>8. CacheKept(c)'
    BY <1>1, <1>3, <2>4, <2>7 DEF KvInv, CacheKept
  <2>9. QED
    BY <2>5, <2>8 DEF KvInv
<1>9. QED
  BY <1>7, <1>8

\* A slot is stored: c's own, or one of another client.
LEMMA KvStore ==
  ASSUME TypeOK, SlotInRange, NEW c \in Clients, CallInv(c), KvInv(c), StoreKV
  PROVE  KvInv(c)'
<1> USE DEF clientVars, frontVars
<1> DEFINE r == batches[slot]
<1>1. /\ inf = "store" /\ slot \in Nat \ {0} /\ Len(batches) \in Nat /\ slot <= Len(batches)
      /\ kv \in [Clients -> Nat] /\ kv' = [kv EXCEPT ![r.client] = r.call]
      /\ UNCHANGED <<run, pc, calls, open, future, recvQueue, respQueue, expName>>
      /\ \/ slot < Len(batches) /\ slot' = slot + 1 /\ inf' = "store" /\ batches' = batches
         \/ /\ slot = Len(batches) /\ slot' = 1 /\ batches' = <<>>
            /\ inf' \in {"collect", "stopped"}
  BY DEF StoreKV, Stored, SlotInRange, TypeOK
<1>2. r.client \in Clients /\ r.call \in Nat
  BY <1>1, QueueTypes
<1>3. /\ SlotsOf(c)' = SlotsOf(c) \/ SlotsOf(c)' = {}
      /\ CollectedOf(c)' = {} /\ ReceivedOf(c)' = ReceivedOf(c)
  BY <1>1, ReceivedSame DEF SlotsOf, CollectedOf
<1>4. NeedsKV(c)' => NeedsKV(c)
  BY <1>1, <1>3 DEF NeedsKV
<1>5. HasAnswer(c)' = HasAnswer(c)
  BY <1>1, AnsweredSame DEF HasAnswer
<1>6. InGenerate(c)'
  BY <1>1, <1>4, <1>5 DEF KvInv, InGenerate, Past, Arrives
<1>7. ASSUME NEW n, Kept(c, n) PROVE (Kept(c, n))'
  <2>1. StoringOf(c) = {i \in SlotsOf(c) : i >= slot}
    BY <1>1 DEF StoringOf
  <2>2. CASE r.client = c
    <3>1. slot \in StoringOf(c)
      BY <1>1, <2>1, <2>2 DEF SlotsOf
    <3>2. r.call = n
      BY <1>7, <3>1 DEF Kept
    <3>3. kv'[c] = n
      BY <1>1, <1>2, <2>2, <3>2
    <3>4. StoringOf(c)' = {}
      <4>1. \A i \in SlotsOf(c) : i = slot
        BY <1>1, <2>1, <3>1 DEF KvInv, CacheKept
      <4>2. CASE batches' = batches /\ slot' = slot + 1
        BY <1>1, <4>1, <4>2 DEF StoringOf, SlotsOf
      <4>3. CASE batches' = <<>>
        BY <4>3 DEF StoringOf, SlotsOf
      <4>4. QED
        BY <1>1, <4>2, <4>3
    <3>5. QED
      BY <3>3, <3>4 DEF Kept
  <2>3. CASE r.client # c
    <3>1. kv'[c] = kv[c] /\ slot \notin SlotsOf(c)
      BY <1>1, <1>2, <2>3 DEF SlotsOf
    <3>2. CASE batches' = batches /\ slot' = slot + 1 /\ inf' = "store"
      <4>1. StoringOf(c)' = StoringOf(c)
        <5>1. \A i \in SlotsOf(c) : i \in Nat /\ i # slot
          BY <3>1 DEF SlotsOf
        <5>2. SlotsOf(c)' = SlotsOf(c)
          BY <3>2 DEF SlotsOf
        <5>3. StoringOf(c)' = {i \in SlotsOf(c) : i >= slot + 1}
          BY <3>2, <5>2 DEF StoringOf
        <5>4. QED
          BY <1>1, <2>1, <5>1, <5>3
      <4>2. QED
        BY <1>7, <3>1, <3>2, <4>1 DEF Kept
    <3>3. CASE batches' = <<>> /\ slot = Len(batches)
      <4>1. StoringOf(c)' = {}
        BY <3>3 DEF StoringOf, SlotsOf
      <4>2. StoringOf(c) = {}
        BY <1>1, <2>1, <3>1, <3>3 DEF SlotsOf
      <4>3. QED
        BY <1>7, <3>1, <4>1, <4>2 DEF Kept
    <3>4. QED
      BY <1>1, <3>2, <3>3
  <2>4. QED
    BY <2>2, <2>3
<1>8. CacheKept(c)'
  <2>1. \A i, j \in SlotsOf(c)' : i = j
    BY <1>1, <1>3 DEF KvInv, CacheKept
  <2>2. NeedsKV(c)' => (Kept(c, calls[c] - 1))'
    <3>1. NeedsKV(c)' => Kept(c, calls[c] - 1)
      BY <1>1, <1>4 DEF KvInv, CacheKept
    <3>2. QED
      BY <1>1, <1>7, <3>1 DEF Kept
  <2>3. HasAnswer(c)' \/ (pc'[c] = "ready" /\ open'[c]) => (Kept(c, calls[c]))'
    <3>1. HasAnswer(c)' \/ (pc'[c] = "ready" /\ open'[c]) => Kept(c, calls[c])
      BY <1>1, <1>5 DEF KvInv, CacheKept
    <3>2. QED
      BY <1>1, <1>7, <3>1 DEF Kept
  <2>4. QED
    BY <1>1, <2>1, <2>2, <2>3 DEF CacheKept
<1>9. QED
  BY <1>6, <1>8 DEF KvInv

LEMMA CachesFollowInductive ==
  TypeOK /\ SlotInRange /\ RunInv /\ CallsTracked /\ CachesFollow /\ [Next]_vars
    => CachesFollow'
<1> SUFFICES ASSUME TypeOK, SlotInRange, RunInv, CallsTracked, CachesFollow, [Next]_vars,
                    NEW c \in Clients, c \notin abandoned'
             PROVE  KvInv(c)'
  BY DEF CachesFollow
<1> USE DEF clientVars, frontVars, infVars
<1>1. CallInv(c) /\ KvInv(c)
  <2>1. abandoned \subseteq abandoned'
    BY DEF Next, Client, FrontEnd, Inference, vars, Launch, Sync, Validate, Return,
       Timeout, Done, CallRefused, ClientDies, Deliver, RespLoopEnds, RequestShutdown,
       EndGrace, TerminateInference, PutSentinel, CloseQueues, GetBegin, GetRequest,
       GetSentinel, Forward, Reply, StoreKV, InferenceDies
  <2>2. QED
    BY <2>1 DEF CallsTracked, CachesFollow
<1>2. CASE InferenceDies \/ UNCHANGED vars
  <2>1. /\ UNCHANGED <<run, pc, calls, open, recvQueue, respQueue, future>>
        /\ UNCHANGED <<batches, slot, kv, expName>>
        /\ inf' = inf \/ inf' = "stopped"
    BY <1>2 DEF InferenceDies, vars
  <2>2. NeedsKV(c)' => NeedsKV(c)
    BY <2>1 DEF NeedsKV, ReceivedOf, CollectedOf
  <2>3. HasAnswer(c)' = HasAnswer(c)
    BY <2>1, AnsweredSame DEF HasAnswer
  <2>4. QED
    BY <1>1, <2>1, <2>2, <2>3, KvUnaffected DEF Arrives
<1>3. QED
  BY <1>1, <1>2, KvLaunch, KvClient, KvFrontEnd, KvBegin, KvGetRequest, KvForward,
     KvReply, KvStore DEF Next, Inference

LEMMA CachesFollowInitially == Init => CachesFollow
<1> SUFFICES ASSUME Init, NEW c \in Clients PROVE KvInv(c)
  BY DEF CachesFollow
<1>1. ReceivedOf(c) = {} /\ CollectedOf(c) = {} /\ SlotsOf(c) = {} /\ pc[c] = "off"
      /\ inf = "collect"
  BY DEF Init, ReceivedOf, CollectedOf, SlotsOf
<1>2. QED
  BY <1>1 DEF KvInv, InGenerate, CacheKept, Arrives, Past, HasAnswer, NeedsKV

\* Whatever times out, dies or begins: the cache loaded for a request of a
\* client index none of whose calls was cut off is the one its previous call
\* left, neither zeroed, nor older, nor of a later call.
THEOREM CachesAreThoseOfThePreviousCall == Spec => []KVFollowsCalls
<1>1. TypeOK /\ CachesFollow => KVFollowsCalls
  <2> SUFFICES ASSUME TypeOK, CachesFollow, inf = "reply", NEW i \in 1..Len(batches),
                      batches[i].client \notin abandoned, ~batches[i].prefill
               PROVE  kv[batches[i].client] = batches[i].call - 1
    BY DEF KVFollowsCalls
  <2>1. batches[i].client \in Clients
    BY QueueTypes
  <2>2. CacheKept(batches[i].client) /\ i \in SlotsOf(batches[i].client)
    BY <2>1 DEF CachesFollow, KvInv, SlotsOf
  <2>3. QED
    BY <2>2 DEF CacheKept
<1>2. QED
  BY <1>1, CallsTrackedInitially, CachesFollowInitially, RunInvHolds, TypeInductive,
     CallsTrackedInductive, CachesFollowInductive, PTL DEF Spec
=============================================================================
