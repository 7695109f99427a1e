----------------------------- MODULE BatchServer -----------------------------
(***************************************************************************)
(* The batch verification server and the edge clients that call it.        *)
(*                                                                         *)
(* Three kinds of processes run concurrently:                              *)
(*   - one client process per client index, started anew for every         *)
(*     experiment ("run"): Sync, then any number of Validate calls, then   *)
(*     Done (src/script/client.py, src/specedge/network/grpc.py);          *)
(*   - the gRPC front end, one asyncio loop: the handlers Sync, Validate   *)
(*     and Done, and the task that hands answers to waiting handlers       *)
(*     (SpecExecBatchServer);                                              *)
(*   - the inference process: collect a batch, run it, answer every slot,  *)
(*     store the clients' KV caches (InferenceController).                 *)
(* Two multiprocessing queues join the front end and the inference         *)
(* process.  A handler runs up to its await in one step: the loop is       *)
(* single-threaded, and Sync also holds its lock.                          *)
(*                                                                         *)
(* A Validate call is named by its client and the client's call count: the *)
(* code carries only the client index, the count is what lets the          *)
(* properties say which call an answer belongs to.                         *)
(***************************************************************************)
EXTENDS Naturals, Sequences, FiniteSets

CONSTANTS
  Clients,      \* client indices, one edge client each
  NumClients,   \* config.num_clients
  BatchSize,    \* config.max_batch_size
  BatchTypes,   \* the values of config.batch_type considered
  MaxRuns,      \* bound: experiments the orchestrator starts
  MaxCalls,     \* bound: Validate calls of a client, over all experiments
  MaxCrashes,   \* bound: processes that die by themselves
  SlowAnswers,  \* whether an answer may take longer than the 5 s timeout
  PipeRoom      \* unread requests that fit into the pipe under _recv_queue;
                \* 0 where one request is larger than the pipe

\* README.md: num_clients "must match the number of edge clients".
ASSUME ClientsAssumption ==
  /\ IsFiniteSet(Clients) /\ NumClients = Cardinality(Clients)
  /\ NumClients \in Nat \ {0}
ASSUME BatchAssumption ==
  BatchSize \in Nat \ {0} /\ BatchTypes \subseteq {"static", "dynamic"}
ASSUME BoundsAssumption ==
  /\ MaxRuns \in Nat /\ MaxCalls \in Nat /\ MaxCrashes \in Nat
  /\ SlowAnswers \in BOOLEAN /\ PipeRoom \in Nat

VARIABLES
  run,        \* number of the current experiment (its exp_name); 0 before any
  pc,         \* what each client process is doing
  calls,      \* Validate calls each client index has made, over all runs
  open,       \* whether the client is inside generate(), past its prefill call
  applied,    \* the call whose answer the client applied last
  abandoned,  \* client indices with a Validate that failed or was cut off
  crashes,    \* processes that have died by themselves
  srv,        \* serve(): "serving", then the stages of the shutdown
  synced,     \* _synced
  finished,   \* _finished
  future,     \* _resp_futures
  respLoop,   \* the task _init_resp_queue_loop
  recvQueue,  \* _recv_queue: front end -> inference process
  respQueue,  \* _resp_queue: inference process -> front end
  inf,        \* where the inference process is
  batches,    \* _request_batches
  slot,       \* next batch slot to answer, then to store
  kv,         \* k_cache/v_cache[client]: the last call folded into it, 0 if zeroed
  expName,    \* _exp_name: the experiment the inference process serves
  mode,       \* of the inference loop: "drain" once the sentinel has been read
  batchType   \* config.batch_type

clientVars == <<run, pc, calls, open, applied, abandoned, crashes>>
frontVars  == <<srv, synced, finished, future, respLoop>>
infVars    == <<inf, batches, slot, kv, expName, mode, batchType>>
vars == <<clientVars, frontVars, recvQueue, respQueue, infVars>>

Request(c, n, prefill) ==
  [kind |-> "validate", client |-> c, call |-> n, prefill |-> prefill]
BeginExperiment(r) == [kind |-> "begin", run |-> r]
Answer(c, n) == [kind |-> "answer", client |-> c, call |-> n]
Sentinel == [kind |-> "stop"]

Requests == [kind : {"validate"}, client : Clients, call : Nat, prefill : BOOLEAN]
Answers  == [kind : {"answer"}, client : Clients, call : Nat]
Begins   == [kind : {"begin"}, run : Nat]

Futures == [state : {"none", "pending", "resolved", "cancelled"}, result : Nat]
NoFuture  == [state |-> "none", result |-> 0]
Pending   == [state |-> "pending", result |-> 0]
Cancelled == [state |-> "cancelled", result |-> 0]
Resolved(n) == [state |-> "resolved", result |-> n]

Init ==
  /\ run = 0
  /\ pc = [c \in Clients |-> "off"]
  /\ calls = [c \in Clients |-> 0]
  /\ open = [c \in Clients |-> FALSE]
  /\ applied = [c \in Clients |-> 0]
  /\ abandoned = {}
  /\ crashes = 0
  /\ srv = "serving"
  /\ synced = 0
  /\ finished = 0
  /\ future = [c \in Clients |-> NoFuture]
  /\ respLoop = "running"
  /\ recvQueue = <<>>
  /\ respQueue = <<>>
  /\ inf = "collect"
  /\ batches = <<>>
  /\ slot = 1
  /\ kv = [c \in Clients |-> 0]
  /\ expName = 0
  /\ mode = "serve"
  /\ batchType \in BatchTypes

-----------------------------------------------------------------------------
(* The orchestrator and the client processes.                              *)

\* client_host.py starts one process per client index and waits for all of
\* them; the sweep starts it again for the next experiment.
Launch ==
  /\ run < MaxRuns
  /\ \A c \in Clients : pc[c] = "off"
  /\ run' = run + 1
  /\ pc' = [c \in Clients |-> "loading"]
  /\ open' = [c \in Clients |-> FALSE]
  /\ UNCHANGED <<calls, applied, abandoned, crashes>>
  /\ UNCHANGED <<frontVars, recvQueue, respQueue, infVars>>

\* Mutants of the two arms of Sync: the barrier opens without resetting
\* _finished, without the begin message after the first run, or without
\* notify_all; a client does not wait.
OpenKeepsFinished(c) ==
  /\ synced' = 0
  /\ recvQueue' = Append(recvQueue, BeginExperiment(run))
  /\ pc' = [d \in Clients |->
              IF d = c \/ pc[d] = "syncing" THEN "ready" ELSE pc[d]]
  /\ UNCHANGED finished
OpenBeginsOnce(c) ==
  /\ synced' = 0 /\ finished' = 0
  /\ recvQueue' = IF run = 1 THEN Append(recvQueue, BeginExperiment(run))
                  ELSE recvQueue
  /\ pc' = [d \in Clients |->
              IF d = c \/ pc[d] = "syncing" THEN "ready" ELSE pc[d]]
OpenNotifiesNobody(c) ==
  /\ synced' = 0 /\ finished' = 0
  /\ recvQueue' = Append(recvQueue, BeginExperiment(run))
  /\ pc' = [pc EXCEPT ![c] = "ready"]
PassBarrier(c) ==
  /\ synced' = synced + 1
  /\ pc' = [pc EXCEPT ![c] = "ready"]
  /\ UNCHANGED <<finished, recvQueue>>

\* The last client to arrive starts the experiment and wakes the others.
OpenBarrier(c) ==
  /\ synced' = 0
  /\ finished' = 0
  /\ recvQueue' = Append(recvQueue, BeginExperiment(run))
  /\ pc' = [d \in Clients |->
              IF d = c \/ pc[d] = "syncing" THEN "ready" ELSE pc[d]]

\* Any other waits on the condition.
WaitAtBarrier(c) ==
  /\ synced' = synced + 1
  /\ pc' = [pc EXCEPT ![c] = "syncing"]
  /\ UNCHANGED <<finished, recvQueue>>

\* The Sync call and its handler, up to its return or its wait.
Sync(c) ==
  /\ pc[c] = "loading" /\ srv = "serving"
  /\ \/ synced + 1 = NumClients /\ OpenBarrier(c)
     \/ synced + 1 # NumClients /\ WaitAtBarrier(c)
  /\ UNCHANGED <<run, calls, open, applied, abandoned, crashes>>
  /\ UNCHANGED <<srv, future, respLoop, respQueue, infVars>>

\* Mutant: only the first call of a client index registers a future.
RegisteredOnce(c) ==
  IF future[c].state = "none" THEN [future EXCEPT ![c] = Pending] ELSE future

\* The new future replaces whatever is registered under the client index.
Registered(c) == [future EXCEPT ![c] = Pending]

\* The Validate call and its handler, up to its await.  The first call of a
\* generate() is a prefill; later ones need the KV cache it left behind.
Validate(c) ==
  /\ pc[c] = "ready" /\ srv = "serving"
  /\ calls[c] < MaxCalls
  /\ pc' = [pc EXCEPT ![c] = "validating"]
  /\ calls' = [calls EXCEPT ![c] = @ + 1]
  /\ future' = Registered(c)
  /\ \E prefill \in BOOLEAN :
       /\ prefill \/ open[c]
       /\ recvQueue' = Append(recvQueue, Request(c, calls[c] + 1, prefill))
  /\ UNCHANGED <<run, open, applied, abandoned, crashes>>
  /\ UNCHANGED <<srv, synced, finished, respLoop, respQueue, infVars>>

\* wait_for returns: the handler answers the call, the client applies it.
Return(c) ==
  /\ pc[c] = "validating" /\ future[c].state = "resolved"
  /\ pc' = [pc EXCEPT ![c] = "ready"]
  /\ open' = [open EXCEPT ![c] = TRUE]
  /\ applied' = [applied EXCEPT ![c] = future[c].result]
  /\ UNCHANGED <<run, calls, abandoned, crashes>>
  /\ UNCHANGED <<frontVars, recvQueue, respQueue, infVars>>

\* Mutant: the handler awaits its future without a timeout.
NoTimeout(c) == FALSE

\* wait_for gives up after 5 s, also when the answer arrives in the same turn
\* of the loop: the future is cancelled, the call fails, the client process
\* ends with the exception.  The request stays where it is.
Timeout(c) ==
  /\ SlowAnswers
  /\ pc[c] = "validating" /\ srv \in {"serving", "stopping"}
  /\ pc' = [pc EXCEPT ![c] = "off"]
  /\ future' = [future EXCEPT ![c] = Cancelled]
  /\ abandoned' = abandoned \cup {c}
  /\ UNCHANGED <<run, calls, open, applied, crashes>>
  /\ UNCHANGED <<srv, synced, finished, respLoop>>
  /\ UNCHANGED <<recvQueue, respQueue, infVars>>

\* The Done call and its handler; the process ends.
Done(c) ==
  /\ pc[c] = "ready" /\ srv = "serving"
  /\ pc' = [pc EXCEPT ![c] = "off"]
  /\ finished' = IF finished + 1 >= NumClients THEN 0 ELSE finished + 1
  /\ UNCHANGED <<run, calls, open, applied, abandoned, crashes>>
  /\ UNCHANGED <<srv, synced, future, respLoop, recvQueue, respQueue, infVars>>

\* Once the server is stopping every new call fails and ends the process.
CallRefused(c) ==
  /\ pc[c] \in {"loading", "ready"} /\ srv # "serving"
  /\ pc' = [pc EXCEPT ![c] = "off"]
  /\ UNCHANGED <<run, calls, open, applied, abandoned, crashes>>
  /\ UNCHANGED <<frontVars, recvQueue, respQueue, infVars>>

\* Mutant: every cancelled client is taken back from _synced.
ClientDiesUncounted(c) ==
  /\ crashes < MaxCrashes
  /\ pc[c] # "off"
  /\ crashes' = crashes + 1
  /\ pc' = [pc EXCEPT ![c] = "off"]
  /\ synced' = synced - 1
  /\ UNCHANGED <<run, calls, open, applied, future, abandoned>>
  /\ UNCHANGED <<srv, finished, respLoop, recvQueue, respQueue, infVars>>

\* A client process dies or is killed.  Its handler, if it has one, is
\* cancelled at its await: wait_for cancels the future; a Sync handler
\* leaves _synced as it is.
ClientDies(c) ==
  /\ crashes < MaxCrashes
  /\ pc[c] # "off"
  /\ crashes' = crashes + 1
  /\ pc' = [pc EXCEPT ![c] = "off"]
  /\ \/ /\ pc[c] = "validating"
        /\ future' = [future EXCEPT ![c] = Cancelled]
        /\ abandoned' = abandoned \cup {c}
     \/ /\ pc[c] # "validating"
        /\ UNCHANGED <<future, abandoned>>
  /\ UNCHANGED <<run, calls, open, applied>>
  /\ UNCHANGED <<srv, synced, finished, respLoop>>
  /\ UNCHANGED <<recvQueue, respQueue, infVars>>

-----------------------------------------------------------------------------
(* The front end.                                                          *)

\* One turn of the response loop that finds an answer.  A future that is
\* already done refuses the answer (InvalidStateError, logged), as does a
\* client index that has none.
Deliver ==
  /\ respLoop = "running" /\ srv # "cleanup"
  /\ respQueue # <<>> /\ Head(respQueue).kind = "answer"
  /\ LET a == Head(respQueue)
     IN  future' = IF future[a.client].state = "pending"
                   THEN [future EXCEPT ![a.client] = Resolved(a.call)]
                   ELSE future
  /\ respQueue' = Tail(respQueue)
  /\ UNCHANGED <<srv, synced, finished, respLoop>>
  /\ UNCHANGED <<clientVars, recvQueue, infVars>>

\* The response loop ends: it sees the shutdown event, or reads the sentinel.
RespLoopEnds ==
  /\ respLoop = "running" /\ srv # "cleanup"
  /\ \/ srv # "serving" /\ UNCHANGED respQueue
     \/ /\ respQueue # <<>> /\ Head(respQueue) = Sentinel
        /\ respQueue' = Tail(respQueue)
  /\ respLoop' = "ended"
  /\ UNCHANGED <<srv, synced, finished, future>>
  /\ UNCHANGED <<clientVars, recvQueue, infVars>>

\* Done with shutdown=True, or SIGINT: the shutdown event is set.
RequestShutdown ==
  /\ srv = "serving"
  /\ srv' = "stopping"
  /\ UNCHANGED <<synced, finished, future, respLoop>>
  /\ UNCHANGED <<clientVars, recvQueue, respQueue, infVars>>

\* Mutant: the handlers that wait at the barrier are not cancelled.
EndGraceAtBarrier ==
  /\ srv = "stopping"
  /\ srv' = "cleanup"
  /\ pc' = [c \in Clients |-> IF pc[c] = "validating" THEN "off" ELSE pc[c]]
  /\ recvQueue' = Append(recvQueue, Sentinel)
  /\ UNCHANGED <<run, calls, open, applied, abandoned, crashes>>
  /\ UNCHANGED <<synced, finished, future, respLoop, respQueue, infVars>>

\* server.stop(grace) is over: the handlers still waiting are cancelled, then
\* cleanup() sends the sentinel and blocks the loop in join().
EndGrace ==
  /\ srv = "stopping"
  /\ srv' = "cleanup"
  /\ LET cut == {c \in Clients : pc[c] = "validating"}
     IN  /\ abandoned' = abandoned \cup cut
         /\ future' = [c \in Clients |->
                         IF c \in cut THEN Cancelled ELSE future[c]]
         /\ pc' = [c \in Clients |->
                     IF c \in cut \/ pc[c] = "syncing" THEN "off" ELSE pc[c]]
  /\ recvQueue' = Append(recvQueue, Sentinel)
  /\ UNCHANGED <<run, calls, open, applied, crashes>>
  /\ UNCHANGED <<synced, finished, respLoop, respQueue, infVars>>

\* join() timed out: terminate() or kill().
TerminateInference ==
  /\ srv = "cleanup" /\ inf # "stopped"
  /\ inf' = "stopped"
  /\ UNCHANGED <<batches, slot, kv, expName, mode, batchType>>
  /\ UNCHANGED <<clientVars, frontVars, recvQueue, respQueue>>

\* join() has returned: the sentinel for the response loop.
PutSentinel ==
  /\ srv = "cleanup" /\ inf = "stopped"
  /\ srv' = "closing"
  /\ respQueue' = Append(respQueue, Sentinel)
  /\ UNCHANGED <<synced, finished, future, respLoop>>
  /\ UNCHANGED <<clientVars, recvQueue, infVars>>

\* The requests nobody has taken out of _recv_queue.
Unread == {i \in 1..Len(recvQueue) : recvQueue[i].kind = "validate"}

\* The response loop has ended, or its 2 s are over and it is cancelled; the
\* queues are closed.  join_thread() has no time limit: it waits for the
\* queue's feeder thread, which waits for room in the pipe.  The front end
\* holds a reader of its own, so the pipe does not break when the inference
\* process is gone: with more unread than fits, the loop is blocked for good.
CloseQueues ==
  /\ srv = "closing"
  /\ srv' = IF Cardinality(Unread) <= PipeRoom THEN "stopped" ELSE "blocked"
  /\ respLoop' = "ended"
  /\ UNCHANGED <<synced, finished, future>>
  /\ UNCHANGED <<clientVars, recvQueue, respQueue, infVars>>

-----------------------------------------------------------------------------
(* The inference process.                                                  *)

\* Mutant: a dynamic batch waits to be full.
WantsFullBatch == Len(batches) < BatchSize

\* _check_batch_condition.  A static get() then blocks on an empty queue.
WantsMore ==
  /\ Len(batches) < BatchSize
  /\ batchType = "dynamic" => recvQueue # <<>>

\* _begin_experiment: KV caches zeroed, requests not yet run dropped.
GetBegin ==
  /\ inf = "collect" /\ WantsMore
  /\ recvQueue # <<>> /\ Head(recvQueue).kind = "begin"
  /\ expName' = Head(recvQueue).run
  /\ kv' = [c \in Clients |-> 0]
  /\ batches' = <<>>
  /\ recvQueue' = Tail(recvQueue)
  /\ UNCHANGED <<inf, slot, mode, batchType, clientVars, frontVars, respQueue>>

GetRequest ==
  /\ inf = "collect" /\ WantsMore
  /\ recvQueue # <<>> /\ Head(recvQueue).kind = "validate"
  /\ batches' = Append(batches, Head(recvQueue))
  /\ recvQueue' = Tail(recvQueue)
  /\ UNCHANGED <<inf, slot, kv, expName, mode, batchType>>
  /\ UNCHANGED <<clientVars, frontVars, respQueue>>

\* The sentinel: the requests collected so far are still run, then the loop
\* returns.
GetSentinel ==
  /\ inf = "collect" /\ WantsMore
  /\ recvQueue # <<>> /\ Head(recvQueue) = Sentinel
  /\ mode' = "drain"
  /\ inf' = IF batches = <<>> THEN "stopped" ELSE "reply"
  /\ recvQueue' = Tail(recvQueue)
  /\ UNCHANGED <<batches, slot, kv, expName, batchType>>
  /\ UNCHANGED <<clientVars, frontVars, respQueue>>

\* _inference up to the first answer: every slot gets its client's KV cache
\* (or its prefill), then one forward pass over the batch.
Forward ==
  /\ inf = "collect" /\ ~WantsMore
  /\ batches # <<>>
  /\ inf' = "reply"
  /\ UNCHANGED <<batches, slot, kv, expName, mode, batchType>>
  /\ UNCHANGED <<clientVars, frontVars, recvQueue, respQueue>>

\* The answer of the next slot, addressed by client index alone.
Reply ==
  /\ inf = "reply"
  /\ respQueue' = Append(respQueue, Answer(batches[slot].client, batches[slot].call))
  /\ IF slot < Len(batches)
     THEN slot' = slot + 1 /\ UNCHANGED inf
     ELSE slot' = 1 /\ inf' = "store"
  /\ UNCHANGED <<batches, kv, expName, mode, batchType>>
  /\ UNCHANGED <<clientVars, frontVars, recvQueue>>

\* Mutant: only the first slot's cache is stored.
FirstStored ==
  IF slot = 1 THEN [kv EXCEPT ![batches[slot].client] = batches[slot].call] ELSE kv

\* The slot's compacted cache goes back under its client index.
Stored == [kv EXCEPT ![batches[slot].client] = batches[slot].call]

\* _reorder_kv_cache, one slot after the other; after the last one the batch
\* is removed and the loop starts over, or returns.
StoreKV ==
  /\ inf = "store"
  /\ kv' = Stored
  /\ IF slot < Len(batches)
     THEN slot' = slot + 1 /\ UNCHANGED <<inf, batches>>
     ELSE /\ slot' = 1
          /\ batches' = <<>>
          /\ inf' = IF mode = "drain" THEN "stopped" ELSE "collect"
  /\ UNCHANGED <<expName, mode, batchType, clientVars, frontVars, recvQueue, respQueue>>

\* An exception in _inference (or a device error) ends the process; nothing
\* watches it and nothing restarts it.
InferenceDies ==
  /\ crashes < MaxCrashes
  /\ inf \in {"reply", "store"}
  /\ crashes' = crashes + 1
  /\ inf' = "stopped"
  /\ UNCHANGED <<run, pc, calls, open, applied, abandoned>>
  /\ UNCHANGED <<batches, slot, kv, expName, mode, batchType>>
  /\ UNCHANGED <<frontVars, recvQueue, respQueue>>

-----------------------------------------------------------------------------
Client(c) ==
  \/ Sync(c) \/ Validate(c) \/ Return(c) \/ Timeout(c)
  \/ Done(c) \/ CallRefused(c) \/ ClientDies(c)

FrontEnd ==
  \/ Deliver \/ RespLoopEnds \/ RequestShutdown \/ EndGrace
  \/ TerminateInference \/ PutSentinel \/ CloseQueues

Inference ==
  \/ GetBegin \/ GetRequest \/ GetSentinel
  \/ Forward \/ Reply \/ StoreKV \/ InferenceDies

Next ==
  \/ Launch
  \/ \E c \in Clients : Client(c)
  \/ FrontEnd
  \/ Inference

Spec == Init /\ [][Next]_vars

(* The two server processes keep running; the handlers' timeouts fire; a    *)
(* shutdown, once requested, is carried through.  Client processes load the *)
(* model and call Sync, and generate() ends after finitely many calls, so a *)
(* client that may call Done infinitely often does.  Nobody has to crash,   *)
(* to launch a run or to request a shutdown.                                *)
Fairness ==
  /\ WF_vars(Deliver) /\ WF_vars(RespLoopEnds)
  /\ WF_vars(EndGrace) /\ WF_vars(PutSentinel) /\ WF_vars(CloseQueues)
  /\ WF_vars(TerminateInference)
  /\ WF_vars(GetBegin \/ GetRequest \/ GetSentinel \/ Forward \/ Reply \/ StoreKV)
  /\ \A c \in Clients :
       /\ WF_vars(Sync(c)) /\ WF_vars(Return(c)) /\ WF_vars(Timeout(c))
       /\ WF_vars(CallRefused(c)) /\ SF_vars(Done(c))

FairSpec == Spec /\ Fairness

-----------------------------------------------------------------------------
(* Properties.                                                             *)

TypeOK ==
  /\ run \in Nat /\ crashes \in Nat
  /\ pc \in [Clients -> {"off", "loading", "syncing", "ready", "validating"}]
  /\ calls \in [Clients -> Nat] /\ applied \in [Clients -> Nat]
  /\ open \in [Clients -> BOOLEAN]
  /\ abandoned \subseteq Clients
  /\ srv \in {"serving", "stopping", "cleanup", "closing", "stopped", "blocked"}
  /\ synced \in Nat /\ finished \in Nat
  /\ future \in [Clients -> Futures]
  /\ respLoop \in {"running", "ended"}
  /\ recvQueue \in Seq(Requests \cup Begins \cup {Sentinel})
  /\ respQueue \in Seq(Answers \cup {Sentinel})
  /\ inf \in {"collect", "reply", "store", "stopped"}
  /\ batches \in Seq(Requests)
  /\ slot \in Nat \ {0}
  /\ kv \in [Clients -> Nat]
  /\ expName \in Nat
  /\ mode \in {"serve", "drain"}
  /\ batchType \in BatchTypes

\* The call a client process is waiting for.
Awaited(r) == pc[r.client] = "validating" /\ calls[r.client] = r.call

\* Answers carry only a client index and futures are registered under it, yet
\* a handler never wakes up with the answer of another call: not when other
\* clients time out, die and come back, as long as no call of this client
\* itself was ever cut off.
AnswersMatch ==
  \A c \in Clients \ abandoned :
    future[c].state = "resolved" => future[c].result = calls[c]

\* The same for every client, also one whose predecessor under the same index
\* was cut off: what "the new run's clients start clean" would need.
NewRunsStartClean ==
  \A c \in Clients :
    pc[c] = "validating" /\ future[c].state = "resolved"
      => future[c].result = calls[c]

\* The KV cache loaded into the slot of a non-prefill request is the one the
\* client's previous call left: not zeroed, older, or skipping a call.
KVFollowsCalls ==
  inf = "reply" =>
    \A i \in 1..Len(batches) :
      LET r == batches[i]
      IN  r.client \notin abandoned /\ ~r.prefill => kv[r.client] = r.call - 1

\* begin_experiment empties _request_batches: never of a request whose client
\* still waits for it.
BeginDropsNoLiveRequest ==
  recvQueue # <<>> /\ Head(recvQueue).kind = "begin" =>
    \A i \in 1..Len(batches) : ~Awaited(batches[i])

\* A request somebody waits for is run with the result logger, the seed and
\* the caches of its own experiment, not of the one before or after.
ServedInOwnRun ==
  inf = "reply" =>
    \A i \in 1..Len(batches) : Awaited(batches[i]) => expName = run

\* "All clients are here -> a new experiment is starting": no client is past
\* the barrier while another has yet to reach it.
BarrierHolds ==
  \A c, d \in Clients :
    pc[c] \in {"ready", "validating"} => pc[d] \notin {"loading", "syncing"}

\* Done wraps its count around only when the last client of the run is done.
DoneCountsEveryClient ==
  [][\A c \in Clients :
       Done(c) /\ finished' = 0 => \A d \in Clients : pc'[d] = "off"]_vars

\* Every Validate is answered, unless the server is told to shut down.
EveryCallAnswered ==
  \A c \in Clients :
    pc[c] = "validating" ~> pc[c] = "ready" \/ srv # "serving"

\* Every Validate ends, with an answer or an error, whatever dies.
NoCallHangs ==
  \A c \in Clients : pc[c] = "validating" ~> pc[c] # "validating"

\* A client at the barrier gets past it, unless the server shuts down.
BarrierOpens ==
  \A c \in Clients :
    pc[c] = "syncing" ~> pc[c] = "ready" \/ srv # "serving"

\* A shutdown lets go of every client and ends the inference process and the
\* response loop, and then cleanup() returns, unless the inference process
\* ended, by an exception or by terminate(), before it read the sentinel:
\* then requests are left unread, and cleanup() may wait in join_thread() for
\* good.
ShutdownCompletes ==
  srv = "stopping" ~>
    /\ inf = "stopped" /\ respLoop = "ended"
    /\ \A c \in Clients : pc[c] = "off"
    /\ srv = "stopped" \/ (srv = "blocked" /\ mode = "serve")

\* Without crashes and with answers in time, the server is a VerifyService: a
\* client is away while its process does not run, held while its Sync waits,
\* asking while its Validate is open.
Phase(c) ==
  CASE pc[c] = "off" -> "away"
    [] pc[c] = "loading" -> "arriving"
    [] pc[c] = "syncing" -> "held"
    [] pc[c] = "ready" -> "free"
    [] pc[c] = "validating" -> "asking"

Service == INSTANCE VerifyService
  WITH phase <- [c \in Clients |-> Phase(c)], asked <- calls, answered <- applied

ImplementsService == Service!Spec
ImplementsFairService == Service!FairSpec
=============================================================================
