# A formal model of SpecEdge

SpecEdge serves a large language model with speculative decoding split over two
places: *edge clients* draft a tree of tokens with a small model, a *batch
verification server* runs the large model over the trees of several clients at
once, and while a client waits for its verdict it drafts on behind the
submitted tree. Around that pair the repository has a pipeline that does both in
one process, an auto-regressive baseline, and the programs that run lists of
experiments on rented machines. This directory holds TLA+ modules of that
system, the TLC configurations that check them, and machine-checked proofs.

Paths below are relative to the repository; `grpc.py` without a directory is
`src/strategy/server_verify/specexec/grpc.py`, and `sweep.py` is `script/sweep.py`.

## 1. The system

| Component | Source | State it keeps | Operations |
|---|---|---|---|
| gRPC front end of the batch server | `grpc.py` 20-218, `src/script/batch_server.py` | `_synced`, `_finished`, `_resp_futures`, two multiprocessing queues, the shutdown event | `Sync`, `Validate`, `Done`, response task, `cleanup` |
| Inference process | `grpc.py` 222-789 | `_request_batches`, one cache per client, slots of the batch, experiment name | `loop`, `_begin_experiment`, `_inference`, `_reorder_kv_cache` |
| Client request loop | `src/specedge/client/specexec.py` | tree, draft cache, text so far, `_overlap_active` | `generate`, `_cycle`, `_grow_tree`, `_trim_by_budget`, `_validate_tree` |
| Draft trees | `src/specedge/tree.py` | tokens, parents, positions, status, log-probabilities, mask; `prefix_len`, `end` | `add`, `gather`, reorder; by row in `BatchTree` |
| Reconciliation | `src/specedge/client/reorder.py` | (tree and cache) | plain reorder, bonus token, splice, re-open leaves |
| Overlap strategies | `src/specedge/client/proactive.py`, `saguaro/*.py` | scratch forest behind `end`, the bets | `speculate`, `reconcile`, fan-out schedules |
| Caches | `src/model/cache.py`, read by `model/qwen3_5.py` | keys and values per slot; recurrent state and `commit_len` in `HybridCache` | `update`, `gather`, `clear`, `commit`, `snapshot`, `restore` |
| Replay oracle | `src/specedge/network/oracle.py` | recorded texts | `check_prompt`, `select` |
| Server-only pipeline | `src/script/server_only.py`, `src/strategy/edge_draft`, `edge_verify`, `request_manager.py` | `BatchTree`, request table, trace, log | draft, trim, verify, keep, recycle rows |
| Auto-regressive baseline | `src/script/auto_batch.py` | rows, mask, cache | one token per row and step |
| Pre-computed prompts | `grpc.py` 347-462 | files of a model and dataset, shared by all servers of a box | read, prefill and save, at start-up |
| Experiment drivers | `script/sweep.py`, `script/sweep_experiments.py`, `src/script/client_host.py` | pid and status of the current run, records | launch, wait, stop, collect, summary |
| Layer-split baseline, metrics, traces, plots | `layer_split*.py`, `src/metric` | | not modelled, see 7 |

**How they interact.** A client process calls `Sync` (a barrier over
`num_clients`; the last arrival also queues a `begin_experiment` message), then
`Validate` once per decoding cycle, then `Done`. `Validate` registers a future
under the *client index* and puts the request in a queue; the inference process
collects a batch, runs it, queues one answer per slot and stores each client's
compacted cache; a task of the front end resolves the futures. Client and
server never tell each other which cache slots they kept: both work it out
from the verdict. The drivers know of a server and its clients only what they
read over ssh: a probe of a pid, a line in a log, a return code.

**What is hard here.** Concurrent handlers and two processes over FIFO queues;
answers that arrive after their call gave up; clients killed while they wait;
batches that wait to be full; shutdown while everything waits. In the client:
slot numbers that must stay consistent between tree, mask, draft cache and
server cache through adds, cuts, trims, splices and compactions; decisions
taken before the verdict that must fit it afterwards; recurrent state that
cannot be taken back. In the batched pipelines: rows that are recycled, and rows
that idle. In the drivers: failed probes, commands that do not return,
interrupts at any point, and processes that survive the one that started them.

**What makes each component correct.** A call gets the answer to that call and
is computed from the cache its predecessor left; an experiment runs with its
own logger, seed and caches; clients start together; nothing waits for ever;
a shutdown ends. The text a client emits is the target's greedy text whatever
the draft model does; the confirmed part of the tree is that text; both caches
hold the contexts the tree says; every request fills the server's fixed-size
buffers. A batched pipeline serves each request of its dataset once, with the
text it would have alone, and its log accounts for it. A sweep ends, leaves no
process behind, and what it records as ok was served by the right server.

`PROJECT.json` lists every component and, under `hazards`, the lines where these
things can go wrong with the properties that watch them.

## 2. The modules

    VerifyService   what the batch server promises       GreedyDecode   what decoding promises
         ^  refinement                                         ^  refinement
    BatchServer     front end, inference, clients        SpecDecode     one request, client and server
         ^                    ^                            | extends HybridCache, FanOut
    MCBatchServer   BatchServerProofs                      |     ^ SpecDecodeProofs
                                                           v     ^ DraftCacheProofs, on FanOutProofs
                                                         DraftTree      trees and attention caches
                                                           ^        ^ DraftTreeProofs
                                                           | extends    ^
    RequestPool     what a pipeline promises               |            |
         ^  refinement                                     |            |
    ServerOnly      the pipeline in one process  ----------+     ServerOnlyProofs

    MCExperiments   composes  Sweep (drivers, servers, clients),  AutoBatch (baseline)
         ^          and  PromptCache (files of a server's start-up)
    ExperimentsProofs  on  SweepProofs

`BatchServer` treats a request as an opaque call and looks at who is answered
when, with which cache and in which experiment. `SpecDecode` takes one client's
calls as atomic and looks at what is computed. They meet in two facts: the cache
of a client's slot is the one its previous call left (`KVFollowsCalls`, assumed
by `SpecDecode`'s `targetKV`), and a request that is not full ends the inference
process (`VerifyFails` there, `InferenceDies` here). `Sweep` takes a whole server
as two processes and a whole experiment as one client.

### BatchServer

* Clients: `pc` is where a client process is; `calls` counts its `Validate`
  calls so that properties can name a call (the code carries the client index
  only). `Launch` starts all clients of an experiment (`client_host.py` starts
  them together and waits for all). `open` says that a `generate` is past its
  prefill, so that later calls may rely on a stored cache.
* Front end: it is one asyncio loop, so a handler runs from one `await` to the
  next in one action. `Sync` is one action up to its return or its wait, under
  its lock; `notify_all` is part of the last arrival. `Validate`, `Return` and
  `Timeout` are the parts of a `Validate` call; `Deliver` is a turn of the
  response task, including the refused `set_result` on a finished future.
* Inference process: `GetBegin`, `GetRequest`, `GetSentinel` are the three kinds
  of message `loop` reads while `_check_batch_condition` (`WantsMore`) holds;
  `Forward` starts a batch; `Reply` and `StoreKV` walk over its slots.
  `batchType` is chosen among `BatchTypes` at the start.
* Faults: `Timeout` (only with `SlowAnswers`), `ClientDies`, `InferenceDies`, and
  `CallRefused` once the server is stopping. `crashes` bounds the deaths.
* Shutdown: `RequestShutdown` (a `Done` with `shutdown` or a signal), `EndGrace`,
  `TerminateInference` (`join` with its timeout), `PutSentinel`, `CloseQueues`.
  `CloseQueues` ends in `stopped`, or in `blocked`: `join_thread` waits without a limit
  for a feeder thread, and that for room in a pipe. `PipeRoom` is how many unread
  requests the pipe takes; only requests are large enough to matter.

Left out: the payload, the random seed's value, and the `dict` of pending
experiment names (every client sends the same one).

### DraftTree, HybridCache, FanOut and SpecDecode

`DraftTree` has no state: it gives the tree as a function from slots to nodes,
and its operations. `Add` puts siblings in the order of their tokens, where the code has
that of their scores; no property tells siblings apart by slot. A node's `row` is the set of slots its row of the attention
mask selects. Log-probabilities are left out: what they decide is a choice of
the model, restricted by what a cumulative score guarantees (a node never
outranks its ancestors, so a best set is closed under parents; `topk` with
`sorted=False` lists what it keeps in the order of the slots except that the
lowest score comes last).

A cache slot holds the *context* its key and value were computed from - the
tokens up to and including its own - or `NoKV`. A forward pass (`Computed`)
yields a node's context only if the cached slots of its row hold the contexts of
its ancestors, each at its position. A mask, position, parent or slot that is
wrong therefore shows as a missing context, and the target's choice after a
missing context is arbitrary in `Verify`: it is there that `Lossless` would break.

`HybridCache` adds the linear layers of Qwen3.5: one recurrent state per row, here
the tokens folded into it in order, and `commit_len`. A node sees the state and
the uncommitted slots of its mask row (`Window`); a gather whose destinations
start at 0 commits. The forward pass of a hybrid model yields a context only if
both kinds of layers saw it.

`FanOut` computes the three schedules of `outcomes.py` exactly, over fractions. The
code takes square roots of the acceptance rate; the model has the rates for
which they are rational (0, 0.36, 0.64, 1), where floating point could differ
only in a tie.

`GreedyDecode` says of a verification what the text is afterwards, not how it is
computed: it is longer by up to `reach` tokens (here the budget and one), each the
next token of what is before it.

`SpecDecode` runs `_cycle` over and over: `StartGrowing`, `GrowRound` (one round
of `_grow_tree`, both `_process_candidates` and `_get_next_beams`), `Submit`
(trim, then send), the overlap (`Predict`, `ForestRound`, `PlaceBets`) concurrent
with the server's `Verify`, and `Reconcile` (choose the accepted path, splice a
bet or reorder plainly, append to the text). `VerifyFails` is a request of the
wrong size (for the oracle: an empty one, whose maximum at `oracle.py` 103 raises), `ReorderRaises` the exception of a hybrid cache whose committed part
is longer than what is kept, or of a path that leaves no slot for the bonus token. In a
replaying client `Replay` takes the place of `Verify`: the oracle answers from a recorded
text by position, and with end-of-sequence tokens beyond it; a trace of another prompt
fails at once.

`max_len` is a field of the configuration, at most `MaxLen`. A round whose children do
not fit (`HasRoom`) raises, in the tree and in the forest, as do a bet without a slot for
its root and a budget of which `topk` finds fewer nodes; each ends in `failed`.

Assumed: greedy target (temperature 0), no ties among scores. `Init` is one
request; `reset` of the engine between requests clears all that is kept.

Details of the source the model follows as they are: the leaf search of the
proactive strategy looks at stale parents behind `end` and numbers leaves from 0
when it has more than beams (`proactive.py` 231, 239-246); the tokens of the
prefill cycle are not searched for an end-of-sequence token and come on top of
`max_new_tokens` (`specexec.py` 143-152); later cycles that bring one end the
request, but nothing is cut off behind it, because line 162 takes the row of a
1 x n tensor for a position. The stop at `specexec.py` 279-284 is never taken, because
children that `_get_next_beams` returns are in the budget already, and is left out.

### ServerOnly and RequestPool

An iteration of `main()` is: `AdmitRow` for each empty row while the dataset lasts,
`StartDrafting`, `GrowRow` for each row and round, `TrimRow`, `Verify` (all rows in one
pass), `Keep` (accepted paths, bonus tokens, caches, finished requests, log and
trace). The rows of the code's tensors do not depend on each other while they are
drafted, so the model takes them one after the other; in `Keep` they do, through
`AnyAccepted`, and there they are one action. A row without a request keeps its tree
and goes on drafting from it, as in the code. `GrowRow` ends the program when a tree
reaches the last slot, which every padding entry of a pass writes to; the code raises a
little later, at the next write.
`Stored` leaves in a recycled row what the request before it left, since `clear` with
indices zeroes a copy. `Ends` compares as the code does, bit by bit.

`RequestPool` is the abstract benchmark: requests are taken up in order, at most
`Capacity` at a time, each is served once, and it is over when all are.

### Sweep, AutoBatch and PromptCache

`Sweep` has both drivers. `run_one` is a sequence of actions from `PutConfig` to
`Cooldown`, its `finally` block `Teardown`, `StopServer`, `AwaitSigint`, `AwaitSigkill`;
`sweep_experiments.py` runs the part between against a `Standing` server. A server is its
front end (`main`) and its inference process (`worker`), which dies with the front
end only if that cleans up. `MaxFaults` faults may strike: a failed ssh, a probe that
fails (and reads as "dead"), a launch that does not return in time, a process that
crashes - a client, the inference process, the front end while it starts
(`StartupFails`) or when it is up (`FrontEndDies`, which leaves the inference process) -
a copy that fails, a Ctrl-C, and a command that never returns (`CommandHangs`). The
last is possible in what `run` gives no time limit (`InUnlimitedCommand`): the probe
of a pid (`sweep.py` 424), the `grep` for the marker (441), `pkill` (462-463), the two
`kill`s (479, 486), and the pipe that pulls results (517, `sweep_experiments.py` 214). The
driver then stays `hung` until a Ctrl-C; a `kill` or `pkill` may have been delivered.
Other waits have a limit, which may strike whenever the driver waits. A server that
never leaves its `cleanup` is one that takes no further step. `Standing`, the server of
`sweep_experiments.py`, does not crash: that program never looks at it.
`blamed` records what struck which experiment, for the properties only.
Servers share a port (`SO_REUSEPORT` is gRPC's default), so a client is served by any
server that is up.

`AutoBatch` has `Load` (a dataset and a batch) and `Iterate` (fill free rows, one
forward pass, remove what is complete, perhaps return). `tokens` is a history variable:
how many tokens each request was given, which its row forgets when it is cleared.

`PromptCache` has the inference processes of `NumServers` starts, which may overlap when
one was not torn down, and the files they share. `LoadPrompt` reads a prompt whose files
exist; `PrefillPrompt`, `OpenFile` and `CloseFile` compute and save it, and `Killed` may
strike in between. A file is whole, missing, or known by the server that opened it last
and has not finished it. A server prepares every `sample`-th prompt from `offset` to the
end of the dataset (`Selected`), its clients ask for those below `max` (`AskedFor`).

## 3. What the runs check

| Run | Instance | Shows |
|---|---|---|
| `batch_faults` | 2 clients, 2 runs, 3 calls each in all, both batch types, 1 crash, timeouts, clients interchangeable | `TypeOK`, `AnswersMatch`, `KVFollowsCalls`, `ServedInOwnRun`, `DoneCountsEveryClient`, `BeginDropsNoLiveRequest` |
| `batch_ends` | 2 clients, 1 run, 2 calls, static, 1 crash, timeouts, `PipeRoom` 0 | `NoCallHangs`, `ShutdownCompletes` |
| `batch_live` | 2 clients, 1 run, 2 calls, dynamic, no faults | `EveryCallAnswered`, `BarrierOpens`, `BarrierHolds`; the server implements `VerifyService` with its fairness |
| `batch_overcount` | 2 crashes | finding: the barrier overcounts |
| `batch_stale` | timeouts | finding: a late answer reaches the next experiment |
| `decode` | 16 client configurations, vocabulary 2, prompt 2, 4 new tokens | the client's properties, that the schedules are fair, and that client and verifier or oracle implement `GreedyDecode` |
| `decode_thin` | Saguaro, branches of one level | finding: an undersized request |
| `decode_holes` | no overlap | finding: holes in the draft cache |
| `decode_hybrid` | Saguaro, hybrid models | finding: an unverified branch is committed |
| `server_only` | 2 rows, datasets of 1, 2 and 3 prompts, chains and trimmed bushy trees | the pipeline's properties, and that it implements `RequestPool` |
| `server_only_fallback` | the same | finding: a row that accepts nothing keeps draft tokens |
| `experiments` | 2 experiments, 2 faults, 6 ways to start; 36 loads of the baseline; 3 server starts, 1 kill | what a sweep leaves behind and records; what a row of the baseline attends to; both end; what a server finds in the files of those before it (`PromptsSurviveRestarts`) |

**Bounds.** *Batch server*: two clients are enough for two batch slots, a batch with a
prefill next to a continued request, a client that waits at the barrier while
another dies, and a client that is left alone. Two runs are enough for a
`begin_experiment` that meets what the run before left; two calls for a stored
cache to be used. One crash and any number of timeouts are allowed together. No request
fits into the pipe (`PipeRoom` 0), which is so with the settings of
`specedge.example.yaml`: a mask of 33 x 2048 16-bit numbers is 132 KB, a pipe usually 64 KB. A cleanup that ends and
one that is blocked both happen in `batch_ends`.

*Decoding*: a vocabulary of 2 with width 2 makes every child of a node exist,
width 1 leaves one out, so that hits, misses and guesses at undrafted tokens all
happen; budgets of 2 and 3 cut and trim trees of depth 2 and 3; 4 new tokens
give up to five cycles, so that a tree that was spliced in is grown, submitted,
spliced again. The `Target` of the runs depends on the length and the last token
of the context and makes full, partial and zero accepts occur, and
end-of-sequence tokens in the middle of a verdict. `MaxLen` is never reached, the
`max_len` of four configurations is.
Saguaro has budgets that do not divide by its exits, so the schedules differ.
`FanOutIsFair` looks at up to five exits, nine guesses and every rate.

The configurations (`MCSpecDecode`) are: no overlap on a bushy tree; one
proactive bet on a bushy tree and on a trunk with discounted rounds; Saguaro on
a trunk with linear branches, on a bushy tree with one bushy branch that can be
cut down to expanded nodes (leaves are re-opened), on the leaves of a bushy
tree, and with branches of one level; hybrid models without overlap and with
Saguaro; a client that replays traces that end before, and after, it must stop,
and one of another prompt; bets that are cut down to their root or to expanded
nodes; and four clients (`Cramped`) with room for less than a round, a bet, a branch or their budget.

*Server-only*: `Batch` 2 is one row that accepts next to one that does not, an idle
row, and, with three prompts, a row that is recycled while the other runs.
`MaxNew` 2 with `MaxLen` 9 leaves room for a request and one tree but not for a row
that idles long, so that `failed` is reached. Three tokens, `Eos` the largest.

*Experiments*: two experiments are one that leaks and one that is struck by it; two
faults let a second one hit the finally block. Clients run on the driver's machine,
on the client box, or on machines neither `pkill` nor Ctrl-C reaches. The baseline
has 1-3 rows, fewer prompts than rows, as many and more, every prompt or every second
one, and up to 3 new tokens. Three starts are one that is killed, one that meets
its files, and one after or beside it; they have two models, one of them hybrid, and
take all prompts, a part of them, or none.

**Deadlock.** `BatchServer` may really stop (all runs done, the server stopped), and
so may the programs of `experiments`, so these runs do not check deadlock;
`NoCallHangs`, `EveryCallAnswered`, `ShutdownCompletes`, `SweepEnds` and
`BaselineReturns` say what may not be left waiting. `SpecDecode` and `ServerOnly`
check it.

**Fairness.** `BatchServer`: the front end's task, the inference loop and the
shutdown keep running (weak fairness of their steps); a client process loads
and calls `Sync`, applies its answer, and its calls end by the 5 s timeout if
answers can be slow; `Done` has strong fairness because `generate` makes finitely
many calls, so a client that is free again and again is done some time. Nobody
need crash, launch, or request a shutdown. `SpecDecode` and `ServerOnly`: the one
program there is keeps taking steps until it is done or has failed (`KeepsGoing`).
A step is always possible until then - the runs check that there is no deadlock -
so this is weak fairness of `Step`, in a form TLC checks without evaluating
`ENABLED`. `Sweep`: weak fairness of the driver only, while no command of it hangs: the
waits that are steps of the model have a time limit, the commands without one may hang
instead, and `SweepEnds` says so. Servers, clients, faults and whoever presses Ctrl-C
need not do anything. `AutoBatch`: weak fairness of its loop.

**Conditions on the properties.** `AnswersMatch` and `KVFollowsCalls` speak of
client indices no call of which was ever cut off by a timeout, a death or a
shutdown (`abandoned`): without that condition they fail, which is the finding
`batch_stale`. `EveryCallAnswered` and `BarrierHolds` need the absence of faults,
and dynamic batching (with static, the client that is left alone is never
answered: see the observations). `OverlapFillsDraftCache` is about the Saguaro
strategy with attention caches when its beams are enough for all exits
(`RunsEveryExit`, true in configurations with either kind of exits): with fewer, the
prediction pass leaves exits out. `OnlyLostFrontierStarves` says
that a splice without a frontier is the only way to an undersized request, with Saguaro
only in the case of `decode_thin`, if `beamLen` rounds of `width` nodes, the least a
round adds, reach the budget (`EnoughRounds`): otherwise the settings alone starve it.
`RecurrentStateFollowsText` is exact for the server; for the draft model it
excludes what follows a splice (finding 4) and the content of the state, which
lacks what was never run (finding 5). `AcceptedTextIsGreedy` and
`LogAccountsForTrace` exclude rows that had to keep what nobody accepted
(`strayed`, finding 6). `ShutdownCompletes` allows a blocked cleanup where the inference
process ended before it read the sentinel (finding 7), `NoCleanSelfShutdown` states the
opposite of a docstring (finding 8), and `RequestsAccountedFor` says what `main` may cut
off (finding 9). The properties of `Sweep` name what they excuse: each of
these cases happens in the run, except that `OkIsServedByItsServer` excuses a killed
front end of another experiment for the sake of three faults and more.

## 4. Findings

1. **The barrier counts the dead** (`grpc.py` 83, 108). A client killed while its
   `Sync` waits stays in `_synced`. `sweep_experiments.py` kills clients exactly
   when an experiment hangs, and keeps the server for the next one.
2. **A late answer reaches the next experiment** (`grpc.py` 73, 151, 687). Needs an
   answer that is computed for longer than the next clients take to start; then
   every answer of that client index is one call behind.
3. **A spliced branch without a frontier** (`reorder.py` 131). A root and one
   unexpanded child: the child is marked as expanded, the frontier is lost, the
   next request is undersized and the server's inference process ends.
4. **A splice commits what nobody verified** (`reorder.py` 149). On a hybrid draft
   model the branch is folded into the recurrent state with the path. If the next
   verdict keeps less, `commit` raises and the client ends.
5. **Verified tokens without a draft cache entry** (`reorder.py` 13-20). Only
   Saguaro, with enough beams, runs the leaves of the submitted tree; elsewhere an
   accepted leaf leaves a hole. Quality of drafts, not of texts.
6. **A row that accepts nothing keeps two draft tokens** (`edge_verify/specexec.py`
   221) as soon as another row of the batch accepts something: server-only texts
   are then not the target's.
7. **A shutdown after the inference process died can hang** (`grpc.py` 213). `cleanup`
   limits every wait but `_recv_queue.join_thread()`. If the inference process ended
   before it read the sentinel, by an exception or by `terminate`, and a request is left
   unread that is larger than the pipe, the feeder thread never gets rid of it: the front
   end has a reader of its own, so the pipe does not break. `ShutdownCompletes` holds
   with this case in it: clients, inference process and response loop have ended, the
   front end waits, and no signal is handled any more.
8. **No server shuts itself down** (`grpc.py` 133-142). "lets the server shut itself down
   -- clients send the Done RPC when finished, which trips the server's shutdown once
   every client has checked in" (`sweep.py` 15-17), "Wait for the self-shutdown, then
   escalate" (468): but the last `Done` re-arms the server. Every clean run waits for
   `timeouts.server_shutdown` and is ended by SIGINT, the fallback. `NoCleanSelfShutdown`
   states it: `self` is only said of a server that could not start, that was killed, or
   whose probe failed.
9. **"All requests completed."** (`auto_batch.py` 164-170) is logged, and `main` returns,
   when the request with the highest index is complete. Requests in other rows are cut
   off, and one in a later row lacks the line of its last step. `RequestsAccountedFor`
   says exactly what is lost: nothing that waits, and no token of a completed request.

Findings 1 to 6 are counterexamples of their own runs. For 7 to 9 a passing run checks
what the code does instead of what the text says.

Observations that contradict no text, or that the models take as they are:

* With `batch_type: static` the inference loop waits for exactly `max_batch_size`
  requests (`grpc.py` 702). Fewer clients than that are never answered, and the
  timeout of `Validate` ends them.
* The proactive strategy does not re-open leaves: if the forest budget leaves no room for
  the children of the last round, every node of the branch is expanded, and a splice has no
  frontier (`ProactiveDeep`). `strategy.py` 184-186 guards Saguaro against just that.
* `specexec.py` 160-163 never cuts a text at its end-of-sequence token (see 2).
* A replayed trace that ends for any reason but an end-of-sequence token is followed
  by one that the target did not choose.
* The first hole in a draft cache is worse with hybrid models: the state is short of
  a token for good.
* `auto_batch.py` 124 gives every row the mask columns of all rows. A row attends to
  zeros, or to what an earlier request left, behind its own text.
* A pre-computed prompt is saved in place (`grpc.py` 432, 461) and read whenever its
  files exist: after a kill in the middle of a save every later server on that box
  fails to start, until somebody deletes the file.
* The server builds its prompts with the target's chat template and without
  `reasoning` (`grpc.py` 353); the client uses the draft model's and its own setting
  (`client.py` 49). With `cache_prefill` and `reasoning`, the answers follow another
  prompt than the client's, and nothing compares them.
* `sweep.py` 372: when the launcher's shell stays attached, the launch takes 180 s,
  ends in an error without a pid, and the server runs on. A front end that is killed
  while it is up leaves its inference process, and so does
  `SIGKILL`, although a run "does not leak a GPU process on the server box" (`sweep.py`
  20). A ready marker in an old `server.log` counts.
  The commands of `InUnlimitedCommand` have no time limit: an ssh that hangs in one of
  them stops the sweep until somebody presses Ctrl-C, in the finally block without the
  rest of the teardown.
  After a Ctrl-C the interrupted experiment has no record and the exit code is that of
  the others.

## 5. What is proved

Each theorem holds for every value of the constants that satisfies the `ASSUME`s of
its module; what a theorem assumes beyond them is said here. The properties of a run
that are proved in this way are those of section 3 for every instance.

**`BatchServerProofs`** (about `BatchServer`: any clients, batch size and type, number of
runs, calls and crashes, and any timeouts):

* `TypeCorrect`: `Spec => []TypeOK`. The type invariant is not inductive: `Reply` and
  `StoreKV` read `batches[slot]`, which has to exist. It is strengthened with the
  fact that `slot` lies in the batch while a batch is being answered or stored.
* `AnswersMatchTheirCalls`: `Spec => []AnswersMatch`. Being answered rightly is not
  inductive either: an answer passes two queues and a batch first. The
  strengthening says, for a client none of whose calls was cut off, that every
  request in the queue, in the batch, and every answer on its way is of a call
  the client has made, and that whatever of the current call or an earlier one
  could still reach a pending future is of the current call. From it, `Deliver`
  resolves the future with the right call.
* `RequestsAreServedInTheirRun` and `BeginDropsOnlyDeadRequests`: `[]ServedInOwnRun`,
  `[]BeginDropsNoLiveRequest`. They rest on `RunInv`: begin messages are queued in the
  order of their runs, and a request somebody waits for is behind the begin message of
  its own run and before the next. Clients killed at the barrier may open it early, but
  never twice in a run: what is counted and who has yet to arrive are together too few
  (`CallsCounted`, `OpensOnce`).
* `DoneWrapsOnce`: `Spec => DoneCountsEveryClient`, an action property.
* `BarrierKeepsClientsTogether`: `[]BarrierHolds` if `MaxCrashes = 0`; with crashes it is
  false (finding 1).
* `ServerIsAVerifyService`: the safety part of the refinement, if `MaxCrashes = 0` and
  `SlowAnswers = FALSE`: without these a killed client stays at the barrier, and a late
  answer may reach a later call (finding 2).
* `CachesAreThoseOfThePreviousCall`: `[]KVFollowsCalls`. A call's cache is written after
  its answer was sent, so the invariant follows it through the slots of the batch that
  is being answered or stored to the store, as long as the client is inside `generate`,
  where no `begin_experiment` can zero it.

**`DraftTreeProofs`** has no theorem, only lemmas on the operators of `DraftTree`, for any
tree and length: `Rank` and `Nth` are inverse and ascending, which slots a compaction
moves where, what `Add`, a reorder and a gather leave of a row, when a forward pass
yields a context.

**`ServerOnlyProofs`** (any prompts, batch, drafting configurations, `MaxLen`; the target is
any function whose choices are tokens, `TargetGivesTokens`): `ServerOnlyTypeCorrect`,
`EveryRequestOnce`, `TextIsGreedy`, `CacheFollowsRow`, `LogAccounts`, and
`ServerOnlyIsARequestPool`, the safety part of the refinement. All rest on one invariant,
`Inv`: the first `prefixLen` slots of a row's tree are one path and every draft node
behind them attends to that path and to its parent's (`TreesInv`); the cache holds the
contexts of the text but its last token, and between a pass and `Keep` also those of the
drafts, with the target's choice after each (`CacheInv`); the text begins with the prompt
and is greedy after it unless the row has strayed (`ServesInv`); log and trace agree
(`ReportsInv`). `RowsWithRequestsFit`, `[]OnlyIdleRowsOutgrow`, also assumes `EnoughRoom`:
`max_len` exceeds a prompt, `max_new_tokens` and the drafts of one iteration together.
`PromptsAssumption` bounds the prompts by `max_len`, since filling a row raises otherwise.

**`SpecDecodeProofs`** (any prompt, vocabulary, traces, configurations - all strategies,
widths, budgets, schedules, with attention or hybrid caches - and any `max_len` from the
prompt's length on; the target is any function of the context, the draft model anything):
`TypeCorrect`, `TreeTextCorrect`, `MasksCorrect`, `LosslessCorrect`, `ServerCacheCorrect`,
`RecurrentStateCorrect`, and `SpecDecodeIsAGreedyDecoder`, the safety part of the
refinement. Nothing is assumed beyond the module's `ASSUME`s. Four invariants, each
inductive with the ones before it:

* `CoreInv` (`TextInTree`): the tree has its text in front, every draft node behind it is
  reached from the last confirmed node by parents in front of their children, and every
  scratch node's mask is its parent's and itself (`TextTree`); scratch nodes exist only
  while there is a forest, and a bet is a root with its branch (`TreeInv`); the server's
  choices are for the nodes that were submitted (`SelectionInv`); the text is what is
  confirmed (`TextInv`). `TreeHoldsText` alone is not inductive: a cycle's text is that of a
  path of the tree, so it needs the masks, and these need the statuses, since a frontier
  or a forest in the wrong place would be extended. The lemmas before it say this of each
  operation: `PlantedTextTree`, `GrownDraft`, `TrimmedTextTree`, `PlainRowTree`,
  `SplicedRowTree`, `ReopenedTakesPath`. A branch is told from its neighbours by its root
  (`BranchFacts`), along the chain of parents, by the recursive function of the model
  taken one step at a time (`ForestRootFacts`).
* `CacheInv` (`CachesHoldTexts`): what caches and states hold has its form.
* `ServerInv` (`ServerKnowsText`): without an answer pending the server has the text but
  its last token; with one, its choices are the target's after each submitted node's
  context, and it has kept a longest path it accepts - as the client will, by another
  formula. They may end on different nodes, for two siblings can hold the same token.
  `AcceptedPath` and `AcceptedTextIsUnique` are why that does not matter: two accepted
  paths of the same length have the same tokens, each being the answer after the same
  context, and both caches are compacted to the front.
  `PassComputesContexts` and `StateSeesContexts` say that a pass over such a cache, and
  such a recurrent state, gives every submitted node its context.
* `DecodeInv`: a request holds at most the budget, and `goal` is set with the first text.

**`DraftCacheProofs`** (the same constants, the same assumptions, on top of the invariants
of `SpecDecodeProofs`): what the draft model has run. A node is `Ran` if its slot of the
draft cache holds its context, and `Ready` if all it attends to but itself was run, which
is what a pass over it needs to compute its context. The inductive invariant is
`DraftCacheInv` (`DraftCacheFollowsTree`):

* `ScratchInv`: nothing behind the tree is cached; behind the submitted tree there are only
  nodes of the forest, those of its frontier never were run, and no frontier node has a
  child.
* `GrowthInv`: a tree has a frontier as long as it has rounds to go, and a round adds at least
  `width` nodes unless the budget is met; a frontier is lost in a splice only. The proof of
  `Reconcile` is about which nodes of a branch were expanded: those that were not become the
  next frontier, except the first, which is taken for expanded whatever it was (`reorder.py`
  131). `OnlyLostFrontiersStarve`, `[]OnlyLostFrontierStarves`, is then arithmetic on the rounds.
* `RequestInv`: a request has at most the budget's nodes, and exactly as many once the server
  took it; the parents of confirmed nodes are confirmed.
* `FilledInv`, if the prediction pass runs every exit (`RunsEveryExit`): every draft and every
  planted node is `Ready`, and from that pass on every submitted node is `Ran`. A round keeps
  this since it runs its whole batch (`PassRuns`), a trim because it keeps a parent with
  its child, and a splice because it gathers tree and cache by the same slots
  (`BranchStaysReady`, `PathStaysRan`) - the places where a slot left out of
  one of the two would show. Then the accepted path was run, all but the bonus token:
  `OverlapFillsTheCache`, `[]OverlapFillsDraftCache`.

**`FanOutProofs`** (any number of exits, any budget, and every rate whose root and whose
complement's root are rational, over any denominator): `SchedulesAreFair`, and in
`DraftCacheProofs` its instance `FanOutFair`, `[]FanOutIsFair`. The sum and the powers of the
model are recursive functions; the lemmas on them are proved by showing that such a function
exists and is the only one, with induction over a finite set of cases in place of an
induction over operators (`ByStrictSubsets`, `ByElements`, `BySteps`). The argument is then
about the correction after rounding:

* No residue exceeds half a total and they add up to a total for every guess that is missing
  (`RoundedFacts`). So at least twice as many places as guesses are missing were rounded the
  way that lost them (`TwiceAsManyPlaces`), and the places that sorting puts first, one for
  each missing guess, are among them (`FirstsAreOfThoseAhead`); they are as many because
  residue and place together order places strictly (`FirstsAreAsMany`). Hence the sum comes
  out, and a place that is given one more was short of its share (`CorrectedPlaces`).
* Shares do not rise with depth because rounding is monotone and weights shrink strictly
  (`RoundIsMonotone`, `DeeperWeighsLess`): of two places with the same rounded share the
  deeper one has the smaller residue, so a missing guess goes to the shallower one first and
  one too many is taken from the deeper one first (`CorrectedShares`). Both arguments
  need the order in which residues are sorted: with the other one, `FanOutIsFair` fails.

**`SweepProofs`** (any list of experiments, selection, logs, faults, place of the clients):
`SweepTypeCorrect`, `ServersAreTornDown`, `OkMeansServed`, `NoServerEndsWithItsClients`,
`ClientsDoNotStray`, `ExperimentsAreRecorded`. `SweepInv` has five parts: the list (what is
done is a prefix of the selection), the control of the driver, and for every experiment
its server, its client and its record, each saying which fault excuses what. Names and
selections are assumed to be without duplicates, since duplicate names end the program
(`sweep.py` 628, `sweep_experiments.py` 258).

**`ExperimentsProofs`** (about the composition of `MCExperiments`): one invariant for the three
programs, whose steps leave each other's state alone (`ProgramsAreTheirSteps`).

* `PreparedPromptsAreRight`: `[]PromptsSurviveRestarts`, for any dataset, models, samplings,
  servers and kills. `CacheInv` says of each server which prompts it is done with, which
  are the rest of its selection and what is still to be saved of the current one, and of
  each file that it is whole and the right one, or is known by its last writer, which is
  writing it or was killed. That clients ask only for what was prepared is arithmetic on
  slices of the dataset (`SliceFacts`, `SelectionFacts`).
* `RowsAttendToTheirText`: `[]AttendsOwnText`, and `RequestsAreAccountedFor`:
  `[]RequestsAccountedFor`, for any batch, prompts, sampling and `max_new_tokens` that fit into `max_len`
  (`LoadsAssumption`). `BaselineInv` adds that a row which idled has no use any more
  (`IdleInv`: there is no request left, so what idle passes wrote is never read as a
  request's text), and that `curr` is a multiple of the sampling. The step from free rows to
  requests is a fact on cardinalities: the k-th free row takes the k-th request to come
  (`AdmittedFacts`). Unless main returns, every row with a request is looked at
  (`AllAreLooked`), so that every token has its line in the log; when it returns, the row
  it returns at held the last request there is (`LastIsGreatest`), so none waits.
* `ProgramsTypeCorrect`: `[]TypesOK`. In `AutoBatch` it includes that no row writes beyond
  `max_len`.

**Only model-checked.** Liveness and fairness: `NoCallHangs`, `ShutdownCompletes`,
`EveryCallAnswered`, `BarrierOpens`, `SweepEnds`, `BaselineReturns`, and the fairness of the
three refinements; like `ENABLED`, they are out of the prover's reach. Every invariant and action property of
the passing runs is a theorem. No module uses a
`RECURSIVE` operator, so that each can be proved about.

## 6. Plan

Done: every module of section 2, and the proofs of section 5, which cover the safety of
`BatchServer`, `SpecDecode`, `FanOut`, `ServerOnly`, `Sweep`, `AutoBatch` and `PromptCache`.

What could follow: the layer-split baseline, once it starts.

## 7. Not modelled

Numerics of the engines and CUDA graphs; encoding of tensors; sampling at a
temperature above 0; ties between scores; metrics, traces, plots, logging,
rendering of configurations, the bootstrap of a rented machine. They are I/O or
arithmetic without control that the properties could be about.

The layer-split baseline cannot be started at this commit: `PartialFirstHalf.forward`
(`src/model/layer_split.py` 45) returns three values where `GraphEngine` unpacks two
(`src/specedge/engine/graph.py` 167). There is no behaviour to be faithful to.

## 8. Running

    tlc -config BatchServer_faults.cfg MCBatchServer.tla
    tlc -config SpecDecode_all.cfg MCSpecDecode.tla
    tlc -config ServerOnly_all.cfg MCServerOnly.tla
    tlc -config Experiments_all.cfg MCExperiments.tla
    tlapm BatchServerProofs.tla      (and DraftTreeProofs, SpecDecodeProofs, FanOutProofs,
                                      DraftCacheProofs, ServerOnlyProofs, SweepProofs, ExperimentsProofs)

The other configurations run with the MC module their name begins with. Two of
`BatchServer`'s (`overcount`, `stale`), three of `SpecDecode`'s (`thin`, `holes`,
`hybrid`) and one of `ServerOnly`'s (`fallback`) end with the counterexample of their
finding.
