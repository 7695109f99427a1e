------------------------------- MODULE Sweep -------------------------------
(* The two programs that run a list of experiments one after the other:     *)
(*   script/sweep.py             launches a server for each of them and     *)
(*                               tears it down again,                       *)
(*   script/sweep_experiments.py uses one server that is up all the time.   *)
(* They talk to a server box and a client box over ssh and learn what       *)
(* happens there only by polling: a process is taken for dead when a probe  *)
(* says so, or when the probe itself failed.  The model has the driver, the *)
(* two processes of every server (the gRPC front end and the inference      *)
(* process that holds the GPU) and the clients of every experiment, under   *)
(* MaxFaults faults: an ssh that fails or never returns, a process that     *)
(* crashes, a Ctrl-C.  A time limit may strike whenever the driver has one. *)
EXTENDS Integers, Sequences, SequencesExt

CONSTANTS
  Experiments,   \* the experiments of the sweep config, a sequence of names
  Standing,      \* the server that sweep_experiments.py expects to be up
  Sweeps,        \* the ways to start a sweep, see StartSweep
  MaxFaults

VARIABLES
  driver,        \* which program runs, "none" before it is started
  pc,            \* where it is
  chosen,        \* the experiments selected
  todo,          \* those not yet done, the current one first
  nodes,         \* where the clients run, see StartSweep
  pid,           \* the pid of the current server is known
  status,        \* status of the current experiment
  interrupted,   \* a KeyboardInterrupt is on its way to main
  results,       \* the records of run_one, in order
  exit,          \* exit code, -1 while the driver runs
  main,          \* the front end of every server
  worker,        \* its inference process
  marker,        \* servers whose stdout or log shows the ready marker
  client,        \* the clients of every experiment
  servedBy,      \* the server that answered them, Nobody if none did
  shutdown,      \* what stop_server said of every server
  blamed,        \* faults that struck every experiment
  faults,
  hung           \* the driver waits for a command that does not return

sweepVars == <<driver, pc, chosen, todo, nodes, pid, status, interrupted, results,
               exit, main, worker, marker, client, servedBy, shutdown, blamed, faults, hung>>

driverVars == <<driver, chosen, nodes, exit>>
serverVars == <<main, worker, marker>>
clientVars == <<client, servedBy>>
faultVars  == <<blamed, faults, hung>>

Names   == ToSet(Experiments)
Servers == Names \cup {Standing}
Nobody  == "nobody"
Current == Head(todo)

\* "duplicate experiment names" is an error, as is an unknown one to start from.
ASSUME ExperimentsAssumption ==
  /\ Experiments \in Seq(Names) /\ IsInjective(Experiments)
  /\ Standing \notin Names /\ MaxFaults \in Nat

Init ==
  /\ driver = "none" /\ pc = "select"
  /\ chosen = <<>> /\ todo = <<>> /\ nodes = "local"
  /\ pid = FALSE /\ status = "pending" /\ interrupted = FALSE
  /\ results = <<>> /\ exit = -1
  /\ main = [s \in Servers |-> "none"]
  /\ worker = [s \in Servers |-> "none"]
  /\ marker = {}
  /\ client = [e \in Names |-> "none"]
  /\ servedBy = [e \in Names |-> Nobody]
  /\ shutdown = [e \in Names |-> "none"]
  /\ blamed = [e \in Names |-> {}]
  /\ faults = 0 /\ hung = FALSE

-----------------------------------------------------------------------------
(* Faults.                                                                 *)

Strikes(e, kind) ==
  /\ faults < MaxFaults
  /\ faults' = faults + 1
  /\ blamed' = [blamed EXCEPT ![e] = @ \cup {kind}]

Fault(e, kind) == Strikes(e, kind) /\ UNCHANGED hung

\* pid_alive: no output, as after a failed ssh, counts as dead.
SeenDead(e) ==
  \/ main[e] = "gone" /\ UNCHANGED faultVars
  \/ main[e] # "gone" /\ Fault(e, "probe")

SeenAlive(e) == main[e] # "gone" /\ UNCHANGED faultVars

-----------------------------------------------------------------------------
(* The options: --only keeps the order of the config, --from the rest of    *)
(* it.  The name of a missing experiment ends the program, as a bad config, *)
(* a failed bootstrap or a failed port discovery does.                      *)

Only(names) == SelectSeq(Experiments, LAMBDA e : e \in names)
From(e)     == SubSeq(Experiments, CHOOSE i \in 1..Len(Experiments) : Experiments[i] = e,
                      Len(Experiments))

Selections == {Only(names) : names \in SUBSET Names} \cup {From(e) : e \in Names}

\* A selection is a sequence of different names, as Experiments is.
ASSUME SweepsAssumption ==
  \A sweep \in Sweeps :
    /\ sweep.program \in {"sweep", "experiments"} /\ sweep.nodes \in {"local", "box", "far"}
    /\ sweep.selected \in Selections
    /\ sweep.selected \in Seq(Names) /\ IsInjective(sweep.selected)
    /\ sweep.logs \subseteq Names

\* A sweep is started with a program, a selection, the nodes of the clients
\* (the machine of the driver, the client box, or other machines, far, that
\* client_host.py reaches over ssh), and the server.log files of an earlier
\* sweep that are still on the server box.
Chosen(sweep) ==
  /\ pc = "select"
  /\ driver' = sweep.program /\ nodes' = sweep.nodes
  /\ chosen' = sweep.selected /\ todo' = sweep.selected
  /\ pc' = IF sweep.selected = <<>> THEN "summary" ELSE "put"
  /\ marker' = sweep.logs
  /\ UNCHANGED <<pid, status, interrupted, results, exit, clientVars, shutdown, faultVars>>

StartSweep(sweep) ==
  /\ sweep.program = "sweep"
  /\ Chosen(sweep)
  /\ UNCHANGED <<main, worker>>

StartExperiments(sweep) ==
  /\ sweep.program = "experiments" /\ sweep.selected # <<>>
  /\ Chosen(sweep)
  /\ main' = [main EXCEPT ![Standing] = "up"]
  /\ worker' = [worker EXCEPT ![Standing] = "ready"]

\* The driver ends before it touches a server or a client.
LeaveEarly(code) ==
  /\ pc = "select"
  /\ exit' = code /\ pc' = "exited"
  /\ UNCHANGED <<driver, chosen, todo, nodes, pid, status, interrupted, results,
                 serverVars, clientVars, shutdown, faultVars>>

\* --list and --dry-run; a bad configuration or selection; no usable answer of
\* vast_ports.sh to where the server can be reached.
ListOrDryRun    == LeaveEarly(0)
BadConfig       == LeaveEarly(1)
NoPortsReported == LeaveEarly(1)

-----------------------------------------------------------------------------
(* run_one.  Errors go to the finally block, which needs the pid.           *)

Fail ==
  /\ status' = "error"
  /\ pc' = "teardown"

PutConfig ==
  /\ pc = "put" /\ driver = "sweep"
  /\ \/ pc' = "launch" /\ UNCHANGED <<status, faultVars>>
     \/ Fault(Current, "ssh") /\ Fail
  /\ UNCHANGED <<driverVars, todo, pid, interrupted, results, serverVars, clientVars, shutdown>>

Started(e) == main' = [main EXCEPT ![e] = "starting"]

\* The command returns the pid, or it blocks for 180 s (a shell that stays
\* behind the server keeps stdout open) and the server runs on unknown, or it
\* never reached the box.
StartServer ==
  /\ pc = "launch"
  /\ \/ Started(Current) /\ pid' = TRUE /\ pc' = "ready" /\ UNCHANGED <<status, faultVars>>
     \/ Started(Current) /\ Fault(Current, "launch") /\ Fail /\ UNCHANGED pid
     \/ Fault(Current, "ssh") /\ Fail /\ UNCHANGED <<main, pid>>
  /\ UNCHANGED <<driverVars, todo, interrupted, results, worker, marker, clientVars, shutdown>>

\* Mutant: ready as soon as the process is alive.
AliveIsReady ==
  /\ SeenAlive(Current)
  /\ pc' = "client" /\ UNCHANGED status

\* The marker is looked for in server.stdout, which the launch truncated, and
\* in server.log, which the server truncates once it has loaded its config:
\* until then it can be that of an earlier sweep.
MarkerSeen ==
  /\ main[Current] # "gone" /\ Current \in marker
  /\ blamed' = [blamed EXCEPT ![Current] =
                   IF worker[Current] \in {"none", "loading"} THEN @ \cup {"stale"} ELSE @]
  /\ pc' = "client" /\ UNCHANGED <<status, faults, hung>>

NotReady == (SeenDead(Current) \/ SeenAlive(Current)) /\ Fail

WaitForReady ==
  /\ pc = "ready"
  /\ MarkerSeen \/ NotReady
  /\ UNCHANGED <<driverVars, todo, pid, interrupted, results, serverVars, clientVars, shutdown>>

\* client_host.py starts the clients of its config on their nodes.
ClientsStarted(e) ==
  /\ client' = [client EXCEPT ![e] = "running"]
  /\ pc' = "waiting"
  /\ UNCHANGED <<driverVars, todo, pid, status, interrupted, results, serverVars,
                 servedBy, shutdown, faultVars>>

RunClientHost == pc = "client" /\ ClientsStarted(Current)

\* sweep_experiments.py has no config to push and no server to wait for.
RunExperiment == pc = "put" /\ driver = "experiments" /\ ClientsStarted(Current)

\* client_host.py waits for its clients and does not look at how they ended.
\* Its own failure, or that of the ssh it runs under, leaves them running.
ClientHostReturns ==
  /\ pc = "waiting"
  /\ \/ client[Current] # "running" /\ status' = "ok" /\ UNCHANGED faultVars
     \/ client[Current] = "running" /\ status' = "client_failed" /\ Fault(Current, "ssh")
  /\ pc' = "teardown"
  /\ UNCHANGED <<driverVars, todo, pid, interrupted, results, serverVars, clientVars, shutdown>>

\* Mutant: pkill for client_host.py only.
HostKilled(e) == UNCHANGED <<client, faultVars>>

\* After timeouts.run, pkill on the client box, which may not be reached.
Killed(e) ==
  IF nodes = "far" THEN UNCHANGED <<client, faultVars>>
  ELSE \/ client' = [client EXCEPT ![e] = "gone"] /\ UNCHANGED faultVars
       \/ Fault(e, "ssh") /\ UNCHANGED client

RunTimesOut ==
  /\ pc = "waiting" /\ client[Current] = "running"
  /\ Killed(Current)
  /\ status' = "client_failed" /\ pc' = "teardown"
  /\ UNCHANGED <<driverVars, todo, pid, interrupted, results, serverVars, servedBy, shutdown>>

-----------------------------------------------------------------------------
(* The finally block: stop_server, if there is a pid, in three stages.      *)

\* Mutant: no server to stop after an error.
TeardownUnlessError ==
  /\ pc = "teardown"
  /\ pc' = CASE pid /\ status # "error" -> "stop"
             [] interrupted              -> "summary"
             [] OTHER                    -> "collect"
  /\ UNCHANGED <<driverVars, todo, pid, status, interrupted, results, serverVars,
                 clientVars, shutdown, faultVars>>

Teardown ==
  /\ pc = "teardown"
  /\ pc' = CASE pid         -> "stop"
             [] interrupted -> "summary"
             [] OTHER       -> "collect"
  /\ UNCHANGED <<driverVars, todo, pid, status, interrupted, results, serverVars,
                 clientVars, shutdown, faultVars>>

Stopped(how) ==
  /\ shutdown' = [shutdown EXCEPT ![Current] = how]
  /\ pc' = IF interrupted THEN "summary" ELSE "collect"

\* kill -INT; the server ignores it until it has installed its handler.
Signalled(e) ==
  main' = [main EXCEPT ![e] = IF @ = "up" THEN "draining" ELSE @]

StopServer ==
  /\ pc = "stop"
  /\ \/ SeenDead(Current) /\ Stopped("self") /\ UNCHANGED main
     \/ /\ Signalled(Current) /\ pc' = "sigint"
        /\ SeenAlive(Current) /\ UNCHANGED shutdown
     \/ /\ main[Current] # "gone" /\ Fault(Current, "ssh") /\ pc' = "sigint"
        /\ UNCHANGED <<main, shutdown>>
  /\ UNCHANGED <<driverVars, todo, pid, status, interrupted, results, worker, marker, clientVars>>

\* Mutant: no limit on the wait for SIGINT to work.
AwaitSigintForever ==
  /\ pc = "sigint"
  /\ SeenDead(Current) /\ Stopped("sigint")
  /\ UNCHANGED <<driverVars, todo, pid, status, interrupted, results, serverVars, clientVars>>

AwaitSigint ==
  /\ pc = "sigint"
  /\ \/ SeenDead(Current) /\ Stopped("sigint") /\ UNCHANGED main
     \/ /\ SeenAlive(Current) /\ main' = [main EXCEPT ![Current] = "gone"]
        /\ pc' = "sigkill" /\ UNCHANGED shutdown
     \/ /\ main[Current] # "gone" /\ Fault(Current, "ssh") /\ pc' = "sigkill"
        /\ UNCHANGED <<main, shutdown>>
  /\ UNCHANGED <<driverVars, todo, pid, status, interrupted, results, worker, marker, clientVars>>

AwaitSigkill ==
  /\ pc = "sigkill"
  /\ \/ SeenDead(Current) /\ Stopped("sigkill")
     \/ SeenAlive(Current) /\ Stopped("LEAKED")
  /\ UNCHANGED <<driverVars, todo, pid, status, interrupted, results, serverVars, clientVars>>

-----------------------------------------------------------------------------
(* Collecting and recording.  A local cp that fails ends the whole sweep.   *)
(* sweep.py returns the record only after the cooldown.                     *)

\* Mutant: an experiment that never got to its clients leaves no record.
RecordedIfRun ==
  IF status = "error" THEN results ELSE Append(results, [name |-> Current, status |-> status])

Recorded == Append(results, [name |-> Current, status |-> status])

Collected ==
  /\ pc = "collect" /\ pc' = "cooldown"
  /\ UNCHANGED <<driverVars, todo, pid, status, interrupted, serverVars, clientVars,
                 shutdown, faultVars>>

Collect           == driver = "sweep" /\ Collected /\ UNCHANGED results
CollectExperiment == driver = "experiments" /\ Collected /\ results' = Recorded

CollectAborts ==
  /\ pc = "collect" /\ ~hung
  /\ Fault(Current, "collect")
  /\ exit' = 1 /\ pc' = "exited"
  /\ UNCHANGED <<driver, chosen, nodes, todo, pid, status, interrupted, results, serverVars,
                 clientVars, shutdown>>

Cooldown ==
  /\ pc = "cooldown"
  /\ results' = IF driver = "sweep" THEN Recorded ELSE results
  /\ todo' = Tail(todo)
  /\ pc' = IF todo' = <<>> THEN "summary" ELSE "put"
  /\ pid' = FALSE /\ status' = "pending"
  /\ UNCHANGED <<driverVars, interrupted, serverVars, clientVars, shutdown, faultVars>>

\* The commands that run() gives no time limit: the probes and the grep, pkill
\* once the clients were given up, the kills, and the pipe with the results.
InUnlimitedCommand ==
  \/ pc \in {"ready", "stop", "sigint", "sigkill", "collect"}
  \/ pc = "waiting" /\ client[Current] = "running" /\ driver = "sweep" /\ nodes = "box"

\* One of them hangs, like an ssh whose connection is silently lost; a kill may
\* have been delivered.  The driver waits until somebody presses Ctrl-C.
CommandHangs ==
  /\ InUnlimitedCommand /\ ~hung
  /\ Strikes(Current, "hang") /\ hung' = TRUE
  /\ \/ UNCHANGED <<main, client>>
     \/ pc = "stop" /\ Signalled(Current) /\ UNCHANGED client
     \/ pc = "sigint" /\ main' = [main EXCEPT ![Current] = "gone"] /\ UNCHANGED client
     \/ pc = "waiting" /\ client' = [client EXCEPT ![Current] = "gone"] /\ UNCHANGED main
  /\ UNCHANGED <<driverVars, pc, todo, pid, status, interrupted, results, worker, marker,
                 servedBy, shutdown>>

\* Ctrl-C.  Before the pid is known, and inside the finally block itself, no
\* server is torn down; the processes on the machine of the driver get it too.
KeyboardInterrupt ==
  /\ pc \notin {"select", "summary", "exited", "teardown"}
  /\ Strikes(Current, IF pc \in {"ready", "client", "waiting"} THEN "interrupt" ELSE "cut")
  /\ hung' = FALSE /\ interrupted' = TRUE
  /\ pc' = IF pid /\ pc \in {"ready", "client", "waiting"} THEN "stop" ELSE "summary"
  /\ main' \in IF pc = "launch" THEN {main, [main EXCEPT ![Current] = "starting"]} ELSE {main}
  /\ client' = IF pc = "waiting" /\ client[Current] = "running" /\ nodes = "local"
               THEN [client EXCEPT ![Current] = "gone"] ELSE client
  /\ UNCHANGED <<driverVars, todo, pid, status, results, worker, marker, servedBy, shutdown>>

Failed == \E i \in 1..Len(results) : results[i].status # "ok"

\* Mutant: the exit code counts the failures.
SummaryCounts ==
  /\ pc = "summary"
  /\ exit' = Len(SelectSeq(results, LAMBDA r : r.status # "ok"))
  /\ pc' = "exited"
  /\ UNCHANGED <<driver, chosen, nodes, todo, pid, status, interrupted, results, serverVars,
                 clientVars, shutdown, faultVars>>

Summary ==
  /\ pc = "summary"
  /\ exit' = IF Failed THEN 1 ELSE 0
  /\ pc' = "exited"
  /\ UNCHANGED <<driver, chosen, nodes, todo, pid, status, interrupted, results, serverVars,
                 clientVars, shutdown, faultVars>>

DriverActs ==
  \/ PutConfig \/ StartServer \/ WaitForReady \/ RunClientHost \/ RunExperiment
  \/ ClientHostReturns \/ RunTimesOut
  \/ Teardown \/ StopServer \/ AwaitSigint \/ AwaitSigkill
  \/ Collect \/ CollectExperiment \/ Cooldown \/ Summary

Driver == ~hung /\ DriverActs

-----------------------------------------------------------------------------
(* A server: batch_server.py and its inference process.                     *)

boxUnchanged == <<driverVars, pc, todo, pid, status, interrupted, results, shutdown>>

\* _load_config opens server.log anew; then the inference process is started
\* and the front end listens, on a port that other servers may share.
ServerUp(s) ==
  /\ main[s] = "starting"
  /\ main' = [main EXCEPT ![s] = "up"]
  /\ worker' = [worker EXCEPT ![s] = "loading"]
  /\ marker' = marker \ {s}
  /\ UNCHANGED <<boxUnchanged, clientVars, faultVars>>

StartupFails(s) ==
  /\ main[s] = "starting"
  /\ Fault(s, "startup")
  /\ main' = [main EXCEPT ![s] = "gone"]
  /\ UNCHANGED <<boxUnchanged, worker, marker, clientVars>>

WorkerReady(s) ==
  /\ worker[s] = "loading"
  /\ worker' = [worker EXCEPT ![s] = "ready"]
  /\ marker' = marker \cup {s}
  /\ UNCHANGED <<boxUnchanged, main, clientVars, faultVars>>

\* The front end goes on without it.
WorkerDies(s) ==
  /\ s \in Names /\ worker[s] \in {"loading", "ready"}
  /\ Fault(s, "worker")
  /\ worker' = [worker EXCEPT ![s] = "gone"]
  /\ UNCHANGED <<boxUnchanged, main, marker, clientVars>>

\* Killed from outside, for want of memory say; nobody ends its inference process.
FrontEndDies(s) ==
  /\ s \in Names /\ main[s] \in {"up", "draining", "cleanup"}
  /\ Fault(s, "frontend")
  /\ main' = [main EXCEPT ![s] = "gone"]
  /\ UNCHANGED <<boxUnchanged, worker, marker, clientVars>>

\* cleanup: the sentinel for the inference process, join, terminate, kill.
Cleanup(s) ==
  /\ main[s] = "draining"
  /\ main' = [main EXCEPT ![s] = "cleanup"]
  /\ worker' = [worker EXCEPT ![s] = IF @ = "gone" THEN @ ELSE "told"]
  /\ UNCHANGED <<boxUnchanged, marker, clientVars, faultVars>>

WorkerEnds(s) ==
  /\ worker[s] = "told"
  /\ worker' = [worker EXCEPT ![s] = "gone"]
  /\ UNCHANGED <<boxUnchanged, main, marker, clientVars, faultVars>>

ServerEnds(s) ==
  /\ main[s] = "cleanup" /\ worker[s] = "gone"
  /\ main' = [main EXCEPT ![s] = "gone"]
  /\ UNCHANGED <<boxUnchanged, worker, marker, clientVars, faultVars>>

-----------------------------------------------------------------------------
(* The clients of an experiment: Sync, their requests, Done.  A connection   *)
(* goes to any server that listens; without an inference process that is    *)
(* ready a call times out and the client ends.                              *)

Listening == {s \in Servers : main[s] = "up"}

\* Mutant: Done ends the server, as it did when every run had its own.
ServedAndDone(e) ==
  /\ client[e] = "running"
  /\ \E s \in Listening :
       /\ worker[s] = "ready" /\ servedBy' = [servedBy EXCEPT ![e] = s]
       /\ main' = [main EXCEPT ![s] = "draining"]
  /\ client' = [client EXCEPT ![e] = "gone"]
  /\ UNCHANGED <<boxUnchanged, worker, marker, faultVars>>

ClientServed(e) ==
  /\ client[e] = "running"
  /\ \E s \in Listening :
       worker[s] = "ready" /\ servedBy' = [servedBy EXCEPT ![e] = s]
  /\ client' = [client EXCEPT ![e] = "gone"]
  /\ UNCHANGED <<boxUnchanged, serverVars, faultVars>>

ClientFails(e) ==
  /\ client[e] = "running"
  /\ Listening = {} \/ \E s \in Listening : worker[s] # "ready"
  /\ client' = [client EXCEPT ![e] = "gone"]
  /\ UNCHANGED <<boxUnchanged, serverVars, servedBy, faultVars>>

ClientCrashes(e) ==
  /\ client[e] = "running"
  /\ Fault(e, "client")
  /\ client' = [client EXCEPT ![e] = "gone"]
  /\ UNCHANGED <<boxUnchanged, serverVars, servedBy>>

Server(s) ==
  ServerUp(s) \/ WorkerReady(s) \/ Cleanup(s) \/ WorkerEnds(s) \/ ServerEnds(s)

Next ==
  \/ \E sweep \in Sweeps : StartSweep(sweep) \/ StartExperiments(sweep)
  \/ ListOrDryRun \/ BadConfig \/ NoPortsReported
  \/ Driver \/ CollectAborts \/ CommandHangs \/ KeyboardInterrupt
  \/ \E s \in Servers : Server(s)
  \/ \E e \in Names : StartupFails(e) \/ FrontEndDies(e) \/ WorkerDies(e)
  \/ \E e \in Names : ClientServed(e) \/ ClientFails(e) \/ ClientCrashes(e)

Spec == Init /\ [][Next]_sweepVars

(* The driver keeps running while no command of it hangs, and the time      *)
(* limits it has fire; nobody else has to, nor press Ctrl-C.                *)
FairSpec == Spec /\ WF_sweepVars(Driver)

-----------------------------------------------------------------------------
(* Properties.                                                             *)

Statuses == {"pending", "ok", "client_failed", "error"}
Faults   == {"ssh", "probe", "launch", "startup", "frontend", "worker", "client", "stale",
             "collect", "interrupt", "cut", "hang"}

TypeOK ==
  /\ driver \in {"none", "sweep", "experiments"}
  /\ pc \in {"select", "put", "launch", "ready", "client", "waiting", "teardown", "stop",
            "sigint", "sigkill", "collect", "cooldown", "summary", "exited"}
  /\ chosen \in {<<>>} \cup {sweep.selected : sweep \in Sweeps} /\ IsSuffix(todo, chosen)
  /\ nodes \in {"local", "box", "far"} /\ pid \in BOOLEAN /\ interrupted \in BOOLEAN
  /\ status \in Statuses /\ exit \in {-1, 0, 1}
  /\ results \in Seq([name : Names, status : Statuses])
  /\ main \in [Servers -> {"none", "starting", "up", "draining", "cleanup", "gone"}]
  /\ worker \in [Servers -> {"none", "loading", "ready", "told", "gone"}]
  /\ marker \subseteq Names
  /\ client \in [Names -> {"none", "running", "gone"}]
  /\ servedBy \in [Names -> Servers \cup {Nobody}]
  /\ shutdown \in [Names -> {"none", "self", "sigint", "sigkill", "LEAKED"}]
  /\ blamed \in [Names -> SUBSET Faults] /\ faults \in 0..MaxFaults
  /\ hung \in BOOLEAN

Behind(e) == e \notin ToSet(todo) \/ pc = "exited"
Struck(e, kinds) == blamed[e] \cap kinds # {}

Holds(s) == main[s] \notin {"none", "gone"} \/ worker[s] \notin {"none", "gone"}

\* "A run's server process is always torn down in a finally block": neither of
\* its processes outlives its run, unless the launch did not return in time, a
\* probe failed, the front end was killed from outside, a second blow hit the
\* finally block, or SIGKILL was needed.
NoServerOutlivesItsRun ==
  \A e \in Names :
    Behind(e) /\ Holds(e)
      => Struck(e, {"launch", "probe", "frontend", "cut"}) \/ shutdown[e] \in {"sigkill", "LEAKED"}

Home(e) == IF driver = "sweep" THEN e ELSE Standing

\* Its run is over, but not it; or it was killed from outside.
Outlives(f) == Behind(f) /\ (Holds(f) \/ Struck(f, {"frontend"}))

\* What is recorded as ok was answered by the server meant for it, unless its
\* client, that server or the wait for it went wrong, or the server of another
\* experiment has outlived its run and took the connection.
OkIsServedByItsServer ==
  \A i \in 1..Len(results) :
    LET e == results[i].name
    IN  results[i].status = "ok" =>
          \/ servedBy[e] = Home(e)
          \/ Struck(e, {"client", "worker", "frontend", "stale"})
          \/ \E f \in Names \ {e} : Outlives(f)

\* No server "shuts itself down" when its clients are done, which is how a run
\* is meant to end: stop_server finds one gone without a signal only if it could
\* not start or was killed from outside, or says so after a failed probe.
NoCleanSelfShutdown ==
  \A e \in Names : shutdown[e] = "self" => Struck(e, {"startup", "frontend", "probe"})

\* No client of an earlier experiment talks to the servers of a later one,
\* unless pkill or Ctrl-C did not reach it, or ssh failed.
NoStrayClients ==
  \A e \in Names :
    client[e] = "running" /\ Behind(e)
      => nodes = "far" \/ Struck(e, {"ssh"}) \/ (nodes = "box" /\ interrupted)

\* Results are of the chosen experiments, in their order, all of them unless
\* the sweep was cut short, and the exit code tells whether all are ok.
EveryExperimentRecorded ==
  LET names == [i \in 1..Len(results) |-> results[i].name]
  IN  /\ IsPrefix(names, chosen)
      /\ pc = "exited" /\ ~interrupted /\ (\A e \in Names : ~Struck(e, {"collect"}))
           => names = chosen /\ (driver # "none" => (exit = 0 <=> ~Failed))

\* Whatever happens on the boxes, a sweep ends, unless one of the commands that
\* were given no time limit never returns and nobody presses Ctrl-C.
SweepEnds == driver # "none" ~> pc = "exited" \/ hung

=============================================================================
