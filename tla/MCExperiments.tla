--------------------------- MODULE MCExperiments ---------------------------
(* The programs around the server, for TLC: the sweep drivers, the auto-     *)
(* regressive baseline their results are compared with, and the servers'    *)
(* start-up with the files of pre-computed prompts.  They share no state;   *)
(* one run takes each of them in turn.                                      *)
EXTENDS Sweep

CONSTANTS Loads, Slots, NumServers, DatasetSize, Configs, HybridModels, MaxKills

\* A dataset and servers that take a part of it, a model and a sampling each.
ASSUME ServersAssumption ==
  /\ NumServers \in Nat /\ DatasetSize \in Nat /\ MaxKills \in Nat
  /\ \A c \in Configs :
       c.cache \in BOOLEAN /\ c.offset \in Nat /\ c.sample \in Nat \ {0} /\ c.max \in Nat \cup {-1}

\* Prompts that fit into max_len slots with all they may generate.
ASSUME LoadsAssumption ==
  /\ IsFiniteSet(Slots) /\ Slots = 0..Cardinality(Slots) - 1
  /\ \A l \in Loads :
       /\ l.batch \in Nat /\ l.prompts \in Seq(Nat \ {0})
       /\ l.sample \in Nat \ {0} /\ l.maxNew \in Slots
       /\ \A i \in DOMAIN l.prompts : l.prompts[i] - 1 + l.maxNew \in Slots

VARIABLES
  program,
  load, rows, curr, steps, tokens, completed, returned,
  disk, proc, kills

baselineVars == <<load, rows, curr, steps, tokens, completed, returned>>
cacheVars    == <<disk, proc, kills>>
allVars      == <<program, sweepVars, baselineVars, cacheVars>>

Baseline == INSTANCE AutoBatch
Cache    == INSTANCE PromptCache

StartPrograms ==
  /\ program \in {"sweep", "auto_batch", "start_up"}
  /\ Init /\ Baseline!Init /\ Cache!Init

DriverSteps   == program = "sweep" /\ Driver /\ UNCHANGED <<program, baselineVars, cacheVars>>
BaselineSteps == program = "auto_batch" /\ Baseline!Next
                 /\ UNCHANGED <<program, sweepVars, cacheVars>>

Programs ==
  \/ program = "sweep" /\ Next /\ UNCHANGED <<program, baselineVars, cacheVars>>
  \/ BaselineSteps
  \/ program = "start_up" /\ Cache!Next /\ UNCHANGED <<program, sweepVars, baselineVars>>

FairPrograms ==
  /\ StartPrograms /\ [][Programs]_allVars
  /\ WF_allVars(DriverSteps) /\ WF_allVars(BaselineSteps)

-----------------------------------------------------------------------------
(* Properties of the two, stated where they are defined.                    *)

\* Types of the state of all three programs.
TypesOK == TypeOK /\ Baseline!TypeOK /\ Cache!TypeOK

\* Prompts pre-computed by one server are right for the next.
PromptsSurviveRestarts == Cache!PromptsSurviveRestarts

\* A row of the baseline attends to the text of its own request.
AttendsOwnText == Baseline!AttendsOwnText

\* Every sampled request waits, has a row or was completed, its steps logged,
\* but what main's return cuts off.
RequestsAccountedFor == Baseline!RequestsAccountedFor

\* The baseline's main returns.
BaselineReturns == Baseline!BaselineReturns

-----------------------------------------------------------------------------
(* Instances.                                                              *)

MCExperimentNames == <<"e1", "e2">>

Start(p, selection, where, logs) ==
  [program |-> p, selected |-> selection, nodes |-> where, logs |-> logs]

\* A whole sweep; one started --from the second experiment over the logs of an
\* earlier sweep; one of a single experiment, and one of nothing; and both
\* experiments against the standing server.  Where the clients are makes a
\* difference to Ctrl-C and to a hanging pkill, which cut a sweep short, so
\* one experiment is enough to see it; clients that are far away and outlive
\* their experiment meet a next one at the standing server.
MCSweeps ==
  { Start("sweep", Only(Names), "local", {}),
    Start("sweep", Only({"e1"}), "far", {}),
    Start("sweep", From("e2"), "box", {"e2"}),
    Start("sweep", Only({}), "local", {}),
    Start("experiments", Only(Names), "local", {}),
    Start("experiments", Only(Names), "far", {}) }

\* One to three rows; fewer prompts than rows, as many, and more; every prompt
\* or every second one.
MCLoads ==
  [batch : 1..3, prompts : {<<2>>, <<1, 2, 1>>, <<2, 1, 1, 2>>}, sample : 1..2, maxNew : 1..3]

ServerConfig(model, cache, offset, sample, max) ==
  [model |-> model, cache |-> cache, offset |-> offset, sample |-> sample, max |-> max]

\* Two models, one hybrid; the first prompt asked for, those after it, every
\* second one; and a server that prefills at run time.
MCConfigs ==
  { ServerConfig("linear", TRUE, 0, 1, 1), ServerConfig("linear", TRUE, 1, 1, 2),
    ServerConfig("linear", FALSE, 0, 1, 2), ServerConfig("hybrid", TRUE, 0, 2, 2) }
=============================================================================
