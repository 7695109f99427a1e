--------------------------- MODULE VerifyService ---------------------------
(***************************************************************************)
(* What the batch server promises its clients, without queues, batches or  *)
(* processes: the clients of an experiment start together, and each call   *)
(* is answered once, with its own answer.                                  *)
(***************************************************************************)
EXTENDS Naturals

CONSTANT Clients    \* the edge clients

VARIABLES
  phase,     \* where each client is
  asked,     \* verification calls each client has made
  answered   \* the call whose answer each client received last

vars == <<phase, asked, answered>>

Phases == {"away", "arriving", "held", "free", "asking"}

TypeOK ==
  /\ phase \in [Clients -> Phases]
  /\ asked \in [Clients -> Nat]
  /\ answered \in [Clients -> Nat]

Init ==
  /\ phase = [c \in Clients |-> "away"]
  /\ asked = [c \in Clients |-> 0]
  /\ answered = [c \in Clients |-> 0]

\* An experiment starts once everybody has left the one before.
Start ==
  /\ \A c \in Clients : phase[c] = "away"
  /\ phase' = [c \in Clients |-> "arriving"]
  /\ UNCHANGED <<asked, answered>>

\* A client reaches the barrier; the last one opens it for all.
Arrive(c) ==
  /\ phase[c] = "arriving"
  /\ \/ /\ \E d \in Clients \ {c} : phase[d] # "held"
        /\ phase' = [phase EXCEPT ![c] = "held"]
     \/ /\ \A d \in Clients \ {c} : phase[d] = "held"
        /\ phase' = [d \in Clients |-> "free"]
  /\ UNCHANGED <<asked, answered>>

Ask(c) ==
  /\ phase[c] = "free"
  /\ phase' = [phase EXCEPT ![c] = "asking"]
  /\ asked' = [asked EXCEPT ![c] = @ + 1]
  /\ UNCHANGED answered

\* The answer is the one to the call the client is waiting for.
Reply(c) ==
  /\ phase[c] = "asking"
  /\ phase' = [phase EXCEPT ![c] = "free"]
  /\ answered' = [answered EXCEPT ![c] = asked[c]]
  /\ UNCHANGED asked

\* Clients leave when they are done, or when the service goes down.
Leave(S) ==
  /\ phase' = [c \in Clients |-> IF c \in S THEN "away" ELSE phase[c]]
  /\ UNCHANGED <<asked, answered>>

Next ==
  \/ Start
  \/ \E c \in Clients : Arrive(c) \/ Ask(c) \/ Reply(c)
  \/ \E S \in SUBSET Clients : Leave(S)

Spec == Init /\ [][Next]_vars

\* The service keeps answering; clients arrive.
Fairness == \A c \in Clients : WF_vars(Reply(c)) /\ WF_vars(Arrive(c))

FairSpec == Spec /\ Fairness
=============================================================================
