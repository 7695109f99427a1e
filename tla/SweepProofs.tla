---------------------------- MODULE SweepProofs ----------------------------
(***************************************************************************)
(* Theorems about Sweep, for any list of experiments, any selection, any   *)
(* number of faults and wherever the clients run.                          *)
(***************************************************************************)
EXTENDS Sweep, TLAPS

-----------------------------------------------------------------------------
(* The inductive invariant, in parts: the list, the control of the driver,   *)
(* the servers, the clients and the records.                                 *)

NumDone   == Len(chosen) - Len(todo)
DoneWith  == {chosen[i] : i \in 1..NumDone}

AtWork == {"put", "launch", "ready", "client", "waiting", "teardown", "stop", "sigint",
           "sigkill", "collect", "cooldown"}

ListInv ==
  /\ chosen \in Seq(Names) /\ IsInjective(chosen)
  /\ todo \in Seq(Names) /\ Len(todo) <= Len(chosen)
  /\ \A i \in 1..Len(todo) : todo[i] = chosen[NumDone + i]
  /\ pc \in AtWork => todo # <<>>

ControlInv ==
  /\ pc = "select" => driver = "none"
  /\ driver = "none" =>
       /\ pc \in {"select", "exited"} /\ ~pid /\ status = "pending"
       /\ chosen = <<>> /\ results = <<>>
  /\ pc \in {"launch", "ready", "client"} => driver = "sweep"
  /\ driver = "experiments" => ~pid
  /\ driver = "sweep" /\ pc \in {"ready", "client", "waiting"} => pid
  /\ pc \in {"stop", "sigint", "sigkill"} => pid
  /\ interrupted => pc \in {"stop", "sigint", "sigkill", "summary", "exited"}

\* Not touched yet: those chosen after the current one, and those not chosen.
Fresh(e) ==
  /\ main[e] = "none" /\ worker[e] = "none" /\ client[e] = "none"
  /\ shutdown[e] = "none"

InHand(e) == todo # <<>> /\ e = Current

\* The driver has told the server to end, or has given up on it.
Told(e) ==
  \/ e \in DoneWith
  \/ InHand(e) /\ pc \in {"sigint", "sigkill", "collect", "cooldown", "summary", "exited"}
  \/ InHand(e) /\ pc = "stop" /\ hung

Left(e) ==
  e \in DoneWith \/ (InHand(e) /\ pc \in {"collect", "cooldown", "summary", "exited"})

\* Its front end may have been killed, which leaves the inference process.
Killed9(e) ==
  \/ shutdown[e] \in {"sigkill", "LEAKED"} \/ Struck(e, {"frontend", "cut"})
  \/ InHand(e) /\ (pc = "sigkill" \/ (pc = "sigint" /\ hung))

ServerInv(e) ==
  /\ Fresh(e) \/ e \in DoneWith \/ (InHand(e) /\ pc \notin {"put", "launch"})
  /\ main[e] \in {"none", "starting"} => worker[e] = "none"
  /\ main[e] \in {"draining", "cleanup"} \/ worker[e] = "told" => Told(e)
  /\ main[e] = "gone" => Told(e) \/ Struck(e, {"startup", "frontend"})
  /\ worker[e] = "gone" => Told(e) \/ Struck(e, {"worker"})
  /\ main[e] = "gone" => worker[e] \in {"none", "gone"} \/ Killed9(e)
  /\ Left(e) =>
       ~Holds(e) \/ Struck(e, {"launch", "probe", "frontend", "cut"}) \/ shutdown[e] \in {"sigkill", "LEAKED"}
  /\ driver # "sweep" => main[e] = "none" /\ worker[e] = "none"
  /\ InHand(e) /\ pc = "teardown" /\ ~pid =>
       (main[e] = "none" /\ worker[e] = "none") \/ Struck(e, {"launch"})
  /\ InHand(e) /\ pc \in AtWork \ {"collect", "cooldown"} => shutdown[e] = "none"
  /\ shutdown[e] = "self" => Struck(e, {"startup", "frontend", "probe"})

StandingInv ==
  IF driver = "experiments" THEN main[Standing] = "up" /\ worker[Standing] = "ready"
  ELSE main[Standing] = "none" /\ worker[Standing] = "none"

\* Nobody will ever signal this server again, or it was left up and killed later.
LeftUp(f) == f \in DoneWith /\ (main[f] = "up" \/ Struck(f, {"frontend"}))

ServedAsMeant(e) ==
  /\ client[e] = "gone"
  /\ \/ servedBy[e] = Home(e)
     \/ Struck(e, {"client", "worker", "frontend", "stale"})
     \/ \E f \in Names \ {e} : LeftUp(f)

ClientInv(e) ==
  /\ client[e] = "running" =>
       \/ InHand(e) /\ pc = "waiting"
       \/ nodes = "far" \/ Struck(e, {"ssh"}) \/ (nodes = "box" /\ interrupted)
  /\ InHand(e) /\ pc \in {"put", "launch", "ready", "client"} => client[e] = "none"
  /\ InHand(e) /\ pc = "waiting" => client[e] # "none"
  /\ InHand(e) /\ driver = "sweep" /\ pc \in {"client", "waiting"} =>
       (main[e] = "up" /\ worker[e] = "ready") \/ Struck(e, {"worker", "frontend", "stale"})
  /\ InHand(e) /\ pc = "waiting" /\ client[e] = "gone" /\ ~hung => ServedAsMeant(e)
  /\ InHand(e) /\ pc \in {"put", "launch", "ready", "client", "waiting"} => status # "ok"
  /\ InHand(e) /\ pc \in AtWork /\ status = "ok" => ServedAsMeant(e)

ResultsInv ==
  /\ Len(results) <= Len(chosen)
  /\ \A i \in 1..Len(results) :
       /\ results[i].name = chosen[i]
       /\ results[i].status = "ok" => ServedAsMeant(results[i].name)
  /\ ~interrupted =>
       Len(results) = IF pc = "cooldown" /\ driver = "experiments" THEN NumDone + 1 ELSE NumDone
  /\ pc = "summary" /\ ~interrupted => todo = <<>>
  /\ pc = "exited" /\ ~interrupted /\ (\A e \in Names : ~Struck(e, {"collect"})) =>
       todo = <<>> /\ (driver # "none" => exit = IF Failed THEN 1 ELSE 0)

SweepInv ==
  /\ ListInv /\ ControlInv /\ StandingInv /\ ResultsInv
  /\ \A e \in Names : ServerInv(e) /\ ClientInv(e)

-----------------------------------------------------------------------------
(* The list: those done with, the current one, those ahead.                 *)

\* A suffix agrees with the sequence from the right.
LEMMA SuffixPositions ==
  ASSUME NEW S, NEW s \in Seq(S), NEW t \in Seq(S)
  PROVE  IsSuffix(s, t) <=> /\ Len(s) <= Len(t)
                            /\ \A i \in 1..Len(s) : s[i] = t[Len(t) - Len(s) + i]
<1> DEFINE rs == Reverse(s)
           rt == Reverse(t)
<1>1. Len(s) \in Nat /\ Len(t) \in Nat
  OBVIOUS
<1>2. /\ rs \in Seq(S) /\ Len(rs) = Len(s) /\ \A i \in 1..Len(s) : rs[i] = s[Len(s) - i + 1]
  BY <1>1 DEF Reverse
<1>3. /\ rt \in Seq(S) /\ Len(rt) = Len(t) /\ \A i \in 1..Len(t) : rt[i] = t[Len(t) - i + 1]
  BY <1>1 DEF Reverse
<1> HIDE DEF rs, rt
<1>4. IsSuffix(s, t) <=> Len(s) <= Len(t) /\ \A i \in 1..Len(s) : rs[i] = rt[i]
  <2>1. IsSuffix(s, t) <=> Len(s) <= Len(t) /\ SubSeq(rs, 1, Len(rs)) = SubSeq(rt, 1, Len(rs))
    BY <1>1, <1>2, <1>3 DEF IsSuffix, IsPrefix, rs, rt
  <2>2. SubSeq(rs, 1, Len(rs)) = rs
    BY <1>1, <1>2
  <2>3. ASSUME Len(s) <= Len(t)
        PROVE  /\ SubSeq(rt, 1, Len(rs)) \in Seq(S) /\ Len(SubSeq(rt, 1, Len(rs))) = Len(s)
               /\ \A i \in 1..Len(s) : SubSeq(rt, 1, Len(rs))[i] = rt[i]
    BY <1>1, <1>2, <1>3, <2>3
  <2>4. QED
    BY <1>1, <1>2, <2>1, <2>2, <2>3
<1>5. ASSUME Len(s) <= Len(t), \A i \in 1..Len(s) : rs[i] = rt[i], NEW i \in 1..Len(s)
      PROVE  s[i] = t[Len(t) - Len(s) + i]
  <2>1. Len(s) - i + 1 \in 1..Len(s) /\ Len(s) - i + 1 \in 1..Len(t)
    BY <1>1, <1>5
  <2>2. Len(s) - (Len(s) - i + 1) + 1 = i /\ Len(t) - (Len(s) - i + 1) + 1 = Len(t) - Len(s) + i
    BY <1>1, <1>5
  <2>3. QED
    BY <1>2, <1>3, <1>5, <2>1, <2>2
<1>6. ASSUME Len(s) <= Len(t), NEW i \in 1..Len(s),
             \A j \in 1..Len(s) : s[j] = t[Len(t) - Len(s) + j]
      PROVE  rs[i] = rt[i]
  <2>1. Len(s) - i + 1 \in 1..Len(s) /\ i \in 1..Len(t)
    BY <1>1, <1>6
  <2>2. Len(t) - Len(s) + (Len(s) - i + 1) = Len(t) - i + 1
    BY <1>1, <1>6
  <2>3. QED
    BY <1>2, <1>3, <1>6, <2>1, <2>2
<1>7. QED
  BY <1>4, <1>5, <1>6

\* The current experiment is a new one.
LEMMA CurrentIsNext ==
  ASSUME ListInv, todo # <<>>
  PROVE  /\ Current \in Names /\ Current \notin DoneWith
         /\ NumDone \in Nat /\ NumDone + 1 \in 1..Len(chosen)
         /\ Current = chosen[NumDone + 1]
<1>1. /\ Len(todo) \in Nat /\ Len(chosen) \in Nat /\ Len(todo) >= 1
      /\ Len(todo) <= Len(chosen) /\ Current = todo[1] /\ Current \in Names
  BY DEF ListInv, Current
<1>2. NumDone \in Nat /\ NumDone + 1 \in 1..Len(chosen)
  BY <1>1 DEF NumDone
<1>3. Current = chosen[NumDone + 1]
  BY <1>1 DEF ListInv
<1>4. ASSUME NEW i \in 1..NumDone
      PROVE  chosen[i] # Current
  BY <1>1, <1>2, <1>3 DEF ListInv, IsInjective
<1>5. QED
  BY <1>1, <1>2, <1>3, <1>4 DEF DoneWith

\* Most steps leave the list alone.
LEMMA ListUnchanged ==
  ASSUME ListInv, todo' = todo, chosen' = chosen,
         pc' \in AtWork => todo # <<>>
  PROVE  /\ ListInv' /\ NumDone' = NumDone /\ DoneWith' = DoneWith /\ Current' = Current
         /\ \A e \in Names : InHand(e)' <=> InHand(e)
  BY DEF ListInv, NumDone, DoneWith, Current, InHand

\* Cooldown moves on to the next experiment.
LEMMA ListMovesOn ==
  ASSUME ListInv, todo # <<>>, chosen' = chosen, todo' = Tail(todo),
         pc' \in AtWork => todo' # <<>>
  PROVE  /\ ListInv' /\ NumDone' = NumDone + 1 /\ DoneWith' = DoneWith \cup {Current}
         /\ todo' # <<>> =>
              Current' \in Names /\ Current' \notin DoneWith' /\ Current' # Standing
<1>1. /\ Len(todo) \in Nat /\ Len(chosen) \in Nat /\ Len(todo) >= 1 /\ todo \in Seq(Names)
      /\ Len(todo) <= Len(chosen) /\ \A i \in 1..Len(todo) : todo[i] = chosen[NumDone + i]
  BY DEF ListInv
<1>2. /\ todo' \in Seq(Names) /\ Len(todo') = Len(todo) - 1
      /\ \A i \in 1..Len(todo') : todo'[i] = todo[i + 1]
  BY <1>1
<1>3. NumDone' = NumDone + 1 /\ NumDone \in Nat
  BY <1>1, <1>2 DEF NumDone
<1>4. \A i \in 1..Len(todo') : todo'[i] = chosen'[NumDone' + i]
  <2> SUFFICES ASSUME NEW i \in 1..Len(todo')
               PROVE  todo'[i] = chosen[NumDone' + i]
    OBVIOUS
  <2>1. i + 1 \in 1..Len(todo) /\ NumDone' + i = NumDone + (i + 1)
    BY <1>1, <1>2, <1>3
  <2>2. QED
    BY <1>1, <1>2, <2>1
<1>5. ListInv'
  BY <1>1, <1>2, <1>4 DEF ListInv
<1>6. DoneWith' = DoneWith \cup {Current}
  BY <1>3, CurrentIsNext DEF DoneWith
<1>7. ASSUME todo' # <<>>
      PROVE  Current' \in Names /\ Current' \notin DoneWith'
  <2>1. Len(todo') >= 1 /\ Current' = todo'[1] /\ Current' \in Names
    BY <1>2, <1>7 DEF Current
  <2>2. NumDone' + 1 \in 1..Len(chosen) /\ Current' = chosen[NumDone' + 1]
    <3>1. NumDone' + 1 \in 1..Len(chosen) /\ 1 \in 1..Len(todo')
      BY <1>1, <1>2, <1>3, <2>1 DEF NumDone
    <3>2. QED
      BY <1>4, <2>1, <3>1
  <2>3. ASSUME NEW i \in 1..NumDone'
        PROVE  chosen[i] # Current'
    BY <1>1, <1>3, <2>2 DEF ListInv, IsInjective
  <2>4. QED
    BY <2>1, <2>3 DEF DoneWith
<1>8. QED
  BY <1>3, <1>5, <1>6, <1>7, ExperimentsAssumption

-----------------------------------------------------------------------------
(* Faults.                                                                 *)

\* A fault is never forgotten.
LEMMA BlameStays ==
  ASSUME UNCHANGED blamed
  PROVE  \A e, K : Struck(e, K)' <=> Struck(e, K)
  BY DEF Struck

LEMMA StruckMore ==
  ASSUME NEW e, NEW K, NEW L, K \subseteq L, Struck(e, K)
  PROVE  Struck(e, L)
  BY DEF Struck

LEMMA FaultStrikes ==
  ASSUME TypeOK, NEW e \in Names, NEW k \in Faults, Strikes(e, k) \/ Fault(e, k)
  PROVE  /\ \A f \in Names : \A K : Struck(f, K) => Struck(f, K)'
         /\ \A K : k \in K => Struck(e, K)'
         /\ \A f \in Names : \A K : k \notin K \/ f # e => (Struck(f, K)' <=> Struck(f, K))
         /\ blamed' \in [Names -> SUBSET Faults] /\ faults' \in 0..MaxFaults
         /\ Fault(e, k) => hung' = hung
<1>1. /\ blamed \in [Names -> SUBSET Faults] /\ faults \in 0..MaxFaults
      /\ faults < MaxFaults /\ faults' = faults + 1 /\ MaxFaults \in Nat
      /\ blamed' = [blamed EXCEPT ![e] = @ \cup {k}]
      /\ Fault(e, k) => hung' = hung
  BY ExperimentsAssumption DEF TypeOK, Strikes, Fault
<1>2. /\ blamed'[e] = blamed[e] \cup {k}
      /\ \A f \in Names : f # e => blamed'[f] = blamed[f]
  BY <1>1
<1>3. QED
  BY <1>1, <1>2 DEF Struck

\* A step with a fault or without one.
LEMMA FaultOrNone ==
  ASSUME TypeOK, NEW e \in Names, NEW k \in Faults, UNCHANGED faultVars \/ Fault(e, k)
  PROVE  /\ \A f \in Names : \A K : Struck(f, K) => Struck(f, K)'
         /\ blamed' \in [Names -> SUBSET Faults] /\ faults' \in 0..MaxFaults
         /\ hung' = hung
<1>1. CASE UNCHANGED faultVars
  BY <1>1, BlameStays DEF TypeOK, faultVars
<1>2. CASE Fault(e, k)
  BY <1>2, FaultStrikes
<1>3. QED
  BY <1>1, <1>2

-----------------------------------------------------------------------------
(* The steps.  Most leave the list alone, and none forgets a fault.          *)

Steady ==
  /\ ListInv' /\ NumDone' = NumDone /\ DoneWith' = DoneWith /\ Current' = Current
  /\ \A e \in Names : InHand(e)' <=> InHand(e)
  /\ UNCHANGED <<chosen, todo, driver, nodes>>
  /\ \A e \in Names : \A K : Struck(e, K) => Struck(e, K)'

\* A client that was served as meant has been so for good.
LEMMA ServedStays ==
  ASSUME Steady,
         \A e \in Names : client[e] = "gone" =>
            client'[e] = "gone" /\ servedBy'[e] = servedBy[e],
         \A f \in DoneWith : main[f] = "up" => main'[f] = "up" \/ Struck(f, {"frontend"})'
  PROVE  \A e \in Names : ServedAsMeant(e) => ServedAsMeant(e)'
<1> SUFFICES ASSUME NEW e \in Names, ServedAsMeant(e)
             PROVE  ServedAsMeant(e)'
  OBVIOUS
<1>1. \A f \in Names : LeftUp(f) => LeftUp(f)'
  BY DEF LeftUp, Steady
<1>2. QED
  BY <1>1 DEF ServedAsMeant, Home, Steady

\* The records outlive every step that adds none.
LEMMA RecordsStay ==
  ASSUME ListInv, ResultsInv, Steady, UNCHANGED results,
         \A e \in Names : ServedAsMeant(e) => ServedAsMeant(e)',
         pc' # "exited", pc' = "summary" => interrupted', ~interrupted' => ~interrupted,
         ~interrupted' /\ driver = "experiments" => (pc' = "cooldown" <=> pc = "cooldown")
  PROVE  ResultsInv'
<1>1. \A i \in 1..Len(results) : results[i].name = chosen[i] /\ chosen[i] \in Names
  BY DEF ListInv, ResultsInv
<1>2. QED
  BY <1>1 DEF ResultsInv, Steady

\* What the driver has not in hand it leaves as it is.
LEMMA OthersStay ==
  ASSUME Steady, NEW e \in Names, ~InHand(e), ServerInv(e), ClientInv(e),
         main'[e] = main[e], worker'[e] = worker[e], client'[e] = client[e],
         shutdown'[e] = shutdown[e], interrupted => interrupted'
  PROVE  ServerInv(e)' /\ ClientInv(e)'
<1>1. ServerInv(e)'
  BY DEF Steady, ServerInv, Fresh, Told, Left, Killed9, Holds
<1>2. ClientInv(e)'
  BY DEF Steady, ClientInv
<1>3. QED
  BY <1>1, <1>2

\* What the driver is at work on.
LEMMA WorkInHand ==
  ASSUME ListInv, pc \in AtWork
  PROVE  /\ todo # <<>> /\ Current \in Names /\ Current # Standing /\ Current \notin DoneWith
         /\ \A e \in Names : InHand(e) <=> e = Current
  BY CurrentIsNext, ExperimentsAssumption DEF ListInv, InHand

\* Those done with were chosen, and the standing server was not.
LEMMA DoneAreNames ==
  ASSUME ListInv
  PROVE  DoneWith \subseteq Names /\ Standing \notin DoneWith
<1>1. NumDone <= Len(chosen) /\ NumDone \in Nat /\ Len(chosen) \in Nat
  BY DEF ListInv, NumDone
<1>2. QED
  BY <1>1, ExperimentsAssumption DEF ListInv, DoneWith

MainStates == {"none", "starting", "up", "draining", "cleanup", "gone"}

\* The record of the current experiment is the next one.
LEMMA RecordAdded ==
  ASSUME TypeOK, ListInv, ResultsInv, todo # <<>>, Len(results) = NumDone,
         results' = Append(results, [name |-> Current, status |-> status]),
         status = "ok" => ServedAsMeant(Current)
  PROVE  /\ results' \in Seq([name : Names, status : Statuses])
         /\ Len(results') = NumDone + 1 /\ Len(results') <= Len(chosen)
         /\ \A i \in 1..Len(results') :
              /\ results'[i].name = chosen[i] /\ chosen[i] \in Names
              /\ results'[i].status = "ok" => ServedAsMeant(chosen[i])
<1> DEFINE new == [name |-> Current, status |-> status]
<1>1. /\ results \in Seq([name : Names, status : Statuses]) /\ Len(results) \in Nat
      /\ NumDone \in Nat /\ NumDone + 1 \in 1..Len(chosen) /\ chosen \in Seq(Names)
      /\ Current \in Names /\ Current = chosen[NumDone + 1] /\ status \in Statuses
  BY CurrentIsNext DEF TypeOK, ListInv
<1>2. new \in [name : Names, status : Statuses]
  BY <1>1
<1>3. /\ results' \in Seq([name : Names, status : Statuses]) /\ Len(results') = NumDone + 1
      /\ \A i \in 1..NumDone : results'[i] = results[i]
      /\ results'[NumDone + 1] = new
  BY <1>1, <1>2
<1>4. ASSUME NEW i \in 1..Len(results')
      PROVE  /\ results'[i].name = chosen[i] /\ chosen[i] \in Names
             /\ results'[i].status = "ok" => ServedAsMeant(chosen[i])
  <2>1. CASE i \in 1..NumDone
    <3>1. results'[i] = results[i] /\ i \in 1..Len(results) /\ i \in 1..Len(chosen)
      BY <1>1, <1>3, <2>1
    <3>2. results[i].name = chosen[i] /\ (results[i].status = "ok" => ServedAsMeant(results[i].name))
      BY <3>1 DEF ResultsInv
    <3>3. QED
      BY <1>1, <3>1, <3>2
  <2>2. CASE i = NumDone + 1
    BY <1>1, <1>3, <2>2
  <2>3. QED
    BY <1>1, <1>3, <2>1, <2>2
<1>5. QED
  BY <1>1, <1>3, <1>4

\* The config goes to the server box.
LEMMA PutConfigKeepsInv ==
  ASSUME TypeOK, SweepInv, PutConfig
  PROVE  TypeOK' /\ SweepInv'
<1>1. /\ todo # <<>> /\ Current \in Names /\ Current # Standing /\ Current \notin DoneWith
      /\ \A e \in Names : InHand(e) <=> e = Current
      /\ pc = "put" /\ driver = "sweep"
      /\ UNCHANGED <<driverVars, todo, pid, interrupted, results, serverVars, clientVars, shutdown>>
      /\ \/ pc' = "launch" /\ UNCHANGED <<status, faultVars>>
         \/ pc' = "teardown" /\ status' = "error" /\ Fault(Current, "ssh")
  BY WorkInHand DEF PutConfig, SweepInv, ControlInv, TypeOK, AtWork, Fail
<1>2. /\ \A e \in Names : \A K : Struck(e, K) => Struck(e, K)'
      /\ blamed' \in [Names -> SUBSET Faults] /\ faults' \in 0..MaxFaults /\ hung' = hung
  BY <1>1, FaultOrNone DEF Faults
<1>3. Steady
  BY <1>1, <1>2, ListUnchanged DEF Steady, SweepInv, AtWork, driverVars
<1>4. TypeOK'
  BY <1>1, <1>2 DEF TypeOK, driverVars, serverVars, clientVars, Statuses, MainStates
<1>5. ControlInv' /\ StandingInv'
  BY <1>1, <1>2, <1>3 DEF SweepInv, ControlInv, StandingInv, Steady, Servers, AtWork,
     driverVars, serverVars, clientVars
<1>6. /\ \A e \in Names : ServedAsMeant(e) => ServedAsMeant(e)'
      /\ ResultsInv'
  <2>1. \A e \in Names : ServedAsMeant(e) => ServedAsMeant(e)'
    BY <1>1, <1>2, <1>3, DoneAreNames, ServedStays DEF SweepInv, Servers, driverVars,
       serverVars, clientVars
  <2>2. QED
    BY <1>1, <1>2, <1>3, <2>1, RecordsStay DEF SweepInv
<1>7. ASSUME NEW e \in Names, e # Current
      PROVE  ServerInv(e)' /\ ClientInv(e)'
  BY <1>1, <1>2, <1>3, <1>7, OthersStay DEF SweepInv, TypeOK, Servers, driverVars, serverVars,
     clientVars
<1>8. ServerInv(Current)'
  BY <1>1, <1>2, <1>3 DEF SweepInv, ServerInv, InHand, Fresh, Told, Left, Killed9, Steady,
     Holds, AtWork, Servers, driverVars, serverVars, clientVars
<1>9. ClientInv(Current)'
  BY <1>1, <1>2, <1>3, <1>6 DEF SweepInv, ClientInv, Steady, AtWork, InHand, Servers,
     driverVars, serverVars, clientVars
<1>10. QED
  BY <1>1, <1>3, <1>4, <1>5, <1>6, <1>7, <1>8, <1>9 DEF SweepInv, Steady

\* A server that is launched is in hand from now on.
LEMMA StartServerKeepsInv ==
  ASSUME TypeOK, SweepInv, StartServer
  PROVE  TypeOK' /\ SweepInv'
<1>1. /\ todo # <<>> /\ Current \in Names /\ Current # Standing /\ Current \notin DoneWith
      /\ \A e \in Names : InHand(e) <=> e = Current
      /\ pc = "launch" /\ driver = "sweep"
      /\ UNCHANGED <<driverVars, todo, interrupted, results, worker, marker, clientVars, shutdown>>
      /\ \/ Started(Current) /\ pid' = TRUE /\ pc' = "ready" /\ UNCHANGED <<status, faultVars>>
         \/ /\ Started(Current) /\ Fault(Current, "launch")
            /\ pc' = "teardown" /\ status' = "error" /\ UNCHANGED pid
         \/ /\ Fault(Current, "ssh") /\ pc' = "teardown" /\ status' = "error"
            /\ UNCHANGED <<main, pid>>
  BY WorkInHand DEF StartServer, SweepInv, ControlInv, TypeOK, AtWork, Fail
<1>2. /\ \A e \in Names : \A K : Struck(e, K) => Struck(e, K)'
      /\ blamed' \in [Names -> SUBSET Faults] /\ faults' \in 0..MaxFaults /\ hung' = hung
  BY <1>1, FaultOrNone DEF Faults
<1>3. Steady
  BY <1>1, <1>2, ListUnchanged DEF Steady, SweepInv, AtWork, driverVars
<1>4. /\ main' \in [Servers -> MainStates]
      /\ \A s \in Servers \ {Current} : main'[s] = main[s]
      /\ UNCHANGED main \/ main'[Current] = "starting"
      /\ pc' = "teardown" => UNCHANGED main \/ Struck(Current, {"launch"})'
  <2>1. /\ main' \in [Servers -> MainStates]
        /\ \A s \in Servers \ {Current} : main'[s] = main[s]
        /\ UNCHANGED main \/ main'[Current] = "starting"
    BY <1>1 DEF Started, TypeOK, MainStates, Servers
  <2>2. pc' = "teardown" => UNCHANGED main \/ Struck(Current, {"launch"})'
    BY <1>1, <1>3, FaultStrikes DEF Faults, Steady
  <2>3. QED
    BY <2>1, <2>2
<1>5. TypeOK'
  BY <1>1, <1>2, <1>4 DEF TypeOK, driverVars, serverVars, clientVars, Statuses, MainStates
<1>6. ControlInv' /\ StandingInv'
  BY <1>1, <1>2, <1>3, <1>4 DEF SweepInv, ControlInv, StandingInv, Steady, Servers, AtWork,
     driverVars, serverVars, clientVars
<1>7. /\ \A e \in Names : ServedAsMeant(e) => ServedAsMeant(e)'
      /\ ResultsInv'
  <2>1. \A e \in Names : ServedAsMeant(e) => ServedAsMeant(e)'
    BY <1>1, <1>2, <1>3, <1>4, DoneAreNames, ServedStays DEF SweepInv, Servers, driverVars,
       serverVars, clientVars
  <2>2. QED
    BY <1>1, <1>2, <1>3, <1>4, <2>1, RecordsStay DEF SweepInv
<1>8. ASSUME NEW e \in Names, e # Current
      PROVE  ServerInv(e)' /\ ClientInv(e)'
  BY <1>1, <1>2, <1>3, <1>4, <1>8, OthersStay DEF SweepInv, TypeOK, Servers, driverVars,
     serverVars, clientVars
<1>9. ServerInv(Current)'
  BY <1>1, <1>2, <1>3, <1>4 DEF SweepInv, ServerInv, InHand, Fresh, Told, Left, Killed9,
     Steady, Holds, AtWork, Servers, driverVars, serverVars, clientVars
<1>10. ClientInv(Current)'
  BY <1>1, <1>2, <1>3, <1>4, <1>7 DEF SweepInv, ClientInv, Steady, AtWork, InHand, Servers,
     driverVars, serverVars, clientVars
<1>11. QED
  BY <1>1, <1>3, <1>5, <1>6, <1>7, <1>8, <1>9, <1>10 DEF SweepInv, Steady

\* The driver takes its server for ready, or for dead.
LEMMA WaitForReadyKeepsInv ==
  ASSUME TypeOK, SweepInv, WaitForReady
  PROVE  TypeOK' /\ SweepInv'
<1>1. /\ todo # <<>> /\ Current \in Names /\ Current # Standing /\ Current \notin DoneWith
      /\ \A e \in Names : InHand(e) <=> e = Current
      /\ pc = "ready" /\ driver = "sweep" /\ pid
      /\ UNCHANGED <<driverVars, todo, pid, interrupted, results, serverVars, clientVars, shutdown>>
      /\ \/ /\ main[Current] # "gone" /\ pc' = "client" /\ UNCHANGED <<status, faults, hung>>
            /\ blamed' = [blamed EXCEPT ![Current] =
                 IF worker[Current] \in {"none", "loading"} THEN @ \cup {"stale"} ELSE @]
         \/ /\ UNCHANGED faultVars \/ Fault(Current, "probe")
            /\ pc' = "teardown" /\ status' = "error"
  BY WorkInHand DEF WaitForReady, SweepInv, ControlInv, TypeOK, AtWork, MarkerSeen, NotReady,
     SeenDead, SeenAlive, Fail
<1>2. /\ \A e \in Names : \A K : Struck(e, K) => Struck(e, K)'
      /\ blamed' \in [Names -> SUBSET Faults] /\ faults' \in 0..MaxFaults /\ hung' = hung
  <2>1. CASE UNCHANGED faultVars \/ Fault(Current, "probe")
    BY <1>1, <2>1, FaultOrNone DEF Faults
  <2>2. CASE blamed' = [blamed EXCEPT ![Current] =
                 IF worker[Current] \in {"none", "loading"} THEN @ \cup {"stale"} ELSE @]
             /\ UNCHANGED <<faults, hung>>
    BY <1>1, <2>2 DEF Struck, TypeOK, Faults
  <2>3. QED
    BY <1>1, <2>1, <2>2
<1>3. Steady
  BY <1>1, <1>2, ListUnchanged DEF Steady, SweepInv, AtWork, driverVars
<1>4. pc' = "client" =>
        (main[Current] = "up" /\ worker[Current] = "ready") \/ Struck(Current, {"worker", "frontend", "stale"})'
  <2> SUFFICES ASSUME pc' = "client"
               PROVE  \/ main[Current] = "up" /\ worker[Current] = "ready"
                      \/ Struck(Current, {"worker", "frontend", "stale"})'
    OBVIOUS
  <2>1. CASE worker[Current] \in {"none", "loading"}
    <3>1. Current' = Current
      BY <1>3 DEF Steady
    <3>2. "stale" \in blamed'[Current]
      BY <1>1, <2>1 DEF TypeOK
    <3>3. QED
      BY <3>1, <3>2 DEF Struck
  <2>2. CASE worker[Current] = "gone"
    <3>1. Struck(Current, {"worker"})
      BY <1>1, <2>2 DEF SweepInv, ServerInv, Told
    <3>2. Struck(Current, {"worker", "frontend", "stale"})
      BY <3>1, StruckMore
    <3>3. QED
      BY <1>1, <1>3, <3>2 DEF Steady
  <2>3. CASE worker[Current] \in {"ready", "told"}
    BY <1>1, <2>3 DEF SweepInv, ServerInv, Told, TypeOK, Servers
  <2>4. QED
    BY <1>1, <2>1, <2>2, <2>3 DEF TypeOK, Servers
<1>5. TypeOK'
  BY <1>1, <1>2, <1>4 DEF TypeOK, driverVars, serverVars, clientVars, Statuses, MainStates
<1>6. ControlInv' /\ StandingInv'
  BY <1>1, <1>2, <1>3, <1>4 DEF SweepInv, ControlInv, StandingInv, Steady, Servers, AtWork,
     driverVars, serverVars, clientVars
<1>7. /\ \A e \in Names : ServedAsMeant(e) => ServedAsMeant(e)'
      /\ ResultsInv'
  <2>1. \A e \in Names : ServedAsMeant(e) => ServedAsMeant(e)'
    BY <1>1, <1>2, <1>3, <1>4, DoneAreNames, ServedStays DEF SweepInv, Servers, driverVars,
       serverVars, clientVars
  <2>2. QED
    BY <1>1, <1>2, <1>3, <1>4, <2>1, RecordsStay DEF SweepInv
<1>8. ASSUME NEW e \in Names, e # Current
      PROVE  ServerInv(e)' /\ ClientInv(e)'
  BY <1>1, <1>2, <1>3, <1>4, <1>8, OthersStay DEF SweepInv, TypeOK, Servers, driverVars,
     serverVars, clientVars
<1>9. ServerInv(Current)'
  BY <1>1, <1>2, <1>3, <1>4 DEF SweepInv, ServerInv, InHand, Fresh, Told, Left, Killed9,
     Steady, Holds, AtWork, Servers, driverVars, serverVars, clientVars
<1>10. ClientInv(Current)'
  BY <1>1, <1>2, <1>3, <1>4, <1>7 DEF SweepInv, ClientInv, Steady, AtWork, InHand, Servers,
     driverVars, serverVars, clientVars
<1>11. QED
  BY <1>1, <1>3, <1>5, <1>6, <1>7, <1>8, <1>9, <1>10 DEF SweepInv, Steady

\* The clients of the current experiment start.
LEMMA RunClientHostKeepsInv ==
  ASSUME TypeOK, SweepInv, RunClientHost
  PROVE  TypeOK' /\ SweepInv'
<1>1. /\ todo # <<>> /\ Current \in Names /\ Current # Standing /\ Current \notin DoneWith
      /\ \A e \in Names : InHand(e) <=> e = Current
      /\ pc = "client" /\ driver = "sweep"
      /\ UNCHANGED <<driverVars, todo, pid, status, interrupted, results, serverVars, servedBy, shutdown, faultVars>>
      /\ pc' = "waiting" /\ client' = [client EXCEPT ![Current] = "running"]
      /\ client[Current] = "none"
  BY WorkInHand DEF RunClientHost, SweepInv, ControlInv, TypeOK, AtWork, ClientsStarted,
     ClientInv
<1>2. /\ \A e \in Names : \A K : Struck(e, K) => Struck(e, K)'
      /\ blamed' \in [Names -> SUBSET Faults] /\ faults' \in 0..MaxFaults /\ hung' = hung
  BY <1>1, BlameStays DEF TypeOK, faultVars
<1>3. Steady
  BY <1>1, <1>2, ListUnchanged DEF Steady, SweepInv, AtWork, driverVars
<1>4. /\ client' \in [Names -> {"none", "running", "gone"}] /\ client'[Current] = "running"
      /\ \A e \in Names \ {Current} : client'[e] = client[e]
  BY <1>1, <1>3 DEF TypeOK
<1>5. TypeOK'
  BY <1>1, <1>2, <1>4 DEF TypeOK, driverVars, serverVars, clientVars, Statuses, MainStates
<1>6. ControlInv' /\ StandingInv'
  BY <1>1, <1>2, <1>3, <1>4 DEF SweepInv, ControlInv, StandingInv, Steady, Servers, AtWork,
     driverVars, serverVars, clientVars
<1>7. /\ \A e \in Names : ServedAsMeant(e) => ServedAsMeant(e)'
      /\ ResultsInv'
  <2>1. \A e \in Names : ServedAsMeant(e) => ServedAsMeant(e)'
    BY <1>1, <1>2, <1>3, <1>4, DoneAreNames, ServedStays DEF SweepInv, Servers, driverVars,
       serverVars, clientVars
  <2>2. QED
    BY <1>1, <1>2, <1>3, <1>4, <2>1, RecordsStay DEF SweepInv
<1>8. ASSUME NEW e \in Names, e # Current
      PROVE  ServerInv(e)' /\ ClientInv(e)'
  BY <1>1, <1>2, <1>3, <1>4, <1>8, OthersStay DEF SweepInv, TypeOK, Servers, driverVars,
     serverVars, clientVars
<1>9. ServerInv(Current)'
  BY <1>1, <1>2, <1>3, <1>4 DEF SweepInv, ServerInv, InHand, Fresh, Told, Left, Killed9,
     Steady, Holds, AtWork, Servers, driverVars, serverVars, clientVars
<1>10. ClientInv(Current)'
  BY <1>1, <1>2, <1>3, <1>4, <1>7 DEF SweepInv, ClientInv, Steady, AtWork, InHand, Servers,
     driverVars, serverVars, clientVars
<1>11. QED
  BY <1>1, <1>3, <1>5, <1>6, <1>7, <1>8, <1>9, <1>10 DEF SweepInv, Steady

\* So they do where no server has to be waited for.
LEMMA RunExperimentKeepsInv ==
  ASSUME TypeOK, SweepInv, RunExperiment
  PROVE  TypeOK' /\ SweepInv'
<1>1. /\ todo # <<>> /\ Current \in Names /\ Current # Standing /\ Current \notin DoneWith
      /\ \A e \in Names : InHand(e) <=> e = Current
      /\ pc = "put" /\ driver = "experiments"
      /\ UNCHANGED <<driverVars, todo, pid, status, interrupted, results, serverVars, servedBy, shutdown, faultVars>>
      /\ pc' = "waiting" /\ client' = [client EXCEPT ![Current] = "running"]
      /\ client[Current] = "none"
  BY WorkInHand DEF RunExperiment, SweepInv, ControlInv, TypeOK, AtWork, ClientsStarted,
     ClientInv
<1>2. /\ \A e \in Names : \A K : Struck(e, K) => Struck(e, K)'
      /\ blamed' \in [Names -> SUBSET Faults] /\ faults' \in 0..MaxFaults /\ hung' = hung
  BY <1>1, BlameStays DEF TypeOK, faultVars
<1>3. Steady
  BY <1>1, <1>2, ListUnchanged DEF Steady, SweepInv, AtWork, driverVars
<1>4. /\ client' \in [Names -> {"none", "running", "gone"}] /\ client'[Current] = "running"
      /\ \A e \in Names \ {Current} : client'[e] = client[e]
  BY <1>1, <1>3 DEF TypeOK
<1>5. TypeOK'
  BY <1>1, <1>2, <1>4 DEF TypeOK, driverVars, serverVars, clientVars, Statuses, MainStates
<1>6. ControlInv' /\ StandingInv'
  BY <1>1, <1>2, <1>3, <1>4 DEF SweepInv, ControlInv, StandingInv, Steady, Servers, AtWork,
     driverVars, serverVars, clientVars
<1>7. /\ \A e \in Names : ServedAsMeant(e) => ServedAsMeant(e)'
      /\ ResultsInv'
  <2>1. \A e \in Names : ServedAsMeant(e) => ServedAsMeant(e)'
    BY <1>1, <1>2, <1>3, <1>4, DoneAreNames, ServedStays DEF SweepInv, Servers, driverVars,
       serverVars, clientVars
  <2>2. QED
    BY <1>1, <1>2, <1>3, <1>4, <2>1, RecordsStay DEF SweepInv
<1>8. ASSUME NEW e \in Names, e # Current
      PROVE  ServerInv(e)' /\ ClientInv(e)'
  BY <1>1, <1>2, <1>3, <1>4, <1>8, OthersStay DEF SweepInv, TypeOK, Servers, driverVars,
     serverVars, clientVars
<1>9. ServerInv(Current)'
  BY <1>1, <1>2, <1>3, <1>4 DEF SweepInv, ServerInv, InHand, Fresh, Told, Left, Killed9,
     Steady, Holds, AtWork, Servers, driverVars, serverVars, clientVars
<1>10. ClientInv(Current)'
  BY <1>1, <1>2, <1>3, <1>4, <1>7 DEF SweepInv, ClientInv, Steady, AtWork, InHand, Servers,
     driverVars, serverVars, clientVars
<1>11. QED
  BY <1>1, <1>3, <1>5, <1>6, <1>7, <1>8, <1>9, <1>10 DEF SweepInv, Steady

\* The clients are gone, or the one that waits for them is.
LEMMA ClientHostReturnsKeepsInv ==
  ASSUME TypeOK, SweepInv, ClientHostReturns, ~hung
  PROVE  TypeOK' /\ SweepInv'
<1>1. /\ todo # <<>> /\ Current \in Names /\ Current # Standing /\ Current \notin DoneWith
      /\ \A e \in Names : InHand(e) <=> e = Current
      /\ pc = "waiting" /\ (driver = "sweep" => pid) /\ ~interrupted
      /\ UNCHANGED <<driverVars, todo, pid, interrupted, results, serverVars, clientVars, shutdown>>
      /\ pc' = "teardown"
      /\ \/ client[Current] # "running" /\ status' = "ok" /\ UNCHANGED faultVars
         \/ status' = "client_failed" /\ Fault(Current, "ssh")
  BY WorkInHand DEF ClientHostReturns, SweepInv, ControlInv, TypeOK, AtWork
<1>2. /\ \A e \in Names : \A K : Struck(e, K) => Struck(e, K)'
      /\ blamed' \in [Names -> SUBSET Faults] /\ faults' \in 0..MaxFaults /\ hung' = hung
  BY <1>1, FaultOrNone DEF Faults
<1>3. Steady
  BY <1>1, <1>2, ListUnchanged DEF Steady, SweepInv, AtWork, driverVars
<1>4. /\ client[Current] = "running" => Struck(Current, {"ssh"})'
      /\ client[Current] \in {"running", "gone"}
  BY <1>1, <1>3, FaultStrikes DEF Faults, Steady, TypeOK, SweepInv, ClientInv
<1>5. TypeOK'
  BY <1>1, <1>2, <1>4 DEF TypeOK, driverVars, serverVars, clientVars, Statuses, MainStates
<1>6. ControlInv' /\ StandingInv'
  BY <1>1, <1>2, <1>3, <1>4 DEF SweepInv, ControlInv, StandingInv, Steady, Servers, AtWork,
     driverVars, serverVars, clientVars
<1>7. /\ \A e \in Names : ServedAsMeant(e) => ServedAsMeant(e)'
      /\ ResultsInv'
  <2>1. \A e \in Names : ServedAsMeant(e) => ServedAsMeant(e)'
    BY <1>1, <1>2, <1>3, <1>4, DoneAreNames, ServedStays DEF SweepInv, Servers, driverVars,
       serverVars, clientVars
  <2>2. QED
    BY <1>1, <1>2, <1>3, <1>4, <2>1, RecordsStay DEF SweepInv
<1>8. ASSUME NEW e \in Names, e # Current
      PROVE  ServerInv(e)' /\ ClientInv(e)'
  BY <1>1, <1>2, <1>3, <1>4, <1>8, OthersStay DEF SweepInv, TypeOK, Servers, driverVars,
     serverVars, clientVars
<1>9. ServerInv(Current)'
  BY <1>1, <1>2, <1>3, <1>4 DEF SweepInv, ServerInv, InHand, Fresh, Told, Left, Killed9,
     Steady, Holds, AtWork, Servers, driverVars, serverVars, clientVars
<1>10. ClientInv(Current)'
  BY <1>1, <1>2, <1>3, <1>4, <1>7 DEF SweepInv, ClientInv, Steady, AtWork, InHand, Servers,
     driverVars, serverVars, clientVars
<1>11. QED
  BY <1>1, <1>3, <1>5, <1>6, <1>7, <1>8, <1>9, <1>10 DEF SweepInv, Steady

\* The clients are killed, where pkill reaches them.
LEMMA RunTimesOutKeepsInv ==
  ASSUME TypeOK, SweepInv, RunTimesOut
  PROVE  TypeOK' /\ SweepInv'
<1>1. /\ todo # <<>> /\ Current \in Names /\ Current # Standing /\ Current \notin DoneWith
      /\ \A e \in Names : InHand(e) <=> e = Current
      /\ pc = "waiting" /\ (driver = "sweep" => pid) /\ ~interrupted
      /\ UNCHANGED <<driverVars, todo, pid, interrupted, results, serverVars, servedBy, shutdown>>
      /\ pc' = "teardown" /\ status' = "client_failed" /\ client[Current] = "running"
      /\ UNCHANGED faultVars \/ Fault(Current, "ssh")
      /\ \/ nodes = "far" /\ UNCHANGED client
         \/ client' = [client EXCEPT ![Current] = "gone"]
         \/ Fault(Current, "ssh") /\ UNCHANGED client
  BY WorkInHand DEF RunTimesOut, SweepInv, ControlInv, TypeOK, AtWork, Killed
<1>2. /\ \A e \in Names : \A K : Struck(e, K) => Struck(e, K)'
      /\ blamed' \in [Names -> SUBSET Faults] /\ faults' \in 0..MaxFaults /\ hung' = hung
  BY <1>1, FaultOrNone DEF Faults
<1>3. Steady
  BY <1>1, <1>2, ListUnchanged DEF Steady, SweepInv, AtWork, driverVars
<1>4. /\ client' \in [Names -> {"none", "running", "gone"}]
      /\ \A e \in Names \ {Current} : client'[e] = client[e]
      /\ client'[Current] = "gone" \/ nodes = "far" \/ Struck(Current, {"ssh"})'
  BY <1>1, <1>3, FaultStrikes DEF Faults, Steady, TypeOK
<1>5. TypeOK'
  BY <1>1, <1>2, <1>4 DEF TypeOK, driverVars, serverVars, clientVars, Statuses, MainStates
<1>6. ControlInv' /\ StandingInv'
  BY <1>1, <1>2, <1>3, <1>4 DEF SweepInv, ControlInv, StandingInv, Steady, Servers, AtWork,
     driverVars, serverVars, clientVars
<1>7. /\ \A e \in Names : ServedAsMeant(e) => ServedAsMeant(e)'
      /\ ResultsInv'
  <2>1. \A e \in Names : ServedAsMeant(e) => ServedAsMeant(e)'
    BY <1>1, <1>2, <1>3, <1>4, DoneAreNames, ServedStays DEF SweepInv, Servers, driverVars,
       serverVars, clientVars
  <2>2. QED
    BY <1>1, <1>2, <1>3, <1>4, <2>1, RecordsStay DEF SweepInv
<1>8. ASSUME NEW e \in Names, e # Current
      PROVE  ServerInv(e)' /\ ClientInv(e)'
  BY <1>1, <1>2, <1>3, <1>4, <1>8, OthersStay DEF SweepInv, TypeOK, Servers, driverVars,
     serverVars, clientVars
<1>9. ServerInv(Current)'
  BY <1>1, <1>2, <1>3, <1>4 DEF SweepInv, ServerInv, InHand, Fresh, Told, Left, Killed9,
     Steady, Holds, AtWork, Servers, driverVars, serverVars, clientVars
<1>10. ClientInv(Current)'
  BY <1>1, <1>2, <1>3, <1>4, <1>7 DEF SweepInv, ClientInv, Steady, AtWork, InHand, Servers,
     driverVars, serverVars, clientVars
<1>11. QED
  BY <1>1, <1>3, <1>5, <1>6, <1>7, <1>8, <1>9, <1>10 DEF SweepInv, Steady

\* A server whose pid is known is stopped.
LEMMA TeardownKeepsInv ==
  ASSUME TypeOK, SweepInv, Teardown
  PROVE  TypeOK' /\ SweepInv'
<1>1. /\ todo # <<>> /\ Current \in Names /\ Current # Standing /\ Current \notin DoneWith
      /\ \A e \in Names : InHand(e) <=> e = Current
      /\ pc = "teardown" /\ ~interrupted
      /\ UNCHANGED <<driverVars, todo, pid, status, interrupted, results, serverVars, clientVars, shutdown, faultVars>>
      /\ pc' = IF pid THEN "stop" ELSE "collect"
  BY WorkInHand DEF Teardown, SweepInv, ControlInv, TypeOK, AtWork
<1>2. /\ \A e \in Names : \A K : Struck(e, K) => Struck(e, K)'
      /\ blamed' \in [Names -> SUBSET Faults] /\ faults' \in 0..MaxFaults /\ hung' = hung
  BY <1>1, BlameStays DEF TypeOK, faultVars
<1>3. Steady
  BY <1>1, <1>2, ListUnchanged DEF Steady, SweepInv, AtWork, driverVars
<1>4. pid \/ (main[Current] = "none" /\ worker[Current] = "none")
         \/ Struck(Current, {"launch", "probe", "frontend", "cut"})
  BY <1>1, <1>3, StruckMore DEF SweepInv, ServerInv
<1>5. TypeOK'
  BY <1>1, <1>2, <1>4 DEF TypeOK, driverVars, serverVars, clientVars, Statuses, MainStates
<1>6. ControlInv' /\ StandingInv'
  BY <1>1, <1>2, <1>3, <1>4 DEF SweepInv, ControlInv, StandingInv, Steady, Servers, AtWork,
     driverVars, serverVars, clientVars
<1>7. /\ \A e \in Names : ServedAsMeant(e) => ServedAsMeant(e)'
      /\ ResultsInv'
  <2>1. \A e \in Names : ServedAsMeant(e) => ServedAsMeant(e)'
    BY <1>1, <1>2, <1>3, <1>4, DoneAreNames, ServedStays DEF SweepInv, Servers, driverVars,
       serverVars, clientVars
  <2>2. QED
    BY <1>1, <1>2, <1>3, <1>4, <2>1, RecordsStay DEF SweepInv
<1>8. ASSUME NEW e \in Names, e # Current
      PROVE  ServerInv(e)' /\ ClientInv(e)'
  BY <1>1, <1>2, <1>3, <1>4, <1>8, OthersStay DEF SweepInv, TypeOK, Servers, driverVars,
     serverVars, clientVars
<1>9. ServerInv(Current)'
  BY <1>1, <1>2, <1>3, <1>4 DEF SweepInv, ServerInv, InHand, Fresh, Told, Left, Killed9,
     Steady, Holds, AtWork, Servers, driverVars, serverVars, clientVars
<1>10. ClientInv(Current)'
  BY <1>1, <1>2, <1>3, <1>4, <1>7 DEF SweepInv, ClientInv, Steady, AtWork, InHand, Servers,
     driverVars, serverVars, clientVars
<1>11. QED
  BY <1>1, <1>3, <1>5, <1>6, <1>7, <1>8, <1>9, <1>10 DEF SweepInv, Steady

\* A server that seems dead is left, and another one is told to end.
LEMMA StopServerKeepsInv ==
  ASSUME TypeOK, SweepInv, StopServer, ~hung
  PROVE  TypeOK' /\ SweepInv'
<1>1. /\ todo # <<>> /\ Current \in Names /\ Current # Standing /\ Current \notin DoneWith
      /\ \A e \in Names : InHand(e) <=> e = Current
      /\ pc = "stop" /\ pid /\ driver = "sweep"
      /\ UNCHANGED <<driverVars, todo, pid, status, interrupted, results, worker, marker, clientVars>>
      /\ \/ /\ (main[Current] = "gone" /\ UNCHANGED faultVars) \/ Fault(Current, "probe")
            /\ shutdown' = [shutdown EXCEPT ![Current] = "self"]
            /\ pc' = IF interrupted THEN "summary" ELSE "collect"
            /\ UNCHANGED main
         \/ /\ main' = [main EXCEPT ![Current] = IF @ = "up" THEN "draining" ELSE @]
            /\ pc' = "sigint" /\ UNCHANGED <<faultVars, shutdown>>
         \/ /\ Fault(Current, "ssh") /\ pc' = "sigint" /\ UNCHANGED <<main, shutdown>>
  BY WorkInHand DEF StopServer, SweepInv, ControlInv, TypeOK, AtWork, SeenDead, SeenAlive,
     Stopped, Signalled
<1>2. /\ \A e \in Names : \A K : Struck(e, K) => Struck(e, K)'
      /\ blamed' \in [Names -> SUBSET Faults] /\ faults' \in 0..MaxFaults /\ hung' = hung
  <2>1. UNCHANGED faultVars \/ Fault(Current, "probe") \/ Fault(Current, "ssh")
    BY <1>1
  <2>2. QED
    BY <1>1, <2>1, FaultOrNone DEF Faults
<1>3. Steady
  BY <1>1, <1>2, ListUnchanged DEF Steady, SweepInv, AtWork, driverVars
<1>4. /\ shutdown' \in [Names -> {"none", "self", "sigint", "sigkill", "LEAKED"}]
      /\ \A e \in Names \ {Current} : shutdown'[e] = shutdown[e]
      /\ main' \in [Servers -> MainStates]
      /\ \A s \in Servers \ {Current} : main'[s] = main[s]
      /\ UNCHANGED main \/ (main[Current] = "up" /\ main'[Current] = "draining" /\ pc' = "sigint")
      /\ \/ pc' = "sigint" /\ shutdown'[Current] = shutdown[Current]
         \/ /\ pc' = (IF interrupted THEN "summary" ELSE "collect") /\ shutdown'[Current] = "self"
            /\ main[Current] = "gone" \/ \A K : "probe" \in K => Struck(Current, K)'
  <2>1. pc' \in {"summary", "collect"} =>
           main[Current] = "gone" \/ \A K : "probe" \in K => Struck(Current, K)'
    BY <1>1, <1>3, FaultStrikes DEF Faults, Steady
  <2>2. QED
    BY <1>1, <2>1 DEF TypeOK, MainStates, Servers
<1>5. TypeOK'
  BY <1>1, <1>2, <1>4 DEF TypeOK, driverVars, serverVars, clientVars, Statuses, MainStates
<1>6. ControlInv' /\ StandingInv'
  BY <1>1, <1>2, <1>3, <1>4 DEF SweepInv, ControlInv, StandingInv, Steady, Servers, AtWork,
     driverVars, serverVars, clientVars
<1>7. /\ \A e \in Names : ServedAsMeant(e) => ServedAsMeant(e)'
      /\ ResultsInv'
  <2>1. \A e \in Names : ServedAsMeant(e) => ServedAsMeant(e)'
    BY <1>1, <1>2, <1>3, <1>4, DoneAreNames, ServedStays DEF SweepInv, Servers, driverVars,
       serverVars, clientVars
  <2>2. QED
    BY <1>1, <1>2, <1>3, <1>4, <2>1, RecordsStay DEF SweepInv
<1>8. ASSUME NEW e \in Names, e # Current
      PROVE  ServerInv(e)' /\ ClientInv(e)'
  BY <1>1, <1>2, <1>3, <1>4, <1>8, OthersStay DEF SweepInv, TypeOK, Servers, driverVars,
     serverVars, clientVars
<1>9. ServerInv(Current)'
  <2>1. main[Current] = "gone" =>
           worker[Current] \in {"none", "gone"} \/ Struck(Current, {"launch", "probe", "frontend", "cut"})
    BY <1>1, StruckMore DEF SweepInv, ServerInv, Killed9, AtWork
  <2>2. main[Current] = "gone" => Struck(Current, {"startup", "frontend", "probe"})
    BY <1>1, StruckMore DEF SweepInv, ServerInv, Told
  <2>9. QED
    BY <1>1, <1>2, <1>3, <1>4, <2>1, <2>2 DEF SweepInv, ServerInv, InHand, Fresh, Told, Left,
       Killed9,
                   Steady, Holds, AtWork, Servers, driverVars, serverVars, clientVars
<1>10. ClientInv(Current)'
  BY <1>1, <1>2, <1>3, <1>4, <1>7 DEF SweepInv, ClientInv, Steady, AtWork, InHand, Servers,
     driverVars, serverVars, clientVars
<1>11. QED
  BY <1>1, <1>3, <1>5, <1>6, <1>7, <1>8, <1>9, <1>10 DEF SweepInv, Steady

\* One that does not end is killed.
LEMMA AwaitSigintKeepsInv ==
  ASSUME TypeOK, SweepInv, AwaitSigint, ~hung
  PROVE  TypeOK' /\ SweepInv'
<1>1. /\ todo # <<>> /\ Current \in Names /\ Current # Standing /\ Current \notin DoneWith
      /\ \A e \in Names : InHand(e) <=> e = Current
      /\ pc = "sigint" /\ pid /\ driver = "sweep"
      /\ UNCHANGED <<driverVars, todo, pid, status, interrupted, results, worker, marker, clientVars>>
      /\ \/ /\ (main[Current] = "gone" /\ UNCHANGED faultVars) \/ Fault(Current, "probe")
            /\ shutdown' = [shutdown EXCEPT ![Current] = "sigint"]
            /\ pc' = IF interrupted THEN "summary" ELSE "collect"
            /\ UNCHANGED main
         \/ /\ main' = [main EXCEPT ![Current] = "gone"]
            /\ pc' = "sigkill" /\ UNCHANGED <<faultVars, shutdown>>
         \/ /\ Fault(Current, "ssh") /\ pc' = "sigkill" /\ UNCHANGED <<main, shutdown>>
  BY WorkInHand DEF AwaitSigint, SweepInv, ControlInv, TypeOK, AtWork, SeenDead, SeenAlive,
     Stopped, Signalled
<1>2. /\ \A e \in Names : \A K : Struck(e, K) => Struck(e, K)'
      /\ blamed' \in [Names -> SUBSET Faults] /\ faults' \in 0..MaxFaults /\ hung' = hung
  <2>1. UNCHANGED faultVars \/ Fault(Current, "probe") \/ Fault(Current, "ssh")
    BY <1>1
  <2>2. QED
    BY <1>1, <2>1, FaultOrNone DEF Faults
<1>3. Steady
  BY <1>1, <1>2, ListUnchanged DEF Steady, SweepInv, AtWork, driverVars
<1>4. /\ shutdown' \in [Names -> {"none", "self", "sigint", "sigkill", "LEAKED"}]
      /\ \A e \in Names \ {Current} : shutdown'[e] = shutdown[e]
      /\ main' \in [Servers -> MainStates]
      /\ \A s \in Servers \ {Current} : main'[s] = main[s]
      /\ UNCHANGED main \/ (main'[Current] = "gone" /\ pc' = "sigkill")
      /\ \/ pc' = "sigkill" /\ shutdown'[Current] = shutdown[Current]
         \/ /\ pc' = (IF interrupted THEN "summary" ELSE "collect") /\ shutdown'[Current] = "sigint"
            /\ UNCHANGED main
            /\ main[Current] = "gone" \/ \A K : "probe" \in K => Struck(Current, K)'
  <2>1. pc' \in {"summary", "collect"} =>
           main[Current] = "gone" \/ \A K : "probe" \in K => Struck(Current, K)'
    BY <1>1, <1>3, FaultStrikes DEF Faults, Steady
  <2>2. QED
    BY <1>1, <2>1 DEF TypeOK, MainStates, Servers
<1>5. TypeOK'
  BY <1>1, <1>2, <1>4 DEF TypeOK, driverVars, serverVars, clientVars, Statuses, MainStates
<1>6. ControlInv' /\ StandingInv'
  BY <1>1, <1>2, <1>3, <1>4 DEF SweepInv, ControlInv, StandingInv, Steady, Servers, AtWork,
     driverVars, serverVars, clientVars
<1>7. /\ \A e \in Names : ServedAsMeant(e) => ServedAsMeant(e)'
      /\ ResultsInv'
  <2>1. \A e \in Names : ServedAsMeant(e) => ServedAsMeant(e)'
    BY <1>1, <1>2, <1>3, <1>4, DoneAreNames, ServedStays DEF SweepInv, Servers, driverVars,
       serverVars, clientVars
  <2>2. QED
    BY <1>1, <1>2, <1>3, <1>4, <2>1, RecordsStay DEF SweepInv
<1>8. ASSUME NEW e \in Names, e # Current
      PROVE  ServerInv(e)' /\ ClientInv(e)'
  BY <1>1, <1>2, <1>3, <1>4, <1>8, OthersStay DEF SweepInv, TypeOK, Servers, driverVars,
     serverVars, clientVars
<1>9. ServerInv(Current)'
  <2>1. main[Current] = "gone" =>
           worker[Current] \in {"none", "gone"} \/ Struck(Current, {"launch", "probe", "frontend", "cut"})
    BY <1>1, StruckMore DEF SweepInv, ServerInv, Killed9, AtWork
  <2>9. QED
    BY <1>1, <1>2, <1>3, <1>4, <2>1 DEF SweepInv, ServerInv, InHand, Fresh, Told, Left, Killed9,
                   Steady, Holds, AtWork, Servers, driverVars, serverVars, clientVars
<1>10. ClientInv(Current)'
  BY <1>1, <1>2, <1>3, <1>4, <1>7 DEF SweepInv, ClientInv, Steady, AtWork, InHand, Servers,
     driverVars, serverVars, clientVars
<1>11. QED
  BY <1>1, <1>3, <1>5, <1>6, <1>7, <1>8, <1>9, <1>10 DEF SweepInv, Steady

\* Whatever comes of it is recorded.
LEMMA AwaitSigkillKeepsInv ==
  ASSUME TypeOK, SweepInv, AwaitSigkill
  PROVE  TypeOK' /\ SweepInv'
<1>1. /\ todo # <<>> /\ Current \in Names /\ Current # Standing /\ Current \notin DoneWith
      /\ \A e \in Names : InHand(e) <=> e = Current
      /\ pc = "sigkill" /\ pid /\ driver = "sweep"
      /\ UNCHANGED <<driverVars, todo, pid, status, interrupted, results, serverVars, clientVars>>
      /\ pc' = IF interrupted THEN "summary" ELSE "collect"
      /\ UNCHANGED faultVars \/ Fault(Current, "probe")
      /\ \E how \in {"sigkill", "LEAKED"} : shutdown' = [shutdown EXCEPT ![Current] = how]
  BY WorkInHand DEF AwaitSigkill, SweepInv, ControlInv, TypeOK, AtWork, SeenDead, SeenAlive,
     Stopped
<1>2. /\ \A e \in Names : \A K : Struck(e, K) => Struck(e, K)'
      /\ blamed' \in [Names -> SUBSET Faults] /\ faults' \in 0..MaxFaults /\ hung' = hung
  BY <1>1, FaultOrNone DEF Faults
<1>3. Steady
  BY <1>1, <1>2, ListUnchanged DEF Steady, SweepInv, AtWork, driverVars
<1>4. /\ shutdown' \in [Names -> {"none", "self", "sigint", "sigkill", "LEAKED"}]
      /\ \A e \in Names \ {Current} : shutdown'[e] = shutdown[e]
      /\ shutdown'[Current] \in {"sigkill", "LEAKED"}
  BY <1>1, <1>3 DEF TypeOK
<1>5. TypeOK'
  BY <1>1, <1>2, <1>4 DEF TypeOK, driverVars, serverVars, clientVars, Statuses, MainStates
<1>6. ControlInv' /\ StandingInv'
  BY <1>1, <1>2, <1>3, <1>4 DEF SweepInv, ControlInv, StandingInv, Steady, Servers, AtWork,
     driverVars, serverVars, clientVars
<1>7. /\ \A e \in Names : ServedAsMeant(e) => ServedAsMeant(e)'
      /\ ResultsInv'
  <2>1. \A e \in Names : ServedAsMeant(e) => ServedAsMeant(e)'
    BY <1>1, <1>2, <1>3, <1>4, DoneAreNames, ServedStays DEF SweepInv, Servers, driverVars,
       serverVars, clientVars
  <2>2. QED
    BY <1>1, <1>2, <1>3, <1>4, <2>1, RecordsStay DEF SweepInv
<1>8. ASSUME NEW e \in Names, e # Current
      PROVE  ServerInv(e)' /\ ClientInv(e)'
  BY <1>1, <1>2, <1>3, <1>4, <1>8, OthersStay DEF SweepInv, TypeOK, Servers, driverVars,
     serverVars, clientVars
<1>9. ServerInv(Current)'
  BY <1>1, <1>2, <1>3, <1>4 DEF SweepInv, ServerInv, InHand, Fresh, Told, Left, Killed9,
     Steady, Holds, AtWork, Servers, driverVars, serverVars, clientVars
<1>10. ClientInv(Current)'
  BY <1>1, <1>2, <1>3, <1>4, <1>7 DEF SweepInv, ClientInv, Steady, AtWork, InHand, Servers,
     driverVars, serverVars, clientVars
<1>11. QED
  BY <1>1, <1>3, <1>5, <1>6, <1>7, <1>8, <1>9, <1>10 DEF SweepInv, Steady

\* The artifacts of a run are copied.
LEMMA CollectKeepsInv ==
  ASSUME TypeOK, SweepInv, Collect
  PROVE  TypeOK' /\ SweepInv'
<1>1. /\ todo # <<>> /\ Current \in Names /\ Current # Standing /\ Current \notin DoneWith
      /\ \A e \in Names : InHand(e) <=> e = Current
      /\ pc = "collect" /\ driver = "sweep" /\ ~interrupted
      /\ pc' = "cooldown"
      /\ UNCHANGED <<driverVars, todo, pid, status, interrupted, results, serverVars, clientVars, shutdown, faultVars>>
  BY WorkInHand DEF Collect, SweepInv, ControlInv, TypeOK, AtWork, Collected
<1>2. /\ \A e \in Names : \A K : Struck(e, K) => Struck(e, K)'
      /\ blamed' \in [Names -> SUBSET Faults] /\ faults' \in 0..MaxFaults /\ hung' = hung
  BY <1>1, BlameStays DEF TypeOK, faultVars
<1>3. Steady
  BY <1>1, <1>2, ListUnchanged DEF Steady, SweepInv, AtWork, driverVars
<1>4. TypeOK'
  BY <1>1, <1>2 DEF TypeOK, driverVars, serverVars, clientVars, Statuses, MainStates
<1>5. ControlInv' /\ StandingInv'
  BY <1>1, <1>2, <1>3 DEF SweepInv, ControlInv, StandingInv, Steady, Servers, AtWork,
     driverVars, serverVars, clientVars
<1>6. /\ \A e \in Names : ServedAsMeant(e) => ServedAsMeant(e)'
      /\ ResultsInv'
  <2>1. \A e \in Names : ServedAsMeant(e) => ServedAsMeant(e)'
    BY <1>1, <1>2, <1>3, DoneAreNames, ServedStays DEF SweepInv, Servers, driverVars,
       serverVars, clientVars
  <2>2. QED
    BY <1>1, <1>2, <1>3, <2>1, RecordsStay DEF SweepInv
<1>7. ASSUME NEW e \in Names, e # Current
      PROVE  ServerInv(e)' /\ ClientInv(e)'
  BY <1>1, <1>2, <1>3, <1>7, OthersStay DEF SweepInv, TypeOK, Servers, driverVars, serverVars,
     clientVars
<1>8. ServerInv(Current)'
  BY <1>1, <1>2, <1>3 DEF SweepInv, ServerInv, InHand, Fresh, Told, Left, Killed9, Steady,
     Holds, AtWork, Servers, driverVars, serverVars, clientVars
<1>9. ClientInv(Current)'
  BY <1>1, <1>2, <1>3, <1>6 DEF SweepInv, ClientInv, Steady, AtWork, InHand, Servers,
     driverVars, serverVars, clientVars
<1>10. QED
  BY <1>1, <1>3, <1>4, <1>5, <1>6, <1>7, <1>8, <1>9 DEF SweepInv, Steady

\* An experiment that shares its server is recorded before the cooldown.
LEMMA CollectExperimentKeepsInv ==
  ASSUME TypeOK, SweepInv, CollectExperiment
  PROVE  TypeOK' /\ SweepInv'
<1>1. /\ todo # <<>> /\ Current \in Names /\ Current # Standing /\ Current \notin DoneWith
      /\ \A e \in Names : InHand(e) <=> e = Current
      /\ pc = "collect" /\ driver = "experiments" /\ ~interrupted
      /\ pc' = "cooldown" /\ results' = Append(results, [name |-> Current, status |-> status])
      /\ UNCHANGED <<driverVars, todo, pid, status, interrupted, serverVars, clientVars, shutdown, faultVars>>
  BY WorkInHand DEF CollectExperiment, SweepInv, ControlInv, TypeOK, AtWork, Collected, Recorded
<1>2. /\ \A e \in Names : \A K : Struck(e, K) => Struck(e, K)'
      /\ blamed' \in [Names -> SUBSET Faults] /\ faults' \in 0..MaxFaults /\ hung' = hung
  BY <1>1, BlameStays DEF TypeOK, faultVars
<1>3. Steady
  BY <1>1, <1>2, ListUnchanged DEF Steady, SweepInv, AtWork, driverVars
<1>4. /\ results' \in Seq([name : Names, status : Statuses])
      /\ Len(results') = NumDone + 1 /\ Len(results') <= Len(chosen)
      /\ \A i \in 1..Len(results') :
           /\ results'[i].name = chosen[i] /\ chosen[i] \in Names
           /\ results'[i].status = "ok" => ServedAsMeant(chosen[i])
  <2>1. Len(results) = NumDone
    BY <1>1 DEF SweepInv, ResultsInv
  <2>2. status = "ok" => ServedAsMeant(Current)
    BY <1>1 DEF SweepInv, ClientInv, AtWork
  <2>3. QED
    BY <1>1, <2>1, <2>2, RecordAdded DEF SweepInv
<1>5. TypeOK'
  BY <1>1, <1>2, <1>4 DEF TypeOK, driverVars, serverVars, clientVars, Statuses, MainStates
<1>6. ControlInv' /\ StandingInv'
  BY <1>1, <1>2, <1>3, <1>4 DEF SweepInv, ControlInv, StandingInv, Steady, Servers, AtWork,
     driverVars, serverVars, clientVars
<1>7. /\ \A e \in Names : ServedAsMeant(e) => ServedAsMeant(e)'
      /\ ResultsInv'
  <2>1. \A e \in Names : ServedAsMeant(e) => ServedAsMeant(e)'
    BY <1>1, <1>2, <1>3, <1>4, DoneAreNames, ServedStays DEF SweepInv, Servers, driverVars,
       serverVars, clientVars
  <2>2. QED
    BY <1>1, <1>3, <1>4, <2>1 DEF ResultsInv, Steady
<1>8. ASSUME NEW e \in Names, e # Current
      PROVE  ServerInv(e)' /\ ClientInv(e)'
  BY <1>1, <1>2, <1>3, <1>4, <1>8, OthersStay DEF SweepInv, TypeOK, Servers, driverVars,
     serverVars, clientVars
<1>9. ServerInv(Current)'
  BY <1>1, <1>2, <1>3, <1>4 DEF SweepInv, ServerInv, InHand, Fresh, Told, Left, Killed9,
     Steady, Holds, AtWork, Servers, driverVars, serverVars, clientVars
<1>10. ClientInv(Current)'
  BY <1>1, <1>2, <1>3, <1>4, <1>7 DEF SweepInv, ClientInv, Steady, AtWork, InHand, Servers,
     driverVars, serverVars, clientVars
<1>11. QED
  BY <1>1, <1>3, <1>5, <1>6, <1>7, <1>8, <1>9, <1>10 DEF SweepInv, Steady

\* A copy that fails ends the sweep.
LEMMA CollectAbortsKeepsInv ==
  ASSUME TypeOK, SweepInv, CollectAborts
  PROVE  TypeOK' /\ SweepInv'
<1>1. /\ todo # <<>> /\ Current \in Names /\ Current # Standing /\ Current \notin DoneWith
      /\ \A e \in Names : InHand(e) <=> e = Current
      /\ pc = "collect" /\ ~interrupted
      /\ Fault(Current, "collect") /\ exit' = 1 /\ pc' = "exited"
      /\ UNCHANGED <<driver, chosen, nodes, todo, pid, status, interrupted, results, serverVars,
                     clientVars, shutdown>>
  BY WorkInHand DEF CollectAborts, SweepInv, ControlInv, TypeOK, AtWork
<1>2. /\ \A e \in Names : \A K : Struck(e, K) => Struck(e, K)'
      /\ blamed' \in [Names -> SUBSET Faults] /\ faults' \in 0..MaxFaults /\ hung' = hung
  BY <1>1, FaultOrNone DEF Faults
<1>3. Steady
  BY <1>1, <1>2, ListUnchanged DEF Steady, SweepInv, AtWork, driverVars
<1>4. Struck(Current, {"collect"})'
  BY <1>1, <1>3, FaultStrikes DEF Faults, Steady
<1>5. TypeOK'
  BY <1>1, <1>2, <1>4 DEF TypeOK, driverVars, serverVars, clientVars, Statuses, MainStates
<1>6. ControlInv' /\ StandingInv'
  BY <1>1, <1>2, <1>3, <1>4 DEF SweepInv, ControlInv, StandingInv, Steady, Servers, AtWork,
     driverVars, serverVars, clientVars
<1>7. /\ \A e \in Names : ServedAsMeant(e) => ServedAsMeant(e)'
      /\ ResultsInv'
  <2>1. \A e \in Names : ServedAsMeant(e) => ServedAsMeant(e)'
    BY <1>1, <1>2, <1>3, <1>4, DoneAreNames, ServedStays DEF SweepInv, Servers, driverVars,
       serverVars, clientVars
  <2>2. \A i \in 1..Len(results) : results[i].name = chosen[i] /\ chosen[i] \in Names
    BY DEF SweepInv, ListInv, ResultsInv
  <2>3. QED
    BY <1>1, <1>3, <1>4, <2>1, <2>2 DEF SweepInv, ResultsInv, Steady
<1>8. ASSUME NEW e \in Names, e # Current
      PROVE  ServerInv(e)' /\ ClientInv(e)'
  BY <1>1, <1>2, <1>3, <1>4, <1>8, OthersStay DEF SweepInv, TypeOK, Servers, driverVars,
     serverVars, clientVars
<1>9. ServerInv(Current)'
  BY <1>1, <1>2, <1>3, <1>4 DEF SweepInv, ServerInv, InHand, Fresh, Told, Left, Killed9,
     Steady, Holds, AtWork, Servers, driverVars, serverVars, clientVars
<1>10. ClientInv(Current)'
  BY <1>1, <1>2, <1>3, <1>4, <1>7 DEF SweepInv, ClientInv, Steady, AtWork, InHand, Servers,
     driverVars, serverVars, clientVars
<1>11. QED
  BY <1>1, <1>3, <1>5, <1>6, <1>7, <1>8, <1>9, <1>10 DEF SweepInv, Steady

\* A command hangs, and with it the driver; what it was to kill may be dead.
LEMMA CommandHangsKeepsInv ==
  ASSUME TypeOK, SweepInv, CommandHangs
  PROVE  TypeOK' /\ SweepInv'
<1>1. /\ todo # <<>> /\ Current \in Names /\ Current # Standing /\ Current \notin DoneWith
      /\ \A e \in Names : InHand(e) <=> e = Current
      /\ pc \in {"ready", "waiting", "stop", "sigint", "sigkill", "collect"}
      /\ Strikes(Current, "hang") /\ hung' = TRUE
      /\ \/ UNCHANGED main
         \/ pc = "stop" /\ main' = [main EXCEPT ![Current] = IF @ = "up" THEN "draining" ELSE @]
         \/ pc = "sigint" /\ main' = [main EXCEPT ![Current] = "gone"]
      /\ UNCHANGED client \/ (pc = "waiting" /\ client' = [client EXCEPT ![Current] = "gone"])
      /\ UNCHANGED <<driverVars, pc, todo, pid, status, interrupted, results, worker, marker,
                     servedBy, shutdown>>
      /\ pc \in {"stop", "sigint"} => driver = "sweep"
  BY WorkInHand DEF CommandHangs, InUnlimitedCommand, Signalled, SweepInv, ControlInv, TypeOK, AtWork
<1>2. /\ \A e \in Names : \A K : Struck(e, K) => Struck(e, K)'
      /\ blamed' \in [Names -> SUBSET Faults] /\ faults' \in 0..MaxFaults
  BY <1>1, FaultStrikes DEF Faults
<1>3. Steady
  BY <1>1, <1>2, ListUnchanged DEF Steady, SweepInv, AtWork, driverVars
<1>4. /\ main' \in [Servers -> MainStates]
      /\ \A s \in Servers \ {Current} : main'[s] = main[s]
      /\ client' \in [Names -> {"none", "running", "gone"}]
      /\ \A e \in Names \ {Current} : client'[e] = client[e]
      /\ client'[Current] = client[Current] \/ (client'[Current] = "gone" /\ pc = "waiting")
      /\ \/ main'[Current] = main[Current]
         \/ main[Current] = "up" /\ main'[Current] = "draining" /\ pc = "stop"
         \/ main'[Current] = "gone" /\ pc = "sigint"
  BY <1>1 DEF TypeOK, MainStates, Servers
<1>5. TypeOK'
  BY <1>1, <1>2, <1>4 DEF TypeOK, driverVars, serverVars, clientVars, Statuses, MainStates
<1>6. ControlInv' /\ StandingInv'
  BY <1>1, <1>2, <1>3, <1>4 DEF SweepInv, ControlInv, StandingInv, Steady, Servers, AtWork,
     driverVars, serverVars, clientVars
<1>7. /\ \A e \in Names : ServedAsMeant(e) => ServedAsMeant(e)'
      /\ ResultsInv'
  <2>1. \A e \in Names : ServedAsMeant(e) => ServedAsMeant(e)'
    BY <1>1, <1>2, <1>3, <1>4, DoneAreNames, ServedStays DEF SweepInv, Servers, driverVars,
       serverVars, clientVars
  <2>2. QED
    BY <1>1, <1>2, <1>3, <1>4, <2>1, RecordsStay DEF SweepInv
<1>8. ASSUME NEW e \in Names, e # Current
      PROVE  ServerInv(e)' /\ ClientInv(e)'
  BY <1>1, <1>2, <1>3, <1>4, <1>8, OthersStay DEF SweepInv, TypeOK, Servers, driverVars,
     serverVars, clientVars
<1>9. ServerInv(Current)'
  BY <1>1, <1>2, <1>3, <1>4 DEF SweepInv, ServerInv, InHand, Fresh, Told, Left, Killed9,
     Steady, Holds, AtWork, Servers, driverVars, serverVars, clientVars
<1>10. ClientInv(Current)'
  BY <1>1, <1>2, <1>3, <1>4, <1>7 DEF SweepInv, ClientInv, Steady, AtWork, InHand, Servers,
     driverVars, serverVars, clientVars
<1>11. QED
  BY <1>1, <1>3, <1>5, <1>6, <1>7, <1>8, <1>9, <1>10 DEF SweepInv, Steady

\* A Ctrl-C strikes wherever the driver is at work.
LEMMA KeyboardInterruptKeepsInv ==
  ASSUME TypeOK, SweepInv, KeyboardInterrupt
  PROVE  TypeOK' /\ SweepInv'
<1>1. /\ todo # <<>> /\ Current \in Names /\ Current # Standing /\ Current \notin DoneWith
      /\ \A e \in Names : InHand(e) <=> e = Current
      /\ pc \in AtWork \ {"teardown"}
      /\ \/ Strikes(Current, "interrupt") /\ pc \in {"ready", "client", "waiting"}
         \/ Strikes(Current, "cut") /\ pc \notin {"ready", "client", "waiting"}
      /\ hung' = FALSE /\ interrupted' = TRUE
      /\ pc' = IF pid /\ pc \in {"ready", "client", "waiting"} THEN "stop" ELSE "summary"
      /\ main' = main \/ (pc = "launch" /\ main' = [main EXCEPT ![Current] = "starting"])
      /\ \/ pc = "waiting" /\ nodes = "local" /\ client' = [client EXCEPT ![Current] = "gone"]
         \/ ~(pc = "waiting" /\ client[Current] = "running" /\ nodes = "local") /\ UNCHANGED client
      /\ UNCHANGED <<driverVars, todo, pid, status, results, worker, marker, servedBy, shutdown>>
      /\ driver = "sweep" /\ pc \in {"ready", "client", "waiting"} => pid
      /\ (pc = "launch" => driver = "sweep") /\ driver # "none" /\ nodes \in {"local", "box", "far"}
  BY WorkInHand DEF KeyboardInterrupt, SweepInv, ControlInv, TypeOK, AtWork
<1>2. /\ \A e \in Names : \A K : Struck(e, K) => Struck(e, K)'
      /\ blamed' \in [Names -> SUBSET Faults] /\ faults' \in 0..MaxFaults /\ hung' = FALSE
  <2>1. Strikes(Current, "interrupt") \/ Strikes(Current, "cut")
    BY <1>1
  <2>2. QED
    BY <1>1, <2>1, FaultStrikes DEF Faults
<1>3. Steady
  BY <1>1, <1>2, ListUnchanged DEF Steady, SweepInv, AtWork, driverVars
<1>4. /\ main' \in [Servers -> MainStates]
      /\ \A s \in Servers \ {Current} : main'[s] = main[s]
      /\ client' \in [Names -> {"none", "running", "gone"}]
      /\ \A e \in Names \ {Current} : client'[e] = client[e]
      /\ client'[Current] = client[Current] \/ client'[Current] = "gone"
      /\ main'[Current] = main[Current] \/ (main'[Current] = "starting" /\ pc = "launch")
      /\ pc \notin {"ready", "client", "waiting"} => \A K : "cut" \in K => Struck(Current, K)'
  <2>1. pc \notin {"ready", "client", "waiting"} => \A K : "cut" \in K => Struck(Current, K)'
    BY <1>1, <1>3, FaultStrikes DEF Faults, Steady
  <2>2. QED
    BY <1>1, <2>1 DEF TypeOK, MainStates, Servers
<1>5. TypeOK'
  BY <1>1, <1>2, <1>4 DEF TypeOK, driverVars, serverVars, clientVars, Statuses, MainStates
<1>6. ControlInv' /\ StandingInv'
  BY <1>1, <1>2, <1>3, <1>4 DEF SweepInv, ControlInv, StandingInv, Steady, Servers, AtWork,
     driverVars, serverVars, clientVars
<1>7. /\ \A e \in Names : ServedAsMeant(e) => ServedAsMeant(e)'
      /\ ResultsInv'
  <2>1. \A e \in Names : ServedAsMeant(e) => ServedAsMeant(e)'
    BY <1>1, <1>2, <1>3, <1>4, DoneAreNames, ServedStays DEF SweepInv, Servers, driverVars,
       serverVars, clientVars
  <2>2. QED
    BY <1>1, <1>2, <1>3, <1>4, <2>1, RecordsStay DEF SweepInv
<1>8. ASSUME NEW e \in Names, e # Current
      PROVE  ServerInv(e)' /\ ClientInv(e)'
  BY <1>1, <1>2, <1>3, <1>4, <1>8, OthersStay DEF SweepInv, TypeOK, Servers, driverVars,
     serverVars, clientVars
<1>9. ServerInv(Current)'
  BY <1>1, <1>2, <1>3, <1>4 DEF SweepInv, ServerInv, InHand, Fresh, Told, Left, Killed9,
     Steady, Holds, AtWork, Servers, driverVars, serverVars, clientVars
<1>10. ClientInv(Current)'
  BY <1>1, <1>2, <1>3, <1>4, <1>7 DEF SweepInv, ClientInv, Steady, AtWork, InHand, Servers,
     driverVars, serverVars, clientVars
<1>11. QED
  BY <1>1, <1>3, <1>5, <1>6, <1>7, <1>8, <1>9, <1>10 DEF SweepInv, Steady

\* The next experiment, if there is one, starts from nothing.
LEMMA CooldownKeepsInv ==
  ASSUME TypeOK, SweepInv, Cooldown
  PROVE  TypeOK' /\ SweepInv'
<1>1. /\ todo # <<>> /\ Current \in Names /\ Current # Standing /\ Current \notin DoneWith
      /\ \A e \in Names : InHand(e) <=> e = Current
      /\ pc = "cooldown" /\ ~interrupted /\ driver \in {"sweep", "experiments"}
      /\ todo' = Tail(todo) /\ pc' = IF todo' = <<>> THEN "summary" ELSE "put"
      /\ pid' = FALSE /\ status' = "pending"
      /\ driver = "sweep" => results' = Append(results, [name |-> Current, status |-> status])
      /\ driver = "experiments" => results' = results
      /\ UNCHANGED <<driverVars, interrupted, serverVars, clientVars, shutdown, faultVars>>
  BY WorkInHand DEF Cooldown, Recorded, SweepInv, ControlInv, TypeOK, AtWork
<1>2. \A e \in Names : \A K : Struck(e, K)' <=> Struck(e, K)
  BY <1>1, BlameStays DEF faultVars
<1>3. /\ ListInv' /\ NumDone' = NumDone + 1 /\ DoneWith' = DoneWith \cup {Current}
      /\ todo' # <<>> => Current' \in Names /\ Current' \notin DoneWith' /\ Current' # Standing
      /\ \A e \in Names : InHand(e)' <=> todo' # <<>> /\ e = Current'
  <2>1. pc' \in AtWork => todo' # <<>>
    BY <1>1 DEF AtWork
  <2>2. QED
    BY <1>1, <2>1, ListMovesOn DEF SweepInv, driverVars, InHand
<1>4. /\ results' \in Seq([name : Names, status : Statuses])
      /\ Len(results') = NumDone + 1 /\ Len(results') <= Len(chosen)
      /\ \A i \in 1..Len(results') :
           /\ results'[i].name = chosen[i] /\ chosen[i] \in Names
           /\ results'[i].status = "ok" => ServedAsMeant(chosen[i])
  <2>1. CASE driver = "sweep"
    <3>1. Len(results) = NumDone
      BY <1>1, <2>1 DEF SweepInv, ResultsInv
    <3>2. status = "ok" => ServedAsMeant(Current)
      BY <1>1 DEF SweepInv, ClientInv, AtWork
    <3>3. QED
      BY <1>1, <2>1, <3>1, <3>2, RecordAdded DEF SweepInv
  <2>2. CASE driver = "experiments"
    <3>1. /\ Len(results) = NumDone + 1 /\ Len(results) <= Len(chosen)
          /\ \A i \in 1..Len(results) : chosen[i] \in Names
      BY <1>1, <2>2 DEF SweepInv, ResultsInv, ListInv
    <3>2. QED
      BY <1>1, <2>2, <3>1 DEF SweepInv, ResultsInv, TypeOK
  <2>3. QED
    BY <1>1, <2>1, <2>2
<1>5. TypeOK'
  <2>1. IsSuffix(todo, chosen)'
    <3>1. todo' \in Seq(Names) /\ chosen' \in Seq(Names) /\ chosen' = chosen
      BY <1>1, <1>3 DEF ListInv, driverVars
    <3>2. /\ Len(todo') <= Len(chosen')
          /\ \A i \in 1..Len(todo') : todo'[i] = chosen'[Len(chosen') - Len(todo') + i]
      BY <1>3 DEF ListInv, NumDone
    <3>3. QED
      BY <3>1, <3>2, SuffixPositions
  <2>2. QED
    BY <1>1, <1>4, <2>1 DEF TypeOK, Statuses, driverVars, serverVars, clientVars, faultVars
<1>6. \A e \in Names : ServedAsMeant(e) => ServedAsMeant(e)'
  <2>1. \A f \in Names : LeftUp(f) => LeftUp(f)'
    BY <1>1, <1>2, <1>3 DEF LeftUp, serverVars
  <2>2. QED
    BY <1>1, <1>2, <2>1 DEF ServedAsMeant, Home, driverVars, clientVars
<1>7. ControlInv' /\ StandingInv'
  BY <1>1 DEF SweepInv, ControlInv, StandingInv, driverVars, serverVars
<1>8. ResultsInv'
  <2>1. pc' # "exited" /\ pc' # "cooldown" /\ (pc' = "summary" => todo' = <<>>)
    BY <1>1
  <2>2. QED
    BY <1>1, <1>3, <1>4, <1>6, <2>1 DEF ResultsInv, driverVars
<1>9. ASSUME NEW e \in Names
      PROVE  ServerInv(e)'
  <2>1. CASE e = Current
    BY <1>1, <1>2, <1>3, <2>1 DEF SweepInv, ServerInv, Told, Left, Killed9, Holds, AtWork,
                                  driverVars, serverVars, clientVars
  <2>2. CASE e # Current
    BY <1>1, <1>2, <1>3, <2>2 DEF SweepInv, ServerInv, Fresh, Told, Left, Killed9, Holds,
                                  driverVars, serverVars, clientVars
  <2>3. QED
    BY <2>1, <2>2
<1>10. ASSUME NEW e \in Names
       PROVE  ClientInv(e)'
  <2>1. InHand(e)' => Fresh(e)
    BY <1>1, <1>3 DEF SweepInv, ServerInv
  <2>2. QED
    BY <1>1, <1>2, <1>3, <1>6, <2>1 DEF SweepInv, ClientInv, Fresh, AtWork,
                                        driverVars, serverVars, clientVars
<1>11. QED
  BY <1>3, <1>5, <1>7, <1>8, <1>9, <1>10 DEF SweepInv

\* The exit code tells whether every record is ok.
LEMMA SummaryKeepsInv ==
  ASSUME TypeOK, SweepInv, Summary
  PROVE  TypeOK' /\ SweepInv'
<1>1. /\ pc = "summary" /\ pc' = "exited" /\ exit' = IF Failed THEN 1 ELSE 0
      /\ UNCHANGED <<driver, chosen, nodes, todo, pid, status, interrupted, results, serverVars,
                     clientVars, shutdown, faultVars>>
  BY DEF Summary
<1>2. \A e \in Names : \A K : Struck(e, K)' <=> Struck(e, K)
  BY <1>1, BlameStays DEF faultVars
<1>3. Steady
  BY <1>1, <1>2, ListUnchanged DEF Steady, SweepInv, AtWork
<1>4. TypeOK'
  BY <1>1 DEF TypeOK, serverVars, clientVars, faultVars
<1>5. ControlInv' /\ StandingInv'
  BY <1>1 DEF SweepInv, ControlInv, StandingInv, serverVars
<1>6. \A e \in Names : ServedAsMeant(e) => ServedAsMeant(e)'
  BY <1>1, <1>3, DoneAreNames, ServedStays DEF SweepInv, serverVars, clientVars
<1>7. ResultsInv'
  <2>1. \A i \in 1..Len(results) : results[i].name = chosen[i] /\ chosen[i] \in Names
    BY DEF SweepInv, ListInv, ResultsInv
  <2>2. Failed' <=> Failed
    BY <1>1 DEF Failed
  <2>3. QED
    BY <1>1, <1>2, <1>3, <1>6, <2>1, <2>2 DEF SweepInv, ResultsInv, Steady
<1>8. ASSUME NEW e \in Names
      PROVE  ServerInv(e)'
  BY <1>1, <1>2, <1>3 DEF SweepInv, ServerInv, Fresh, Told, Left, Killed9, Steady, Holds,
     AtWork,
                          serverVars, clientVars
<1>9. ASSUME NEW e \in Names
      PROVE  ClientInv(e)'
  BY <1>1, <1>2, <1>3, <1>6 DEF SweepInv, ClientInv, Steady, AtWork, serverVars, clientVars
<1>10. QED
  BY <1>3, <1>4, <1>5, <1>7, <1>8, <1>9 DEF SweepInv, Steady

-----------------------------------------------------------------------------
(* Before the first experiment.                                             *)

\* Nothing has been done yet, on any box.
LEMMA NothingYet ==
  ASSUME TypeOK, SweepInv, pc = "select"
  PROVE  /\ driver = "none" /\ chosen = <<>> /\ todo = <<>> /\ results = <<>>
         /\ ~pid /\ status = "pending" /\ ~interrupted /\ DoneWith = {}
         /\ \A e \in Names : Fresh(e) /\ ~InHand(e)
         /\ main[Standing] = "none" /\ worker[Standing] = "none"
<1>1. driver = "none" /\ chosen = <<>> /\ results = <<>> /\ ~pid /\ status = "pending" /\ ~interrupted
  BY DEF SweepInv, ControlInv
<1>2. Len(todo) = 0 /\ todo = <<>> /\ Len(chosen) = 0
  BY <1>1 DEF SweepInv, ListInv
<1>3. DoneWith = {}
  BY <1>2 DEF DoneWith, NumDone
<1>4. \A e \in Names : Fresh(e) /\ ~InHand(e)
  BY <1>2, <1>3 DEF SweepInv, ServerInv, InHand
<1>5. QED
  BY <1>1, <1>2, <1>3, <1>4 DEF SweepInv, StandingInv

LEMMA LeaveEarlyKeepsInv ==
  ASSUME TypeOK, SweepInv, NEW code \in {0, 1}, LeaveEarly(code)
  PROVE  TypeOK' /\ SweepInv'
<1>1. /\ pc = "select" /\ pc' = "exited" /\ exit' = code
      /\ UNCHANGED <<driver, chosen, todo, nodes, pid, status, interrupted, results,
                     serverVars, clientVars, shutdown, faultVars>>
  BY DEF LeaveEarly
<1>2. /\ driver = "none" /\ chosen = <<>> /\ todo = <<>> /\ results = <<>>
      /\ ~pid /\ status = "pending" /\ ~interrupted /\ DoneWith = {}
      /\ \A e \in Names : Fresh(e) /\ ~InHand(e)
  BY <1>1, NothingYet
<1>3. Steady
  BY <1>1, <1>2, BlameStays, ListUnchanged DEF Steady, SweepInv, AtWork, faultVars
<1>4. TypeOK'
  BY <1>1 DEF TypeOK, serverVars, clientVars, faultVars
<1>5. ControlInv' /\ StandingInv'
  BY <1>1, <1>2 DEF SweepInv, ControlInv, StandingInv, serverVars
<1>6. ResultsInv'
  BY <1>1, <1>2, <1>3 DEF SweepInv, ResultsInv, Steady, NumDone
<1>7. ASSUME NEW e \in Names
      PROVE  ServerInv(e)' /\ ClientInv(e)'
  BY <1>1, <1>2, <1>3 DEF SweepInv, ServerInv, ClientInv, Fresh, Told, Left, Holds, Steady,
                          serverVars, clientVars
<1>8. QED
  BY <1>3, <1>4, <1>5, <1>6, <1>7 DEF SweepInv, Steady

\* A sweep starts with its whole selection ahead of it.
LEMMA StartKeepsInv ==
  ASSUME TypeOK, SweepInv, NEW sweep \in Sweeps, StartSweep(sweep) \/ StartExperiments(sweep)
  PROVE  TypeOK' /\ SweepInv'
<1>1. /\ pc = "select" /\ nodes' = sweep.nodes /\ marker' = sweep.logs
      /\ chosen' = sweep.selected /\ todo' = sweep.selected
      /\ pc' = IF sweep.selected = <<>> THEN "summary" ELSE "put"
      /\ UNCHANGED <<pid, status, interrupted, results, exit, clientVars, shutdown, faultVars>>
      /\ \/ driver' = "sweep" /\ UNCHANGED <<main, worker>>
         \/ /\ driver' = "experiments" /\ sweep.selected # <<>>
            /\ main' = [main EXCEPT ![Standing] = "up"]
            /\ worker' = [worker EXCEPT ![Standing] = "ready"]
  BY DEF StartSweep, StartExperiments, Chosen
<1>2. /\ sweep.nodes \in {"local", "box", "far"} /\ sweep.logs \subseteq Names
      /\ sweep.selected \in Seq(Names) /\ IsInjective(sweep.selected)
  BY SweepsAssumption
<1>3. /\ driver = "none" /\ results = <<>> /\ ~pid /\ status = "pending" /\ ~interrupted
      /\ \A e \in Names : Fresh(e)
      /\ main[Standing] = "none" /\ worker[Standing] = "none"
  BY <1>1, NothingYet
<1>4. /\ NumDone' = 0 /\ DoneWith' = {} /\ ListInv'
      /\ \A e \in Names : InHand(e)' => pc' = "put"
  <2>1. Len(sweep.selected) \in Nat /\ NumDone' = 0
    BY <1>1, <1>2 DEF NumDone
  <2>2. DoneWith' = {}
    BY <2>1 DEF DoneWith
  <2>3. ListInv'
    BY <1>1, <1>2, <2>1 DEF ListInv, AtWork
  <2>4. QED
    BY <1>1, <2>1, <2>2, <2>3 DEF InHand
<1>5. \A e \in Names : \A K : Struck(e, K)' <=> Struck(e, K)
  BY <1>1, BlameStays DEF faultVars
<1>6. /\ Standing \in Servers /\ \A e \in Names : e \in Servers /\ e # Standing
  BY ExperimentsAssumption DEF Servers
<1>7. TypeOK'
  <2>1. IsSuffix(todo, chosen)'
    BY <1>1, <1>2, SuffixPositions
  <2>2. main' \in [Servers -> MainStates]
    BY <1>1, <1>6 DEF TypeOK, MainStates
  <2>3. worker' \in [Servers -> {"none", "loading", "ready", "told", "gone"}]
    BY <1>1, <1>6 DEF TypeOK
  <2>4. QED
    BY <1>1, <1>2, <2>1, <2>2, <2>3 DEF TypeOK, MainStates, clientVars, faultVars
<1>8. ControlInv' /\ StandingInv'
  BY <1>1, <1>3, <1>6 DEF SweepInv, ControlInv, StandingInv, TypeOK
<1>9. ResultsInv'
  BY <1>1, <1>2, <1>3, <1>4 DEF ResultsInv
<1>10. \A e \in Names : main'[e] = main[e] /\ worker'[e] = worker[e]
  BY <1>1, <1>6 DEF TypeOK
<1>11. ASSUME NEW e \in Names
       PROVE  ServerInv(e)' /\ ClientInv(e)'
  BY <1>1, <1>3, <1>4, <1>5, <1>10 DEF SweepInv, ServerInv, ClientInv, Fresh, Told, Left, Holds,
                                       AtWork, clientVars
<1>12. QED
  BY <1>4, <1>7, <1>8, <1>9, <1>11 DEF SweepInv

-----------------------------------------------------------------------------
(* Steps on the boxes: the driver does not move.                            *)

LEMMA BoxSteady ==
  ASSUME ListInv, ControlInv, UNCHANGED boxUnchanged,
         \A e \in Names : \A K : Struck(e, K) => Struck(e, K)'
  PROVE  Steady /\ ControlInv'
<1>1. Steady
  BY ListUnchanged DEF Steady, boxUnchanged, driverVars, ListInv
<1>2. ControlInv'
  BY DEF ControlInv, boxUnchanged, driverVars
<1>3. QED
  BY <1>1, <1>2

LEMMA BoxRecordsStay ==
  ASSUME ListInv, ResultsInv, Steady, UNCHANGED boxUnchanged,
         \A e \in Names : ServedAsMeant(e) => ServedAsMeant(e)'
  PROVE  ResultsInv'
<1>1. \A i \in 1..Len(results) : results[i].name = chosen[i] /\ chosen[i] \in Names
  BY DEF ListInv, ResultsInv
<1>2. Failed' <=> Failed
  BY DEF Failed, boxUnchanged
<1>3. QED
  BY <1>1, <1>2 DEF ResultsInv, Steady, boxUnchanged, driverVars

\* Nothing happens to the server and the clients of this experiment.
ServerKept(e) ==
  /\ main'[e] = main[e] /\ worker'[e] = worker[e] /\ client'[e] = client[e]
  /\ servedBy'[e] = servedBy[e] /\ hung' = hung

\* What a server keeps of the invariant when nothing happens to it.
LEMMA KeptStays ==
  ASSUME Steady, UNCHANGED boxUnchanged, NEW e \in Names, ServerInv(e), ClientInv(e), ServerKept(e),
         ServedAsMeant(e) => ServedAsMeant(e)'
  PROVE  ServerInv(e)' /\ ClientInv(e)'
<1>1. ServerInv(e)'
  BY DEF Steady, ServerInv, Fresh, Told, Left, Killed9, Holds, ServerKept, boxUnchanged,
     driverVars
<1>2. ClientInv(e)'
  BY DEF Steady, ClientInv, ServerKept, boxUnchanged, driverVars
<1>3. QED
  BY <1>1, <1>2

WorkerStates == {"none", "loading", "ready", "told", "gone"}

\* A server comes up.
LEMMA ServerUpKeepsInv ==
  ASSUME TypeOK, SweepInv, NEW s \in Servers, ServerUp(s)
  PROVE  TypeOK' /\ SweepInv'
<1>1. /\ s \in Names /\ s # Standing /\ main[s] = "starting"
      /\ UNCHANGED boxUnchanged /\ UNCHANGED clientVars
      /\ UNCHANGED faultVars
  BY ExperimentsAssumption DEF ServerUp, SweepInv, StandingInv, Servers
<1>2. /\ \A e \in Names : \A K : Struck(e, K) => Struck(e, K)'
      /\ blamed' \in [Names -> SUBSET Faults] /\ faults' \in 0..MaxFaults /\ hung' = hung
  BY <1>1, BlameStays DEF TypeOK, faultVars
<1>3. Steady /\ ControlInv'
  BY <1>1, <1>2, BoxSteady DEF SweepInv
<1>4. /\ main' \in [Servers -> MainStates] /\ worker' \in [Servers -> WorkerStates]
      /\ marker' \subseteq Names
      /\ \A t \in Servers \ {s} : main'[t] = main[t] /\ worker'[t] = worker[t]
      /\ main'[s] = "up" /\ worker'[s] = "loading"
  BY <1>1 DEF ServerUp, TypeOK, MainStates, WorkerStates, Servers, serverVars
<1>5. TypeOK'
  BY <1>1, <1>2, <1>4 DEF TypeOK, MainStates, WorkerStates, boxUnchanged, driverVars, clientVars
<1>6. StandingInv'
  BY <1>1, <1>4 DEF SweepInv, StandingInv, Servers, boxUnchanged, driverVars
<1>7. /\ \A e \in Names : ServedAsMeant(e) => ServedAsMeant(e)'
      /\ ResultsInv'
  <2>1. \A f \in DoneWith : main[f] = "up" => main'[f] = "up"
    BY <1>1, <1>4, DoneAreNames DEF SweepInv, Servers
  <2>2. \A e \in Names : ServedAsMeant(e) => ServedAsMeant(e)'
    BY <1>1, <1>3, <2>1, ServedStays DEF clientVars
  <2>3. QED
    BY <1>1, <1>3, <2>2, BoxRecordsStay DEF SweepInv
<1>8. ASSUME NEW e \in Names, e # s
      PROVE  ServerInv(e)' /\ ClientInv(e)'
  BY <1>1, <1>2, <1>3, <1>4, <1>7, <1>8, KeptStays DEF SweepInv, ServerKept, Servers, clientVars
<1>9. ServerInv(s)'
  BY <1>1, <1>2, <1>3, <1>4 DEF SweepInv, ServerInv, Fresh, Told, Left, Killed9, Steady, Holds,
                               boxUnchanged, driverVars, clientVars
<1>10. ClientInv(s)'
  BY <1>1, <1>2, <1>3, <1>4, <1>7 DEF SweepInv, ServerInv, ClientInv, Told, Steady,
                               boxUnchanged, driverVars, clientVars
<1>11. QED
  BY <1>3, <1>5, <1>6, <1>7, <1>8, <1>9, <1>10 DEF SweepInv, Steady

\* It cannot start.
LEMMA StartupFailsKeepsInv ==
  ASSUME TypeOK, SweepInv, NEW s \in Names, StartupFails(s)
  PROVE  TypeOK' /\ SweepInv'
<1>1. /\ s \in Names /\ s # Standing /\ main[s] = "starting"
      /\ UNCHANGED boxUnchanged /\ UNCHANGED clientVars
      /\ Fault(s, "startup")
  BY ExperimentsAssumption DEF StartupFails, SweepInv, StandingInv, Servers
<1>2. /\ \A e \in Names : \A K : Struck(e, K) => Struck(e, K)'
      /\ blamed' \in [Names -> SUBSET Faults] /\ faults' \in 0..MaxFaults /\ hung' = hung
      /\ \A K : "startup" \in K => Struck(s, K)'
  BY <1>1, FaultStrikes DEF Faults
<1>3. Steady /\ ControlInv'
  BY <1>1, <1>2, BoxSteady DEF SweepInv
<1>4. /\ main' \in [Servers -> MainStates] /\ worker' \in [Servers -> WorkerStates]
      /\ marker' \subseteq Names
      /\ \A t \in Servers \ {s} : main'[t] = main[t] /\ worker'[t] = worker[t]
      /\ main'[s] = "gone" /\ worker'[s] = worker[s]
  BY <1>1 DEF StartupFails, TypeOK, MainStates, WorkerStates, Servers, serverVars
<1>5. TypeOK'
  BY <1>1, <1>2, <1>4 DEF TypeOK, MainStates, WorkerStates, boxUnchanged, driverVars, clientVars
<1>6. StandingInv'
  BY <1>1, <1>4 DEF SweepInv, StandingInv, Servers, boxUnchanged, driverVars
<1>7. /\ \A e \in Names : ServedAsMeant(e) => ServedAsMeant(e)'
      /\ ResultsInv'
  <2>1. \A f \in DoneWith : main[f] = "up" => main'[f] = "up"
    BY <1>1, <1>4, DoneAreNames DEF SweepInv, Servers
  <2>2. \A e \in Names : ServedAsMeant(e) => ServedAsMeant(e)'
    BY <1>1, <1>3, <2>1, ServedStays DEF clientVars
  <2>3. QED
    BY <1>1, <1>3, <2>2, BoxRecordsStay DEF SweepInv
<1>8. ASSUME NEW e \in Names, e # s
      PROVE  ServerInv(e)' /\ ClientInv(e)'
  BY <1>1, <1>2, <1>3, <1>4, <1>7, <1>8, KeptStays DEF SweepInv, ServerKept, Servers, clientVars
<1>9. ServerInv(s)'
  BY <1>1, <1>2, <1>3, <1>4 DEF SweepInv, ServerInv, Fresh, Told, Left, Killed9, Steady, Holds,
                               boxUnchanged, driverVars, clientVars
<1>10. ClientInv(s)'
  BY <1>1, <1>2, <1>3, <1>4, <1>7 DEF SweepInv, ServerInv, ClientInv, Told, Steady,
                               boxUnchanged, driverVars, clientVars
<1>11. QED
  BY <1>3, <1>5, <1>6, <1>7, <1>8, <1>9, <1>10 DEF SweepInv, Steady

\* Its front end is killed.
LEMMA FrontEndDiesKeepsInv ==
  ASSUME TypeOK, SweepInv, NEW s \in Names, FrontEndDies(s)
  PROVE  TypeOK' /\ SweepInv'
<1>1. /\ s \in Names /\ s # Standing /\ main[s] \in {"up", "draining", "cleanup"}
      /\ UNCHANGED boxUnchanged /\ UNCHANGED clientVars
      /\ Fault(s, "frontend")
  BY ExperimentsAssumption DEF FrontEndDies, SweepInv, StandingInv, Servers
<1>2. /\ \A e \in Names : \A K : Struck(e, K) => Struck(e, K)'
      /\ blamed' \in [Names -> SUBSET Faults] /\ faults' \in 0..MaxFaults /\ hung' = hung
      /\ \A K : "frontend" \in K => Struck(s, K)'
  BY <1>1, FaultStrikes DEF Faults
<1>3. Steady /\ ControlInv'
  BY <1>1, <1>2, BoxSteady DEF SweepInv
<1>4. /\ main' \in [Servers -> MainStates] /\ worker' \in [Servers -> WorkerStates]
      /\ marker' \subseteq Names
      /\ \A t \in Servers \ {s} : main'[t] = main[t] /\ worker'[t] = worker[t]
      /\ main'[s] = "gone" /\ worker'[s] = worker[s]
  BY <1>1 DEF FrontEndDies, TypeOK, MainStates, WorkerStates, Servers, serverVars
<1>5. TypeOK'
  BY <1>1, <1>2, <1>4 DEF TypeOK, MainStates, WorkerStates, boxUnchanged, driverVars, clientVars
<1>6. StandingInv'
  BY <1>1, <1>4 DEF SweepInv, StandingInv, Servers, boxUnchanged, driverVars
<1>7. /\ \A e \in Names : ServedAsMeant(e) => ServedAsMeant(e)'
      /\ ResultsInv'
  <2>1. \A f \in DoneWith : main[f] = "up" => main'[f] = "up" \/ Struck(f, {"frontend"})'
    BY <1>1, <1>2, <1>4, DoneAreNames DEF SweepInv, Servers
  <2>2. \A e \in Names : ServedAsMeant(e) => ServedAsMeant(e)'
    BY <1>1, <1>3, <2>1, ServedStays DEF clientVars
  <2>3. QED
    BY <1>1, <1>3, <2>2, BoxRecordsStay DEF SweepInv
<1>8. ASSUME NEW e \in Names, e # s
      PROVE  ServerInv(e)' /\ ClientInv(e)'
  BY <1>1, <1>2, <1>3, <1>4, <1>7, <1>8, KeptStays DEF SweepInv, ServerKept, Servers, clientVars
<1>9. ServerInv(s)'
  BY <1>1, <1>2, <1>3, <1>4 DEF SweepInv, ServerInv, Fresh, Told, Left, Killed9, Steady, Holds,
                               boxUnchanged, driverVars, clientVars
<1>10. ClientInv(s)'
  BY <1>1, <1>2, <1>3, <1>4, <1>7 DEF SweepInv, ServerInv, ClientInv, Told, Steady,
                               boxUnchanged, driverVars, clientVars
<1>11. QED
  BY <1>3, <1>5, <1>6, <1>7, <1>8, <1>9, <1>10 DEF SweepInv, Steady

\* Its inference process is ready.
LEMMA WorkerReadyKeepsInv ==
  ASSUME TypeOK, SweepInv, NEW s \in Servers, WorkerReady(s)
  PROVE  TypeOK' /\ SweepInv'
<1>1. /\ s \in Names /\ s # Standing /\ worker[s] = "loading"
      /\ UNCHANGED boxUnchanged /\ UNCHANGED clientVars
      /\ UNCHANGED faultVars
  BY ExperimentsAssumption DEF WorkerReady, SweepInv, StandingInv, Servers
<1>2. /\ \A e \in Names : \A K : Struck(e, K) => Struck(e, K)'
      /\ blamed' \in [Names -> SUBSET Faults] /\ faults' \in 0..MaxFaults /\ hung' = hung
  BY <1>1, BlameStays DEF TypeOK, faultVars
<1>3. Steady /\ ControlInv'
  BY <1>1, <1>2, BoxSteady DEF SweepInv
<1>4. /\ main' \in [Servers -> MainStates] /\ worker' \in [Servers -> WorkerStates]
      /\ marker' \subseteq Names
      /\ \A t \in Servers \ {s} : main'[t] = main[t] /\ worker'[t] = worker[t]
      /\ main'[s] = main[s] /\ worker'[s] = "ready"
  BY <1>1 DEF WorkerReady, TypeOK, MainStates, WorkerStates, Servers, serverVars
<1>5. TypeOK'
  BY <1>1, <1>2, <1>4 DEF TypeOK, MainStates, WorkerStates, boxUnchanged, driverVars, clientVars
<1>6. StandingInv'
  BY <1>1, <1>4 DEF SweepInv, StandingInv, Servers, boxUnchanged, driverVars
<1>7. /\ \A e \in Names : ServedAsMeant(e) => ServedAsMeant(e)'
      /\ ResultsInv'
  <2>1. \A f \in DoneWith : main[f] = "up" => main'[f] = "up"
    BY <1>1, <1>4, DoneAreNames DEF SweepInv, Servers
  <2>2. \A e \in Names : ServedAsMeant(e) => ServedAsMeant(e)'
    BY <1>1, <1>3, <2>1, ServedStays DEF clientVars
  <2>3. QED
    BY <1>1, <1>3, <2>2, BoxRecordsStay DEF SweepInv
<1>8. ASSUME NEW e \in Names, e # s
      PROVE  ServerInv(e)' /\ ClientInv(e)'
  BY <1>1, <1>2, <1>3, <1>4, <1>7, <1>8, KeptStays DEF SweepInv, ServerKept, Servers, clientVars
<1>9. ServerInv(s)'
  BY <1>1, <1>2, <1>3, <1>4 DEF SweepInv, ServerInv, Fresh, Told, Left, Killed9, Steady, Holds,
                               boxUnchanged, driverVars, clientVars
<1>10. ClientInv(s)'
  BY <1>1, <1>2, <1>3, <1>4, <1>7 DEF SweepInv, ServerInv, ClientInv, Told, Steady,
                               boxUnchanged, driverVars, clientVars
<1>11. QED
  BY <1>3, <1>5, <1>6, <1>7, <1>8, <1>9, <1>10 DEF SweepInv, Steady

\* Its inference process dies.
LEMMA WorkerDiesKeepsInv ==
  ASSUME TypeOK, SweepInv, NEW s \in Names, WorkerDies(s)
  PROVE  TypeOK' /\ SweepInv'
<1>1. /\ s \in Names /\ s # Standing /\ worker[s] \in {"loading", "ready"}
      /\ UNCHANGED boxUnchanged /\ UNCHANGED clientVars
      /\ Fault(s, "worker")
  BY ExperimentsAssumption DEF WorkerDies, SweepInv, StandingInv, Servers
<1>2. /\ \A e \in Names : \A K : Struck(e, K) => Struck(e, K)'
      /\ blamed' \in [Names -> SUBSET Faults] /\ faults' \in 0..MaxFaults /\ hung' = hung
      /\ \A K : "worker" \in K => Struck(s, K)'
  BY <1>1, FaultStrikes DEF Faults
<1>3. Steady /\ ControlInv'
  BY <1>1, <1>2, BoxSteady DEF SweepInv
<1>4. /\ main' \in [Servers -> MainStates] /\ worker' \in [Servers -> WorkerStates]
      /\ marker' \subseteq Names
      /\ \A t \in Servers \ {s} : main'[t] = main[t] /\ worker'[t] = worker[t]
      /\ main'[s] = main[s] /\ worker'[s] = "gone"
  BY <1>1 DEF WorkerDies, TypeOK, MainStates, WorkerStates, Servers, serverVars
<1>5. TypeOK'
  BY <1>1, <1>2, <1>4 DEF TypeOK, MainStates, WorkerStates, boxUnchanged, driverVars, clientVars
<1>6. StandingInv'
  BY <1>1, <1>4 DEF SweepInv, StandingInv, Servers, boxUnchanged, driverVars
<1>7. /\ \A e \in Names : ServedAsMeant(e) => ServedAsMeant(e)'
      /\ ResultsInv'
  <2>1. \A f \in DoneWith : main[f] = "up" => main'[f] = "up"
    BY <1>1, <1>4, DoneAreNames DEF SweepInv, Servers
  <2>2. \A e \in Names : ServedAsMeant(e) => ServedAsMeant(e)'
    BY <1>1, <1>3, <2>1, ServedStays DEF clientVars
  <2>3. QED
    BY <1>1, <1>3, <2>2, BoxRecordsStay DEF SweepInv
<1>8. ASSUME NEW e \in Names, e # s
      PROVE  ServerInv(e)' /\ ClientInv(e)'
  BY <1>1, <1>2, <1>3, <1>4, <1>7, <1>8, KeptStays DEF SweepInv, ServerKept, Servers, clientVars
<1>9. ServerInv(s)'
  BY <1>1, <1>2, <1>3, <1>4 DEF SweepInv, ServerInv, Fresh, Told, Left, Killed9, Steady, Holds,
                               boxUnchanged, driverVars, clientVars
<1>10. ClientInv(s)'
  BY <1>1, <1>2, <1>3, <1>4, <1>7 DEF SweepInv, ServerInv, ClientInv, Told, Steady,
                               boxUnchanged, driverVars, clientVars
<1>11. QED
  BY <1>3, <1>5, <1>6, <1>7, <1>8, <1>9, <1>10 DEF SweepInv, Steady

\* It was told to end, and tells its inference process.
LEMMA CleanupKeepsInv ==
  ASSUME TypeOK, SweepInv, NEW s \in Servers, Cleanup(s)
  PROVE  TypeOK' /\ SweepInv'
<1>1. /\ s \in Names /\ s # Standing /\ main[s] = "draining"
      /\ UNCHANGED boxUnchanged /\ UNCHANGED clientVars
      /\ UNCHANGED faultVars
  BY ExperimentsAssumption DEF Cleanup, SweepInv, StandingInv, Servers
<1>2. /\ \A e \in Names : \A K : Struck(e, K) => Struck(e, K)'
      /\ blamed' \in [Names -> SUBSET Faults] /\ faults' \in 0..MaxFaults /\ hung' = hung
  BY <1>1, BlameStays DEF TypeOK, faultVars
<1>3. Steady /\ ControlInv'
  BY <1>1, <1>2, BoxSteady DEF SweepInv
<1>4. /\ main' \in [Servers -> MainStates] /\ worker' \in [Servers -> WorkerStates]
      /\ marker' \subseteq Names
      /\ \A t \in Servers \ {s} : main'[t] = main[t] /\ worker'[t] = worker[t]
      /\ main'[s] = "cleanup" /\ worker'[s] = IF worker[s] = "gone" THEN "gone" ELSE "told"
  BY <1>1 DEF Cleanup, TypeOK, MainStates, WorkerStates, Servers, serverVars
<1>5. TypeOK'
  BY <1>1, <1>2, <1>4 DEF TypeOK, MainStates, WorkerStates, boxUnchanged, driverVars, clientVars
<1>6. StandingInv'
  BY <1>1, <1>4 DEF SweepInv, StandingInv, Servers, boxUnchanged, driverVars
<1>7. /\ \A e \in Names : ServedAsMeant(e) => ServedAsMeant(e)'
      /\ ResultsInv'
  <2>1. \A f \in DoneWith : main[f] = "up" => main'[f] = "up"
    BY <1>1, <1>4, DoneAreNames DEF SweepInv, Servers
  <2>2. \A e \in Names : ServedAsMeant(e) => ServedAsMeant(e)'
    BY <1>1, <1>3, <2>1, ServedStays DEF clientVars
  <2>3. QED
    BY <1>1, <1>3, <2>2, BoxRecordsStay DEF SweepInv
<1>8. ASSUME NEW e \in Names, e # s
      PROVE  ServerInv(e)' /\ ClientInv(e)'
  BY <1>1, <1>2, <1>3, <1>4, <1>7, <1>8, KeptStays DEF SweepInv, ServerKept, Servers, clientVars
<1>9. ServerInv(s)'
  BY <1>1, <1>2, <1>3, <1>4 DEF SweepInv, ServerInv, Fresh, Told, Left, Killed9, Steady, Holds,
                               boxUnchanged, driverVars, clientVars
<1>10. ClientInv(s)'
  BY <1>1, <1>2, <1>3, <1>4, <1>7 DEF SweepInv, ServerInv, ClientInv, Told, Steady,
                               boxUnchanged, driverVars, clientVars
<1>11. QED
  BY <1>3, <1>5, <1>6, <1>7, <1>8, <1>9, <1>10 DEF SweepInv, Steady

\* The inference process ends.
LEMMA WorkerEndsKeepsInv ==
  ASSUME TypeOK, SweepInv, NEW s \in Servers, WorkerEnds(s)
  PROVE  TypeOK' /\ SweepInv'
<1>1. /\ s \in Names /\ s # Standing /\ worker[s] = "told"
      /\ UNCHANGED boxUnchanged /\ UNCHANGED clientVars
      /\ UNCHANGED faultVars
  BY ExperimentsAssumption DEF WorkerEnds, SweepInv, StandingInv, Servers
<1>2. /\ \A e \in Names : \A K : Struck(e, K) => Struck(e, K)'
      /\ blamed' \in [Names -> SUBSET Faults] /\ faults' \in 0..MaxFaults /\ hung' = hung
  BY <1>1, BlameStays DEF TypeOK, faultVars
<1>3. Steady /\ ControlInv'
  BY <1>1, <1>2, BoxSteady DEF SweepInv
<1>4. /\ main' \in [Servers -> MainStates] /\ worker' \in [Servers -> WorkerStates]
      /\ marker' \subseteq Names
      /\ \A t \in Servers \ {s} : main'[t] = main[t] /\ worker'[t] = worker[t]
      /\ main'[s] = main[s] /\ worker'[s] = "gone"
  BY <1>1 DEF WorkerEnds, TypeOK, MainStates, WorkerStates, Servers, serverVars
<1>5. TypeOK'
  BY <1>1, <1>2, <1>4 DEF TypeOK, MainStates, WorkerStates, boxUnchanged, driverVars, clientVars
<1>6. StandingInv'
  BY <1>1, <1>4 DEF SweepInv, StandingInv, Servers, boxUnchanged, driverVars
<1>7. /\ \A e \in Names : ServedAsMeant(e) => ServedAsMeant(e)'
      /\ ResultsInv'
  <2>1. \A f \in DoneWith : main[f] = "up" => main'[f] = "up"
    BY <1>1, <1>4, DoneAreNames DEF SweepInv, Servers
  <2>2. \A e \in Names : ServedAsMeant(e) => ServedAsMeant(e)'
    BY <1>1, <1>3, <2>1, ServedStays DEF clientVars
  <2>3. QED
    BY <1>1, <1>3, <2>2, BoxRecordsStay DEF SweepInv
<1>8. ASSUME NEW e \in Names, e # s
      PROVE  ServerInv(e)' /\ ClientInv(e)'
  BY <1>1, <1>2, <1>3, <1>4, <1>7, <1>8, KeptStays DEF SweepInv, ServerKept, Servers, clientVars
<1>9. ServerInv(s)'
  BY <1>1, <1>2, <1>3, <1>4 DEF SweepInv, ServerInv, Fresh, Told, Left, Killed9, Steady, Holds,
                               boxUnchanged, driverVars, clientVars
<1>10. ClientInv(s)'
  BY <1>1, <1>2, <1>3, <1>4, <1>7 DEF SweepInv, ServerInv, ClientInv, Told, Steady,
                               boxUnchanged, driverVars, clientVars
<1>11. QED
  BY <1>3, <1>5, <1>6, <1>7, <1>8, <1>9, <1>10 DEF SweepInv, Steady

\* The front end ends after it.
LEMMA ServerEndsKeepsInv ==
  ASSUME TypeOK, SweepInv, NEW s \in Servers, ServerEnds(s)
  PROVE  TypeOK' /\ SweepInv'
<1>1. /\ s \in Names /\ s # Standing /\ main[s] = "cleanup" /\ worker[s] = "gone"
      /\ UNCHANGED boxUnchanged /\ UNCHANGED clientVars
      /\ UNCHANGED faultVars
  BY ExperimentsAssumption DEF ServerEnds, SweepInv, StandingInv, Servers
<1>2. /\ \A e \in Names : \A K : Struck(e, K) => Struck(e, K)'
      /\ blamed' \in [Names -> SUBSET Faults] /\ faults' \in 0..MaxFaults /\ hung' = hung
  BY <1>1, BlameStays DEF TypeOK, faultVars
<1>3. Steady /\ ControlInv'
  BY <1>1, <1>2, BoxSteady DEF SweepInv
<1>4. /\ main' \in [Servers -> MainStates] /\ worker' \in [Servers -> WorkerStates]
      /\ marker' \subseteq Names
      /\ \A t \in Servers \ {s} : main'[t] = main[t] /\ worker'[t] = worker[t]
      /\ main'[s] = "gone" /\ worker'[s] = worker[s]
  BY <1>1 DEF ServerEnds, TypeOK, MainStates, WorkerStates, Servers, serverVars
<1>5. TypeOK'
  BY <1>1, <1>2, <1>4 DEF TypeOK, MainStates, WorkerStates, boxUnchanged, driverVars, clientVars
<1>6. StandingInv'
  BY <1>1, <1>4 DEF SweepInv, StandingInv, Servers, boxUnchanged, driverVars
<1>7. /\ \A e \in Names : ServedAsMeant(e) => ServedAsMeant(e)'
      /\ ResultsInv'
  <2>1. \A f \in DoneWith : main[f] = "up" => main'[f] = "up"
    BY <1>1, <1>4, DoneAreNames DEF SweepInv, Servers
  <2>2. \A e \in Names : ServedAsMeant(e) => ServedAsMeant(e)'
    BY <1>1, <1>3, <2>1, ServedStays DEF clientVars
  <2>3. QED
    BY <1>1, <1>3, <2>2, BoxRecordsStay DEF SweepInv
<1>8. ASSUME NEW e \in Names, e # s
      PROVE  ServerInv(e)' /\ ClientInv(e)'
  BY <1>1, <1>2, <1>3, <1>4, <1>7, <1>8, KeptStays DEF SweepInv, ServerKept, Servers, clientVars
<1>9. ServerInv(s)'
  BY <1>1, <1>2, <1>3, <1>4 DEF SweepInv, ServerInv, Fresh, Told, Left, Killed9, Steady, Holds,
                               boxUnchanged, driverVars, clientVars
<1>10. ClientInv(s)'
  BY <1>1, <1>2, <1>3, <1>4, <1>7 DEF SweepInv, ServerInv, ClientInv, Told, Steady,
                               boxUnchanged, driverVars, clientVars
<1>11. QED
  BY <1>3, <1>5, <1>6, <1>7, <1>8, <1>9, <1>10 DEF SweepInv, Steady

-----------------------------------------------------------------------------
(* Clients.  A server that listens is the one meant for the client at hand, *)
(* or one that the driver has left behind.                                  *)

LEMMA WhoListens ==
  ASSUME TypeOK, SweepInv, NEW e \in Names, InHand(e), pc = "waiting", NEW s \in Listening
  PROVE  /\ s = Home(e) \/ (s \in Names \ {e} /\ LeftUp(s))
         /\ s = Standing => worker[s] = "ready"
<1>1. /\ \A f \in Names : InHand(f) => f = e
      /\ driver \in {"sweep", "experiments"} /\ s \in Servers /\ main[s] = "up"
  BY WorkInHand DEF SweepInv, ControlInv, TypeOK, AtWork, Listening
<1>2. CASE s = Standing
  BY <1>1, <1>2 DEF SweepInv, StandingInv, Home
<1>3. CASE s \in Names
  <2>1. driver = "sweep" /\ ~Fresh(s) /\ s # Standing
    BY <1>1, <1>3, ExperimentsAssumption DEF SweepInv, ServerInv, Fresh
  <2>2. s \in DoneWith \/ InHand(s)
    BY <1>3, <2>1 DEF SweepInv, ServerInv
  <2>3. QED
    BY <1>1, <1>3, <2>1, <2>2 DEF Home, LeftUp
<1>4. QED
  BY <1>1, <1>2, <1>3 DEF Servers

\* A client is answered.
LEMMA ClientServedKeepsInv ==
  ASSUME TypeOK, SweepInv, NEW c \in Names, ClientServed(c)
  PROVE  TypeOK' /\ SweepInv'
<1>1. /\ client[c] = "running" /\ client' = [client EXCEPT ![c] = "gone"]
      /\ UNCHANGED boxUnchanged /\ UNCHANGED serverVars
      /\ UNCHANGED faultVars
  BY DEF ClientServed, serverVars
<1>2. /\ \A e \in Names : \A K : Struck(e, K) => Struck(e, K)'
      /\ blamed' \in [Names -> SUBSET Faults] /\ faults' \in 0..MaxFaults /\ hung' = hung
  BY <1>1, BlameStays DEF TypeOK, faultVars
<1>3. Steady /\ ControlInv'
  BY <1>1, <1>2, BoxSteady DEF SweepInv
<1>4. /\ client' \in [Names -> {"none", "running", "gone"}] /\ client'[c] = "gone"
      /\ servedBy' \in [Names -> Servers \cup {Nobody}]
      /\ \A e \in Names \ {c} : client'[e] = client[e] /\ servedBy'[e] = servedBy[e]
  BY <1>1 DEF ClientServed, TypeOK, Listening
<1>5. TypeOK'
  BY <1>1, <1>2, <1>4 DEF TypeOK, boxUnchanged, driverVars, serverVars
<1>6. StandingInv'
  BY <1>1 DEF SweepInv, StandingInv, boxUnchanged, driverVars, serverVars
<1>7. /\ \A e \in Names : ServedAsMeant(e) => ServedAsMeant(e)'
      /\ ResultsInv'
  <2>1. \A e \in Names : ServedAsMeant(e) => ServedAsMeant(e)'
    BY <1>1, <1>3, <1>4, ServedStays DEF serverVars
  <2>2. QED
    BY <1>1, <1>3, <2>1, BoxRecordsStay DEF SweepInv
<1>8. InHand(c) /\ pc = "waiting" => ServedAsMeant(c)'
  <2> SUFFICES ASSUME InHand(c), pc = "waiting"
               PROVE  ServedAsMeant(c)'
    OBVIOUS
  <2>1. \A f \in Names : LeftUp(f) => LeftUp(f)'
    BY <1>1, <1>3 DEF LeftUp, Steady, serverVars
  <2>2. PICK s \in Listening : servedBy'[c] = s
    BY DEF ClientServed, TypeOK
  <2>3. s = Home(c) \/ (s \in Names \ {c} /\ LeftUp(s))
    BY <2>2, WhoListens
  <2>4. QED
    BY <1>3, <1>4, <2>1, <2>2, <2>3 DEF ServedAsMeant, Home, Steady
<1>9. ASSUME NEW e \in Names, e # c
      PROVE  ServerInv(e)' /\ ClientInv(e)'
  BY <1>1, <1>2, <1>3, <1>4, <1>7, <1>9, KeptStays DEF SweepInv, ServerKept, serverVars
<1>10. ServerInv(c)'
  BY <1>1, <1>2, <1>3, <1>4 DEF SweepInv, ServerInv, Fresh, Told, Left, Killed9, Steady, Holds,
                               boxUnchanged, driverVars, serverVars
<1>11. ClientInv(c)'
  BY <1>1, <1>2, <1>3, <1>4, <1>7, <1>8 DEF SweepInv, ClientInv, Steady, AtWork,
                               boxUnchanged, driverVars, serverVars
<1>12. QED
  BY <1>3, <1>5, <1>6, <1>7, <1>9, <1>10, <1>11 DEF SweepInv, Steady

\* A client is not answered.
LEMMA ClientFailsKeepsInv ==
  ASSUME TypeOK, SweepInv, NEW c \in Names, ClientFails(c)
  PROVE  TypeOK' /\ SweepInv'
<1>1. /\ client[c] = "running" /\ client' = [client EXCEPT ![c] = "gone"]
      /\ UNCHANGED boxUnchanged /\ UNCHANGED serverVars
      /\ UNCHANGED faultVars
  BY DEF ClientFails, serverVars
<1>2. /\ \A e \in Names : \A K : Struck(e, K) => Struck(e, K)'
      /\ blamed' \in [Names -> SUBSET Faults] /\ faults' \in 0..MaxFaults /\ hung' = hung
  BY <1>1, BlameStays DEF TypeOK, faultVars
<1>3. Steady /\ ControlInv'
  BY <1>1, <1>2, BoxSteady DEF SweepInv
<1>4. /\ client' \in [Names -> {"none", "running", "gone"}] /\ client'[c] = "gone"
      /\ servedBy' \in [Names -> Servers \cup {Nobody}]
      /\ \A e \in Names \ {c} : client'[e] = client[e] /\ servedBy'[e] = servedBy[e]
  BY <1>1 DEF ClientFails, TypeOK
<1>5. TypeOK'
  BY <1>1, <1>2, <1>4 DEF TypeOK, boxUnchanged, driverVars, serverVars
<1>6. StandingInv'
  BY <1>1 DEF SweepInv, StandingInv, boxUnchanged, driverVars, serverVars
<1>7. /\ \A e \in Names : ServedAsMeant(e) => ServedAsMeant(e)'
      /\ ResultsInv'
  <2>1. \A e \in Names : ServedAsMeant(e) => ServedAsMeant(e)'
    BY <1>1, <1>3, <1>4, ServedStays DEF serverVars
  <2>2. QED
    BY <1>1, <1>3, <2>1, BoxRecordsStay DEF SweepInv
<1>8. InHand(c) /\ pc = "waiting" => ServedAsMeant(c)'
  <2> SUFFICES ASSUME InHand(c), pc = "waiting"
               PROVE  ServedAsMeant(c)'
    OBVIOUS
  <2>1. \A f \in Names : LeftUp(f) => LeftUp(f)'
    BY <1>1, <1>3 DEF LeftUp, Steady, serverVars
  <2>2. CASE Struck(c, {"worker", "frontend", "stale"})
    <3>1. Struck(c, {"client", "worker", "frontend", "stale"})
      BY <2>2, StruckMore
    <3>2. QED
      BY <1>3, <1>4, <3>1 DEF ServedAsMeant, Steady
  <2>3. CASE ~Struck(c, {"worker", "frontend", "stale"})
    <3>1. driver = "sweep" => Home(c) \in Listening /\ worker[Home(c)] = "ready"
      BY <2>3 DEF SweepInv, ClientInv, Home, Listening, Servers
    <3>2. driver = "experiments" => Home(c) \in Listening /\ worker[Home(c)] = "ready"
      BY DEF SweepInv, StandingInv, Home, Listening, Servers
    <3>3. driver \in {"sweep", "experiments"}
      BY DEF SweepInv, ControlInv, TypeOK
    <3>4. PICK s \in Listening : worker[s] # "ready"
      BY <3>1, <3>2, <3>3 DEF ClientFails
    <3>5. s \in Names \ {c} /\ LeftUp(s)
      BY <3>1, <3>2, <3>3, <3>4, WhoListens
    <3>6. QED
      BY <1>3, <1>4, <2>1, <3>5 DEF ServedAsMeant
  <2>4. QED
    BY <2>2, <2>3
<1>9. ASSUME NEW e \in Names, e # c
      PROVE  ServerInv(e)' /\ ClientInv(e)'
  BY <1>1, <1>2, <1>3, <1>4, <1>7, <1>9, KeptStays DEF SweepInv, ServerKept, serverVars
<1>10. ServerInv(c)'
  BY <1>1, <1>2, <1>3, <1>4 DEF SweepInv, ServerInv, Fresh, Told, Left, Killed9, Steady, Holds,
                               boxUnchanged, driverVars, serverVars
<1>11. ClientInv(c)'
  BY <1>1, <1>2, <1>3, <1>4, <1>7, <1>8 DEF SweepInv, ClientInv, Steady, AtWork,
                               boxUnchanged, driverVars, serverVars
<1>12. QED
  BY <1>3, <1>5, <1>6, <1>7, <1>9, <1>10, <1>11 DEF SweepInv, Steady

\* A client crashes.
LEMMA ClientCrashesKeepsInv ==
  ASSUME TypeOK, SweepInv, NEW c \in Names, ClientCrashes(c)
  PROVE  TypeOK' /\ SweepInv'
<1>1. /\ client[c] = "running" /\ client' = [client EXCEPT ![c] = "gone"]
      /\ UNCHANGED boxUnchanged /\ UNCHANGED serverVars
      /\ Fault(c, "client")
  BY DEF ClientCrashes, serverVars
<1>2. /\ \A e \in Names : \A K : Struck(e, K) => Struck(e, K)'
      /\ blamed' \in [Names -> SUBSET Faults] /\ faults' \in 0..MaxFaults /\ hung' = hung
      /\ \A K : "client" \in K => Struck(c, K)'
  BY <1>1, FaultStrikes DEF Faults
<1>3. Steady /\ ControlInv'
  BY <1>1, <1>2, BoxSteady DEF SweepInv
<1>4. /\ client' \in [Names -> {"none", "running", "gone"}] /\ client'[c] = "gone"
      /\ servedBy' \in [Names -> Servers \cup {Nobody}]
      /\ \A e \in Names \ {c} : client'[e] = client[e] /\ servedBy'[e] = servedBy[e]
  BY <1>1 DEF ClientCrashes, TypeOK
<1>5. TypeOK'
  BY <1>1, <1>2, <1>4 DEF TypeOK, boxUnchanged, driverVars, serverVars
<1>6. StandingInv'
  BY <1>1 DEF SweepInv, StandingInv, boxUnchanged, driverVars, serverVars
<1>7. /\ \A e \in Names : ServedAsMeant(e) => ServedAsMeant(e)'
      /\ ResultsInv'
  <2>1. \A e \in Names : ServedAsMeant(e) => ServedAsMeant(e)'
    BY <1>1, <1>3, <1>4, ServedStays DEF serverVars
  <2>2. QED
    BY <1>1, <1>3, <2>1, BoxRecordsStay DEF SweepInv
<1>8. InHand(c) /\ pc = "waiting" => ServedAsMeant(c)'
  BY <1>2, <1>4 DEF ServedAsMeant
<1>9. ASSUME NEW e \in Names, e # c
      PROVE  ServerInv(e)' /\ ClientInv(e)'
  BY <1>1, <1>2, <1>3, <1>4, <1>7, <1>9, KeptStays DEF SweepInv, ServerKept, serverVars
<1>10. ServerInv(c)'
  BY <1>1, <1>2, <1>3, <1>4 DEF SweepInv, ServerInv, Fresh, Told, Left, Killed9, Steady, Holds,
                               boxUnchanged, driverVars, serverVars
<1>11. ClientInv(c)'
  BY <1>1, <1>2, <1>3, <1>4, <1>7, <1>8 DEF SweepInv, ClientInv, Steady, AtWork,
                               boxUnchanged, driverVars, serverVars
<1>12. QED
  BY <1>3, <1>5, <1>6, <1>7, <1>9, <1>10, <1>11 DEF SweepInv, Steady

-----------------------------------------------------------------------------
(* The invariant holds.                                                     *)

LEMMA SweepInvInitially ==
  ASSUME Init
  PROVE  TypeOK /\ SweepInv
<1>1. /\ NumDone = 0 /\ DoneWith = {} /\ todo = <<>> /\ chosen = <<>> /\ results = <<>>
      /\ \A e \in Names : ~InHand(e)
  BY DEF Init, NumDone, DoneWith, InHand
<1>2. IsSuffix(todo, chosen)
  <2>1. ASSUME NEW s \in Seq(Names), NEW t \in Seq(Names), Len(s) = 0, Len(t) = 0
        PROVE  IsSuffix(s, t)
    <3>1. 1..Len(s) = {} /\ Len(s) <= Len(t)
      BY <2>1
    <3>2. QED
      BY <3>1, SuffixPositions
  <2>2. todo \in Seq(Names) /\ chosen \in Seq(Names) /\ Len(todo) = 0 /\ Len(chosen) = 0
    BY <1>1
  <2>3. QED
    BY <2>1, <2>2
<1>3. TypeOK
  <2>1. results \in Seq([name : Names, status : Statuses])
    BY <1>1
  <2>2. /\ main \in [Servers -> MainStates] /\ worker \in [Servers -> WorkerStates]
        /\ servedBy \in [Names -> Servers \cup {Nobody}]
        /\ blamed \in [Names -> SUBSET Faults] /\ faults \in 0..MaxFaults
    BY ExperimentsAssumption DEF Init, MainStates, WorkerStates
  <2>3. QED
    BY <1>1, <1>2, <2>1, <2>2 DEF Init, TypeOK, Statuses, MainStates, WorkerStates
<1>4. ListInv
  BY <1>1 DEF Init, ListInv, IsInjective, AtWork
<1>5. ControlInv /\ StandingInv /\ ResultsInv
  BY <1>1, ExperimentsAssumption DEF Init, ControlInv, StandingInv, ResultsInv, Servers
<1>6. ASSUME NEW e \in Names
      PROVE  ServerInv(e) /\ ClientInv(e)
  BY <1>1 DEF Init, ServerInv, ClientInv, Fresh, Told, Left, Servers
<1>7. QED
  BY <1>3, <1>4, <1>5, <1>6 DEF SweepInv

LEMMA SweepInvStutters ==
  ASSUME TypeOK, SweepInv, UNCHANGED sweepVars
  PROVE  TypeOK' /\ SweepInv'
<1>1. /\ \A e \in Names : \A K : Struck(e, K)' <=> Struck(e, K)
      /\ UNCHANGED boxUnchanged /\ UNCHANGED serverVars /\ UNCHANGED clientVars /\ hung' = hung
  BY BlameStays DEF sweepVars, boxUnchanged, driverVars, serverVars, clientVars
<1>2. Steady /\ ControlInv'
  BY <1>1, BoxSteady DEF SweepInv
<1>3. TypeOK'
  BY DEF TypeOK, sweepVars
<1>4. \A e \in Names : ServedAsMeant(e) => ServedAsMeant(e)'
  BY <1>1, <1>2, ServedStays DEF serverVars, clientVars
<1>5. ResultsInv' /\ StandingInv'
  BY <1>1, <1>2, <1>4, BoxRecordsStay DEF SweepInv, StandingInv, serverVars, boxUnchanged,
     driverVars
<1>6. ASSUME NEW e \in Names
      PROVE  ServerInv(e)' /\ ClientInv(e)'
  BY <1>1, <1>2, <1>4, KeptStays DEF SweepInv, ServerKept, serverVars, clientVars
<1>7. QED
  BY <1>2, <1>3, <1>5, <1>6 DEF SweepInv, Steady

LEMMA SweepStepKeepsInv ==
  ASSUME TypeOK, SweepInv, [Next]_sweepVars
  PROVE  TypeOK' /\ SweepInv'
<1>1. CASE \E sweep \in Sweeps : StartSweep(sweep) \/ StartExperiments(sweep)
  BY <1>1, StartKeepsInv
<1>2. CASE ListOrDryRun \/ BadConfig \/ NoPortsReported
  BY <1>2, LeaveEarlyKeepsInv DEF ListOrDryRun, BadConfig, NoPortsReported
<1>3. CASE ~hung /\ DriverActs
  BY <1>3, PutConfigKeepsInv, StartServerKeepsInv, WaitForReadyKeepsInv, RunClientHostKeepsInv,
     RunExperimentKeepsInv, ClientHostReturnsKeepsInv, RunTimesOutKeepsInv, TeardownKeepsInv,
     StopServerKeepsInv, AwaitSigintKeepsInv, AwaitSigkillKeepsInv, CollectKeepsInv,
     CollectExperimentKeepsInv, CooldownKeepsInv, SummaryKeepsInv DEF DriverActs
<1>4. CASE CollectAborts \/ CommandHangs \/ KeyboardInterrupt
  BY <1>4, CollectAbortsKeepsInv, CommandHangsKeepsInv, KeyboardInterruptKeepsInv
<1>5. CASE \E s \in Servers : Server(s)
  BY <1>5, ServerUpKeepsInv, WorkerReadyKeepsInv, CleanupKeepsInv, WorkerEndsKeepsInv,
     ServerEndsKeepsInv DEF Server
<1>6. CASE \E e \in Names : StartupFails(e) \/ FrontEndDies(e) \/ WorkerDies(e)
  BY <1>6, StartupFailsKeepsInv, FrontEndDiesKeepsInv, WorkerDiesKeepsInv
<1>7. CASE \E e \in Names : ClientServed(e) \/ ClientFails(e) \/ ClientCrashes(e)
  BY <1>7, ClientServedKeepsInv, ClientFailsKeepsInv, ClientCrashesKeepsInv
<1>8. CASE UNCHANGED sweepVars
  BY <1>8, SweepInvStutters
<1>9. QED
  BY <1>1, <1>2, <1>3, <1>4, <1>5, <1>6, <1>7, <1>8 DEF Next, Driver

\* The invariant that the properties below follow from.
LEMMA SweepInvariant == Spec => [](TypeOK /\ SweepInv)
<1>1. Init => TypeOK /\ SweepInv
  BY SweepInvInitially
<1>2. TypeOK /\ SweepInv /\ [Next]_sweepVars => TypeOK' /\ SweepInv'
  BY SweepStepKeepsInv
<1>3. QED
  BY <1>1, <1>2, PTL DEF Spec

\* Every variable of the sweep keeps its type, and what is still to do is the
\* rest of the selection.
THEOREM SweepTypeCorrect == Spec => []TypeOK
  BY SweepInvariant, PTL

-----------------------------------------------------------------------------
(* What follows from it.                                                    *)

\* An experiment that is done with is not among those still to do.
LEMMA DoneAreBehind ==
  ASSUME ListInv
  PROVE  /\ \A e \in DoneWith : Behind(e)
         /\ \A e : Behind(e) /\ InHand(e) => pc = "exited"
<1>1. /\ Len(todo) \in Nat /\ Len(chosen) \in Nat /\ Len(todo) <= Len(chosen)
      /\ NumDone = Len(chosen) - Len(todo) /\ NumDone \in Nat
  BY DEF ListInv, NumDone
<1>2. ASSUME NEW i \in 1..NumDone, NEW j \in 1..Len(todo)
      PROVE  chosen[i] # todo[j]
  <2>1. NumDone + j \in 1..Len(chosen) /\ i \in 1..Len(chosen) /\ i # NumDone + j
    BY <1>1
  <2>2. todo[j] = chosen[NumDone + j]
    BY DEF ListInv
  <2>3. QED
    BY <2>1, <2>2 DEF ListInv, IsInjective
<1>3. \A e \in DoneWith : Behind(e)
  BY <1>1, <1>2 DEF DoneWith, Behind, ToSet, ListInv
<1>4. ASSUME todo # <<>>
      PROVE  Current \in ToSet(todo)
  <2>1. Len(todo) >= 1 /\ Current = todo[1]
    BY <1>1, <1>4 DEF ListInv, Current
  <2>2. QED
    BY <1>1, <2>1 DEF ToSet
<1>5. QED
  BY <1>3, <1>4 DEF Behind, InHand

\* stop_server and its escalation: a server of an experiment that is over, or
\* of a sweep that is over, is gone with its inference process, unless the
\* driver did not get its pid, was misled by a probe, was cut short, or had to
\* use SIGKILL, or its front end was killed by somebody else.
THEOREM ServersAreTornDown == Spec => []NoServerOutlivesItsRun
<1>1. TypeOK /\ SweepInv => NoServerOutlivesItsRun
  <2> SUFFICES ASSUME TypeOK, SweepInv, NEW e \in Names, Behind(e), Holds(e)
               PROVE  \/ Struck(e, {"launch", "probe", "frontend", "cut"})
                      \/ shutdown[e] \in {"sigkill", "LEAKED"}
    BY DEF NoServerOutlivesItsRun
  <2>1. e \in DoneWith \/ InHand(e)
    BY DEF SweepInv, ServerInv, Fresh, Holds
  <2>2. InHand(e) => pc = "exited"
    BY DoneAreBehind DEF SweepInv
  <2>3. QED
    BY <2>1, <2>2 DEF SweepInv, ServerInv, Left
<1>2. QED
  BY <1>1, SweepInvariant, PTL

\* run_one: a result is ok only if the server meant for it answered, unless a
\* fault is to blame or a server that was left running took the connection.
THEOREM OkMeansServed == Spec => []OkIsServedByItsServer
<1>1. TypeOK /\ SweepInv => OkIsServedByItsServer
  <2> SUFFICES ASSUME TypeOK, SweepInv, NEW i \in 1..Len(results), results[i].status = "ok"
               PROVE  LET e == results[i].name
                      IN  \/ servedBy[e] = Home(e)
                          \/ Struck(e, {"client", "worker", "frontend", "stale"})
                          \/ \E f \in Names \ {e} : Outlives(f)
    BY DEF OkIsServedByItsServer
  <2>1. ServedAsMeant(results[i].name)
    BY DEF SweepInv, ResultsInv
  <2>2. \A f \in Names : LeftUp(f) => Outlives(f)
    BY DoneAreBehind DEF SweepInv, LeftUp, Outlives, Holds
  <2>3. QED
    BY <2>1, <2>2 DEF ServedAsMeant
<1>2. QED
  BY <1>1, SweepInvariant, PTL

\* stop_server's first probe: a server found dead before it was told to end
\* could not start, was killed from outside, or the probe failed.  None has
\* shut itself down because its clients were done.
THEOREM NoServerEndsWithItsClients == Spec => []NoCleanSelfShutdown
<1>1. SweepInv => NoCleanSelfShutdown
  BY DEF SweepInv, ServerInv, NoCleanSelfShutdown
<1>2. QED
  BY <1>1, SweepInvariant, PTL

\* _kill_client: a client outlives its experiment only where pkill or Ctrl-C
\* does not reach it, or ssh failed.
THEOREM ClientsDoNotStray == Spec => []NoStrayClients
<1>1. TypeOK /\ SweepInv => NoStrayClients
  <2> SUFFICES ASSUME TypeOK, SweepInv, NEW e \in Names, client[e] = "running", Behind(e)
               PROVE  nodes = "far" \/ Struck(e, {"ssh"}) \/ (nodes = "box" /\ interrupted)
    BY DEF NoStrayClients
  <2>1. InHand(e) => pc = "exited"
    BY DoneAreBehind DEF SweepInv
  <2>2. QED
    BY <2>1 DEF SweepInv, ClientInv
<1>2. QED
  BY <1>1, SweepInvariant, PTL

\* main: the results are of the selection, in its order; a sweep that was not
\* cut short has one for every experiment, and its exit code tells whether
\* all of them are ok.
THEOREM ExperimentsAreRecorded == Spec => []EveryExperimentRecorded
<1>1. TypeOK /\ SweepInv => EveryExperimentRecorded
  <2> SUFFICES ASSUME TypeOK, SweepInv
               PROVE  EveryExperimentRecorded
    OBVIOUS
  <2> DEFINE names == [i \in 1..Len(results) |-> results[i].name]
  <2>1. /\ Len(results) \in Nat /\ Len(chosen) \in Nat /\ Len(results) <= Len(chosen)
        /\ chosen \in Seq(Names) /\ \A i \in 1..Len(results) : results[i].name = chosen[i]
    BY DEF SweepInv, ListInv, ResultsInv, TypeOK
  <2>2. /\ names \in Seq(Names) /\ Len(names) = Len(results)
        /\ \A i \in 1..Len(results) : names[i] = chosen[i]
    BY <2>1
  <2>3. IsPrefix(names, chosen)
    <3>1. /\ SubSeq(chosen, 1, Len(names)) \in Seq(Names)
          /\ Len(SubSeq(chosen, 1, Len(names))) = Len(names)
          /\ \A i \in 1..Len(results) : SubSeq(chosen, 1, Len(names))[i] = chosen[i]
      BY <2>1, <2>2
    <3>2. /\ SubSeq(names, 1, Len(names)) \in Seq(Names)
          /\ Len(SubSeq(names, 1, Len(names))) = Len(names)
          /\ \A i \in 1..Len(results) : SubSeq(names, 1, Len(names))[i] = names[i]
      BY <2>1, <2>2
    <3>3. SubSeq(names, 1, Len(names)) = SubSeq(chosen, 1, Len(names))
      BY <2>1, <2>2, <3>1, <3>2
    <3>4. QED
      BY <2>1, <2>2, <3>3 DEF IsPrefix
  <2>4. ASSUME pc = "exited", ~interrupted, \A e \in Names : ~Struck(e, {"collect"})
        PROVE  names = chosen /\ (driver # "none" => (exit = 0 <=> ~Failed))
    <3>1. todo = <<>> /\ Len(results) = NumDone
          /\ (driver # "none" => exit = IF Failed THEN 1 ELSE 0)
      BY <2>4 DEF SweepInv, ResultsInv
    <3>2. Len(results) = Len(chosen)
      BY <2>1, <3>1 DEF NumDone
    <3>3. QED
      BY <2>1, <2>2, <3>1, <3>2
  <2>5. QED
    BY <2>3, <2>4 DEF EveryExperimentRecorded
<1>2. QED
  BY <1>1, SweepInvariant, PTL

=============================================================================
