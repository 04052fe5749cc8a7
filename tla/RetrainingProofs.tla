-------------------------- MODULE RetrainingProofs --------------------------
(***************************************************************************)
(* Proofs about Retraining for any scopes, evaluations, passes, workers and *)
(* bounds: a request agrees with its job, and so does its end.  Then about  *)
(* Monitoring for any callers, versions, reports and bounds: alerts follow  *)
(* the evaluations.                                                         *)
(***************************************************************************)
EXTENDS Retraining, ModelMonitoring, SequenceTheorems, FiniteSetTheorems, TLAPS

-----------------------------------------------------------------------------
(* The inductive invariant: what agents, passes and the order rely on *)

\* The steps that have a request, those that act on what a job has become, and
\* those that know its end.
Holding == {"submit", "attach", "undo", "training", "candidate", "conclude"}
Looked == {"training", "candidate", "conclude"}
Ending == {"candidate", "conclude"}

JobEnded == {"succeeded", "failed", "cancelled"}

\* What an agent in the local state c has seen is still so in these tables.
Knows(c, jobs, requests) ==
    /\ c.pc \in Holding \cup {"persist"} => c.scope \in Scopes
    /\ c.pc \in Holding => requests[c.scope].status # "absent"
    /\ c.pc = "attach" => jobs[c.scope].status # "absent"
    /\ c.pc \in Looked => requests[c.scope].job = "linked"
    /\ c.pc = "candidate" => c.seen.status = "succeeded"
    /\ c.pc \in Ending => c.seen.status \in JobEnded /\ c.seen = jobs[c.scope]

AgentsKnow == \A a \in Agents : Knows(agent[a], ledger, request)

\* A request that was listed is still there, and its link too.
Listed(item) ==
    /\ request[item.scope].status # "absent"
    /\ item.job = "linked" => request[item.scope].job = "linked"

TodoIsListed == \A p \in Passes : \A i \in DOMAIN todo[p] : Listed(todo[p][i])

OrderIsRequested == \A i \in DOMAIN order : request[order[i]].status # "absent"

LinkedIsRequested ==
    \A s \in Scopes : request[s].job = "linked" => request[s].status # "absent"

\* A job that was not submitted has no history.
UnsubmittedIsAbsent ==
    \A s \in Scopes : ledger[s].status = "absent" => ledger[s] = Jobs!Absent

\* The invariant of the tables: the ledger, the requests and their audit.
Tables == /\ ledger \in [Scopes -> Entries] /\ request \in [Scopes -> Request]
          /\ order \in Seq(Scopes) /\ events \in [Scopes -> 0 .. 2]
          /\ EndIsTruthful /\ LinkIsSound /\ OrderIsRequested /\ LinkedIsRequested
          /\ UnsubmittedIsAbsent

\* The invariant of the processes.
Processes == /\ agent \in [Agents -> Agent] /\ todo \in [Passes -> Seq(Item)]
             /\ faults \in 0 .. MaxFaults
             /\ AgentsKnow /\ TodoIsListed

IndInv == Tables /\ Processes

-----------------------------------------------------------------------------
(* Lemmas about the operators *)

\* The local states without a request.
LEMMA AtType ==
    ASSUME NEW pc \in {"new", "done", "idle", "persist", "submit", "training", "candidate",
                       "conclude", "loop"}
    PROVE  At(pc) \in Agent
<1>1. MaxAttempts \in Nat \ {0}
  BY BoundsAssumption
<1>2. Jobs!Absent \in Entries
  BY <1>1 DEF Jobs!Absent, Jobs!Entry, Entries, JobStatuses
<1> QED
  BY <1>2 DEF At, Agent, Modes

LEMMA RestType ==
    ASSUME NEW a PROVE Rest(a) \in Agent /\ Rest(a).pc \in {"done", "loop", "idle"}
BY AtType DEF Rest, At

\* What an agent knows lasts while requests and links stay and ended jobs rest.
Lasts ==
    \A s \in Scopes :
        /\ request[s].status # "absent" => request'[s].status # "absent"
        /\ request[s].job = "linked" => request'[s].job = "linked"
        /\ ledger[s].status # "absent" => ledger'[s].status # "absent"
        /\ ledger[s].status \in JobEnded => ledger'[s] = ledger[s]

LEMMA KnowsLasts ==
    ASSUME NEW c, Knows(c, ledger, request), Lasts PROVE Knows(c, ledger', request')
<1>1. c.pc \in Holding \cup {"persist"} => c.scope \in Scopes
  BY DEF Knows
<1>2. c.pc \in Holding => request'[c.scope].status # "absent"
  BY <1>1 DEF Knows, Lasts
<1>3. c.pc = "attach" => ledger'[c.scope].status # "absent"
  BY <1>1 DEF Knows, Lasts, Holding
<1>4. c.pc \in Looked => request'[c.scope].job = "linked"
  BY <1>1 DEF Knows, Lasts, Looked, Holding
<1>5. c.pc \in Ending => c.seen.status \in JobEnded /\ c.seen = ledger'[c.scope]
  BY <1>1 DEF Knows, Lasts, Ending, Holding
<1> QED
  BY <1>1, <1>2, <1>3, <1>4, <1>5 DEF Knows

\* An agent moves to a local state that knows what it says.
LEMMA AgentMoves ==
    ASSUME AgentsKnow, agent \in [Agents -> Agent], Lasts,
           NEW a \in Agents, NEW c \in Agent, Knows(c, ledger', request'),
           agent' = [agent EXCEPT ![a] = c]
    PROVE  AgentsKnow' /\ agent' \in [Agents -> Agent]
<1>1. ASSUME NEW b \in Agents PROVE Knows(agent[b]', ledger', request')
  <2>1. CASE b = a
    BY <2>1
  <2>2. CASE b # a
    <3>1. Knows(agent[b], ledger, request)
      BY DEF AgentsKnow
    <3> QED
      BY <2>2, <3>1, KnowsLasts DEF Knows
  <2> QED
    BY <2>1, <2>2
<1> QED
  BY <1>1 DEF AgentsKnow

\* Agents that do not move keep what they know.
LEMMA AgentsStay ==
    ASSUME AgentsKnow, Lasts, UNCHANGED agent PROVE AgentsKnow'
<1>1. ASSUME NEW b \in Agents PROVE Knows(agent[b]', ledger', request')
  <2>1. Knows(agent[b], ledger, request)
    BY DEF AgentsKnow
  <2> QED
    BY <2>1, KnowsLasts DEF Knows
<1> QED
  BY <1>1 DEF AgentsKnow

\* The items of the passes stay listed.
LEMMA TodoStays ==
    ASSUME TodoIsListed, Lasts, todo \in [Passes -> Seq(Item)], UNCHANGED todo
    PROVE  TodoIsListed'
<1>1. ASSUME NEW p \in Passes, NEW i \in DOMAIN todo[p] PROVE Listed(todo[p][i])'
  <2>1. todo[p][i] \in Item
    BY ElementOfSeq
  <2>2. Listed(todo[p][i]) /\ todo[p][i].scope \in Scopes
    BY <2>1 DEF TodoIsListed, Item
  <2> QED
    BY <2>2 DEF Listed, Lasts
<1> QED
  BY <1>1 DEF TodoIsListed

\* Without(s) is a shorter sequence of the same scopes.
LEMMA WithoutType ==
    ASSUME order \in Seq(Scopes), NEW s
    PROVE  /\ Without(s) \in Seq(Scopes)
           /\ \A i \in DOMAIN Without(s) : \E j \in DOMAIN order : Without(s)[i] = order[j]
<1>1. CASE ~ \E i \in DOMAIN order : order[i] = s
  BY <1>1 DEF Without
<1>2. CASE \E i \in DOMAIN order : order[i] = s
  <2> DEFINE at == CHOOSE i \in DOMAIN order : order[i] = s
             before == SubSeq(order, 1, at - 1)
             after == SubSeq(order, at + 1, Len(order))
  <2>1. at \in DOMAIN order
    BY <1>2
  <2>2. Len(order) \in Nat /\ at \in 1 .. Len(order) /\ DOMAIN order = 1 .. Len(order)
    BY <2>1, LenProperties
  <2>3. Without(s) = before \o after
    BY <1>2 DEF Without
  <2> HIDE DEF at
  <2>4. /\ before \in Seq(Scopes) /\ Len(before) = at - 1
        /\ \A i \in 1 .. at - 1 : before[i] = order[i]
    BY <2>2
  <2>5. /\ after \in Seq(Scopes) /\ Len(after) = Len(order) - at
        /\ \A i \in 1 .. Len(order) - at : after[i] = order[at + i]
    <3>1. at + 1 \in 1 .. Len(order) + 1 /\ Len(order) \in (at + 1) - 1 .. Len(order)
      BY <2>2
    <3>2. /\ after \in Seq(Scopes) /\ Len(after) = Len(order) - (at + 1) + 1
          /\ \A i \in 1 .. Len(after) : after[i] = order[(at + 1) + i - 1]
      BY <3>1, SubSeqProperties
    <3> HIDE DEF after
    <3>3. Len(after) = Len(order) - at
      BY <2>2, <3>2
    <3>4. \A i \in 1 .. Len(order) - at : (at + 1) + i - 1 = at + i
      BY <2>2
    <3> QED
      BY <3>2, <3>3, <3>4
  <2> HIDE DEF before, after
  <2>6. /\ before \o after \in Seq(Scopes)
        /\ Len(before \o after) = Len(order) - 1
        /\ DOMAIN (before \o after) = 1 .. Len(order) - 1
    <3>1. /\ before \o after \in Seq(Scopes)
          /\ Len(before \o after) = Len(before) + Len(after)
      BY <2>4, <2>5, ConcatProperties
    <3>2. Len(before) + Len(after) = Len(order) - 1
      BY <2>2, <2>4, <2>5
    <3> QED
      BY <3>1, <3>2, LenProperties
  <2> DEFINE both == before \o after
  <2>0. \A i \in 1 .. Len(order) - 1 : both[i] = IF i < at THEN order[i] ELSE order[i + 1]
    <3>1. ASSUME NEW i \in 1 .. Len(before) + Len(after)
          PROVE both[i] = IF i <= Len(before) THEN before[i] ELSE after[i - Len(before)]
      BY <2>4, <2>5, ConcatProperties
    <3> HIDE DEF both
    <3>2. ASSUME NEW i \in 1 .. Len(order) - 1, i < at PROVE both[i] = order[i]
      <4>1. i \in 1 .. Len(before) + Len(after) /\ i <= Len(before) /\ i \in 1 .. at - 1
        BY <2>2, <2>4, <2>5, <3>2
      <4> QED
        BY <2>4, <3>1, <4>1
    <3>3. ASSUME NEW i \in 1 .. Len(order) - 1, ~(i < at) PROVE both[i] = order[i + 1]
      <4>1. /\ i \in 1 .. Len(before) + Len(after) /\ ~(i <= Len(before))
            /\ i - Len(before) \in 1 .. Len(order) - at /\ at + (i - Len(before)) = i + 1
        BY <2>2, <2>4, <2>5, <3>3
      <4> QED
        BY <2>5, <3>1, <4>1
    <3> QED
      BY <3>2, <3>3
  <2> HIDE DEF both
  <2>7. ASSUME NEW i \in 1 .. Len(order) - 1
        PROVE  \E j \in DOMAIN order : (before \o after)[i] = order[j]
    <3>1. i \in DOMAIN order /\ i + 1 \in DOMAIN order
      BY <2>2
    <3> QED
      BY <2>0, <3>1 DEF both
  <2> QED
    BY <2>3, <2>6, <2>7
<1> QED
  BY <1>1, <1>2

\* A write keeps the request's place in the order and every other request.
LEMMA WriteType ==
    ASSUME order \in Seq(Scopes), request \in [Scopes -> Request], OrderIsRequested,
           NEW s \in Scopes, NEW r \in Request, r.status # "absent", Write(s, r)
    PROVE  /\ order' \in Seq(Scopes) /\ request' \in [Scopes -> Request] /\ OrderIsRequested'
           /\ request'[s] = r /\ \A t \in Scopes \ {s} : request'[t] = request[t]
<1>1. /\ request' \in [Scopes -> Request] /\ request'[s] = r
      /\ \A t \in Scopes \ {s} : request'[t] = request[t]
  BY DEF Write
<1>2. /\ Without(s) \in Seq(Scopes) /\ order' = Append(Without(s), s)
      /\ \A i \in DOMAIN Without(s) : \E j \in DOMAIN order : Without(s)[i] = order[j]
  BY WithoutType DEF Write
<1>3. order' \in Seq(Scopes)
  BY <1>2
<1>4. ASSUME NEW i \in DOMAIN order' PROVE request'[order'[i]].status # "absent"
  <2> DEFINE rest == Without(s)
  <2>1. Len(rest) \in Nat /\ DOMAIN rest = 1 .. Len(rest) /\ DOMAIN order' = 1 .. Len(rest) + 1
    BY <1>2
  <2>2. order'[Len(rest) + 1] = s /\ \A j \in 1 .. Len(rest) : order'[j] = rest[j]
    BY <1>2, <2>1
  <2> HIDE DEF rest
  <2>3. CASE i = Len(rest) + 1
    BY <1>1, <2>2, <2>3
  <2>4. CASE i # Len(rest) + 1
    <3>1. i \in 1 .. Len(rest)
      BY <2>1, <2>4
    <3>2. PICK j \in DOMAIN order : order'[i] = order[j]
      BY <1>2, <2>1, <2>2, <3>1 DEF rest
    <3>3. order[j] \in Scopes /\ request[order[j]].status # "absent"
      BY <3>2, ElementOfSeq DEF OrderIsRequested
    <3> QED
      BY <1>1, <3>2, <3>3
  <2> QED
    BY <2>3, <2>4
<1> QED
  BY <1>1, <1>3, <1>4 DEF OrderIsRequested

-----------------------------------------------------------------------------
(* What the steps have in common *)

\* A step that writes no table.
LEMMA TablesStay ==
    ASSUME Tables, UNCHANGED <<ledger, request, order, events>> PROVE Tables' /\ Lasts
BY DEF Tables, Lasts, EndIsTruthful, LinkIsSound, OrderIsRequested, LinkedIsRequested,
       UnsubmittedIsAbsent

\* What a request may be written as, in the state after the step.
Sound(s, r) ==
    /\ r \in Request /\ r.status # "absent"
    /\ r.job = "linked" => ledger[s].status # "absent"
    /\ r.status # "pending" => r.job = "linked"
    /\ r.status = "completed" => /\ ledger[s].status = "succeeded"
                                 /\ r.result = ledger[s].checkpoint
    /\ r.status \in {"failed", "cancelled"} => ledger[s].status = r.status
    /\ r.status \in Ended => events'[s] # 0

\* A step that writes one request.
LEMMA TablesWritten ==
    ASSUME Tables, NEW s \in Scopes, NEW r, Sound(s, r), Write(s, r), UNCHANGED ledger,
           request[s].job = "linked" => r.job = "linked",
           events' \in [Scopes -> 0 .. 2], \A t \in Scopes : events[t] # 0 => events'[t] # 0
    PROVE  Tables' /\ Lasts
<1>1. /\ order' \in Seq(Scopes) /\ request' \in [Scopes -> Request] /\ OrderIsRequested'
      /\ request'[s] = r /\ \A t \in Scopes \ {s} : request'[t] = request[t]
  BY WriteType DEF Tables, Sound
<1>2. Lasts
  BY <1>1 DEF Lasts, Tables, Sound
<1>3. EndIsTruthful'
  BY <1>1 DEF EndIsTruthful, Tables, Sound, Ended
<1>4. LinkIsSound' /\ LinkedIsRequested'
  BY <1>1 DEF LinkIsSound, LinkedIsRequested, Tables, Sound
<1> QED
  BY <1>1, <1>2, <1>3, <1>4 DEF Tables, UnsubmittedIsAbsent

\* A step of an agent that leaves the passes' lists alone.
LEMMA ProcessMoves ==
    ASSUME Processes, Lasts, NEW a \in Agents, NEW c \in Agent, Become(a, c),
           Knows(c, ledger', request'), UNCHANGED todo, faults' \in 0 .. MaxFaults
    PROVE  Processes'
<1>1. AgentsKnow' /\ agent' \in [Agents -> Agent]
  BY AgentMoves DEF Processes, Become
<1>2. TodoIsListed'
  BY TodoStays DEF Processes
<1> QED
  BY <1>1, <1>2 DEF Processes

\* A step of no agent.
LEMMA ProcessesStay ==
    ASSUME Processes, Lasts, UNCHANGED <<agent, todo, faults>> PROVE Processes'
BY AgentsStay, TodoStays DEF Processes

\* An agent at rest knows nothing.
LEMMA RestKnows ==
    ASSUME NEW a PROVE Rest(a) \in Agent /\ Knows(Rest(a), ledger', request')
BY RestType DEF Knows, Holding, Looked, Ending

LEMMA AtKnows ==
    ASSUME NEW pc \in {"new", "done", "idle", "loop"}
    PROVE  At(pc) \in Agent /\ Knows(At(pc), ledger', request')
<1>1. At(pc) \in Agent /\ At(pc).pc = pc
  BY AtType DEF At
<1> QED
  BY <1>1 DEF Knows, Holding, Looked, Ending

\* An agent's type and what it knows, one by one.
LEMMA AgentFacts ==
    ASSUME Processes, NEW a \in Agents
    PROVE  /\ agent[a] \in Agent /\ Knows(agent[a], ledger, request)
           /\ agent[a].pc \in Holding \cup {"persist"} => agent[a].scope \in Scopes
BY DEF Processes, AgentsKnow, Knows

-----------------------------------------------------------------------------
(* Evaluation and submission *)

LEMMA EvaluateStep ==
    ASSUME IndInv, NEW a \in Agents, Evaluate(a) PROVE IndInv'
<1>1. Tables /\ Processes /\ Tables' /\ Lasts
  BY TablesStay DEF Evaluate, IndInv
<1>0. UNCHANGED todo /\ faults' \in 0 .. MaxFaults
  BY <1>1 DEF Evaluate, Processes
<1>2. CASE Become(a, At("done"))
  <2>1. At("done") \in Agent /\ Knows(At("done"), ledger', request')
    BY AtKnows
  <2> QED
    BY <1>0, <1>1, <1>2, <2>1, ProcessMoves DEF IndInv
<1>3. ASSUME NEW s \in Scopes, NEW mode \in Modes,
             Become(a, [At("persist") EXCEPT !.scope = s, !.mode = mode,
                                  !.read = Requested, !.active = ActiveRequests])
      PROVE  IndInv'
  <2> DEFINE c == [At("persist") EXCEPT !.scope = s, !.mode = mode,
                                  !.read = Requested, !.active = ActiveRequests]
  <2>1. At("persist") \in Agent
    BY AtType
  <2>2. Requested \in SUBSET Scopes /\ ActiveRequests \in SUBSET Scopes
    BY DEF Requested, ActiveRequests
  <2>3. c \in Agent /\ c.pc = "persist" /\ c.scope = s
    BY <2>1, <2>2 DEF At, Agent
  <2>4. Become(a, c)
    BY <1>3
  <2> HIDE DEF c
  <2>5. Knows(c, ledger', request')
    BY <2>3 DEF Knows, Holding, Looked, Ending
  <2> QED
    BY <1>0, <1>1, <2>3, <2>4, <2>5, ProcessMoves DEF IndInv
<1> QED
  BY <1>2, <1>3 DEF Evaluate

LEMMA PersistStep ==
    ASSUME IndInv, NEW a \in Agents, Persist(a) PROVE IndInv'
<1> DEFINE s == agent[a].scope
           r == [status |-> "pending", job |-> "none", result |-> 0,
                 mode |-> agent[a].mode, windows |-> Windows]
           c == [At("submit") EXCEPT !.scope = s]
<1>1. /\ agent[a].pc = "persist" /\ s \in Scopes /\ agent[a] \in Agent
      /\ UNCHANGED <<ledger, events, todo, faults>>
      /\ faults' \in 0 .. MaxFaults
  BY AgentFacts DEF Persist, IndInv, Processes
<1>2. r \in Request /\ request[s] \in Request
  BY <1>1, BoundsAssumption DEF Agent, Request, Active, IndInv, Tables
<1>3. c \in Agent /\ c.pc = "submit" /\ c.scope = s
  BY <1>1, AtType DEF At, Agent
<1>4. Tables' /\ Lasts /\ request'[s].status # "absent"
  <2>1. CASE request[s].status = "absent"
    <3>1. Write(s, r) /\ request[s].job # "linked"
      BY <1>1, <1>2, <2>1 DEF Persist, IndInv, Tables, LinkedIsRequested
    <3>2. Sound(s, r)
      BY <1>2 DEF Sound, Ended
    <3>3. events' \in [Scopes -> 0 .. 2] /\ \A t \in Scopes : events[t] # 0 => events'[t] # 0
      BY <1>1 DEF IndInv, Tables
    <3>4. Tables /\ UNCHANGED ledger
      BY <1>1 DEF IndInv
    <3> HIDE DEF r
    <3>5. Tables' /\ Lasts
      BY <1>1, <3>1, <3>2, <3>3, <3>4, TablesWritten
    <3>6. request' = [request EXCEPT ![s] = r] /\ request \in [Scopes -> Request]
      BY <3>1, <3>4 DEF Write, Tables
    <3> QED
      BY <1>1, <3>2, <3>5, <3>6 DEF Sound
  <2>2. CASE request[s].status # "absent"
    <3>1. UNCHANGED <<ledger, request, order, events>> /\ Tables
      BY <1>1, <2>2 DEF Persist, IndInv
    <3> QED
      BY <2>2, <3>1, TablesStay
  <2> QED
    BY <2>1, <2>2
<1>5. Processes
  BY DEF IndInv
<1>6. CASE request[s].job = "none"
  <2>1. Become(a, c)
    BY <1>6 DEF Persist
  <2> HIDE DEF c
  <2>2. Knows(c, ledger', request')
    BY <1>1, <1>3, <1>4 DEF Knows, Holding, Looked, Ending
  <2> QED
    BY <1>1, <1>3, <1>4, <1>5, <2>1, <2>2, ProcessMoves DEF IndInv
<1>7. CASE request[s].job # "none"
  <2>1. Become(a, At("done"))
    BY <1>7 DEF Persist
  <2>2. At("done") \in Agent /\ Knows(At("done"), ledger', request')
    BY AtKnows
  <2> QED
    BY <1>1, <1>4, <1>5, <2>1, <2>2, ProcessMoves DEF IndInv
<1> QED
  BY <1>6, <1>7

\* An agent that goes on with its request to attach it or to undo the submission.
LEMMA GoesOn ==
    ASSUME Processes, NEW a \in Agents, agent[a].pc \in {"submit", "attach"}, Lasts,
           NEW pc \in {"attach", "undo"},
           pc = "attach" => ledger'[agent[a].scope].status # "absent"
    PROVE  /\ [agent[a] EXCEPT !.pc = pc] \in Agent
           /\ Knows([agent[a] EXCEPT !.pc = pc], ledger', request')
<1> DEFINE c == [agent[a] EXCEPT !.pc = pc]
<1>1. agent[a] \in Agent /\ agent[a].scope \in Scopes
      /\ request[agent[a].scope].status # "absent"
  BY AgentFacts DEF Knows, Holding
<1>2. c \in Agent /\ c.pc = pc /\ c.scope = agent[a].scope
  BY <1>1 DEF Agent
<1> HIDE DEF c
<1>3. Knows(c, ledger', request')
  BY <1>1, <1>2 DEF Knows, Holding, Looked, Ending, Lasts
<1> QED
  BY <1>2, <1>3 DEF c

LEMMA SubmitStep ==
    ASSUME IndInv, NEW a \in Agents, Submit(a) PROVE IndInv'
<1> DEFINE s == agent[a].scope
<1>1. /\ agent[a].pc = "submit" /\ s \in Scopes
      /\ UNCHANGED <<request, order, events, todo, faults>>
      /\ faults' \in 0 .. MaxFaults /\ Processes /\ Tables
  BY AgentFacts DEF Submit, IndInv, Processes, Holding
<1>2. ASSUME ledger[s] = Jobs!Absent, ledger' = [ledger EXCEPT ![s].status = "queued"],
             NEW pc \in {"attach", "undo"}, Become(a, [agent[a] EXCEPT !.pc = pc])
      PROVE  IndInv'
  <2>1. ledger[s] \in Entries /\ ledger[s].status = "absent"
    BY <1>1, <1>2 DEF Tables, Jobs!Absent, Jobs!Entry
  <2>2. ledger' \in [Scopes -> Entries] /\ ledger'[s].status = "queued"
        /\ \A t \in Scopes \ {s} : ledger'[t] = ledger[t]
    BY <1>1, <1>2, <2>1 DEF Tables, Entries, JobStatuses
  <2>3. Lasts
    BY <1>1, <2>1, <2>2 DEF Lasts, JobEnded
  <2>4. EndIsTruthful' /\ LinkIsSound' /\ OrderIsRequested' /\ LinkedIsRequested'
    BY <1>1, <2>1, <2>2
    DEF EndIsTruthful, LinkIsSound, OrderIsRequested, LinkedIsRequested, Tables
  <2>5. Tables'
    BY <1>1, <2>2, <2>4 DEF Tables, UnsubmittedIsAbsent
  <2> QED
    BY <1>1, <1>2, <2>2, <2>3, <2>5, GoesOn, ProcessMoves DEF IndInv
<1>3. ASSUME NEW pc \in {"attach", "undo"}, Become(a, [agent[a] EXCEPT !.pc = pc]),
             UNCHANGED ledger, pc = "attach" => ledger[s] # Jobs!Absent
      PROVE  IndInv'
  <2>1. Tables' /\ Lasts
    BY <1>1, <1>3, TablesStay
  <2>2. pc = "attach" => ledger'[s].status # "absent"
    BY <1>1, <1>3 DEF Tables, UnsubmittedIsAbsent
  <2> QED
    BY <1>1, <1>3, <2>1, <2>2, GoesOn, ProcessMoves DEF IndInv
<1>4. CASE ledger[s].status = "queued" /\ Become(a, [agent[a] EXCEPT !.pc = "undo"])
           /\ UNCHANGED ledger
  BY <1>3, <1>4
<1>5. CASE ledger[s] # Jobs!Absent /\ Become(a, [agent[a] EXCEPT !.pc = "attach"])
           /\ UNCHANGED ledger
  BY <1>3, <1>5
<1> QED
  BY <1>2, <1>4, <1>5 DEF Submit

LEMMA SubmitFailsStep ==
    ASSUME IndInv, NEW a \in Agents, SubmitFails(a) PROVE IndInv'
<1>1. agent[a].pc \in {"submit", "attach"} /\ Become(a, [agent[a] EXCEPT !.pc = "undo"])
      /\ UNCHANGED todo /\ faults' \in 0 .. MaxFaults /\ Processes /\ Tables' /\ Lasts
  BY BoundsAssumption, TablesStay DEF SubmitFails, Fault, IndInv, Processes
<1> QED
  BY <1>1, GoesOn, ProcessMoves DEF IndInv

LEMMA AttachStep ==
    ASSUME IndInv, NEW a \in Agents, Attach(a) PROVE IndInv'
<1> DEFINE s == agent[a].scope
           r == [request[s] EXCEPT !.job = "linked", !.status = "submitted"]
<1>1. /\ agent[a].pc = "attach" /\ s \in Scopes /\ Become(a, Rest(a))
      /\ UNCHANGED <<ledger, events, todo, faults>>
      /\ faults' \in 0 .. MaxFaults /\ Processes /\ Tables
      /\ ledger[s].status # "absent"
  BY AgentFacts DEF Attach, IndInv, Processes, Holding, Knows
<1>2. Tables' /\ Lasts
  <2>1. CASE request[s].job = "none" /\ request[s].status = "pending"
    <3>1. request[s] \in Request
      BY <1>1 DEF Tables
    <3>2. r \in Request /\ r.status = "submitted" /\ r.job = "linked"
      BY <3>1 DEF Request, Active
    <3>3. Write(s, r)
      BY <2>1 DEF Attach
    <3> HIDE DEF r
    <3>4. Sound(s, r) /\ UNCHANGED ledger
      BY <1>1, <3>2 DEF Sound, Ended
    <3>5. events' \in [Scopes -> 0 .. 2] /\ \A t \in Scopes : events[t] # 0 => events'[t] # 0
      BY <1>1 DEF Tables
    <3> QED
      BY <1>1, <3>2, <3>3, <3>4, <3>5, TablesWritten
  <2>2. CASE ~(request[s].job = "none" /\ request[s].status = "pending")
    <3>1. UNCHANGED <<ledger, request, order, events>>
      BY <1>1, <2>2 DEF Attach
    <3> QED
      BY <1>1, <3>1, TablesStay
  <2> QED
    BY <2>1, <2>2
<1> QED
  BY <1>1, <1>2, RestKnows, ProcessMoves DEF IndInv

\* A pass that stops has nothing left to look at.
LEMMA PassStops ==
    ASSUME Processes, Lasts, NEW a \in Agents, NEW c \in Agent, Become(a, c),
           Knows(c, ledger', request'), faults' \in 0 .. MaxFaults,
           todo' \in [Passes -> Seq(Item)],
           \A p \in Passes : todo'[p] = <<>> \/ todo'[p] = todo[p]
    PROVE  Processes'
<1>1. AgentsKnow' /\ agent' \in [Agents -> Agent]
  BY AgentMoves DEF Processes, Become
<1>2. ASSUME NEW p \in Passes, NEW i \in DOMAIN todo'[p] PROVE Listed(todo[p][i])'
  <2>1. todo'[p] = todo[p]
    BY <1>2
  <2>2. todo[p] \in Seq(Item)
    BY DEF Processes
  <2>3. todo[p][i] \in Item /\ Listed(todo[p][i])
    BY <1>2, <2>1, <2>2, ElementOfSeq DEF Processes, TodoIsListed
  <2> QED
    BY <2>1, <2>3 DEF Listed, Lasts, Item
<1> QED
  BY <1>1, <1>2 DEF Processes, TodoIsListed

LEMMA UndoStep ==
    ASSUME IndInv, NEW a \in Agents, Undo(a) PROVE IndInv'
<1> DEFINE s == agent[a].scope
           r == [request[s] EXCEPT !.status = "pending"]
<1>1. /\ agent[a].pc = "undo" /\ s \in Scopes /\ request[s].status # "absent"
      /\ UNCHANGED <<ledger, events, faults>> /\ Write(s, r)
      /\ faults' \in 0 .. MaxFaults /\ Processes /\ Tables
  BY AgentFacts DEF Undo, IndInv, Processes, Holding, Knows
<1>2. Tables' /\ Lasts
  <2>1. request[s] \in Request
    BY <1>1 DEF Tables
  <2>2. r \in Request /\ r.status = "pending" /\ r.job = request[s].job
    BY <2>1 DEF Request, Active
  <2> HIDE DEF r
  <2>3. Sound(s, r) /\ UNCHANGED ledger
    BY <1>1, <2>2 DEF Sound, Ended, Tables, LinkIsSound
  <2>4. events' \in [Scopes -> 0 .. 2] /\ \A t \in Scopes : events[t] # 0 => events'[t] # 0
    BY <1>1 DEF Tables
  <2> QED
    BY <1>1, <2>2, <2>3, <2>4, TablesWritten
<1>3. CASE a \in Passes
  <2>1. Become(a, At("idle")) /\ todo' = [todo EXCEPT ![a] = <<>>]
    BY <1>3 DEF Undo
  <2>2. todo' \in [Passes -> Seq(Item)]
        /\ \A p \in Passes : todo'[p] = <<>> \/ todo'[p] = todo[p]
    BY <1>1, <2>1, EmptySeq DEF Processes
  <2> QED
    BY <1>1, <1>2, <2>1, <2>2, AtKnows, PassStops DEF IndInv
<1>4. CASE a \notin Passes
  <2>1. Become(a, Rest(a)) /\ UNCHANGED todo
    BY <1>4 DEF Undo
  <2> QED
    BY <1>1, <1>2, <2>1, RestKnows, ProcessMoves DEF IndInv
<1> QED
  BY <1>3, <1>4

-----------------------------------------------------------------------------
(* Synchronization *)

\* Whoever looks at a linked request and its job remembers the job as it is.
LEMMA LookKnows ==
    ASSUME Tables, NEW a, NEW s \in Scopes, request[s].job = "linked", Look(a, s)
    PROVE  \E c \in Agent : Become(a, c) /\ Knows(c, ledger, request)
<1> DEFINE plan == Plan(ledger[s], request[s])
           c == [At(plan) EXCEPT !.scope = s,
                                 !.seen = IF plan = "training" THEN @ ELSE ledger[s]]
<1>1. ledger[s] \in Entries /\ request[s] \in Request /\ request[s].status # "absent"
  BY DEF Tables, LinkedIsRequested
<1>2. plan \in {"none", "training", "candidate", "conclude"}
  BY DEF Plan
<1>3. CASE plan = "none"
  <2>1. Become(a, Rest(a))
    BY <1>3 DEF Look
  <2>2. Knows(Rest(a), ledger, request)
    BY RestType DEF Knows, Holding, Looked, Ending
  <2> QED
    BY <2>1, <2>2, RestType
<1>4. CASE plan # "none"
  <2>1. At(plan) \in Agent
    BY <1>2, <1>4, AtType
  <2>2. c \in Agent /\ c.pc = plan /\ c.scope = s
        /\ (plan # "training" => c.seen = ledger[s])
    BY <1>1, <2>1 DEF At, Agent
  <2>3. Become(a, c)
    BY <1>4 DEF Look
  <2>4. /\ plan = "candidate" => ledger[s].status = "succeeded"
        /\ plan = "conclude" => ledger[s].status \in JobEnded
    BY DEF Plan, JobEnded
  <2> HIDE DEF c, plan
  <2>5. Knows(c, ledger, request)
    BY <1>1, <1>2, <1>4, <2>2, <2>4 DEF Knows, Holding, Looked, Ending, JobEnded
  <2> QED
    BY <2>2, <2>3, <2>5
<1> QED
  BY <1>3, <1>4

LEMMA WriteTrainingStep ==
    ASSUME IndInv, NEW a \in Agents, WriteTraining(a) PROVE IndInv'
<1> DEFINE s == agent[a].scope
           r == [request[s] EXCEPT !.status = "training"]
<1>1. /\ agent[a].pc = "training" /\ s \in Scopes
      /\ request[s].status # "absent" /\ request[s].job = "linked"
      /\ UNCHANGED <<ledger, events, todo, faults>> /\ Write(s, r) /\ Become(a, Rest(a))
      /\ faults' \in 0 .. MaxFaults /\ Processes /\ Tables
  BY AgentFacts DEF WriteTraining, IndInv, Processes, Holding, Looked, Knows
<1>2. Tables' /\ Lasts
  <2>1. request[s] \in Request
    BY <1>1 DEF Tables
  <2>2. r \in Request /\ r.status = "training" /\ r.job = "linked"
    BY <1>1, <2>1 DEF Request, Active
  <2> HIDE DEF r
  <2>3. Sound(s, r) /\ UNCHANGED ledger
    BY <1>1, <2>2 DEF Sound, Ended, Tables, LinkIsSound
  <2>4. events' \in [Scopes -> 0 .. 2] /\ \A t \in Scopes : events[t] # 0 => events'[t] # 0
    BY <1>1 DEF Tables
  <2> QED
    BY <1>1, <2>2, <2>3, <2>4, TablesWritten
<1> QED
  BY <1>1, <1>2, RestKnows, ProcessMoves DEF IndInv

LEMMA WriteCandidateStep ==
    ASSUME IndInv, NEW a \in Agents, WriteCandidate(a) PROVE IndInv'
<1> DEFINE s == agent[a].scope
           r == [request[s] EXCEPT !.status = "candidate_created",
                                   !.result = agent[a].seen.checkpoint]
           c == [agent[a] EXCEPT !.pc = "conclude"]
<1>1. /\ agent[a].pc = "candidate" /\ s \in Scopes
      /\ request[s].status # "absent" /\ request[s].job = "linked"
      /\ agent[a].seen.status = "succeeded" /\ agent[a].seen = ledger[s]
      /\ UNCHANGED <<ledger, events, todo, faults>> /\ Write(s, r) /\ Become(a, c)
      /\ faults' \in 0 .. MaxFaults /\ Processes /\ Tables /\ agent[a] \in Agent
  BY AgentFacts DEF WriteCandidate, IndInv, Processes, Holding, Looked, Ending, Knows
<1>2. Tables' /\ Lasts
  <2>1. request[s] \in Request /\ agent[a].seen.checkpoint \in 0 .. MaxAttempts
    BY <1>1 DEF Tables, Agent, Entries
  <2>2. r \in Request /\ r.status = "candidate_created" /\ r.job = "linked"
    BY <1>1, <2>1 DEF Request, Active
  <2> HIDE DEF r
  <2>3. Sound(s, r) /\ UNCHANGED ledger
    BY <1>1, <2>2 DEF Sound, Ended, Tables, LinkIsSound
  <2>4. events' \in [Scopes -> 0 .. 2] /\ \A t \in Scopes : events[t] # 0 => events'[t] # 0
    BY <1>1 DEF Tables
  <2> QED
    BY <1>1, <2>2, <2>3, <2>4, TablesWritten
<1>3. c \in Agent /\ c.pc = "conclude" /\ c.scope = s /\ c.seen = agent[a].seen
  BY <1>1 DEF Agent
<1> HIDE DEF c
<1>4. Knows(c, ledger', request')
  BY <1>1, <1>2, <1>3 DEF Knows, Holding, Looked, Ending, JobEnded, Lasts
<1> QED
  BY <1>1, <1>2, <1>3, <1>4, ProcessMoves DEF IndInv

LEMMA ConcludeStep ==
    ASSUME IndInv, NEW a \in Agents, Conclude(a) PROVE IndInv'
<1> DEFINE s == agent[a].scope
           e == agent[a].seen
           r == [request[s] EXCEPT !.status = Outcome(e),
                                   !.result = IF e.status = "succeeded" THEN e.checkpoint ELSE @]
<1>1. /\ agent[a].pc = "conclude" /\ s \in Scopes
      /\ request[s].status # "absent" /\ request[s].job = "linked"
      /\ e.status \in JobEnded /\ e = ledger[s]
      /\ events' = [events EXCEPT ![s] = IF @ = 0 THEN 1 ELSE 2]
      /\ UNCHANGED <<ledger, todo, faults>> /\ Write(s, r) /\ Become(a, Rest(a))
      /\ faults' \in 0 .. MaxFaults /\ Processes /\ Tables /\ agent[a] \in Agent
  BY AgentFacts DEF Conclude, IndInv, Processes, Holding, Looked, Ending, Knows
<1>2. events' \in [Scopes -> 0 .. 2] /\ \A t \in Scopes : events[t] # 0 => events'[t] # 0
      /\ events'[s] # 0
  BY <1>1 DEF Tables
<1>3. Tables' /\ Lasts
  <2>1. request[s] \in Request /\ e.checkpoint \in 0 .. MaxAttempts
        /\ Outcome(e) \in Ended
    BY <1>1 DEF Tables, Agent, Entries, Outcome, JobEnded, Ended
  <2>2. r \in Request /\ r.status = Outcome(e) /\ r.job = "linked"
        /\ (e.status = "succeeded" => r.result = e.checkpoint)
    BY <1>1, <2>1 DEF Request
  <2> HIDE DEF r
  <2>3. Sound(s, r) /\ UNCHANGED ledger
    BY <1>1, <1>2, <2>1, <2>2 DEF Sound, Ended, Tables, LinkIsSound, Outcome, JobEnded
  <2> QED
    BY <1>1, <1>2, <2>2, <2>3, TablesWritten
<1> QED
  BY <1>1, <1>3, RestKnows, ProcessMoves DEF IndInv

-----------------------------------------------------------------------------
(* The reconciliation command and the worker *)

LEMMA ListStep ==
    ASSUME IndInv, NEW p \in Passes, List(p) PROVE IndInv'
<1>1. /\ p \in Agents /\ UNCHANGED <<ledger, request, order, events, faults>>
      /\ Become(p, At("loop")) /\ Processes /\ Tables /\ faults' \in 0 .. MaxFaults
  BY DEF List, IndInv, Agents, Processes
<1>2. Tables' /\ Lasts
  BY <1>1, TablesStay
<1>3. PICK size \in 1 .. BatchSize : \E places \in [1 .. size -> DOMAIN order] :
          todo' = [todo EXCEPT ![p] = [i \in 1 .. size |->
                                         [scope |-> order[places[i]],
                                          job |-> request[order[places[i]]].job]]]
  BY DEF List
<1>4. PICK places \in [1 .. size -> DOMAIN order] :
          todo' = [todo EXCEPT ![p] = [i \in 1 .. size |->
                                         [scope |-> order[places[i]],
                                          job |-> request[order[places[i]]].job]]]
  BY <1>3
<1> DEFINE item(i) == [scope |-> order[places[i]], job |-> request[order[places[i]]].job]
           listed == [i \in 1 .. size |-> item(i)]
<1>5. ASSUME NEW i \in 1 .. size PROVE item(i) \in Item /\ Listed(item(i))
  <2>1. places[i] \in DOMAIN order /\ order[places[i]] \in Scopes
    BY <1>1, <1>4, ElementOfSeq DEF Tables
  <2>2. request[order[places[i]]].status # "absent" /\ request[order[places[i]]] \in Request
    BY <1>1, <2>1 DEF Tables, OrderIsRequested
  <2> QED
    BY <2>1, <2>2 DEF Item, Listed, Request
<1>6. size \in Nat
  BY <1>3, BoundsAssumption
<1>7. listed \in Seq(Item) /\ DOMAIN listed = 1 .. size
      /\ \A i \in 1 .. size : listed[i] = item(i)
  BY <1>5, <1>6, IsASeq
<1>8. \A i \in DOMAIN listed : Listed(listed[i])
  BY <1>5, <1>7
<1> HIDE DEF listed, item
<1>9. todo' = [todo EXCEPT ![p] = listed]
  BY <1>4 DEF listed, item
<1>10. todo' \in [Passes -> Seq(Item)] /\ todo'[p] = listed
       /\ \A q \in Passes \ {p} : todo'[q] = todo[q]
  BY <1>1, <1>7, <1>9 DEF Processes
<1>11. \A q \in Passes : \A i \in DOMAIN todo'[q] : Listed(todo'[q][i])
  BY <1>1, <1>8, <1>10 DEF Processes, TodoIsListed
<1>12. TodoIsListed'
  BY <1>1, <1>11 DEF TodoIsListed, Listed
<1>13. AgentsKnow' /\ agent' \in [Agents -> Agent]
  BY <1>1, <1>2, AtKnows, AgentMoves DEF Processes, Become
<1> QED
  BY <1>1, <1>2, <1>10, <1>12, <1>13 DEF IndInv, Processes

LEMMA AdvanceStep ==
    ASSUME IndInv, NEW p \in Passes, Advance(p) PROVE IndInv'
<1> DEFINE item == Head(todo[p])
<1>1. /\ p \in Agents /\ UNCHANGED <<ledger, request, order, events, faults>>
      /\ Processes /\ Tables /\ faults' \in 0 .. MaxFaults
      /\ todo[p] \in Seq(Item) /\ todo[p] # <<>> /\ todo' = [todo EXCEPT ![p] = Tail(todo[p])]
  BY DEF Advance, IndInv, Agents, Processes
<1>2. Tables' /\ Lasts
  BY <1>1, TablesStay
<1>3. /\ Tail(todo[p]) \in Seq(Item) /\ item = todo[p][1] /\ item \in Item
      /\ \A i \in DOMAIN Tail(todo[p]) : i + 1 \in DOMAIN todo[p]
                                          /\ Tail(todo[p])[i] = todo[p][i + 1]
      /\ 1 \in DOMAIN todo[p]
  BY <1>1, HeadTailProperties, ElementOfSeq, LenProperties
<1>4. Listed(item) /\ \A i \in DOMAIN Tail(todo[p]) : Listed(Tail(todo[p])[i])
  BY <1>1, <1>3 DEF Processes, TodoIsListed
<1>5. todo' \in [Passes -> Seq(Item)] /\ todo'[p] = Tail(todo[p])
      /\ \A q \in Passes \ {p} : todo'[q] = todo[q]
  BY <1>1, <1>3 DEF Processes
<1>6. \A q \in Passes : \A i \in DOMAIN todo'[q] : Listed(todo'[q][i])
  BY <1>1, <1>4, <1>5 DEF Processes, TodoIsListed
<1>7. TodoIsListed'
  BY <1>1, <1>6 DEF TodoIsListed, Listed
<1>8. \E c \in Agent : Become(p, c) /\ Knows(c, ledger, request)
  <2>1. CASE item.job = "none"
    <3> DEFINE c == [At("submit") EXCEPT !.scope = item.scope]
    <3>1. c \in Agent /\ c.pc = "submit" /\ c.scope = item.scope /\ item.scope \in Scopes
      BY <1>3, AtType DEF At, Agent, Item
    <3>2. Become(p, c)
      BY <2>1 DEF Advance
    <3> HIDE DEF c
    <3>3. Knows(c, ledger, request)
      BY <1>4, <3>1 DEF Knows, Holding, Looked, Ending, Listed
    <3> QED
      BY <3>1, <3>2, <3>3
  <2>2. CASE item.job # "none"
    <3>1. Look(p, item.scope)
      BY <2>2 DEF Advance
    <3>2. item.scope \in Scopes /\ request[item.scope].job = "linked"
      BY <1>3, <1>4, <2>2 DEF Item, Listed
    <3> QED
      BY <1>1, <3>1, <3>2, LookKnows
  <2> QED
    BY <2>1, <2>2
<1>9. AgentsKnow' /\ agent' \in [Agents -> Agent]
  BY <1>1, <1>2, <1>8, AgentMoves DEF Processes, Become
<1> QED
  BY <1>1, <1>2, <1>5, <1>7, <1>9 DEF IndInv, Processes

LEMMA EndPassStep ==
    ASSUME IndInv, NEW p \in Passes, EndPass(p) PROVE IndInv'
<1>1. /\ p \in Agents /\ UNCHANGED <<ledger, request, order, events, todo, faults>>
      /\ Become(p, At("idle")) /\ Processes /\ Tables /\ faults' \in 0 .. MaxFaults
  BY DEF EndPass, IndInv, Agents, Processes
<1> QED
  BY <1>1, TablesStay, AtKnows, ProcessMoves DEF IndInv

LEMMA WorkerLookStep ==
    ASSUME IndInv, NEW w \in Workers, NEW s \in Scopes, WorkerLook(w, s) PROVE IndInv'
<1>1. /\ w \in Agents /\ UNCHANGED <<ledger, request, order, events, todo, faults>>
      /\ Look(w, s) /\ request[s].job = "linked"
      /\ Processes /\ Tables /\ faults' \in 0 .. MaxFaults
  BY DEF WorkerLook, IndInv, Agents, Processes
<1>2. Tables' /\ Lasts
  BY <1>1, TablesStay
<1>3. PICK c \in Agent : Become(w, c) /\ Knows(c, ledger, request)
  BY <1>1, LookKnows
<1> QED
  BY <1>1, <1>2, <1>3, ProcessMoves DEF IndInv

-----------------------------------------------------------------------------
(* Jobs, time and faults *)

\* A job that has ended does not move.
LEMMA MovesWhileOpen ==
    ASSUME NEW e \in Entries, e.status # "absent", NEW f, Jobs!Move(e, f)
    PROVE  e.status \notin JobEnded /\ f.status # "absent"
BY DEF Entries, Jobs!Move, Jobs!Accept, Jobs!Start, Jobs!Keep, Jobs!Yield, Jobs!Succeed, Jobs!GiveUp,
       Jobs!Abandon, Jobs!Withdraw, Jobs!Absent, Jobs!Entry, JobEnded

LEMMA JobsMoveStep ==
    ASSUME IndInv, NEW moved \in SUBSET Scopes, JobsMove(moved) PROVE IndInv'
<1>1. /\ UNCHANGED <<request, order, events, agent, todo, faults>> /\ Processes /\ Tables
      /\ \A s \in moved : ledger[s].status # "absent"
  BY DEF JobsMove, IndInv, Tables, UnsubmittedIsAbsent
<1>2. PICK next \in [moved -> UNION {Moves[ledger[s]] : s \in moved}] :
        /\ \A s \in moved : Jobs!Move(ledger[s], next[s])
        /\ ledger' = [s \in Scopes |-> IF s \in moved THEN next[s] ELSE ledger[s]]
  BY DEF JobsMove
<1>3. \A s \in moved : /\ ledger[s].status \notin JobEnded /\ next[s].status # "absent"
                       /\ next[s] \in Entries
  <2> TAKE s \in moved
  <2>1. ledger[s].status \notin JobEnded /\ next[s].status # "absent"
    BY <1>1, <1>2, MovesWhileOpen DEF Tables
  <2>2. \A t \in moved : Moves[ledger[t]] \subseteq Entries
    BY <1>1 DEF Moves, Tables
  <2>3. next[s] \in Entries
    BY <1>2, <2>2
  <2> QED
    BY <2>1, <2>3
<1>4. /\ ledger' \in [Scopes -> Entries]
      /\ \A s \in moved : ledger'[s] = next[s]
      /\ \A s \in Scopes \ moved : ledger'[s] = ledger[s]
  BY <1>1, <1>2, <1>3 DEF Tables
<1>5. Lasts
  BY <1>1, <1>3, <1>4 DEF Lasts
<1>6. EndIsTruthful' /\ LinkIsSound' /\ OrderIsRequested' /\ LinkedIsRequested'
      /\ UnsubmittedIsAbsent'
  BY <1>1, <1>3, <1>4 DEF Tables, EndIsTruthful, LinkIsSound, OrderIsRequested,
                          LinkedIsRequested, UnsubmittedIsAbsent, JobEnded, Ended
<1>7. Tables'
  BY <1>1, <1>4, <1>6 DEF Tables
<1> QED
  BY <1>1, <1>5, <1>7, ProcessesStay DEF IndInv

LEMMA ElapseStep ==
    ASSUME IndInv, NEW s \in Scopes, NEW window \in Windows, Elapse(s, window) PROVE IndInv'
<1> DEFINE left == request[s].windows \ {window}
<1>1. /\ UNCHANGED <<ledger, order, events, agent, todo, faults>> /\ Processes /\ Tables
      /\ request' = [request EXCEPT ![s].windows = left]
  BY DEF Elapse, IndInv
<1>2. request[s] \in Request /\ left \in SUBSET Windows
  BY <1>1 DEF Tables, Request
<1> HIDE DEF left
<1>3. request' \in [Scopes -> Request]
      /\ \A t \in Scopes : /\ request'[t].status = request[t].status
                           /\ request'[t].job = request[t].job
                           /\ request'[t].result = request[t].result
  BY <1>1, <1>2 DEF Tables, Request
<1>4. Lasts
  BY <1>1, <1>3 DEF Lasts
<1>5. order \in Seq(Scopes)
  BY <1>1 DEF Tables
<1>6. EndIsTruthful' /\ LinkIsSound' /\ OrderIsRequested' /\ LinkedIsRequested'
      /\ UnsubmittedIsAbsent'
  BY <1>1, <1>3, <1>5, ElementOfSeq
     DEF Tables, EndIsTruthful, LinkIsSound, OrderIsRequested, LinkedIsRequested,
         UnsubmittedIsAbsent
<1>7. Tables'
  BY <1>1, <1>3, <1>6 DEF Tables
<1> QED
  BY <1>1, <1>4, <1>7, ProcessesStay DEF IndInv

LEMMA LoseStep ==
    ASSUME IndInv, NEW a \in Agents, Lose(a) PROVE IndInv'
<1> DEFINE pc == IF a \in Evaluations THEN "done" ELSE "idle"
<1>1. /\ UNCHANGED <<ledger, request, order, events>> /\ Become(a, At(pc))
      /\ Processes /\ Tables /\ faults' \in 0 .. MaxFaults
      /\ todo' = [p \in Passes |-> IF p = a THEN <<>> ELSE todo[p]]
  BY BoundsAssumption DEF Lose, Fault, IndInv, Processes
<1>2. Tables' /\ Lasts
  BY <1>1, TablesStay
<1>3. At(pc) \in Agent /\ Knows(At(pc), ledger', request')
  BY AtKnows
<1>4. todo' \in [Passes -> Seq(Item)] /\ \A p \in Passes : todo'[p] = <<>> \/ todo'[p] = todo[p]
  BY <1>1, EmptySeq DEF Processes
<1> HIDE DEF pc
<1> QED
  BY <1>1, <1>2, <1>3, <1>4, PassStops DEF IndInv

-----------------------------------------------------------------------------
(* The theorem *)

LEMMA InitHolds == Init => IndInv
<1> SUFFICES ASSUME Init PROVE IndInv
  OBVIOUS
<1>1. MaxAttempts \in Nat \ {0} /\ MaxFaults \in Nat
  BY BoundsAssumption
<1>2. ledger = [s \in Scopes |-> Jobs!Absent] /\ Jobs!Absent \in Entries
      /\ Jobs!Absent.status = "absent"
  BY <1>1 DEF Init, Jobs!Init, Jobs!Absent, Jobs!Entry, Entries, JobStatuses
<1>3. /\ request = [s \in Scopes |-> NoRequest] /\ NoRequest \in Request
      /\ NoRequest.status = "absent" /\ NoRequest.job = "none"
  BY <1>1 DEF Init, NoRequest, Request, Modes, Windows
<1>4. EndIsTruthful /\ LinkIsSound /\ LinkedIsRequested /\ UnsubmittedIsAbsent
  BY <1>2, <1>3 DEF EndIsTruthful, LinkIsSound, LinkedIsRequested, UnsubmittedIsAbsent, Ended
<1>5. order = <<>> /\ order \in Seq(Scopes) /\ OrderIsRequested
  BY EmptySeq DEF Init, OrderIsRequested
<1>6. Tables
  BY <1>2, <1>3, <1>4, <1>5 DEF Tables, Init
<1>7. ASSUME NEW a \in Agents PROVE agent[a] \in Agent /\ Knows(agent[a], ledger, request)
  <2>1. agent[a] = At(IF a \in Evaluations THEN "new" ELSE "idle")
    BY DEF Init
  <2>2. At("new") \in Agent /\ At("idle") \in Agent
    BY AtType
  <2>3. agent[a].pc \in {"new", "idle"}
    BY <2>1 DEF At
  <2> QED
    BY <2>1, <2>2, <2>3 DEF Knows, Holding, Looked, Ending
<1>8. todo \in [Passes -> Seq(Item)] /\ TodoIsListed
  BY EmptySeq DEF Init, TodoIsListed
<1>9. Processes
  BY <1>1, <1>7, <1>8 DEF Processes, AgentsKnow, Init
<1> QED
  BY <1>6, <1>9 DEF IndInv

LEMMA NextHolds == IndInv /\ [Next]_vars => IndInv'
<1> SUFFICES ASSUME IndInv, [Next]_vars PROVE IndInv'
  OBVIOUS
<1>1. ASSUME NEW a \in Agents, Act(a) PROVE IndInv'
  BY <1>1, EvaluateStep, PersistStep, ListStep, AdvanceStep, EndPassStep, SubmitStep, AttachStep,
     UndoStep, WriteTrainingStep, WriteCandidateStep, ConcludeStep
  DEF Act, Resume, Synchronize
<1>2. ASSUME NEW a \in Agents, SubmitFails(a) PROVE IndInv'
  BY <1>2, SubmitFailsStep
<1>3. ASSUME NEW a \in Agents, Lose(a) PROVE IndInv'
  BY <1>3, LoseStep
<1>4. ASSUME NEW w \in Workers, NEW s \in Scopes, WorkerLook(w, s) PROVE IndInv'
  BY <1>4, WorkerLookStep
<1>5. ASSUME NEW moved \in SUBSET Scopes, JobsMove(moved) PROVE IndInv'
  BY <1>5, JobsMoveStep
<1>6. ASSUME NEW s \in Scopes, NEW window \in Windows, Elapse(s, window) PROVE IndInv'
  BY <1>6, ElapseStep
<1>7. CASE UNCHANGED vars
  <2>1. /\ UNCHANGED <<ledger, request, order, events>> /\ UNCHANGED <<agent, todo, faults>>
        /\ Tables /\ Processes
    BY <1>7 DEF vars, IndInv
  <2> QED
    BY <2>1, TablesStay, ProcessesStay DEF IndInv
<1> QED
  BY <1>1, <1>2, <1>3, <1>4, <1>5, <1>6, <1>7 DEF Next

LEMMA Inductive == Spec => []IndInv
BY InitHolds, NextHolds, PTL DEF Spec

\* What a request says of its job, in progress and at its end, is true, and what it
\* links to exists, whatever evaluations, reconciliation passes and workers have read
\* before they write (retraining/service.py, retraining/reconcile.py).
THEOREM RequestAgreement == Spec => []RequestsAgreeWithJobs
<1>1. IndInv => RequestsAgreeWithJobs
  BY DEF IndInv, Tables, Processes, RequestsAgreeWithJobs, TypeOK
<1> QED
  BY <1>1, Inductive, PTL

\* A step that leaves the ledger alone, or moves one job of it.
LEMMA OneJobMoves ==
    ASSUME NEW s \in Scopes, NEW e, ledger \in [Scopes -> Entries],
           Jobs!Move(ledger[s], e), ledger' = [ledger EXCEPT ![s] = e]
    PROVE  Jobs!Next
<1>1. ledger'[s] = e
  OBVIOUS
<1>2. ledger' = [j \in Scopes |-> IF j \in {s} THEN ledger'[j] ELSE ledger[j]]
  OBVIOUS
<1>3. \A j \in {s} : Jobs!Move(ledger[j], ledger'[j])
  BY <1>1
<1> QED
  BY <1>2, <1>3, Zenon DEF Jobs!Next

\* Evaluations, passes and workers leave the jobs to the training-job component: what
\* retraining does to them, and with a batch of them in one transaction of the recovery
\* command, is a behaviour of TrainingJobLifecycle, the one TrainingJobs implements
\* (TrainingJobService.submit is the only call with which retraining changes a job).
THEOREM JobsAsPromised == Spec => Jobs!Spec
<1>1. Init => Jobs!Init
  BY DEF Init
<1>2. IndInv /\ [Next]_vars => [Jobs!Next]_ledger
  <2> SUFFICES ASSUME IndInv, [Next]_vars, ledger' # ledger PROVE Jobs!Next
    OBVIOUS
  <2>0. ledger \in [Scopes -> Entries]
    BY DEF IndInv, Tables
  <2>1. ASSUME NEW a \in Agents, Submit(a) PROVE Jobs!Next
    <3> DEFINE s == agent[a].scope
               e == [ledger[s] EXCEPT !.status = "queued"]
    <3>1. s \in Scopes
      BY <2>1, AgentFacts DEF Submit, IndInv, Holding
    <3>2. ledger[s] = Jobs!Absent /\ ledger' = [ledger EXCEPT ![s] = e]
      BY <2>1 DEF Submit
    <3>3. Jobs!Move(ledger[s], e)
      BY <3>2 DEF Jobs!Move, Jobs!Accept
    <3> HIDE DEF s, e
    <3> QED
      BY <2>0, <3>1, <3>2, <3>3, OneJobMoves
  <2>2. ASSUME NEW moved \in SUBSET Scopes, JobsMove(moved) PROVE Jobs!Next
    <3>1. PICK next \in [moved -> UNION {Moves[ledger[s]] : s \in moved}] :
            /\ \A s \in moved : Jobs!Move(ledger[s], next[s])
            /\ ledger' = [s \in Scopes |-> IF s \in moved THEN next[s] ELSE ledger[s]]
      BY <2>2 DEF JobsMove
    <3>2. \A s \in moved : ledger'[s] = next[s]
      BY <3>1
    <3>3. ledger' = [j \in Scopes |-> IF j \in moved THEN ledger'[j] ELSE ledger[j]]
      BY <3>1, <3>2
    <3>4. \A j \in moved : Jobs!Move(ledger[j], ledger'[j])
      BY <3>1, <3>2
    <3> QED
      BY <3>3, <3>4, Zenon DEF Jobs!Next
  <2> QED
    BY <2>1, <2>2 DEF Next, Act, Evaluate, Persist, List, Advance, EndPass, Resume, Attach,
                      Undo, Synchronize, WriteTraining, WriteCandidate, Conclude, SubmitFails,
                      Lose, WorkerLook, Elapse, vars
<1> QED
  BY <1>1, <1>2, Inductive, PTL DEF Spec, Jobs!Spec

-----------------------------------------------------------------------------
(* The limits *)

\* A request that stays keeps its mode, and time only takes windows from it.
Steady ==
    \A s \in Scopes :
        /\ s \in Requested => s \in Requested'
        /\ (s \in Requested <=> s \in Requested')
              => /\ request'[s].mode = request[s].mode
                 /\ request'[s].windows \subseteq request[s].windows

\* What an evaluation in the local state c counted and may still rely on.
Counted(c) ==
    c.pc = "persist" =>
        /\ c.read \subseteq Requested
        /\ c.active \subseteq Scopes /\ Cardinality(c.active) < MaxActive
        /\ c.mode = "automatic" /\ Requested \subseteq c.read =>
              /\ Cardinality(Automatic("day")) < MaxPerDay
              /\ Cardinality(Automatic("week")) < MaxPerWeek

CountedInv == \A a \in Evaluations : Counted(agent[a])

LEMMA CardinalityOfPart ==
    ASSUME NEW S, S \subseteq Scopes, NEW T, T \subseteq S
    PROVE  /\ Cardinality(T) <= Cardinality(S)
           /\ Cardinality(S) \in Nat /\ Cardinality(T) \in Nat
<1>1. IsFiniteSet(S)
  BY ScopesAssumption, FS_Subset
<1>2. IsFiniteSet(T) /\ Cardinality(T) <= Cardinality(S)
  BY <1>1, FS_Subset
<1> QED
  BY <1>1, <1>2, FS_CardinalityType

\* The counts of an evaluation hold unless a request is inserted.
LEMMA CountedLasts ==
    ASSUME Steady, NEW c, Counted(c)
    PROVE  c.pc = "persist" =>
        /\ c.read \subseteq Requested'
        /\ c.active \subseteq Scopes /\ Cardinality(c.active) < MaxActive
        /\ c.mode = "automatic" /\ Requested' \subseteq c.read =>
              /\ Cardinality(Automatic("day")') < MaxPerDay
              /\ Cardinality(Automatic("week")') < MaxPerWeek
<1> SUFFICES ASSUME c.pc = "persist" PROVE
        /\ c.read \subseteq Requested'
        /\ c.active \subseteq Scopes /\ Cardinality(c.active) < MaxActive
        /\ c.mode = "automatic" /\ Requested' \subseteq c.read =>
              /\ Cardinality(Automatic("day")') < MaxPerDay
              /\ Cardinality(Automatic("week")') < MaxPerWeek
  OBVIOUS
<1>1. c.read \subseteq Requested /\ Requested \subseteq Scopes
  BY DEF Counted, Requested
<1>2. c.read \subseteq Requested'
  BY <1>1 DEF Steady
<1>3. ASSUME c.mode = "automatic", Requested' \subseteq c.read
      PROVE  /\ Cardinality(Automatic("day")') < MaxPerDay
             /\ Cardinality(Automatic("week")') < MaxPerWeek
  <2>1. Requested' = Requested
    BY <1>1, <1>3 DEF Steady
  <2>2. ASSUME NEW window PROVE Automatic(window)' \subseteq Automatic(window)
                                /\ Automatic(window) \subseteq Scopes
    BY <2>1 DEF Steady, Automatic
  <2>3. /\ Cardinality(Automatic("day")') <= Cardinality(Automatic("day"))
        /\ Cardinality(Automatic("week")') <= Cardinality(Automatic("week"))
        /\ Cardinality(Automatic("day")) \in Nat /\ Cardinality(Automatic("day")') \in Nat
        /\ Cardinality(Automatic("week")) \in Nat /\ Cardinality(Automatic("week")') \in Nat
    BY <2>2, CardinalityOfPart
  <2>4. /\ Cardinality(Automatic("day")) < MaxPerDay
        /\ Cardinality(Automatic("week")) < MaxPerWeek
    BY <1>1, <1>3, <2>1 DEF Counted
  <2> QED
    BY <2>3, <2>4, BoundsAssumption
<1> QED
  BY <1>2, <1>3 DEF Counted

\* A write of a request that keeps its mode and its windows, or inserts it.
LEMMA WriteSteady ==
    ASSUME NEW s \in Scopes, NEW r, Write(s, r), request \in [Scopes -> Request],
           r.status # "absent",
           request[s].status # "absent" => /\ r.mode = request[s].mode
                                           /\ r.windows = request[s].windows
    PROVE  Steady
BY DEF Write, Steady, Requested

LEMMA StaySteady == UNCHANGED request => Steady
BY DEF Steady, Requested

\* Every step of an agent but the insertion keeps modes and windows, and the
\* other agents stay.
LEMMA SynchronizeSteady ==
    ASSUME IndInv, NEW a \in Agents, Resume(a) \/ Synchronize(a) PROVE Steady
<1> DEFINE s == agent[a].scope
           r == request[s]
           seen == agent[a].seen
<1>1. /\ a \in Agents /\ Tables /\ request \in [Scopes -> Request]
      /\ agent[a].pc \in Holding => s \in Scopes /\ r \in Request /\ r.status # "absent"
  BY AgentFacts DEF IndInv, Tables, Knows, Holding
<1>2. CASE Submit(a)
  BY <1>2, StaySteady DEF Submit
<1>3. CASE Attach(a)
  <2>1. CASE r.job = "none" /\ r.status = "pending"
    <3> DEFINE new == [r EXCEPT !.job = "linked", !.status = "submitted"]
    <3>1. Write(s, new) /\ s \in Scopes /\ r \in Request
      BY <1>1, <1>3, <2>1 DEF Attach, Holding
    <3>2. new.status # "absent" /\ new.mode = r.mode /\ new.windows = r.windows
      BY <3>1 DEF Request
    <3> HIDE DEF new
    <3> QED
      BY <1>1, <3>1, <3>2, WriteSteady
  <2>2. CASE ~(r.job = "none" /\ r.status = "pending")
    BY <1>3, <2>2, StaySteady DEF Attach
  <2> QED
    BY <2>1, <2>2
<1>4. CASE Undo(a)
  <2> DEFINE new == [r EXCEPT !.status = "pending"]
  <2>1. Write(s, new) /\ s \in Scopes /\ r \in Request
    BY <1>1, <1>4 DEF Undo, Holding
  <2>2. new.status # "absent" /\ new.mode = r.mode /\ new.windows = r.windows
    BY <2>1 DEF Request
  <2> HIDE DEF new
  <2> QED
    BY <1>1, <2>1, <2>2, WriteSteady
<1>5. CASE WriteTraining(a)
  <2> DEFINE new == [r EXCEPT !.status = "training"]
  <2>1. Write(s, new) /\ s \in Scopes /\ r \in Request
    BY <1>1, <1>5 DEF WriteTraining, Holding
  <2>2. new.status # "absent" /\ new.mode = r.mode /\ new.windows = r.windows
    BY <2>1 DEF Request
  <2> HIDE DEF new
  <2> QED
    BY <1>1, <2>1, <2>2, WriteSteady
<1>6. CASE WriteCandidate(a)
  <2> DEFINE new == [r EXCEPT !.status = "candidate_created", !.result = seen.checkpoint]
  <2>1. Write(s, new) /\ s \in Scopes /\ r \in Request
    BY <1>1, <1>6 DEF WriteCandidate, Holding
  <2>2. new.status # "absent" /\ new.mode = r.mode /\ new.windows = r.windows
    BY <2>1 DEF Request
  <2> HIDE DEF new
  <2> QED
    BY <1>1, <2>1, <2>2, WriteSteady
<1>7. CASE Conclude(a)
  <2> DEFINE result == IF seen.status = "succeeded" THEN seen.checkpoint ELSE r.result
             new == [r EXCEPT !.status = Outcome(seen), !.result = result]
  <2>1. Write(s, new) /\ s \in Scopes /\ r \in Request
    BY <1>1, <1>7 DEF Conclude, Holding
  <2>2. seen.status \in JobEnded
    BY <1>7, AgentFacts DEF Conclude, IndInv, Knows, Ending
  <2>3. Outcome(seen) # "absent"
    BY <2>2 DEF Outcome, JobEnded
  <2> HIDE DEF result
  <2>4. new.status # "absent" /\ new.mode = r.mode /\ new.windows = r.windows
    BY <2>1, <2>3 DEF Request
  <2> HIDE DEF new
  <2> QED
    BY <1>1, <2>1, <2>4, WriteSteady
<1> QED
  BY <1>2, <1>3, <1>4, <1>5, <1>6, <1>7 DEF Resume, Synchronize

\* An agent begins to persist only in Evaluate.
Settles == \A b \in Evaluations : agent'[b] = agent[b] \/ agent'[b].pc # "persist"

LEMMA BecomeSettles ==
    ASSUME agent \in [Agents -> Agent], NEW a \in Agents, NEW c, c.pc # "persist", Become(a, c)
    PROVE  Settles
BY DEF Become, Settles, Agents

LEMMA LookSettles ==
    ASSUME Tables, agent \in [Agents -> Agent], NEW a \in Agents, NEW s \in Scopes, Look(a, s)
    PROVE  Settles
<1> DEFINE plan == Plan(ledger[s], request[s])
           c == [At(plan) EXCEPT !.scope = s,
                                 !.seen = IF plan = "training" THEN @ ELSE ledger[s]]
<1>1. plan \in {"none", "training", "candidate", "conclude"}
  BY DEF Plan
<1>2. CASE plan = "none"
  BY <1>2, RestType, BecomeSettles DEF Look
<1>3. CASE plan # "none"
  <2>1. At(plan) \in Agent
    BY <1>1, <1>3, AtType
  <2>2. Become(a, c)
    BY <1>3 DEF Look
  <2>3. c.pc = plan
    BY <2>1 DEF At, Agent
  <2> HIDE DEF c, plan
  <2> QED
    BY <1>1, <2>2, <2>3, BecomeSettles
<1> QED
  BY <1>2, <1>3

LEMMA ResumeSettles ==
    ASSUME IndInv, NEW a \in Agents, Resume(a) \/ Synchronize(a) \/ SubmitFails(a) PROVE Settles
<1>1. agent \in [Agents -> Agent] /\ agent[a] \in Agent
  BY DEF IndInv, Processes
<1>2. ASSUME NEW pc \in {"attach", "undo", "conclude"}, Become(a, [agent[a] EXCEPT !.pc = pc])
      PROVE  Settles
  <2>1. [agent[a] EXCEPT !.pc = pc].pc = pc
    BY <1>1 DEF Agent
  <2> QED
    BY <1>1, <1>2, <2>1, BecomeSettles
<1>3. CASE Become(a, Rest(a))
  BY <1>1, <1>3, RestType, BecomeSettles
<1>4. CASE Become(a, At("idle"))
  <2>1. At("idle").pc # "persist"
    BY DEF At
  <2> QED
    BY <1>1, <1>4, <2>1, BecomeSettles
<1> QED
  BY <1>2, <1>3, <1>4
  DEF Resume, Submit, Attach, Undo, Synchronize, WriteTraining, WriteCandidate, Conclude,
      SubmitFails

LEMMA PersistRaces ==
    ASSUME IndInv, NEW a \in Agents, Persist(a) PROVE Steady /\ Settles
<1> DEFINE s == agent[a].scope
           r == [status |-> "pending", job |-> "none", result |-> 0,
                 mode |-> agent[a].mode, windows |-> Windows]
           c == [At("submit") EXCEPT !.scope = s]
<1>1. s \in Scopes /\ request \in [Scopes -> Request] /\ agent \in [Agents -> Agent]
  BY AgentFacts DEF Persist, IndInv, Processes, Tables
<1>2. Steady
  <2>1. CASE request[s].status = "absent"
    <3>1. Write(s, r) /\ r.status # "absent"
      BY <2>1 DEF Persist
    <3> HIDE DEF r
    <3> QED
      BY <1>1, <2>1, <3>1, WriteSteady
  <2>2. CASE request[s].status # "absent"
    BY <2>2, StaySteady DEF Persist
  <2> QED
    BY <2>1, <2>2
<1>3. c.pc = "submit" /\ At("done").pc = "done"
  BY DEF At
<1>4. Become(a, c) \/ Become(a, At("done"))
  BY DEF Persist
<1> HIDE DEF c
<1>5. Settles
  BY <1>1, <1>3, <1>4, BecomeSettles
<1> QED
  BY <1>2, <1>5

LEMMA PassRaces ==
    ASSUME IndInv, NEW p \in Passes, List(p) \/ Advance(p) \/ EndPass(p) PROVE Steady /\ Settles
<1>1. p \in Agents /\ agent \in [Agents -> Agent] /\ Tables
  BY DEF Agents, IndInv, Processes
<1>2. Steady
  BY StaySteady DEF List, Advance, EndPass
<1>3. CASE List(p) \/ EndPass(p)
  <2>1. At("loop").pc = "loop" /\ At("idle").pc = "idle"
    BY DEF At
  <2>2. Become(p, At("loop")) \/ Become(p, At("idle"))
    BY <1>3 DEF List, EndPass
  <2> QED
    BY <1>1, <1>2, <2>1, <2>2, BecomeSettles
<1>4. CASE Advance(p)
  <2> DEFINE item == Head(todo[p])
             c == [At("submit") EXCEPT !.scope = item.scope]
  <2>1. item \in Item
    BY <1>4, HeadTailProperties DEF Advance, IndInv, Processes
  <2>2. CASE item.job = "none"
    <3>1. Become(p, c) /\ c.pc = "submit"
      BY <1>4, <2>2 DEF Advance, At
    <3> HIDE DEF c
    <3> QED
      BY <1>1, <1>2, <3>1, BecomeSettles
  <2>3. CASE item.job # "none"
    <3>1. Look(p, item.scope) /\ item.scope \in Scopes
      BY <1>4, <2>1, <2>3 DEF Advance, Item
    <3> QED
      BY <1>1, <1>2, <3>1, LookSettles
  <2> QED
    BY <2>2, <2>3
<1> QED
  BY <1>3, <1>4

\* Every step but an evaluation keeps the counts.
LEMMA NextRaces ==
    ASSUME IndInv, [Next]_vars
    PROVE  Steady /\ (Settles \/ \E a \in Evaluations : Evaluate(a))
<1>0. agent \in [Agents -> Agent] /\ Tables
  BY DEF IndInv, Processes
<1>1. ASSUME NEW a \in Agents, Act(a)
      PROVE  Steady /\ (Settles \/ \E e \in Evaluations : Evaluate(e))
  <2>1. CASE a \in Evaluations /\ Evaluate(a)
    BY <2>1, StaySteady DEF Evaluate
  <2>2. CASE Persist(a)
    BY <2>2, PersistRaces
  <2>3. CASE a \in Passes /\ (List(a) \/ Advance(a) \/ EndPass(a))
    BY <2>3, PassRaces
  <2>4. CASE Resume(a) \/ Synchronize(a)
    BY <2>4, SynchronizeSteady, ResumeSettles
  <2> QED
    BY <1>1, <2>1, <2>2, <2>3, <2>4 DEF Act
<1>2. ASSUME NEW a \in Agents, SubmitFails(a) PROVE Steady /\ Settles
  BY <1>2, StaySteady, ResumeSettles DEF SubmitFails
<1>3. ASSUME NEW a \in Agents, Lose(a) PROVE Steady /\ Settles
  <2>1. At(IF a \in Evaluations THEN "done" ELSE "idle").pc # "persist"
    BY DEF At
  <2> QED
    BY <1>0, <1>3, <2>1, StaySteady, BecomeSettles DEF Lose
<1>4. ASSUME NEW w \in Workers, NEW s \in Scopes, WorkerLook(w, s) PROVE Steady /\ Settles
  BY <1>0, <1>4, StaySteady, LookSettles DEF WorkerLook, Agents
<1>5. ASSUME NEW moved \in SUBSET Scopes, JobsMove(moved) PROVE Steady /\ Settles
  BY <1>5, StaySteady DEF JobsMove, Settles
<1>6. ASSUME NEW s \in Scopes, NEW window \in Windows, Elapse(s, window)
      PROVE  Steady /\ Settles
  <2>1. Settles
    BY <1>6 DEF Elapse, Settles
  <2>2. request \in [Scopes -> Request] /\ request[s] \in Request
        /\ request' = [request EXCEPT ![s].windows = request[s].windows \ {window}]
    BY <1>0, <1>6 DEF Elapse, Tables
  <2>3. \A t \in Scopes : /\ request'[t].status = request[t].status
                          /\ request'[t].mode = request[t].mode
                          /\ request'[t].windows \subseteq request[t].windows
    BY <2>2 DEF Request
  <2> QED
    BY <2>1, <2>3 DEF Steady, Requested
<1>7. CASE UNCHANGED vars
  BY <1>7, StaySteady DEF vars, Settles
<1> QED
  BY <1>1, <1>2, <1>3, <1>4, <1>5, <1>6, <1>7 DEF Next

LEMMA SettledCounts ==
    ASSUME CountedInv, Steady, NEW b \in Evaluations,
           agent'[b] = agent[b] \/ agent'[b].pc # "persist"
    PROVE  Counted(agent[b])'
<1>1. CASE agent'[b] = agent[b]
  <2>1. Counted(agent[b])
    BY DEF CountedInv
  <2> QED
    BY <1>1, <2>1, CountedLasts DEF Counted
<1>2. CASE agent'[b].pc # "persist"
  BY <1>2 DEF Counted
<1> QED
  BY <1>1, <1>2

LEMMA EvaluateCounts ==
    ASSUME IndInv, CountedInv, NEW a \in Evaluations, Evaluate(a) PROVE CountedInv'
<1>1. /\ agent \in [Agents -> Agent] /\ a \in Agents /\ UNCHANGED request /\ Steady
      /\ Requested \subseteq Scopes /\ ActiveRequests \subseteq Scopes
  BY StaySteady DEF Evaluate, IndInv, Processes, Agents, Requested, ActiveRequests
<1>2. ASSUME NEW c, Become(a, c) PROVE \A b \in Evaluations \ {a} : Counted(agent[b])'
  BY <1>1, <1>2, SettledCounts DEF Become, Agents
<1>3. CASE Become(a, At("done"))
  <2>1. agent'[a].pc # "persist"
    BY <1>1, <1>3 DEF Become, At
  <2> QED
    BY <1>1, <1>2, <1>3, <2>1, SettledCounts DEF CountedInv
<1>4. ASSUME NEW s \in Scopes, NEW mode \in Modes, WithinLimits(mode),
             Become(a, [At("persist") EXCEPT !.scope = s, !.mode = mode,
                                  !.read = Requested, !.active = ActiveRequests])
      PROVE  CountedInv'
  <2> DEFINE c == [At("persist") EXCEPT !.scope = s, !.mode = mode,
                                  !.read = Requested, !.active = ActiveRequests]
  <2>1. c.mode = mode /\ c.read = Requested /\ c.active = ActiveRequests
    BY DEF At
  <2>2. Become(a, c)
    BY <1>4
  <2> HIDE DEF c
  <2>3. agent'[a] = c
    BY <1>1, <2>2 DEF Become
  <2>4. Requested' = Requested /\ Automatic("day")' = Automatic("day")
        /\ Automatic("week")' = Automatic("week")
    BY <1>1 DEF Requested, Automatic
  <2>5. Counted(agent[a])'
    BY <1>1, <1>4, <2>1, <2>3, <2>4 DEF Counted, WithinLimits
  <2> QED
    BY <1>2, <2>2, <2>5 DEF CountedInv
<1>5. Become(a, At("done")) \/ \E s \in Scopes, mode \in Modes :
          WithinLimits(mode) /\ Become(a, [At("persist") EXCEPT !.scope = s, !.mode = mode,
                                  !.read = Requested, !.active = ActiveRequests])
  BY DEF Evaluate, Eligible
<1> QED
  BY <1>3, <1>4, <1>5

\* An insertion beyond the limits of the policy is always a race: what was counted
\* was within them, and a request was inserted or came back since (_evaluate).
THEOREM LimitsAreRaced == Spec => LimitsRaceOnly
<1>1. Init => CountedInv
  <2> SUFFICES ASSUME Init, NEW a \in Evaluations PROVE Counted(agent[a])
    BY DEF CountedInv
  <2>1. agent[a].pc = "new"
    BY DEF Init, Agents, At
  <2> QED
    BY <2>1 DEF Counted
<1>2. IndInv /\ CountedInv /\ [Next]_vars => CountedInv'
  <2> SUFFICES ASSUME IndInv, CountedInv, [Next]_vars PROVE CountedInv'
    OBVIOUS
  <2>1. Steady /\ (Settles \/ \E a \in Evaluations : Evaluate(a))
    BY NextRaces
  <2>2. CASE Settles
    BY <2>1, <2>2, SettledCounts DEF CountedInv, Settles
  <2>3. CASE \E a \in Evaluations : Evaluate(a)
    BY <2>3, EvaluateCounts
  <2> QED
    BY <2>1, <2>2, <2>3
<1>3. CountedInv => \A a \in Evaluations :
        agent[a].pc = "persist" /\ ~WithinLimits(agent[a].mode)
        => Requested \ agent[a].read # {} \/ ActiveRequests \ agent[a].active # {}
  <2> SUFFICES ASSUME CountedInv, NEW a \in Evaluations, agent[a].pc = "persist",
                      Requested \subseteq agent[a].read, ActiveRequests \subseteq agent[a].active
               PROVE  WithinLimits(agent[a].mode)
    OBVIOUS
  <2>1. /\ agent[a].active \subseteq Scopes /\ Cardinality(agent[a].active) < MaxActive
        /\ agent[a].mode = "automatic" => /\ Cardinality(Automatic("day")) < MaxPerDay
                                          /\ Cardinality(Automatic("week")) < MaxPerWeek
    BY DEF CountedInv, Counted
  <2>2. /\ Cardinality(ActiveRequests) <= Cardinality(agent[a].active)
        /\ Cardinality(ActiveRequests) \in Nat /\ Cardinality(agent[a].active) \in Nat
    BY <2>1, CardinalityOfPart
  <2>3. Cardinality(ActiveRequests) < MaxActive
    BY <2>1, <2>2, BoundsAssumption
  <2> QED
    BY <2>1, <2>3 DEF WithinLimits
<1>4. CountedInv =>
        [\A a \in Evaluations :
            /\ agent[a].pc = "persist" /\ ~WithinLimits(agent[a].mode)
            /\ Requested' # Requested /\ agent'[a] # agent[a]
            => Requested \ agent[a].read # {} \/ ActiveRequests \ agent[a].active # {}]_vars
  BY <1>3
<1> QED
  BY <1>1, <1>2, <1>4, Inductive, PTL DEF Spec, LimitsRaceOnly

-----------------------------------------------------------------------------
(* Monitoring evaluations and their alerts: the inductive invariant *)

Record == [version : Versions, window : M!Windows, report : Reports, saw : Nat,
           referenced : BOOLEAN, deleted : BOOLEAN]

AlertRow == [status : {"absent", "open", "acknowledged", "resolved"}, occurrences : Nat,
             evaluation : Nat]

CallerFields == {"pc", "window", "lease", "todo", "seen", "version", "report", "saw", "detect",
                 "type", "found", "clear", "writes", "result"}

\* The steps of a transaction, and of an evaluation.
Transacting == {"read", "write", "clear", "clearing"}
Evaluating == Transacting \cup {"insert"}

\* The alert types that a process has written.
TypesOf(writes) == {w[1] : w \in writes}
Types(q) == TypesOf(q.writes)

Conditions(q) == M!conditions(q.report)

\* A transaction has the row of its version and window for itself.
Fresh(q, evals) ==
    \A i \in DOMAIN evals :
        evals[i].deleted \/ evals[i].version # q.version \/ evals[i].window # q.window

\* What a transaction has written is what it will commit, because nobody else writes
\* those rows: a detection counts one more than the row, a resolution resolves it.
Outstanding(q, table) ==
    \A w \in q.writes :
        /\ w = <<w[1], w[2]>> /\ w[1] \in M!AlertTypes
        /\ IF w[1] \in Conditions(q)
           THEN w[2] = M!Detected(table[<<q.version, w[1]>>], 0)
           ELSE /\ M!Unresolved(table[<<q.version, w[1]>>])
                /\ w[2] = [table[<<q.version, w[1]>>] EXCEPT !.status = "resolved"]

\* What it does not detect, has not written and will not look at again is resolved, or was
\* detected after it began.
RestIsClear(q, table) ==
    \A t \in M!AlertTypes \ (Conditions(q) \cup q.clear \cup Types(q)) :
        M!Unresolved(table[<<q.version, t>>]) => table[<<q.version, t>>].evaluation > q.saw

CallerKnows(q, table, evals) ==
    /\ DOMAIN q = CallerFields
    /\ q.lease \in {"none", "live", "expired"}
    /\ q.lease # "none" => q.window \in M!Windows /\ q.todo \in 0 .. Aliases
    /\ q.pc \in Evaluating =>
          /\ q.version \in Versions /\ q.window \in M!Windows /\ q.report \in Reports
          /\ q.saw \in 0 .. M!Len(evals)
    /\ q.pc \notin Transacting => q.writes = {}
    /\ q.pc \in Transacting => Fresh(q, evals) /\ Outstanding(q, table)
    /\ q.pc \in {"read", "write"} =>
          q.detect \subseteq Conditions(q) /\ Conditions(q) \subseteq q.detect \cup Types(q)
    /\ q.pc = "write" => q.type \in q.detect
    /\ q.pc \in {"clear", "clearing"} => Conditions(q) \subseteq Types(q)
    /\ q.pc = "clearing" =>
          q.clear \subseteq M!AlertTypes \ Conditions(q) /\ RestIsClear(q, table)
    /\ q.pc \in {"next", "retrain"} => q.lease # "none"
    /\ q.pc = "retrain" => q.result \in DOMAIN evals

\* Two transactions are of different windows or versions, and hold different rows.
Disjoint(q, r) ==
    /\ q.pc \in Transacting /\ r.pc \in Transacting => q.version # r.version \/ q.window # r.window
    /\ q.version = r.version => Types(q) \cap Types(r) = {}

Hits(evals, k) ==
    {i \in DOMAIN evals : evals[i].version = k[1] /\ k[2] \in M!conditions(evals[i].report)}

EvaluationsTyped ==
    /\ evaluations \in M!Seq(Record)
    /\ \A i \in DOMAIN evaluations : evaluations[i].saw <= i - 1

AlertsTyped ==
    /\ alerts \in [M!Keys -> AlertRow]
    /\ \A k \in M!Keys :
         /\ alerts[k].evaluation <= M!Len(evaluations)
         /\ alerts[k].evaluation = 0 <=> alerts[k].status = "absent"

LeaseHeld ==
    /\ lock \in [M!Windows -> [owner : Callers \cup {None}, expired : BOOLEAN]]
    /\ \A c \in Callers :
         caller[c].lease = "live" =>
            lock[caller[c].window].owner = c /\ ~lock[caller[c].window].expired

CallersKnow ==
    /\ DOMAIN caller = Callers
    /\ \A c \in Callers : CallerKnows(caller[c], alerts, evaluations)
    /\ \A c, d \in Callers : c # d => Disjoint(caller[c], caller[d])

MonitorInv ==
    /\ now \in M!Windows /\ spent \in 0 .. MaxDisturbances
    /\ EvaluationsTyped /\ AlertsTyped /\ LeaseHeld /\ CallersKnow
    /\ M!OneEvaluation /\ M!OccurrencesMatch /\ M!LaterClears

-----------------------------------------------------------------------------

LEMMA ConditionsTyped == ASSUME NEW r PROVE M!conditions(r) \subseteq M!AlertTypes
  BY DEF M!conditions, M!AlertTypes

LEMMA IdleFields ==
    /\ DOMAIN M!Idle = CallerFields
    /\ M!Idle.pc = "idle" /\ M!Idle.lease = "none" /\ M!Idle.writes = {}
    /\ M!Idle.detect = {} /\ M!Idle.clear = {}
  BY DEF M!Idle, CallerFields

LEMMA IdleKnows == \A table, evals : CallerKnows(M!Idle, table, evals)
  BY IdleFields DEF CallerKnows, Transacting, Evaluating

\* What is enough for a process outside an evaluation.
LEMMA RunKnows ==
    ASSUME NEW q, NEW table, NEW evals,
           DOMAIN q = CallerFields, q.lease \in {"none", "live", "expired"},
           q.lease # "none" => q.window \in M!Windows /\ q.todo \in 0 .. Aliases,
           \/ q.pc = "idle"
           \/ q.pc = "next" /\ q.lease # "none"
           \/ q.pc = "retrain" /\ q.lease # "none" /\ q.result \in DOMAIN evals,
           q.writes = {}
    PROVE  CallerKnows(q, table, evals)
  BY DEF CallerKnows, Transacting, Evaluating

\* A run has its window and its aliases.
Going(q) ==
    /\ q.lease \in {"none", "live", "expired"}
    /\ q.lease # "none" => q.window \in M!Windows /\ q.todo \in 0 .. Aliases

\* It goes on from q to r without a transaction.
Resting(q, r) ==
    /\ r.pc \notin Transacting /\ r.writes = {}
    /\ r.lease = q.lease /\ (r.lease # "none" => r.window = q.window)

LEMMA AfterKnows ==
    ASSUME NEW me, Going(me), NEW evals, NEW result, NEW report,
           result = 0 \/ result \in DOMAIN evals
    PROVE  /\ \A table : CallerKnows(M!After(me, result, report), table, evals)
           /\ Resting(me, M!After(me, result, report))
<1> SUFFICES ASSUME NEW q, q = M!After(me, result, report), NEW table
             PROVE  CallerKnows(q, table, evals) /\ Resting(me, q)
  OBVIOUS
<1> USE DEF Resting, Going
<1>1. CASE me.lease = "none"
  BY <1>1, IdleFields, IdleKnows DEF M!After, M!Scheduled, Transacting
<1>2. CASE me.lease # "none"
  <2> DEFINE next == [M!Idle EXCEPT !.pc = "next", !.window = me.window, !.lease = me.lease,
                                    !.todo = me.todo, !.seen = me.seen]
  <2>1. q = next \/ (q = [next EXCEPT !.pc = "retrain", !.result = result] /\ result # 0)
    BY <1>2 DEF M!After, M!Scheduled
  <2>2. /\ DOMAIN next = CallerFields /\ next.pc = "next" /\ next.window = me.window
        /\ next.lease = me.lease /\ next.todo = me.todo /\ next.writes = {}
    BY IdleFields DEF CallerFields
  <2> HIDE DEF next
  <2>3. CASE q = next
    BY <1>2, <2>2, <2>3, RunKnows DEF Transacting
  <2>4. CASE q = [next EXCEPT !.pc = "retrain", !.result = result] /\ result # 0
    <3>1. /\ DOMAIN q = CallerFields /\ q.pc = "retrain" /\ q.window = me.window
          /\ q.lease = me.lease /\ q.todo = me.todo /\ q.writes = {} /\ q.result = result
      BY <2>2, <2>4 DEF CallerFields
    <3> QED
      BY <1>2, <2>4, <3>1, RunKnows DEF Transacting
  <2> QED
    BY <2>1, <2>3, <2>4
<1> QED
  BY <1>1, <1>2

LEMMA RecordsTyped ==
    ASSUME EvaluationsTyped
    PROVE  /\ M!Len(evaluations) \in Nat /\ DOMAIN evaluations = 1 .. M!Len(evaluations)
           /\ \A i \in DOMAIN evaluations :
                /\ evaluations[i].version \in Versions /\ evaluations[i].window \in M!Windows
                /\ evaluations[i].report \in Reports /\ evaluations[i].saw \in Nat
<1>1. /\ M!Len(evaluations) \in Nat /\ DOMAIN evaluations = 1 .. M!Len(evaluations)
      /\ \A i \in DOMAIN evaluations : evaluations[i] \in Record
  BY DEF EvaluationsTyped
<1>2. \A r \in Record : r.version \in Versions /\ r.window \in M!Windows
                        /\ r.report \in Reports /\ r.saw \in Nat
  BY DEF Record
<1> QED
  BY <1>1, <1>2

\* Only what the tables say matters to the properties of the tables.
LEMMA MonitorTablesStay ==
    ASSUME UNCHANGED <<evaluations, alerts>>, EvaluationsTyped, AlertsTyped,
           M!OneEvaluation, M!OccurrencesMatch, M!LaterClears
    PROVE  (EvaluationsTyped /\ AlertsTyped
              /\ M!OneEvaluation /\ M!OccurrencesMatch /\ M!LaterClears)'
  BY DEF EvaluationsTyped, AlertsTyped, M!OneEvaluation, M!OccurrencesMatch, M!LaterClears, M!Live

\* A step of one process, which the others do not notice.
LEMMA CallerMoves ==
    ASSUME CallersKnow, NEW c \in Callers, NEW q, caller' = [caller EXCEPT ![c] = q],
           CallerKnows(q, alerts', evaluations'),
           \A d \in Callers \ {c} : CallerKnows(caller[d], alerts', evaluations')
                                    /\ Disjoint(q, caller[d])
    PROVE  CallersKnow'
<1>1. /\ DOMAIN caller' = Callers /\ caller'[c] = q
      /\ \A d \in Callers \ {c} : caller'[d] = caller[d]
  BY DEF CallersKnow
<1>2. \A d \in Callers : CallerKnows(caller'[d], alerts', evaluations')
  BY <1>1
<1>3. ASSUME NEW d \in Callers, NEW e \in Callers, d # e
      PROVE  Disjoint(caller'[d], caller'[e])
  <2>1. CASE d = c
    BY <1>1, <1>3, <2>1
  <2>2. CASE e = c
    BY <1>1, <1>3, <2>2 DEF Disjoint
  <2>3. CASE d # c /\ e # c
    BY <1>1, <1>3, <2>3 DEF CallersKnow
  <2> QED
    BY <2>1, <2>2, <2>3
<1> QED
  BY <1>1, <1>2, <1>3 DEF CallersKnow

\* A process outside a transaction is in nobody's way.
LEMMA RestIsDisjoint ==
    ASSUME NEW q, NEW r, q.pc \notin Transacting, q.writes = {}
    PROVE  Disjoint(q, r)
  BY DEF Disjoint, Types, TypesOf

\* A lease lasts while its process keeps it and the lock stays.
LEMMA LeaseStays ==
    ASSUME LeaseHeld, DOMAIN caller = Callers, UNCHANGED lock, NEW c \in Callers, NEW q,
           caller' = [caller EXCEPT ![c] = q],
           q.lease = "live" => caller[c].lease = "live" /\ q.window = caller[c].window
    PROVE  LeaseHeld'
<1>1. /\ caller'[c] = q
      /\ \A d \in Callers \ {c} : caller'[d] = caller[d]
  OBVIOUS
<1> QED
  BY <1>1 DEF LeaseHeld

\* A statement of one process changes no table.
LEMMA StatementKeeps ==
    ASSUME MonitorInv, NEW c \in Callers, NEW q, caller' = [caller EXCEPT ![c] = q],
           UNCHANGED <<now, lock, evaluations, alerts>>,
           spent' \in 0 .. MaxDisturbances,
           CallerKnows(q, alerts, evaluations),
           \A d \in Callers \ {c} : Disjoint(q, caller[d]),
           q.lease = "live" => caller[c].lease = "live" /\ q.window = caller[c].window
    PROVE  MonitorInv'
<1>1. (EvaluationsTyped /\ AlertsTyped
              /\ M!OneEvaluation /\ M!OccurrencesMatch /\ M!LaterClears)'
  BY MonitorTablesStay DEF MonitorInv
<1>2. CallersKnow'
  BY CallerMoves DEF MonitorInv, CallersKnow
<1>3. LeaseHeld'
  BY LeaseStays DEF MonitorInv, CallersKnow
<1> QED
  BY <1>1, <1>2, <1>3 DEF MonitorInv

\* The end of an evaluation that leaves the tables as they are.
LEMMA EndKeeps ==
    ASSUME MonitorInv, NEW c \in Callers, NEW result, NEW report,
           result = 0 \/ result \in DOMAIN evaluations, NEW me, Going(me),
           me.lease = "live" => caller[c].lease = "live" /\ me.window = caller[c].window,
           caller' = [caller EXCEPT ![c] = M!After(me, result, report)],
           UNCHANGED <<now, lock, evaluations, alerts, spent>>
    PROVE  MonitorInv'
<1> DEFINE q == M!After(me, result, report)
<1>3. CallerKnows(q, alerts, evaluations) /\ Resting(me, q)
  BY AfterKnows
<1> HIDE DEF q
<1>4. \A d \in Callers \ {c} : Disjoint(q, caller[d])
  BY <1>3, RestIsDisjoint DEF Resting
<1>5. q.lease = "live" => caller[c].lease = "live" /\ q.window = caller[c].window
  BY <1>3 DEF Resting
<1>6. /\ caller' = [caller EXCEPT ![c] = q] /\ UNCHANGED <<now, lock, evaluations, alerts>>
      /\ spent' \in 0 .. MaxDisturbances
  BY DEF q, MonitorInv
<1> QED
  BY <1>3, <1>4, <1>5, <1>6, StatementKeeps

LEMMA CallerIs ==
    ASSUME MonitorInv, NEW c \in Callers
    PROVE  CallerKnows(caller[c], alerts, evaluations) /\ Going(caller[c])
           /\ DOMAIN caller[c] = CallerFields
  BY DEF MonitorInv, CallersKnow, CallerKnows, Going

\* The look for an existing evaluation.
LEMMA StartKeeps ==
    ASSUME MonitorInv, NEW c \in Callers, NEW me, DOMAIN me = CallerFields, Going(me),
           me.version \in Versions, me.window \in M!Windows, me.writes = {},
           me.lease = "live" => caller[c].lease = "live" /\ me.window = caller[c].window,
           M!StartEvaluation(c, me), UNCHANGED <<now, lock, evaluations, alerts, spent>>
    PROVE  MonitorInv'
<1> DEFINE existing == M!EvaluationOf(me.version, me.window)
<1>1. CASE existing # {}
  <2>1. PICK i \in existing :
            caller' = [caller EXCEPT ![c] = M!After(me, i, evaluations[i].report)]
    BY <1>1 DEF M!StartEvaluation, M!Set
  <2>2. i \in DOMAIN evaluations
    BY DEF M!EvaluationOf
  <2> QED
    BY <2>1, <2>2, EndKeeps
<1>2. CASE existing = {}
  <2>1. PICK report \in Reports :
            caller' = [caller EXCEPT ![c] = [me EXCEPT !.pc = "insert", !.report = report,
                                                       !.saw = M!Len(evaluations)]]
    BY <1>2 DEF M!StartEvaluation, M!Set
  <2> DEFINE q == [me EXCEPT !.pc = "insert", !.report = report, !.saw = M!Len(evaluations)]
  <2>2. /\ DOMAIN q = CallerFields /\ q.pc = "insert" /\ q.report = report
        /\ q.saw = M!Len(evaluations) /\ q.version = me.version /\ q.window = me.window
        /\ q.lease = me.lease /\ q.todo = me.todo /\ q.writes = {}
    BY DEF CallerFields
  <2>3. /\ caller' = [caller EXCEPT ![c] = q] /\ UNCHANGED <<now, lock, evaluations, alerts>>
        /\ spent' \in 0 .. MaxDisturbances /\ M!Len(evaluations) \in 0 .. M!Len(evaluations)
    BY <2>1, RecordsTyped DEF MonitorInv
  <2> HIDE DEF q
  <2>4. CallerKnows(q, alerts, evaluations)
    BY <2>2, <2>3 DEF CallerKnows, Transacting, Evaluating, Going
  <2>5. \A d \in Callers \ {c} : Disjoint(q, caller[d])
    BY <2>2, RestIsDisjoint DEF Transacting
  <2> QED
    BY <2>2, <2>3, <2>4, <2>5, StatementKeeps
<1> QED
  BY <1>1, <1>2

LEMMA RequestKeeps ==
    ASSUME M!MonitoringConstants, MonitorInv, NEW c \in Callers, M!Request(c) PROVE MonitorInv'
<1>1. PICK version \in Versions, window \in 1 .. now :
          M!StartEvaluation(c, [M!Idle EXCEPT !.version = version, !.window = window])
  BY DEF M!Request
<1> DEFINE me == [M!Idle EXCEPT !.version = version, !.window = window]
<1>2. /\ DOMAIN me = CallerFields /\ me.version = version /\ me.window = window
      /\ me.lease = "none" /\ me.writes = {}
  BY IdleFields DEF CallerFields
<1>3. window \in M!Windows
  BY DEF M!Windows, MonitorInv, M!MonitoringConstants
<1>4. M!StartEvaluation(c, me) /\ UNCHANGED <<now, lock, evaluations, alerts, spent>>
  BY <1>1 DEF M!Request
<1> HIDE DEF me
<1> QED
  BY <1>2, <1>3, <1>4, StartKeeps DEF Going

LEMMA NextAliasKeeps ==
    ASSUME M!MonitoringConstants, MonitorInv, NEW c \in Callers, M!NextAlias(c)
    PROVE  MonitorInv'
<1> DEFINE rest == [caller[c] EXCEPT !.todo = @ - 1]
<1>1. /\ caller[c].pc = "next" /\ caller[c].todo > 0
      /\ \/ caller' = [caller EXCEPT ![c] = rest]
         \/ \E version \in Versions \ caller[c].seen :
              M!StartEvaluation(c, [rest EXCEPT !.seen = @ \cup {version}, !.version = version])
      /\ UNCHANGED <<now, lock, evaluations, alerts, spent>>
  BY DEF M!NextAlias, M!Set
<1>2. /\ DOMAIN rest = CallerFields /\ rest.pc = "next" /\ rest.todo = caller[c].todo - 1
      /\ rest.lease = caller[c].lease /\ rest.window = caller[c].window /\ rest.writes = {}
  BY <1>1, CallerIs DEF CallerFields, CallerKnows, Transacting
<1> HIDE DEF rest
<1>6. caller[c].lease # "none" /\ caller[c].window \in M!Windows /\ caller[c].todo \in 0 .. Aliases
  BY <1>1, CallerIs DEF CallerKnows
<1>3. Going(rest)
  <2>2. \A n \in 0 .. Aliases : n > 0 => n - 1 \in 0 .. Aliases
    BY DEF M!MonitoringConstants
  <2>1. caller[c].todo - 1 \in 0 .. Aliases
    BY <1>1, <1>6, <2>2
  <2> QED
    BY <1>2, <1>6, <2>1, CallerIs DEF Going
<1>4. CASE caller' = [caller EXCEPT ![c] = rest]
  <2>1. CallerKnows(rest, alerts, evaluations)
    BY <1>2, <1>3, <1>6, RunKnows DEF Going
  <2>2. \A d \in Callers \ {c} : Disjoint(rest, caller[d])
    BY <1>2, RestIsDisjoint DEF Transacting
  <2>3. spent' \in 0 .. MaxDisturbances /\ UNCHANGED <<now, lock, evaluations, alerts>>
    BY <1>1 DEF MonitorInv
  <2> QED
    BY <1>2, <1>4, <2>1, <2>2, <2>3, StatementKeeps
<1>5. ASSUME NEW version \in Versions,
             M!StartEvaluation(c, [rest EXCEPT !.seen = @ \cup {version}, !.version = version])
      PROVE  MonitorInv'
  <2> DEFINE me == [rest EXCEPT !.seen = @ \cup {version}, !.version = version]
  <2>1. /\ DOMAIN me = CallerFields /\ me.version = version /\ me.todo = rest.todo
        /\ me.lease = rest.lease /\ me.window = rest.window /\ me.writes = {}
    BY <1>2 DEF CallerFields
  <2>2. M!StartEvaluation(c, me)
    BY <1>5
  <2> HIDE DEF me
  <2>3. Going(me)
    BY <1>3, <2>1 DEF Going
  <2>4. me.window \in M!Windows
    BY <1>2, <1>6, <2>1
  <2> QED
    BY <1>1, <1>2, <2>1, <2>2, <2>3, <2>4, StartKeeps
<1> QED
  BY <1>1, <1>4, <1>5

\* The statements of a transaction.

LEMMA InsertKeeps ==
    ASSUME MonitorInv, NEW c \in Callers, M!Insert(c) PROVE MonitorInv'
<1> DEFINE detected == M!conditions(caller[c].report)
           q == [caller[c] EXCEPT !.pc = IF detected = {} THEN "clear" ELSE "read",
                                  !.detect = detected]
<1>1. /\ caller[c].pc = "insert" /\ M!InsertWaits(c) = {}
      /\ UNCHANGED <<now, lock, evaluations, alerts, spent>>
      /\ IF M!Duplicate(c) # {}
         THEN LET i == CHOOSE i \in M!Duplicate(c) : TRUE
              IN caller' = [caller EXCEPT ![c] = M!After(caller[c], i, evaluations[i].report)]
         ELSE caller' = [caller EXCEPT ![c] = q]
  BY DEF M!Insert, M!Set
<1>2. CASE M!Duplicate(c) # {}
  <2>1. PICK i \in M!Duplicate(c) :
            caller' = [caller EXCEPT ![c] = M!After(caller[c], i, evaluations[i].report)]
    BY <1>1, <1>2
  <2>2. i \in DOMAIN evaluations
    BY DEF M!Duplicate, M!EvaluationOf
  <2> QED
    BY <1>1, <2>1, <2>2, CallerIs, EndKeeps
<1>3. CASE M!Duplicate(c) = {}
  <2>1. /\ DOMAIN q = CallerFields /\ q.pc = (IF detected = {} THEN "clear" ELSE "read")
        /\ q.report = caller[c].report /\ q.saw = caller[c].saw
        /\ q.version = caller[c].version /\ q.window = caller[c].window
        /\ q.lease = caller[c].lease /\ q.todo = caller[c].todo /\ q.writes = caller[c].writes
        /\ q.detect = detected
    BY CallerIs DEF CallerFields
  <2>2. caller' = [caller EXCEPT ![c] = q] /\ Conditions(q) = detected
    BY <1>1, <1>3, <2>1 DEF Conditions
  <2> HIDE DEF q, detected
  <2>3. CallerKnows(caller[c], alerts, evaluations) /\ q.writes = {}
    BY <1>1, <2>1, CallerIs DEF CallerKnows, Transacting
  <2>4. Fresh(q, evaluations)
    BY <1>3, <2>1 DEF Fresh, M!Duplicate, M!EvaluationOf, M!Live
  <2>5. Outstanding(q, alerts) /\ Types(q) = {}
    BY <2>3 DEF Outstanding, Types, TypesOf
  <2>6. CallerKnows(q, alerts, evaluations)
    BY <1>1, <2>1, <2>2, <2>3, <2>4, <2>5 DEF CallerKnows, Transacting, Evaluating
  <2>7. \A d \in Callers \ {c} : Disjoint(q, caller[d])
    BY <1>1, <2>1, <2>5 DEF Disjoint, M!InsertWaits, M!Open, Transacting
  <2>8. spent' \in 0 .. MaxDisturbances
    BY <1>1 DEF MonitorInv
  <2> QED
    BY <1>1, <2>1, <2>2, <2>6, <2>7, <2>8, StatementKeeps
<1> QED
  BY <1>2, <1>3

\* What a statement within the transaction keeps: its version, window, report and rows.
Continues(q, r) ==
    /\ DOMAIN r = CallerFields
    /\ r.version = q.version /\ r.window = q.window /\ r.report = q.report /\ r.saw = q.saw
    /\ r.lease = q.lease /\ r.todo = q.todo

LEMMA ContinuesKeeps ==
    ASSUME MonitorInv, NEW c \in Callers, caller[c].pc \in Transacting, NEW q,
           Continues(caller[c], q), q.pc \in Transacting,
           caller' = [caller EXCEPT ![c] = q],
           UNCHANGED <<now, lock, evaluations, alerts, spent>>,
           Outstanding(q, alerts),
           \A d \in Callers \ {c} :
              caller[d].version = q.version => Types(q) \cap Types(caller[d]) = {},
           q.pc \in {"read", "write"} =>
              q.detect \subseteq Conditions(q) /\ Conditions(q) \subseteq q.detect \cup Types(q),
           q.pc = "write" => q.type \in q.detect,
           q.pc \in {"clear", "clearing"} => Conditions(q) \subseteq Types(q),
           q.pc = "clearing" =>
              q.clear \subseteq M!AlertTypes \ Conditions(q) /\ RestIsClear(q, alerts)
    PROVE  MonitorInv'
<1>1. CallerKnows(caller[c], alerts, evaluations)
  BY CallerIs
<1>2. Fresh(q, evaluations)
  BY <1>1 DEF CallerKnows, Fresh, Continues
<1>3. CallerKnows(q, alerts, evaluations)
  BY <1>1, <1>2 DEF CallerKnows, Continues, Transacting, Evaluating
<1>4. \A d \in Callers \ {c} : Disjoint(q, caller[d])
  <2>1. \A d \in Callers \ {c} : Disjoint(caller[c], caller[d])
    BY DEF MonitorInv, CallersKnow
  <2> QED
    BY <2>1 DEF Disjoint, Continues
<1>5. spent' \in 0 .. MaxDisturbances /\ UNCHANGED <<now, lock, evaluations, alerts>>
  BY DEF MonitorInv
<1> QED
  BY <1>3, <1>4, <1>5, StatementKeeps DEF Continues

LEMMA ReadKeeps ==
    ASSUME MonitorInv, NEW c \in Callers, M!Read(c) PROVE MonitorInv'
<1>1. PICK type \in caller[c].detect :
          caller' = [caller EXCEPT ![c] =
              [caller[c] EXCEPT !.pc = "write", !.type = type,
                 !.found = alerts[<<caller[c].version, type>>] # M!NoAlert]]
  BY DEF M!Read, M!Set
<1> DEFINE q == [caller[c] EXCEPT !.pc = "write", !.type = type,
                 !.found = alerts[<<caller[c].version, type>>] # M!NoAlert]
<1>2. /\ Continues(caller[c], q) /\ q.pc = "write" /\ q.writes = caller[c].writes
      /\ q.detect = caller[c].detect /\ q.type = type
  BY CallerIs DEF Continues, CallerFields
<1>3. /\ caller' = [caller EXCEPT ![c] = q] /\ caller[c].pc = "read"
      /\ UNCHANGED <<now, lock, evaluations, alerts, spent>>
  BY <1>1 DEF M!Read
<1> HIDE DEF q
<1>4. Types(q) = Types(caller[c]) /\ Conditions(q) = Conditions(caller[c])
  BY <1>2 DEF Types, Conditions, Continues
<1>5. /\ Outstanding(caller[c], alerts)
      /\ caller[c].detect \subseteq Conditions(caller[c])
      /\ Conditions(caller[c]) \subseteq caller[c].detect \cup Types(caller[c])
  BY <1>3, CallerIs DEF CallerKnows, Transacting
<1>6. Outstanding(q, alerts)
  BY <1>2, <1>4, <1>5 DEF Outstanding, Continues
<1>7. \A d \in Callers \ {c} :
          caller[d].version = q.version => Types(q) \cap Types(caller[d]) = {}
  BY <1>2, <1>4 DEF Continues, MonitorInv, CallersKnow, Disjoint
<1> QED
  BY <1>1, <1>2, <1>3, <1>4, <1>5, <1>6, <1>7, ContinuesKeeps DEF Transacting

\* One more row is written.
Adds(q, p, type, row) == q.writes = p.writes \cup {<<type, row>>}

LEMMA TypesGrow ==
    ASSUME NEW p, NEW q, NEW type, NEW row, Adds(q, p, type, row)
    PROVE  Types(q) = Types(p) \cup {type}
<1>1. <<type, row>>[1] = type
  OBVIOUS
<1>2. \A w : w \in q.writes <=> w \in p.writes \/ w = <<type, row>>
  BY DEF Adds
<1>3. \A t : t \in Types(q) <=> \E w \in q.writes : t = w[1]
  BY DEF Types, TypesOf
<1>4. \A t : t \in Types(p) <=> \E w \in p.writes : t = w[1]
  BY DEF Types, TypesOf
<1> QED
  BY <1>1, <1>2, <1>3, <1>4

LEMMA OutstandingGrows ==
    ASSUME NEW p, Outstanding(p, alerts), NEW q, NEW type \in M!AlertTypes, NEW row,
           q.writes = p.writes \cup {<<type, row>>}, q.version = p.version, q.report = p.report,
           IF type \in Conditions(p)
           THEN row = M!Detected(alerts[<<p.version, type>>], 0)
           ELSE /\ M!Unresolved(alerts[<<p.version, type>>])
                /\ row = [alerts[<<p.version, type>>] EXCEPT !.status = "resolved"]
    PROVE  Outstanding(q, alerts)
<1>1. Conditions(q) = Conditions(p)
  BY DEF Conditions
<1>2. <<type, row>>[1] = type /\ <<type, row>>[2] = row
  OBVIOUS
<1> QED
  BY <1>1, <1>2 DEF Outstanding

\* Nobody else has written the row that c waited for.
LEMMA HeldByNobody ==
    ASSUME CallersKnow, NEW c \in Callers, NEW type, M!RowHeldBy(c, type) = {}, NEW q,
           q.version = caller[c].version, Types(q) = Types(caller[c]) \cup {type}
    PROVE  \A d \in Callers \ {c} :
              caller[d].version = q.version => Types(q) \cap Types(caller[d]) = {}
<1> SUFFICES ASSUME NEW d \in Callers \ {c}, caller[d].version = q.version
             PROVE  Types(q) \cap Types(caller[d]) = {}
  OBVIOUS
<1>1. type \notin Types(caller[d])
  BY DEF M!RowHeldBy, M!Written, Types, TypesOf
<1>2. Types(caller[c]) \cap Types(caller[d]) = {}
  BY DEF CallersKnow, Disjoint
<1> QED
  BY <1>1, <1>2

LEMMA WriteKeeps ==
    ASSUME MonitorInv, NEW c \in Callers, M!Write(c) PROVE MonitorInv'
<1> DEFINE type == caller[c].type
           row == alerts[<<caller[c].version, type>>]
           rest == caller[c].detect \ {type}
           q == [caller[c] EXCEPT !.pc = IF rest = {} THEN "clear" ELSE "read",
                         !.detect = rest, !.type = None, !.found = FALSE,
                         !.writes = @ \cup {<<type, M!redetect(c, row)>>}]
<1>1. /\ caller[c].pc = "write" /\ M!RowHeldBy(c, type) = {}
      /\ UNCHANGED <<now, lock, evaluations, alerts, spent>>
      /\ caller' = [caller EXCEPT ![c] = M!Fail(c)] \/ caller' = [caller EXCEPT ![c] = q]
  BY DEF M!Write, M!Set
<1>2. CASE caller' = [caller EXCEPT ![c] = M!Fail(c)]
  BY <1>1, <1>2, CallerIs, EndKeeps DEF M!Fail
<1>3. CASE caller' = [caller EXCEPT ![c] = q]
  <2>1. /\ Continues(caller[c], q) /\ q.pc = (IF rest = {} THEN "clear" ELSE "read")
        /\ q.writes = caller[c].writes \cup {<<type, M!Detected(row, 0)>>}
        /\ q.detect = rest
    BY CallerIs DEF Continues, CallerFields, M!redetect
  <2>2. /\ Outstanding(caller[c], alerts)
        /\ caller[c].detect \subseteq Conditions(caller[c])
        /\ Conditions(caller[c]) \subseteq caller[c].detect \cup Types(caller[c])
        /\ type \in caller[c].detect
    BY <1>1, CallerIs DEF CallerKnows, Transacting
  <2> HIDE DEF q
  <2> HIDE DEF type, row
  <2>a. Conditions(q) = Conditions(caller[c])
    BY <2>1 DEF Conditions, Continues
  <2>b. Types(q) = Types(caller[c]) \cup {type}
    <3> DEFINE new == M!Detected(row, 0)
    <3>1. Adds(q, caller[c], type, new)
      BY <2>1 DEF Adds
    <3> HIDE DEF new
    <3> QED
      BY <3>1, TypesGrow
  <2>3. Types(q) = Types(caller[c]) \cup {type} /\ Conditions(q) = Conditions(caller[c])
    BY <2>a, <2>b
  <2>4. type \in M!AlertTypes /\ type \in Conditions(caller[c])
    BY <2>2, ConditionsTyped DEF Conditions
  <2>5. Outstanding(q, alerts)
    BY <2>1, <2>2, <2>4, OutstandingGrows DEF Continues, row
  <2>6. q.version = caller[c].version
    BY <2>1 DEF Continues
  <2>7. \A d \in Callers \ {c} :
            caller[d].version = q.version => Types(q) \cap Types(caller[d]) = {}
    BY <1>1, <2>3, <2>6, HeldByNobody DEF MonitorInv
  <2>8. /\ q.pc \in Transacting /\ q.pc # "write" /\ q.pc # "clearing"
        /\ q.detect \subseteq Conditions(q) /\ Conditions(q) \subseteq q.detect \cup Types(q)
        /\ q.pc \in {"clear", "clearing"} => Conditions(q) \subseteq Types(q)
    BY <2>1, <2>2, <2>3 DEF Transacting
  <2> QED
    BY <1>1, <1>3, <2>1, <2>5, <2>7, <2>8, ContinuesKeeps DEF Transacting
<1> QED
  BY <1>1, <1>2, <1>3

LEMMA ClearKeeps ==
    ASSUME MonitorInv, NEW c \in Callers, M!Clear(c) PROVE MonitorInv'
<1> DEFINE found == {type \in M!AlertTypes \ M!conditions(caller[c].report) :
                        M!Clears(alerts[<<caller[c].version, type>>])}
           q == [caller[c] EXCEPT !.pc = "clearing", !.clear = found]
<1>1. /\ caller[c].pc = "clear" /\ caller' = [caller EXCEPT ![c] = q]
      /\ UNCHANGED <<now, lock, evaluations, alerts, spent>>
  BY DEF M!Clear, M!Set
<1>2. /\ Continues(caller[c], q) /\ q.pc = "clearing" /\ q.writes = caller[c].writes
      /\ q.clear = found
  BY CallerIs DEF Continues, CallerFields
<1> HIDE DEF q
<1>3. Types(q) = Types(caller[c]) /\ Conditions(q) = Conditions(caller[c])
  BY <1>2 DEF Types, Conditions, Continues
<1>4. Outstanding(caller[c], alerts) /\ Conditions(caller[c]) \subseteq Types(caller[c])
  BY <1>1, CallerIs DEF CallerKnows, Transacting
<1>5. Outstanding(q, alerts)
  BY <1>2, <1>3, <1>4 DEF Outstanding, Continues
<1>6. \A d \in Callers \ {c} :
          caller[d].version = q.version => Types(q) \cap Types(caller[d]) = {}
  BY <1>2, <1>3 DEF Continues, MonitorInv, CallersKnow, Disjoint
<1>7. q.clear \subseteq M!AlertTypes \ Conditions(q) /\ RestIsClear(q, alerts)
  BY <1>2, <1>3 DEF RestIsClear, Conditions, Continues, M!Clears
<1> QED
  BY <1>1, <1>2, <1>3, <1>4, <1>5, <1>6, <1>7, ContinuesKeeps DEF Transacting

LEMMA ClearRowKeeps ==
    ASSUME MonitorInv, NEW c \in Callers, M!ClearRow(c) PROVE MonitorInv'
<1>1. PICK type \in caller[c].clear :
          /\ M!RowHeldBy(c, type) = {}
          /\ caller' = [caller EXCEPT ![c] =
                [caller[c] EXCEPT !.clear = @ \ {type},
                   !.writes = IF M!Clears(alerts[<<caller[c].version, type>>])
                              THEN @ \cup {<<type, [alerts[<<caller[c].version, type>>]
                                                        EXCEPT !.status = "resolved"]>>}
                              ELSE @]]
  BY DEF M!ClearRow, M!Set
<1> DEFINE row == alerts[<<caller[c].version, type>>]
           new == [row EXCEPT !.status = "resolved"]
           q == [caller[c] EXCEPT !.clear = @ \ {type},
                   !.writes = IF M!Clears(row) THEN @ \cup {<<type, new>>} ELSE @]
<1>2. /\ caller[c].pc = "clearing" /\ caller' = [caller EXCEPT ![c] = q]
      /\ UNCHANGED <<now, lock, evaluations, alerts, spent>>
  BY <1>1 DEF M!ClearRow
<1>3. /\ Continues(caller[c], q) /\ q.pc = "clearing" /\ q.clear = caller[c].clear \ {type}
      /\ q.writes = IF M!Clears(row) THEN caller[c].writes \cup {<<type, new>>}
                    ELSE caller[c].writes
  BY <1>2, CallerIs DEF Continues, CallerFields
<1>4. /\ Outstanding(caller[c], alerts) /\ Conditions(caller[c]) \subseteq Types(caller[c])
      /\ caller[c].clear \subseteq M!AlertTypes \ Conditions(caller[c])
      /\ RestIsClear(caller[c], alerts)
  BY <1>2, CallerIs DEF CallerKnows, Transacting
<1> HIDE DEF q
<1>5. Conditions(q) = Conditions(caller[c]) /\ q.version = caller[c].version
      /\ q.saw = caller[c].saw
  BY <1>3 DEF Conditions, Continues
<1>6. type \in M!AlertTypes /\ type \notin Conditions(caller[c])
  BY <1>4
<1>7. /\ Outstanding(q, alerts) /\ Types(caller[c]) \subseteq Types(q)
      /\ \A d \in Callers \ {c} :
            caller[d].version = q.version => Types(q) \cap Types(caller[d]) = {}
      /\ RestIsClear(q, alerts)
  <2>1. CASE M!Clears(row)
    <3>1. Types(q) = Types(caller[c]) \cup {type}
      <4>1. Adds(q, caller[c], type, new)
        BY <1>3, <2>1 DEF Adds
      <4> HIDE DEF new
      <4> QED
        BY <4>1, TypesGrow
    <3>2. Outstanding(q, alerts)
      <4>1. q.writes = caller[c].writes \cup {<<type, new>>} /\ q.report = caller[c].report
        BY <1>3, <2>1 DEF Continues
      <4>2. M!Unresolved(row)
        BY <2>1 DEF M!Clears
      <4> QED
        BY <1>4, <1>5, <1>6, <4>1, <4>2, OutstandingGrows
    <3>3. RestIsClear(q, alerts)
      BY <1>3, <1>4, <1>5, <3>1 DEF RestIsClear
    <3> QED
      BY <1>1, <1>5, <3>1, <3>2, <3>3, HeldByNobody DEF MonitorInv
  <2>2. CASE ~M!Clears(row)
    <3>1. Types(q) = Types(caller[c])
      BY <1>3, <2>2 DEF Types
    <3>2. Outstanding(q, alerts)
      BY <1>3, <1>4, <1>5, <2>2 DEF Outstanding
    <3>3. RestIsClear(q, alerts)
      BY <1>3, <1>4, <1>5, <2>2, <3>1 DEF RestIsClear, M!Clears
    <3> QED
      BY <1>5, <3>1, <3>2, <3>3 DEF MonitorInv, CallersKnow, Disjoint
  <2> QED
    BY <2>1, <2>2
<1>8. q.clear \subseteq M!AlertTypes \ Conditions(q) /\ Conditions(q) \subseteq Types(q)
  BY <1>3, <1>4, <1>5, <1>7
<1> QED
  BY <1>2, <1>3, <1>7, <1>8, ContinuesKeeps DEF Transacting

LEMMA DeadlockKeeps ==
    ASSUME MonitorInv, NEW c \in Callers, M!Deadlock(c) PROVE MonitorInv'
<1>1. /\ caller' = [caller EXCEPT ![c] = M!After(caller[c], 0, None)]
      /\ UNCHANGED <<now, lock, evaluations, alerts, spent>>
  BY DEF M!Deadlock, M!Set, M!Fail
<1>2. Going(caller[c])
  BY CallerIs
<1> QED
  BY <1>1, <1>2, EndKeeps

\* A mark on the row of an evaluation: a reference, or its deletion.
Marked(evals) ==
    /\ DOMAIN evals = DOMAIN evaluations /\ M!Len(evals) = M!Len(evaluations)
    /\ \A i \in DOMAIN evaluations :
         /\ evals[i].version = evaluations[i].version /\ evals[i].window = evaluations[i].window
         /\ evals[i].report = evaluations[i].report /\ evals[i].saw = evaluations[i].saw
         /\ evaluations[i].deleted => evals[i].deleted

LEMMA MarkedTables ==
    ASSUME MonitorInv, evaluations' \in M!Seq(Record), Marked(evaluations'), UNCHANGED alerts
    PROVE  (EvaluationsTyped /\ AlertsTyped
              /\ M!OneEvaluation /\ M!OccurrencesMatch /\ M!LaterClears)'
<1> USE DEF MonitorInv
<1>1. EvaluationsTyped'
  BY DEF EvaluationsTyped, Marked
<1>2. AlertsTyped'
  BY DEF AlertsTyped, Marked
<1>3. M!OneEvaluation'
  BY DEF M!OneEvaluation, M!Live, Marked
<1>4. M!OccurrencesMatch'
  <2>1. \A k : Hits(evaluations', k) = Hits(evaluations, k)
    BY DEF Hits, Marked
  <2>2. \A k \in M!Keys : alerts[k].occurrences = M!Cardinality(Hits(evaluations, k))
    BY DEF M!OccurrencesMatch, Hits
  <2>3. \A k \in M!Keys : alerts'[k].occurrences = M!Cardinality(Hits(evaluations', k))
    BY <2>1, <2>2
  <2> QED
    BY <2>3 DEF M!OccurrencesMatch, Hits
<1>5. M!LaterClears'
  BY DEF M!LaterClears, Marked
<1> QED
  BY <1>1, <1>2, <1>3, <1>4, <1>5

LEMMA MarkedKnows ==
    ASSUME NEW q, CallerKnows(q, alerts, evaluations), Marked(evaluations'), UNCHANGED alerts
    PROVE  CallerKnows(q, alerts', evaluations')
<1>1. Fresh(q, evaluations) => Fresh(q, evaluations')
  BY DEF Fresh, Marked
<1> QED
  BY <1>1 DEF CallerKnows, Marked

LEMMA RowMarked ==
    ASSUME EvaluationsTyped, NEW i \in DOMAIN evaluations,
           \/ evaluations' = [evaluations EXCEPT ![i].referenced = TRUE]
           \/ evaluations' = [evaluations EXCEPT ![i].deleted = TRUE]
    PROVE  evaluations' \in M!Seq(Record) /\ Marked(evaluations')
<1>1. M!Len(evaluations) \in Nat /\ DOMAIN evaluations = 1 .. M!Len(evaluations)
      /\ \A j \in DOMAIN evaluations : evaluations[j] \in Record
  BY DEF EvaluationsTyped
<1> DEFINE row == evaluations[i]
<1>2. PICK new :
        /\ new = [row EXCEPT !.referenced = TRUE] \/ new = [row EXCEPT !.deleted = TRUE]
        /\ evaluations' = [evaluations EXCEPT ![i] = new]
  OBVIOUS
<1>3. /\ new \in Record /\ new.version = row.version /\ new.window = row.window
      /\ new.report = row.report /\ new.saw = row.saw /\ (row.deleted => new.deleted)
  <2>1. row \in Record
    BY <1>1
  <2> HIDE DEF row
  <2> QED
    BY <1>2, <2>1 DEF Record
<1> HIDE DEF row
<1>4. evaluations' \in M!Seq(Record)
  <2>1. evaluations \in M!Seq(Record)
    BY DEF EvaluationsTyped
  <2> QED
    BY <1>2, <1>3, <2>1
<1>5. DOMAIN evaluations' = DOMAIN evaluations /\ M!Len(evaluations') = M!Len(evaluations)
  BY <1>1, <1>2, <1>4
<1>6. evaluations'[i] = new /\ \A j \in DOMAIN evaluations \ {i} : evaluations'[j] = evaluations[j]
  BY <1>2
<1> QED
  BY <1>3, <1>4, <1>5, <1>6 DEF Marked, row

LEMMA SameRowsAreMarked ==
    ASSUME EvaluationsTyped, UNCHANGED evaluations
    PROVE  evaluations' \in M!Seq(Record) /\ Marked(evaluations')
  BY DEF EvaluationsTyped, Marked

LEMMA DisturbStays ==
    ASSUME M!MonitoringConstants, spent \in 0 .. MaxDisturbances, M!Disturb
    PROVE  spent' \in 0 .. MaxDisturbances
  BY DEF M!MonitoringConstants, M!Disturb

LEMMA RetainKeeps == ASSUME M!MonitoringConstants, MonitorInv, M!Retain PROVE MonitorInv'
<1>1. /\ evaluations' \in M!Seq(Record) /\ Marked(evaluations')
      /\ UNCHANGED <<now, lock, alerts, caller>> /\ M!Disturb
  BY RowMarked DEF M!Retain, MonitorInv
<1>2. CallersKnow'
  BY <1>1, MarkedKnows DEF MonitorInv, CallersKnow
<1>3. spent' \in 0 .. MaxDisturbances
  BY <1>1, DisturbStays DEF MonitorInv
<1> QED
  BY <1>1, <1>2, <1>3, MarkedTables DEF MonitorInv, LeaseHeld

LEMMA RetrainKeeps ==
    ASSUME MonitorInv, NEW c \in Callers, M!Retrain(c) PROVE MonitorInv'
<1> DEFINE q == [caller[c] EXCEPT !.pc = "next", !.result = 0]
<1>1. /\ caller[c].pc = "retrain" /\ caller' = [caller EXCEPT ![c] = q]
      /\ UNCHANGED <<now, lock, alerts, spent>>
      /\ \/ evaluations' = [evaluations EXCEPT ![caller[c].result].referenced = TRUE]
         \/ UNCHANGED evaluations
  BY DEF M!Retrain, M!Set
<1>2. CallerKnows(caller[c], alerts, evaluations) /\ caller[c].lease # "none"
      /\ caller[c].result \in DOMAIN evaluations /\ caller[c].writes = {}
  BY <1>1, CallerIs DEF CallerKnows, Transacting
<1>3. evaluations' \in M!Seq(Record) /\ Marked(evaluations')
  BY <1>1, <1>2, RowMarked, SameRowsAreMarked DEF MonitorInv
<1>4. /\ DOMAIN q = CallerFields /\ q.pc = "next" /\ q.lease = caller[c].lease
      /\ q.window = caller[c].window /\ q.todo = caller[c].todo /\ q.writes = {}
  BY <1>2, CallerIs DEF CallerFields
<1> HIDE DEF q
<1>5. CallerKnows(q, alerts', evaluations')
  BY <1>2, <1>4, CallerIs, RunKnows DEF Going
<1>6. \A d \in Callers \ {c} : CallerKnows(caller[d], alerts', evaluations')
                               /\ Disjoint(q, caller[d])
  BY <1>1, <1>3, <1>4, CallerIs, MarkedKnows, RestIsDisjoint DEF Transacting
<1>7. CallersKnow'
  BY <1>1, <1>5, <1>6, CallerMoves DEF MonitorInv
<1>8. LeaseHeld'
  BY <1>1, <1>4, LeaseStays DEF MonitorInv, CallersKnow
<1> QED
  BY <1>1, <1>3, <1>7, <1>8, MarkedTables DEF MonitorInv

\* Locks, leases and crashes.

LEMMA LockIs ==
    ASSUME LeaseHeld, NEW w \in M!Windows
    PROVE  lock[w].owner \in Callers \cup {None} /\ lock[w].expired \in BOOLEAN
           /\ lock[w] = [owner |-> lock[w].owner, expired |-> lock[w].expired]
  BY DEF LeaseHeld

LEMMA ReleaseKeeps ==
    ASSUME MonitorInv, NEW c \in Callers, M!Release(c) PROVE MonitorInv'
<1>1. /\ caller[c].pc = "next" /\ lock' = M!release_lock(c)
      /\ caller' = [caller EXCEPT ![c] = M!Idle] /\ UNCHANGED <<now, spent, evaluations, alerts>>
  BY DEF M!Release, M!Set
<1>2. caller[c].window \in M!Windows
  BY <1>1, CallerIs DEF CallerKnows
<1>3. CallersKnow'
  <2>1. \A d \in Callers \ {c} : CallerKnows(caller[d], alerts', evaluations')
                                 /\ Disjoint(M!Idle, caller[d])
    BY <1>1, CallerIs, IdleFields, RestIsDisjoint DEF Transacting
  <2> QED
    BY <1>1, <2>1, IdleKnows, CallerMoves DEF MonitorInv
<1>4. LeaseHeld'
  <2>1. /\ caller'[c].lease = "none" /\ \A d \in Callers \ {c} : caller'[d] = caller[d]
    BY <1>1, IdleFields DEF MonitorInv, CallersKnow
  <2>2. lock' \in [M!Windows -> [owner : Callers \cup {None}, expired : BOOLEAN]]
    BY <1>1, <1>2 DEF MonitorInv, LeaseHeld, M!release_lock, M!NoLock
  <2>3. ASSUME NEW d \in Callers \ {c}, caller[d].lease = "live"
        PROVE  lock'[caller[d].window] = lock[caller[d].window]
    <3>1. lock[caller[d].window].owner = d
      BY <2>3 DEF MonitorInv, LeaseHeld
    <3>2. caller[c].window = caller[d].window => lock' = lock
      BY <1>1, <3>1 DEF M!release_lock
    <3>3. caller[c].window # caller[d].window =>
            lock'[caller[d].window] = lock[caller[d].window]
      BY <1>1 DEF M!release_lock
    <3> QED
      BY <3>2, <3>3
  <2> QED
    BY <2>1, <2>2, <2>3 DEF MonitorInv, LeaseHeld
<1> QED
  BY <1>1, <1>3, <1>4, MonitorTablesStay DEF MonitorInv

LEMMA AcquireKeeps ==
    ASSUME M!MonitoringConstants, MonitorInv, NEW c \in Callers, M!Acquire(c) PROVE MonitorInv'
<1> DEFINE free == lock[now] = M!NoLock \/ lock[now].expired
           q == [M!Idle EXCEPT !.pc = "next", !.window = now, !.lease = "live",
                               !.todo = Aliases]
           held == [lock EXCEPT ![now] = [owner |-> c, expired |-> FALSE]]
<1>1. /\ caller[c].pc = "idle" /\ UNCHANGED <<now, evaluations, alerts, spent>>
      /\ \/ free /\ lock' = held /\ caller' = [caller EXCEPT ![c] = q]
         \/ lock' = lock /\ caller' = [caller EXCEPT ![c] = M!Idle]
  BY DEF M!Acquire, M!Set
<1>2. CASE lock' = lock /\ caller' = [caller EXCEPT ![c] = M!Idle]
  <2>1. \A d \in Callers \ {c} : Disjoint(M!Idle, caller[d])
    BY IdleFields, RestIsDisjoint DEF Transacting
  <2>2. spent' \in 0 .. MaxDisturbances
    BY <1>1 DEF MonitorInv
  <2> QED
    BY <1>1, <1>2, <2>1, <2>2, IdleKnows, IdleFields, StatementKeeps
<1>3. CASE free /\ lock' = held /\ caller' = [caller EXCEPT ![c] = q]
  <2>1. /\ DOMAIN q = CallerFields /\ q.pc = "next" /\ q.window = now /\ q.lease = "live"
        /\ q.todo = Aliases /\ q.writes = {}
    BY IdleFields DEF CallerFields
  <2> HIDE DEF q
  <2>2. now \in M!Windows /\ Aliases \in 0 .. Aliases
    BY DEF MonitorInv, M!MonitoringConstants
  <2>3. CallerKnows(q, alerts', evaluations')
    BY <2>1, <2>2, RunKnows
  <2>4. \A d \in Callers \ {c} : CallerKnows(caller[d], alerts', evaluations')
                                 /\ Disjoint(q, caller[d])
    BY <1>1, <2>1, CallerIs, RestIsDisjoint DEF Transacting
  <2>5. CallersKnow'
    BY <1>3, <2>3, <2>4, CallerMoves DEF MonitorInv
  <2>6. LeaseHeld'
    <3>1. /\ caller'[c] = q /\ \A d \in Callers \ {c} : caller'[d] = caller[d]
      BY <1>3 DEF MonitorInv, CallersKnow
    <3>2. /\ lock' \in [M!Windows -> [owner : Callers \cup {None}, expired : BOOLEAN]]
          /\ lock'[now] = [owner |-> c, expired |-> FALSE]
          /\ \A w \in M!Windows \ {now} : lock'[w] = lock[w]
      BY <1>3, <2>2 DEF MonitorInv, LeaseHeld
    <3>3. ASSUME NEW d \in Callers \ {c}, caller[d].lease = "live"
          PROVE  caller[d].window # now /\ caller[d].window \in M!Windows
      <4>1. lock[caller[d].window].owner = d /\ ~lock[caller[d].window].expired
        BY <3>3 DEF MonitorInv, LeaseHeld
      <4>2. caller[d].window \in M!Windows
        BY <3>3, CallerIs DEF Going
      <4>3. lock[now] = M!NoLock => lock[now].owner # d
        BY DEF M!NoLock, M!MonitoringConstants
      <4> QED
        BY <1>3, <4>1, <4>2, <4>3
    <3> QED
      BY <2>1, <3>1, <3>2, <3>3 DEF MonitorInv, LeaseHeld
  <2> QED
    BY <1>1, <2>5, <2>6, MonitorTablesStay DEF MonitorInv
<1> QED
  BY <1>1, <1>2, <1>3

LEMMA CrashKeeps ==
    ASSUME M!MonitoringConstants, MonitorInv, NEW c \in Callers, M!Crash(c) PROVE MonitorInv'
<1>1. /\ M!Disturb /\ caller' = [caller EXCEPT ![c] = M!Idle]
      /\ UNCHANGED <<now, lock, evaluations, alerts>>
  BY DEF M!Crash, M!Set
<1>2. \A d \in Callers \ {c} : Disjoint(M!Idle, caller[d])
  BY IdleFields, RestIsDisjoint DEF Transacting
<1>3. spent' \in 0 .. MaxDisturbances
  BY <1>1, DisturbStays DEF MonitorInv
<1> QED
  BY <1>1, <1>2, <1>3, IdleKnows, IdleFields, StatementKeeps

LEMMA TickKeeps == ASSUME M!MonitoringConstants, MonitorInv, M!Tick PROVE MonitorInv'
<1>1. now' \in M!Windows /\ UNCHANGED <<lock, evaluations, alerts, caller, spent>>
  BY DEF M!Tick, MonitorInv, M!Windows, M!MonitoringConstants
<1>2. LeaseHeld' /\ CallersKnow'
  BY <1>1 DEF MonitorInv, LeaseHeld, CallersKnow
<1> QED
  BY <1>1, <1>2, MonitorTablesStay DEF MonitorInv

LEMMA ExpireKeeps == ASSUME M!MonitoringConstants, MonitorInv, M!Expire PROVE MonitorInv'
<1>1. PICK w \in M!Windows :
        /\ lock[w] # M!NoLock /\ ~lock[w].expired
        /\ lock' = [lock EXCEPT ![w].expired = TRUE]
        /\ caller' = [c \in Callers |->
                IF c = lock[w].owner /\ caller[c].lease = "live" /\ caller[c].window = w
                THEN [caller[c] EXCEPT !.lease = "expired"] ELSE caller[c]]
  BY DEF M!Expire
<1>2. M!Disturb /\ UNCHANGED <<now, evaluations, alerts>>
  BY DEF M!Expire
<1>3. spent' \in 0 .. MaxDisturbances
  BY <1>2, DisturbStays DEF MonitorInv
<1>4. ASSUME NEW c \in Callers
      PROVE  /\ CallerKnows(caller'[c], alerts, evaluations)
             /\ caller'[c].pc = caller[c].pc /\ caller'[c].writes = caller[c].writes
             /\ caller'[c].version = caller[c].version /\ caller'[c].window = caller[c].window
  <2>1. CASE caller'[c] = caller[c]
    BY <2>1, CallerIs
  <2>2. CASE caller'[c] = [caller[c] EXCEPT !.lease = "expired"] /\ caller[c].lease = "live"
    <3> DEFINE p == caller[c]
               q == [p EXCEPT !.lease = "expired"]
    <3>1. CallerKnows(p, alerts, evaluations) /\ DOMAIN p = CallerFields /\ p.lease = "live"
      BY <2>2, CallerIs
    <3>2. /\ DOMAIN q = CallerFields
          /\ q.pc = p.pc /\ q.writes = p.writes /\ q.version = p.version
          /\ q.window = p.window /\ q.report = p.report /\ q.saw = p.saw /\ q.todo = p.todo
          /\ q.detect = p.detect /\ q.type = p.type /\ q.clear = p.clear
          /\ q.result = p.result /\ q.lease = "expired"
      BY <3>1 DEF CallerFields
    <3> HIDE DEF p, q
    <3>3. Types(q) = Types(p) /\ Conditions(q) = Conditions(p)
      BY <3>2 DEF Types, Conditions
    <3>4. (Fresh(p, evaluations) => Fresh(q, evaluations))
          /\ (Outstanding(p, alerts) => Outstanding(q, alerts))
          /\ (RestIsClear(p, alerts) => RestIsClear(q, alerts))
      BY <3>2, <3>3 DEF Fresh, Outstanding, RestIsClear
    <3>5. CallerKnows(q, alerts, evaluations)
      BY <3>1, <3>2, <3>3, <3>4 DEF CallerKnows
    <3> QED
      BY <2>2, <3>2, <3>5 DEF p, q
  <2> QED
    BY <1>1, <2>1, <2>2
<1>5. CallersKnow'
  <2>1. \A c, d \in Callers : c # d => Disjoint(caller'[c], caller'[d])
    BY <1>4 DEF MonitorInv, CallersKnow, Disjoint, Types
  <2>2. DOMAIN caller' = Callers
    BY <1>1
  <2> QED
    BY <1>2, <1>4, <2>1, <2>2 DEF CallersKnow
<1>6. LeaseHeld'
  <2>1. /\ lock' \in [M!Windows -> [owner : Callers \cup {None}, expired : BOOLEAN]]
        /\ \A v \in M!Windows \ {w} : lock'[v] = lock[v]
    BY <1>1 DEF MonitorInv, LeaseHeld
  <2>2. ASSUME NEW c \in Callers, caller'[c].lease = "live"
        PROVE  caller[c].lease = "live" /\ caller'[c].window = caller[c].window
               /\ caller[c].window \in M!Windows \ {w}
    <3>1. "live" # "expired" /\ DOMAIN caller[c] = CallerFields
      BY CallerIs
    <3>2. caller'[c] = caller[c] /\ ~(c = lock[w].owner /\ caller[c].lease = "live"
                                      /\ caller[c].window = w)
      BY <1>1, <2>2, <3>1 DEF CallerFields
    <3>3. lock[caller[c].window].owner = c /\ caller[c].window \in M!Windows
      BY <2>2, <3>2, CallerIs DEF MonitorInv, LeaseHeld, Going
    <3> QED
      BY <2>2, <3>2, <3>3
  <2> QED
    BY <2>1, <2>2 DEF MonitorInv, LeaseHeld
<1> QED
  BY <1>2, <1>3, <1>5, <1>6, MonitorTablesStay DEF MonitorInv

\* What people and maintenance do: the counts and the evaluations of the alerts stay, an
\* alert that no transaction has written may be acknowledged or resolved.
Handled(table) ==
    /\ table \in [M!Keys -> AlertRow]
    /\ \A k \in M!Keys :
         /\ table[k].occurrences = alerts[k].occurrences
         /\ table[k].evaluation = alerts[k].evaluation
         /\ table[k].status = "absent" <=> alerts[k].status = "absent"
         /\ M!Unresolved(table[k]) => M!Unresolved(alerts[k])
         /\ table[k] = alerts[k] \/ M!Untouched(k)

LEMMA HandledKeeps ==
    ASSUME M!MonitoringConstants, MonitorInv, Handled(alerts'), M!Disturb,
           UNCHANGED <<now, lock, evaluations, caller>>
    PROVE  MonitorInv'
<1>1. spent' \in 0 .. MaxDisturbances
  BY DisturbStays DEF MonitorInv
<1>2. EvaluationsTyped' /\ M!OneEvaluation' /\ LeaseHeld'
  BY DEF MonitorInv, EvaluationsTyped, M!OneEvaluation, M!Live, LeaseHeld
<1>3. AlertsTyped'
  BY DEF MonitorInv, AlertsTyped, Handled
<1>4. M!OccurrencesMatch'
  BY DEF MonitorInv, M!OccurrencesMatch, Handled
<1>5. M!LaterClears'
  BY DEF MonitorInv, M!LaterClears, Handled
<1>6. ASSUME NEW c \in Callers
      PROVE  CallerKnows(caller[c], alerts', evaluations)
  <2>1. CallerKnows(caller[c], alerts, evaluations)
    BY CallerIs
  <2>2. ASSUME caller[c].pc \in Transacting
        PROVE  Outstanding(caller[c], alerts')
    <3>1. /\ Outstanding(caller[c], alerts) /\ caller[c].version \in Versions
      BY <2>1, <2>2 DEF CallerKnows, Evaluating
    <3>2. ASSUME NEW w \in caller[c].writes
          PROVE  alerts'[<<caller[c].version, w[1]>>] = alerts[<<caller[c].version, w[1]>>]
      <4> DEFINE k == <<caller[c].version, w[1]>>
      <4>1. w[1] \in M!AlertTypes
        BY <3>1 DEF Outstanding
      <4>2. k \in M!Keys /\ k[1] = caller[c].version /\ k[2] = w[1]
        BY <3>1, <4>1 DEF M!Keys
      <4>3. w[1] \in M!Written(c)
        BY DEF M!Written
      <4>4. ~M!Untouched(k)
        BY <4>2, <4>3 DEF M!Untouched
      <4> QED
        BY <4>2, <4>4 DEF Handled
    <3> QED
      BY <3>1, <3>2 DEF Outstanding
  <2>3. ASSUME caller[c].pc = "clearing"
        PROVE  RestIsClear(caller[c], alerts')
    <3>1. caller[c].version \in Versions /\ RestIsClear(caller[c], alerts)
      BY <2>1, <2>3 DEF CallerKnows, Evaluating, Transacting
    <3>2. \A t \in M!AlertTypes : <<caller[c].version, t>> \in M!Keys
      BY <3>1 DEF M!Keys
    <3> QED
      BY <3>1, <3>2 DEF RestIsClear, Handled
  <2> QED
    BY <2>1, <2>2, <2>3 DEF CallerKnows
<1>7. CallersKnow'
  BY <1>6 DEF MonitorInv, CallersKnow
<1> QED
  BY <1>1, <1>2, <1>3, <1>4, <1>5, <1>7 DEF MonitorInv

LEMMA RowIs ==
    ASSUME AlertsTyped, NEW k \in M!Keys, NEW status \in {"acknowledged", "resolved"}, NEW new,
           M!Unresolved(alerts[k]), new = [alerts[k] EXCEPT !.status = status]
    PROVE  /\ new \in AlertRow /\ new.occurrences = alerts[k].occurrences
           /\ new.evaluation = alerts[k].evaluation
           /\ new.status # "absent" /\ alerts[k].status # "absent"
  BY DEF AlertsTyped, AlertRow, M!Unresolved

LEMMA AcknowledgeKeeps ==
    ASSUME M!MonitoringConstants, MonitorInv, M!Acknowledge PROVE MonitorInv'
<1>1. PICK k \in M!Keys : alerts[k].status = "open" /\ M!Untouched(k)
                          /\ alerts' = [alerts EXCEPT ![k].status = "acknowledged"]
  BY DEF M!Acknowledge
<1> DEFINE new == [alerts[k] EXCEPT !.status = "acknowledged"]
<1>2. /\ alerts \in [M!Keys -> AlertRow] /\ M!Unresolved(alerts[k])
      /\ alerts' = [alerts EXCEPT ![k] = new]
  BY <1>1 DEF MonitorInv, AlertsTyped, M!Unresolved
<1>3. /\ new \in AlertRow /\ new.occurrences = alerts[k].occurrences
      /\ new.evaluation = alerts[k].evaluation
      /\ new.status # "absent" /\ alerts[k].status # "absent"
  BY <1>2, RowIs DEF MonitorInv
<1> HIDE DEF new
<1>4. Handled(alerts')
  BY <1>1, <1>2, <1>3 DEF Handled
<1> QED
  BY <1>4, HandledKeeps DEF M!Acknowledge

LEMMA ResolveKeeps ==
    ASSUME M!MonitoringConstants, MonitorInv, M!Resolve PROVE MonitorInv'
<1>1. PICK k \in M!Keys : M!Unresolved(alerts[k]) /\ M!Untouched(k)
                          /\ alerts' = [alerts EXCEPT ![k].status = "resolved"]
  BY DEF M!Resolve, M!Clears
<1> DEFINE new == [alerts[k] EXCEPT !.status = "resolved"]
<1>2. /\ alerts \in [M!Keys -> AlertRow]
      /\ alerts' = [alerts EXCEPT ![k] = new]
  BY <1>1 DEF MonitorInv, AlertsTyped
<1>3. /\ new \in AlertRow /\ new.occurrences = alerts[k].occurrences
      /\ new.evaluation = alerts[k].evaluation
      /\ new.status # "absent" /\ alerts[k].status # "absent"
  BY <1>1, RowIs DEF MonitorInv
<1> HIDE DEF new
<1>4. Handled(alerts')
  BY <1>1, <1>2, <1>3 DEF Handled
<1> QED
  BY <1>4, HandledKeeps DEF M!Resolve

LEMMA ResolveStaleKeeps ==
    ASSUME M!MonitoringConstants, MonitorInv, M!ResolveStale PROVE MonitorInv'
<1>1. PICK old \in SUBSET {k \in M!Keys : M!Unresolved(alerts[k])} :
        /\ \A k \in old : M!Untouched(k)
        /\ alerts' = [k \in M!Keys |->
             IF k \in old THEN [alerts[k] EXCEPT !.status = "resolved"] ELSE alerts[k]]
  BY DEF M!ResolveStale, M!Clears
<1>2. alerts \in [M!Keys -> AlertRow]
  BY DEF MonitorInv, AlertsTyped
<1>3. ASSUME NEW k \in M!Keys
      PROVE  /\ alerts'[k] \in AlertRow /\ alerts'[k].occurrences = alerts[k].occurrences
             /\ alerts'[k].evaluation = alerts[k].evaluation
             /\ alerts'[k].status = "absent" <=> alerts[k].status = "absent"
             /\ M!Unresolved(alerts'[k]) => M!Unresolved(alerts[k])
             /\ alerts'[k] = alerts[k] \/ M!Untouched(k)
  <2>1. CASE k \in old
    <3>1. alerts'[k] = [alerts[k] EXCEPT !.status = "resolved"] /\ M!Unresolved(alerts[k])
          /\ M!Untouched(k)
      BY <1>1, <2>1
    <3> QED
      BY <3>1, RowIs DEF MonitorInv
  <2>2. CASE k \notin old
    BY <1>1, <1>2, <2>2
  <2> QED
    BY <2>1, <2>2
<1>4. Handled(alerts')
  <2>1. DOMAIN alerts' = M!Keys /\ alerts' = [k \in M!Keys |-> alerts'[k]]
    BY <1>1
  <2> QED
    BY <1>3, <2>1 DEF Handled
<1> QED
  BY <1>4, HandledKeeps DEF M!ResolveStale

\* The commit: what it leaves in the tables.
Committed(c, evals, table) ==
    LET me == caller[c]
        place == M!Len(evaluations) + 1
    IN /\ evals \in M!Seq(Record) /\ M!Len(evals) = place /\ DOMAIN evals = 1 .. place
       /\ \A i \in DOMAIN evaluations : evals[i] = evaluations[i]
       /\ evals[place].version = me.version /\ evals[place].window = me.window
       /\ evals[place].report = me.report /\ evals[place].saw = me.saw
       /\ table \in [M!Keys -> AlertRow]
       /\ \A k \in M!Keys :
            /\ k[1] = me.version /\ k[2] \in Conditions(me) =>
                  table[k] = M!Detected(alerts[k], place)
            /\ k[1] = me.version /\ k[2] \in Types(me) \ Conditions(me) =>
                  /\ M!Unresolved(alerts[k])
                  /\ table[k] = [alerts[k] EXCEPT !.status = "resolved"]
            /\ k[1] # me.version \/ k[2] \notin Types(me) => table[k] = alerts[k]

LEMMA CommitIs ==
    ASSUME MonitorInv, NEW c \in Callers, M!Commit(c)
    PROVE  Committed(c, evaluations', alerts')
<1> DEFINE me == caller[c]
           place == M!Len(evaluations) + 1
           new == [version |-> me.version, window |-> me.window, report |-> me.report,
                   saw |-> me.saw, referenced |-> FALSE, deleted |-> FALSE]
           written(type) == (CHOOSE w \in me.writes : w[1] = type)[2]
<1>1. /\ me.version \in Versions /\ me.window \in M!Windows /\ me.report \in Reports
      /\ me.saw \in 0 .. M!Len(evaluations) /\ Outstanding(me, alerts)
      /\ Conditions(me) \subseteq Types(me)
  BY CallerIs DEF M!Commit, CallerKnows, Transacting, Evaluating
<1>2. /\ evaluations' = M!Append(evaluations, new)
      /\ alerts' = [k \in M!Keys |->
            IF k[1] = me.version /\ k[2] \in M!Written(c)
            THEN IF written(k[2]).evaluation = 0
                 THEN [written(k[2]) EXCEPT !.evaluation = place] ELSE written(k[2])
            ELSE alerts[k]]
  BY DEF M!Commit
<1>3. M!Written(c) = Types(me)
  BY DEF M!Written, Types, TypesOf
<1>4. /\ evaluations' \in M!Seq(Record) /\ M!Len(evaluations') = place
      /\ DOMAIN evaluations' = 1 .. place /\ evaluations'[place] = new
      /\ \A i \in DOMAIN evaluations : evaluations'[i] = evaluations[i]
  <2>1. new \in Record
    <3>1. me.saw \in Nat
      BY <1>1, RecordsTyped DEF MonitorInv
    <3> QED
      BY <1>1, <3>1 DEF Record
  <2>2. evaluations \in M!Seq(Record)
    BY DEF MonitorInv, EvaluationsTyped
  <2> HIDE DEF new
  <2> QED
    BY <1>2, <2>1, <2>2
<1>5. ASSUME NEW type \in Types(me)
      PROVE  IF type \in Conditions(me)
             THEN written(type) = M!Detected(alerts[<<me.version, type>>], 0)
             ELSE /\ M!Unresolved(alerts[<<me.version, type>>])
                  /\ written(type) = [alerts[<<me.version, type>>] EXCEPT !.status = "resolved"]
  <2>1. \E w \in me.writes : w[1] = type
    BY DEF Types, TypesOf
  <2>2. PICK w \in me.writes : w[1] = type /\ written(type) = w[2]
    BY <2>1
  <2> HIDE DEF written
  <2> QED
    BY <1>1, <2>2 DEF Outstanding
<1>6. alerts \in [M!Keys -> AlertRow] /\ place \in Nat
      /\ \A k \in M!Keys : alerts[k].evaluation = 0 <=> alerts[k].status = "absent"
  BY RecordsTyped DEF MonitorInv, AlertsTyped
<1> HIDE DEF written, place
<1>7. ASSUME NEW k \in M!Keys
      PROVE  /\ alerts'[k] \in AlertRow
             /\ k[1] = me.version /\ k[2] \in Conditions(me) =>
                  alerts'[k] = M!Detected(alerts[k], place)
             /\ k[1] = me.version /\ k[2] \in Types(me) \ Conditions(me) =>
                  /\ M!Unresolved(alerts[k])
                  /\ alerts'[k] = [alerts[k] EXCEPT !.status = "resolved"]
             /\ k[1] # me.version \/ k[2] \notin Types(me) => alerts'[k] = alerts[k]
  <2>1. k = <<k[1], k[2]>>
    BY DEF M!Keys
  <2>2. CASE k[1] = me.version /\ k[2] \in Conditions(me)
    <3>1. written(k[2]) = M!Detected(alerts[k], 0)
      BY <1>1, <1>5, <2>1, <2>2
    <3>2. alerts'[k] = [M!Detected(alerts[k], 0) EXCEPT !.evaluation = place]
      BY <1>1, <1>2, <1>3, <2>2, <3>1 DEF M!Detected
    <3>3. alerts'[k] = M!Detected(alerts[k], place)
      BY <3>2 DEF M!Detected
    <3>4. M!Detected(alerts[k], place) \in AlertRow
      BY <1>6 DEF M!Detected, AlertRow
    <3> QED
      BY <1>1, <2>2, <3>3, <3>4
  <2>3. CASE k[1] = me.version /\ k[2] \in Types(me) \ Conditions(me)
    <3>1. /\ M!Unresolved(alerts[k])
          /\ written(k[2]) = [alerts[k] EXCEPT !.status = "resolved"]
      BY <1>5, <2>1, <2>3
    <3>2. /\ [alerts[k] EXCEPT !.status = "resolved"] \in AlertRow
          /\ [alerts[k] EXCEPT !.status = "resolved"].evaluation # 0
      BY <1>6, <3>1 DEF AlertRow, M!Unresolved
    <3>3. alerts'[k] = [alerts[k] EXCEPT !.status = "resolved"]
      BY <1>2, <1>3, <2>3, <3>1, <3>2
    <3> QED
      BY <2>3, <3>1, <3>2, <3>3
  <2>4. CASE k[1] # me.version \/ k[2] \notin Types(me)
    BY <1>1, <1>2, <1>3, <1>6, <2>4
  <2> QED
    BY <2>2, <2>3, <2>4
<1>8. alerts' \in [M!Keys -> AlertRow]
  <2>1. alerts' = [k \in M!Keys |-> alerts'[k]]
    BY <1>2
  <2> QED
    BY <1>7, <2>1
<1>9. /\ evaluations'[place].version = me.version /\ evaluations'[place].window = me.window
      /\ evaluations'[place].report = me.report /\ evaluations'[place].saw = me.saw
  BY <1>4
<1> HIDE DEF me, new
<1> QED
  BY <1>4, <1>7, <1>8, <1>9 DEF Committed, me, place

\* An evaluation adds one to the count of what it detected.
LEMMA CommitCounts ==
    ASSUME MonitorInv, NEW c \in Callers, Committed(c, evaluations', alerts')
    PROVE  M!OccurrencesMatch'
<1> DEFINE me == caller[c]
           place == M!Len(evaluations) + 1
<1>1. M!Len(evaluations) \in Nat /\ DOMAIN evaluations = 1 .. M!Len(evaluations)
  BY RecordsTyped DEF MonitorInv
<1>2. ASSUME NEW k \in M!Keys
      PROVE  /\ IsFiniteSet(Hits(evaluations, k)) /\ place \notin Hits(evaluations, k)
             /\ Cardinality(Hits(evaluations, k)) = alerts[k].occurrences
             /\ alerts[k].occurrences \in Nat
  <2>1. IsFiniteSet(1 .. M!Len(evaluations)) /\ Hits(evaluations, k) \subseteq 1 .. M!Len(evaluations)
    BY <1>1, FS_Interval DEF Hits
  <2>2. IsFiniteSet(Hits(evaluations, k))
    BY <2>1, FS_Subset
  <2>3. M!Cardinality(Hits(evaluations, k)) = alerts[k].occurrences
    BY DEF MonitorInv, M!OccurrencesMatch, Hits
  <2>4. Cardinality(Hits(evaluations, k)) = alerts[k].occurrences
    BY <2>3 DEF M!Cardinality, Cardinality
  <2>5. place \notin 1 .. M!Len(evaluations)
    BY <1>1
  <2>6. alerts[k].occurrences \in Nat
    BY DEF MonitorInv, AlertsTyped, AlertRow
  <2> QED
    BY <2>1, <2>2, <2>4, <2>5, <2>6
<1>3. ASSUME NEW k \in M!Keys
      PROVE  Cardinality(Hits(evaluations', k)) = alerts'[k].occurrences
  <2>1. \A i : i \in Hits(evaluations', k) <=>
            \/ i \in Hits(evaluations, k)
            \/ i = place /\ k[1] = me.version /\ k[2] \in Conditions(me)
    <3>1. DOMAIN evaluations' = DOMAIN evaluations \cup {place}
      BY <1>1 DEF Committed
    <3>2. place \notin DOMAIN evaluations
      BY <1>1
    <3>3. /\ \A i \in DOMAIN evaluations : evaluations'[i] = evaluations[i]
          /\ evaluations'[place].version = me.version /\ evaluations'[place].report = me.report
      BY DEF Committed
    <3> HIDE DEF place
    <3> QED
      BY <3>1, <3>2, <3>3 DEF Hits, Conditions
  <2>2. CASE k[1] = me.version /\ k[2] \in Conditions(me)
    <3>1. Hits(evaluations', k) = Hits(evaluations, k) \cup {place}
      BY <2>1, <2>2
    <3>2. Cardinality(Hits(evaluations', k)) = Cardinality(Hits(evaluations, k)) + 1
      BY <1>2, <3>1, FS_AddElement
    <3>3. alerts'[k].occurrences = alerts[k].occurrences + 1
      BY <2>2 DEF Committed, M!Detected
    <3> QED
      BY <1>2, <3>2, <3>3
  <2>3. CASE k[1] # me.version \/ k[2] \notin Conditions(me)
    <3>1. Hits(evaluations', k) = Hits(evaluations, k)
      BY <2>1, <2>3
    <3>2. alerts'[k].occurrences = alerts[k].occurrences
      <4>1. alerts[k] \in AlertRow
        BY DEF MonitorInv, AlertsTyped
      <4>2. [alerts[k] EXCEPT !.status = "resolved"].occurrences = alerts[k].occurrences
        BY <4>1 DEF AlertRow
      <4>3. \/ alerts'[k] = alerts[k] \/ alerts'[k] = [alerts[k] EXCEPT !.status = "resolved"]
        BY <2>3 DEF Committed
      <4> QED
        BY <4>2, <4>3
    <3> QED
      BY <1>2, <3>1, <3>2
  <2> QED
    BY <2>2, <2>3
<1>4. \A k \in M!Keys : M!Cardinality(Hits(evaluations', k)) = alerts'[k].occurrences
  BY <1>3 DEF M!Cardinality, Cardinality
<1> QED
  BY <1>4 DEF M!OccurrencesMatch, Hits

LEMMA CommitTables ==
    ASSUME MonitorInv, NEW c \in Callers, caller[c].pc = "clearing", caller[c].clear = {},
           Committed(c, evaluations', alerts')
    PROVE  (EvaluationsTyped /\ AlertsTyped /\ M!OneEvaluation /\ M!LaterClears)'
<1> DEFINE me == caller[c]
           last == M!Len(evaluations)
           place == last + 1
<1>1. /\ last \in Nat /\ DOMAIN evaluations = 1 .. last
      /\ place \in Nat /\ place # 0 /\ \A n \in Nat : n <= last => n <= place /\ n < place
      /\ 1 .. place = (1 .. last) \cup {place} /\ place \notin 1 .. last
  BY RecordsTyped DEF MonitorInv
<1>2. /\ DOMAIN evaluations' = 1 .. place /\ M!Len(evaluations') = place
      /\ evaluations' \in M!Seq(Record)
      /\ \A i \in DOMAIN evaluations : evaluations'[i] = evaluations[i]
      /\ evaluations'[place].version = me.version /\ evaluations'[place].window = me.window
      /\ evaluations'[place].report = me.report /\ evaluations'[place].saw = me.saw
  BY DEF Committed
<1>3. /\ me.version \in Versions /\ me.saw \in 0 .. last /\ Fresh(me, evaluations)
      /\ RestIsClear(me, alerts)
  BY CallerIs DEF CallerKnows, Transacting, Evaluating
<1>4. alerts' \in [M!Keys -> AlertRow]
      /\ \A k \in M!Keys :
            /\ k[1] = me.version /\ k[2] \in Conditions(me) =>
                  alerts'[k].evaluation = place /\ alerts'[k].status = "open"
            /\ k[1] = me.version /\ k[2] \in Types(me) \ Conditions(me) =>
                  /\ alerts'[k].evaluation = alerts[k].evaluation
                  /\ alerts'[k].status = "resolved" /\ alerts[k].status # "absent"
            /\ k[1] # me.version \/ k[2] \notin Types(me) => alerts'[k] = alerts[k]
  <2>1. \A k \in M!Keys : alerts[k] \in AlertRow
    BY DEF MonitorInv, AlertsTyped
  <2>2. ASSUME NEW k \in M!Keys, k[1] = me.version, k[2] \in Conditions(me)
        PROVE  alerts'[k].evaluation = place /\ alerts'[k].status = "open"
    <3>1. alerts'[k] = M!Detected(alerts[k], place)
      BY <2>2 DEF Committed
    <3> QED
      BY <3>1 DEF M!Detected
  <2>3. ASSUME NEW k \in M!Keys, k[1] = me.version, k[2] \in Types(me) \ Conditions(me)
        PROVE  /\ alerts'[k].evaluation = alerts[k].evaluation
               /\ alerts'[k].status = "resolved" /\ alerts[k].status # "absent"
    <3>1. /\ alerts'[k] = [alerts[k] EXCEPT !.status = "resolved"]
          /\ M!Unresolved(alerts[k])
      BY <2>3 DEF Committed
    <3> QED
      BY <2>1, <3>1 DEF AlertRow, M!Unresolved
  <2>4. /\ alerts' \in [M!Keys -> AlertRow]
        /\ \A k \in M!Keys : k[1] # me.version \/ k[2] \notin Types(me) => alerts'[k] = alerts[k]
    BY DEF Committed
  <2> HIDE DEF me, place, last
  <2> QED
    BY <2>2, <2>3, <2>4
<1>5. EvaluationsTyped'
  <2>1. \A i \in DOMAIN evaluations : evaluations[i].saw <= i - 1
    BY DEF MonitorInv, EvaluationsTyped
  <2>2. me.saw <= place - 1
    BY <1>1, <1>3
  <2> HIDE DEF place, last
  <2> QED
    BY <1>1, <1>2, <2>1, <2>2 DEF EvaluationsTyped
<1>6. AlertsTyped'
  <2>1. ASSUME NEW k \in M!Keys
        PROVE  /\ alerts'[k].evaluation <= place
               /\ alerts'[k].evaluation = 0 <=> alerts'[k].status = "absent"
    <3>1. /\ alerts[k].evaluation <= last /\ alerts[k].evaluation \in Nat
          /\ alerts[k].evaluation = 0 <=> alerts[k].status = "absent"
      BY DEF MonitorInv, AlertsTyped, AlertRow
    <3> HIDE DEF place, last
    <3> QED
      BY <1>1, <1>4, <3>1
  <2> QED
    BY <1>2, <1>4, <2>1 DEF AlertsTyped
<1>7. M!OneEvaluation'
  <2> HIDE DEF place, last
  <2>1. \A i \in DOMAIN evaluations : evaluations'[i].deleted
            \/ evaluations'[i].version # evaluations'[place].version
            \/ evaluations'[i].window # evaluations'[place].window
    BY <1>2, <1>3 DEF Fresh
  <2>2. DOMAIN evaluations' = DOMAIN evaluations \cup {place}
    BY <1>1, <1>2
  <2>3. ASSUME NEW i \in DOMAIN evaluations, NEW j \in DOMAIN evaluations,
               ~evaluations'[i].deleted, ~evaluations'[j].deleted,
               evaluations'[i].version = evaluations'[j].version,
               evaluations'[i].window = evaluations'[j].window
        PROVE  i = j
    BY <1>2, <2>3 DEF MonitorInv, M!OneEvaluation, M!Live
  <2> QED
    BY <2>1, <2>2, <2>3 DEF M!OneEvaluation, M!Live
<1>8. M!LaterClears'
  <2>1. ASSUME NEW k \in M!Keys, M!Unresolved(alerts'[k]), NEW i \in DOMAIN evaluations',
               evaluations'[i].version = k[1], evaluations'[i].saw >= alerts'[k].evaluation,
               k[2] \notin M!conditions(evaluations'[i].report)
        PROVE  FALSE
    <3>1. CASE k[1] = me.version /\ k[2] \in Conditions(me)
      <4>1. alerts'[k].evaluation = place
        BY <1>4, <3>1
      <4>2. evaluations'[i].saw <= i - 1 /\ i \in 1 .. place /\ evaluations'[i].saw \in Nat
        <5>1. evaluations'[i] \in Record
          BY <1>2, <2>1
        <5> QED
          BY <1>2, <1>5, <2>1, <5>1 DEF EvaluationsTyped, Record
      <4> HIDE DEF place, last
      <4>3. \A s \in Nat, j \in 1 .. place : s <= j - 1 => ~(s >= place)
        BY <1>1
      <4> QED
        BY <2>1, <4>1, <4>2, <4>3
    <3>2. CASE k[1] = me.version /\ k[2] \in Types(me) \ Conditions(me)
      BY <1>4, <2>1, <3>2 DEF M!Unresolved
    <3>3. CASE k[1] # me.version \/ k[2] \notin Types(me)
      <4>1. alerts'[k] = alerts[k] /\ M!Unresolved(alerts[k])
        BY <1>4, <2>1, <3>3
      <4>2. i \in DOMAIN evaluations \/ i = place
        BY <1>1, <1>2, <2>1
      <4>3. CASE i \in DOMAIN evaluations
        <5>1. evaluations'[i] = evaluations[i]
          BY <1>2, <4>3
        <5> QED
          BY <2>1, <4>1, <4>3, <5>1 DEF MonitorInv, M!LaterClears
      <4>4. CASE i = place
        <5>1. k[1] = me.version /\ k[2] \notin Types(me) /\ k[2] \notin Conditions(me)
              /\ me.saw >= alerts[k].evaluation
          BY <1>2, <2>1, <3>3, <4>1, <4>4 DEF Conditions
        <5>2. k = <<me.version, k[2]>> /\ k[2] \in M!AlertTypes
          BY <5>1 DEF M!Keys
        <5>3. alerts[k].evaluation > me.saw
          BY <1>3, <4>1, <5>1, <5>2 DEF RestIsClear
        <5>4. alerts[k].evaluation \in Nat /\ me.saw \in Nat
          BY <1>1, <1>3 DEF MonitorInv, AlertsTyped, AlertRow
        <5> QED
          BY <5>1, <5>3, <5>4
      <4> QED
        BY <4>2, <4>3, <4>4
    <3> QED
      BY <3>1, <3>2, <3>3
  <2> QED
    BY <2>1 DEF M!LaterClears
<1> QED
  BY <1>5, <1>6, <1>7, <1>8

\* The transactions of the others go on as they were.
LEMMA OthersGoOn ==
    ASSUME MonitorInv, NEW c \in Callers, caller[c].pc = "clearing",
           Committed(c, evaluations', alerts'), NEW d \in Callers \ {c}
    PROVE  CallerKnows(caller[d], alerts', evaluations')
<1> DEFINE me == caller[c]
           q == caller[d]
           last == M!Len(evaluations)
           place == last + 1
<1>1. /\ last \in Nat /\ DOMAIN evaluations = 1 .. last
      /\ \A n \in 0 .. last : n \in 0 .. place /\ place > n
      /\ 1 .. place = (1 .. last) \cup {place}
  BY RecordsTyped DEF MonitorInv
<1>2. /\ DOMAIN evaluations' = 1 .. place /\ M!Len(evaluations') = place
      /\ \A i \in DOMAIN evaluations : evaluations'[i] = evaluations[i]
      /\ evaluations'[place].version = me.version /\ evaluations'[place].window = me.window
  BY DEF Committed
<1>3. CallerKnows(q, alerts, evaluations)
  BY CallerIs
<1>4. /\ q.pc \in Transacting => q.version # me.version \/ q.window # me.window
      /\ q.version = me.version => Types(q) \cap Types(me) = {}
  BY DEF MonitorInv, CallersKnow, Disjoint, Transacting
<1> HIDE DEF q, place, last
<1>5. ASSUME q.pc \in Transacting
      PROVE  Fresh(q, evaluations')
  <2>1. Fresh(q, evaluations)
    BY <1>3, <1>5 DEF CallerKnows
  <2>2. DOMAIN evaluations' = DOMAIN evaluations \cup {place}
    BY <1>1, <1>2
  <2> QED
    BY <1>2, <1>4, <1>5, <2>1, <2>2 DEF Fresh
<1>6. ASSUME q.pc \in Transacting
      PROVE  Outstanding(q, alerts')
  <2>1. Outstanding(q, alerts) /\ q.version \in Versions
    BY <1>3, <1>6 DEF CallerKnows, Evaluating
  <2>2. ASSUME NEW w \in q.writes
        PROVE  alerts'[<<q.version, w[1]>>] = alerts[<<q.version, w[1]>>]
    <3> DEFINE k == <<q.version, w[1]>>
    <3>1. k \in M!Keys /\ k[1] = q.version /\ k[2] = w[1]
      BY <2>1 DEF M!Keys, Outstanding
    <3>2. w[1] \in Types(q)
      BY DEF Types, TypesOf
    <3>3. k[1] # me.version \/ k[2] \notin Types(me)
      BY <1>4, <3>1, <3>2
    <3> QED
      BY <3>1, <3>3 DEF Committed
  <2> QED
    BY <2>1, <2>2 DEF Outstanding
<1>7. ASSUME q.pc = "clearing"
      PROVE  RestIsClear(q, alerts')
  <2>1. q.version \in Versions /\ RestIsClear(q, alerts) /\ q.saw \in 0 .. last
    BY <1>3, <1>7 DEF CallerKnows, Evaluating, Transacting, last
  <2> SUFFICES ASSUME NEW t \in M!AlertTypes \ (Conditions(q) \cup q.clear \cup Types(q)),
                      M!Unresolved(alerts'[<<q.version, t>>])
               PROVE  alerts'[<<q.version, t>>].evaluation > q.saw
    BY DEF RestIsClear
  <2> DEFINE k == <<q.version, t>>
  <2>2. k \in M!Keys /\ k[1] = q.version /\ k[2] = t
    BY <2>1 DEF M!Keys
  <2>3. CASE k[1] = me.version /\ k[2] \in Conditions(me)
    <3>1. alerts'[k].evaluation = place
      BY <2>2, <2>3 DEF Committed, M!Detected, place, last
    <3> QED
      BY <1>1, <2>1, <3>1
  <2>4. CASE k[1] = me.version /\ k[2] \in Types(me) \ Conditions(me)
    <3>1. alerts'[k] = [alerts[k] EXCEPT !.status = "resolved"] /\ alerts[k] \in AlertRow
      BY <2>2, <2>4 DEF Committed, MonitorInv, AlertsTyped
    <3>2. alerts'[k].status = "resolved"
      BY <3>1 DEF AlertRow
    <3> QED
      BY <3>2 DEF M!Unresolved
  <2>5. CASE k[1] # me.version \/ k[2] \notin Types(me)
    <3>1. alerts'[k] = alerts[k]
      BY <2>2, <2>5 DEF Committed
    <3> QED
      BY <2>1, <3>1 DEF RestIsClear
  <2> QED
    BY <2>3, <2>4, <2>5
<1>8. q.result \in DOMAIN evaluations => q.result \in DOMAIN evaluations'
  BY <1>1, <1>2
<1>9. q.saw \in 0 .. M!Len(evaluations) => q.saw \in 0 .. M!Len(evaluations')
  BY <1>1, <1>2 DEF last
<1> QED
  BY <1>3, <1>5, <1>6, <1>7, <1>8, <1>9 DEF CallerKnows, q

LEMMA CommitKeeps ==
    ASSUME MonitorInv, NEW c \in Callers, M!Commit(c) PROVE MonitorInv'
<1> DEFINE place == M!Len(evaluations) + 1
           q == M!After(caller[c], place, caller[c].report)
<1>1. /\ caller[c].pc = "clearing" /\ caller[c].clear = {}
      /\ caller' = [caller EXCEPT ![c] = q] /\ UNCHANGED <<now, lock, spent>>
  BY DEF M!Commit, M!Set
<1>2. Committed(c, evaluations', alerts')
  BY CommitIs
<1>3. place \in DOMAIN evaluations'
  BY <1>2, RecordsTyped DEF Committed, MonitorInv
<1>4. CallerKnows(q, alerts', evaluations') /\ Resting(caller[c], q)
  BY <1>3, CallerIs, AfterKnows
<1> HIDE DEF q
<1>5. \A d \in Callers \ {c} : Disjoint(q, caller[d])
  BY <1>4, RestIsDisjoint DEF Resting
<1>6. \A d \in Callers \ {c} : CallerKnows(caller[d], alerts', evaluations')
  BY <1>1, <1>2, OthersGoOn
<1>7. CallersKnow'
  BY <1>1, <1>4, <1>5, <1>6, CallerMoves DEF MonitorInv
<1>8. LeaseHeld'
  BY <1>1, <1>4, LeaseStays DEF MonitorInv, CallersKnow, Resting
<1> QED
  BY <1>1, <1>2, <1>7, <1>8, CommitCounts, CommitTables DEF MonitorInv

LEMMA MonitorInit == ASSUME M!MonitoringConstants, M!Init PROVE MonitorInv
<1>1. /\ now = 1 /\ spent = 0 /\ lock = [w \in M!Windows |-> M!NoLock] /\ evaluations = <<>>
      /\ alerts = [k \in M!Keys |-> M!NoAlert] /\ caller = [c \in Callers |-> M!Idle]
  BY DEF M!Init
<1>2. now \in M!Windows /\ spent \in 0 .. MaxDisturbances
  BY <1>1 DEF M!MonitoringConstants, M!Windows
<1>3. /\ evaluations \in M!Seq(Record) /\ M!Len(evaluations) = 0 /\ DOMAIN evaluations = {}
  BY <1>1
<1>4. EvaluationsTyped /\ M!OneEvaluation /\ M!LaterClears
  BY <1>3 DEF EvaluationsTyped, M!OneEvaluation, M!LaterClears
<1>5. AlertsTyped
  BY <1>1, <1>3 DEF AlertsTyped, AlertRow, M!NoAlert
<1>6. M!OccurrencesMatch
  <2>1. \A k \in M!Keys : Hits(evaluations, k) = {}
    BY <1>3 DEF Hits
  <2>2. M!Cardinality({}) = 0
    BY FS_EmptySet DEF M!Cardinality, Cardinality
  <2>3. \A k \in M!Keys : alerts[k].occurrences = M!Cardinality(Hits(evaluations, k))
    BY <1>1, <2>1, <2>2 DEF M!NoAlert
  <2> QED
    BY <2>3 DEF M!OccurrencesMatch, Hits
<1>7. LeaseHeld
  BY <1>1, IdleFields DEF LeaseHeld, M!NoLock
<1>8. CallersKnow
  <2>1. \A c, d \in Callers : Disjoint(caller[c], caller[d])
    BY <1>1, IdleFields, RestIsDisjoint DEF Transacting
  <2> QED
    BY <1>1, <2>1, IdleKnows DEF CallersKnow
<1> QED
  BY <1>2, <1>4, <1>5, <1>6, <1>7, <1>8 DEF MonitorInv

LEMMA MonitorNext == ASSUME M!MonitoringConstants, MonitorInv, [M!Next]_M!vars PROVE MonitorInv'
<1>1. CASE M!Tick
  BY <1>1, TickKeeps
<1>2. CASE M!Acknowledge
  BY <1>2, AcknowledgeKeeps
<1>3. CASE M!Resolve
  BY <1>3, ResolveKeeps
<1>4. CASE M!ResolveStale
  BY <1>4, ResolveStaleKeeps
<1>5. CASE M!Retain
  BY <1>5, RetainKeeps
<1>6. CASE M!Expire
  BY <1>6, ExpireKeeps
<1>7. ASSUME NEW c \in Callers, M!Acquire(c) \/ M!Request(c) \/ M!Crash(c)
      PROVE  MonitorInv'
  BY <1>7, AcquireKeeps, RequestKeeps, CrashKeeps
<1>8. ASSUME NEW c \in Callers, M!Step(c)
      PROVE  MonitorInv'
  BY <1>8, InsertKeeps, ReadKeeps, WriteKeeps, ClearKeeps, ClearRowKeeps, CommitKeeps,
     DeadlockKeeps, NextAliasKeeps, RetrainKeeps, ReleaseKeeps DEF M!Step
<1>9. CASE UNCHANGED M!vars
  <2>1. UNCHANGED <<now, lock, evaluations, alerts, caller, spent>>
    BY <1>9 DEF M!vars
  <2>2. LeaseHeld' /\ CallersKnow'
    BY <2>1 DEF MonitorInv, LeaseHeld, CallersKnow
  <2> QED
    BY <2>1, <2>2, MonitorTablesStay DEF MonitorInv
<1> QED
  BY <1>1, <1>2, <1>3, <1>4, <1>5, <1>6, <1>7, <1>8, <1>9 DEF M!Next

LEMMA MonitorProperties == ASSUME MonitorInv PROVE M!AlertsFollowEvaluations
<1>1. M!TypeOK
  <2>1. /\ M!Len(evaluations) \in Nat /\ DOMAIN evaluations = 1 .. M!Len(evaluations)
        /\ \A i \in DOMAIN evaluations :
             /\ evaluations[i].version \in Versions /\ evaluations[i].window \in M!Windows
             /\ evaluations[i].report \in Reports /\ evaluations[i].saw \in Nat
             /\ evaluations[i].saw <= i - 1
    BY RecordsTyped DEF MonitorInv, EvaluationsTyped
  <2>2. \A i \in DOMAIN evaluations : evaluations[i].saw \in 0 .. (i - 1)
    BY <2>1
  <2>3. ASSUME NEW k \in M!Keys
        PROVE  /\ alerts[k].status \in {"absent", "open", "acknowledged", "resolved"}
               /\ alerts[k].occurrences \in 0 .. M!Len(evaluations)
               /\ alerts[k].evaluation \in 0 .. M!Len(evaluations)
    <3>1. /\ alerts[k] \in AlertRow /\ alerts[k].evaluation <= M!Len(evaluations)
      BY DEF MonitorInv, AlertsTyped
    <3>2. /\ IsFiniteSet(1 .. M!Len(evaluations))
          /\ Hits(evaluations, k) \subseteq 1 .. M!Len(evaluations)
      BY <2>1, FS_Interval DEF Hits
    <3>3. Cardinality(1 .. M!Len(evaluations)) = M!Len(evaluations)
      <4>1. Cardinality(1 .. M!Len(evaluations)) =
                IF 1 > M!Len(evaluations) THEN 0 ELSE M!Len(evaluations) - 1 + 1
        BY <2>1, FS_Interval
      <4> QED
        BY <2>1, <4>1
    <3>4. Cardinality(Hits(evaluations, k)) <= M!Len(evaluations)
      BY <3>2, <3>3, FS_Subset
    <3>5. alerts[k].occurrences = Cardinality(Hits(evaluations, k))
      <4>1. alerts[k].occurrences = M!Cardinality(Hits(evaluations, k))
        BY DEF MonitorInv, M!OccurrencesMatch, Hits
      <4> QED
        BY <4>1 DEF M!Cardinality, Cardinality
    <3> QED
      BY <2>1, <3>1, <3>4, <3>5 DEF AlertRow
  <2>4. \A c \in Callers : M!Scheduled(caller[c]) =>
            caller[c].window \in M!Windows /\ caller[c].todo \in 0 .. Aliases
    BY CallerIs DEF M!Scheduled, Going
  <2>5. /\ now \in M!Windows /\ spent \in 0 .. MaxDisturbances
        /\ lock \in [M!Windows -> [owner : Callers \cup {None}, expired : BOOLEAN]]
    BY DEF MonitorInv, LeaseHeld
  <2> QED
    BY <2>1, <2>2, <2>3, <2>4, <2>5 DEF M!TypeOK
<1>2. M!LeaseExcludes
  BY DEF M!LeaseExcludes, MonitorInv, LeaseHeld
<1> QED
  BY <1>1, <1>2 DEF M!AlertsFollowEvaluations, MonitorInv

\* However evaluations of scheduled runs and requests interleave, statement by statement,
\* with row locks, deadlock victims, crashes, lost leases, people and retention, the
\* strengthening above holds: whatever an open transaction has written is what it will commit.
THEOREM MonitorInvariance == M!Spec => []MonitorInv
<1>1. M!Init => MonitorInv
  BY MonitorInit, MonitoringAssumption
<1>2. MonitorInv /\ [M!Next]_M!vars => MonitorInv'
  BY MonitorNext, MonitoringAssumption
<1> QED
  BY <1>1, <1>2, PTL DEF M!Spec

\* Hence each version is evaluated once for a window, every alert counts the evaluations
\* that detected its condition, none is lost and none counted twice, later evaluations
\* resolve what they clear, and no two runs hold a live lease of one window
\* (evaluation_service.py, repositories/monitoring_alerts.py).
THEOREM AlertsFollow == M!Spec => []AlertsFollowEvaluations
<1>1. MonitorInv => AlertsFollowEvaluations
  BY MonitorProperties DEF AlertsFollowEvaluations
<1> QED
  BY <1>1, MonitorInvariance, PTL

=============================================================================
