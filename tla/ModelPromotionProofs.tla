------------------------ MODULE ModelPromotionProofs ------------------------
(***************************************************************************)
(* Proofs about ModelPromotion for any requests, versions, reconciliation  *)
(* commands, metrics and number of faults.                                 *)
(***************************************************************************)
EXTENDS MCModelPromotion, TLAPS

-----------------------------------------------------------------------------
(* The policies *)

\* A chain of accepted regression promotions is itself acceptable, and with a
\* positive minimum improvement no two versions may replace each other.
THEOREM RegressionLadder ==
    ASSUME NEW a \in RegressionMetrics, NEW b \in RegressionMetrics,
           NEW c \in RegressionMetrics,
           NoIncumbent \notin RegressionMetrics
    PROVE  RegressionOrder(a, b, c)
<1> DEFINE m == MinimumRmseImprovement
           Better(x, y) == (y - x) * Scale >= m * y
<1> USE ScaleAssumption, SettingsAssumption
<1>1. ASSUME NEW x \in Nat, NEW y \in Nat, NEW z \in Nat,
             ImprovesRmse(x, y), ImprovesRmse(y, z)
      PROVE  ImprovesRmse(x, z)
  <2>1. CASE y = 0
    BY <1>1, <2>1 DEF ImprovesRmse
  <2>2. CASE y # 0 /\ z = 0
    BY <1>1, <2>2 DEF ImprovesRmse
  <2>3. CASE y # 0 /\ z # 0
    BY <1>1, <2>3 DEF ImprovesRmse
  <2> QED BY <2>1, <2>2, <2>3
<1>2. ASSUME NEW x \in Nat, NEW y \in Nat, ImprovesRmse(x, y), ImprovesRmse(y, x)
      PROVE  MinimumRmseImprovement = 0
  BY <1>2 DEF ImprovesRmse
<1>3. ASSUME NEW e \in RegressionMetrics, ValidRmse(e)
      PROVE  e.rmse \in Nat
  BY <1>3, MissingAssumption DEF RegressionMetrics, ValidRmse
<1> QED
  BY <1>1, <1>2, <1>3 DEF RegressionOrder, RegressionAccepts

\* The same of accepted classification promotions.
THEOREM ClassificationLadder ==
    ASSUME NEW a \in ClassificationMetrics, NEW b \in ClassificationMetrics,
           NEW c \in ClassificationMetrics,
           NoIncumbent \notin ClassificationMetrics
    PROVE  ClassificationOrder(a, b, c)
<1>1. ASSUME NEW e \in ClassificationMetrics, Bounded(e.f1)
      PROVE  e.f1 \in Int
  BY <1>1, MissingAssumption DEF Bounded, ClassificationMetrics
<1>2. \A e \in ClassificationMetrics : e # NoIncumbent
  OBVIOUS
<1>3. ASSUME ClassificationAccepts(a, b), ClassificationAccepts(b, c)
      PROVE  ClassificationAccepts(a, c)
  BY <1>1, <1>2, <1>3, ScaleAssumption, SettingsAssumption DEF ClassificationAccepts
<1>4. ASSUME ClassificationAccepts(a, b), ClassificationAccepts(b, a)
      PROVE  MinimumF1Improvement = 0
  BY <1>1, <1>2, <1>4, ScaleAssumption, SettingsAssumption DEF ClassificationAccepts
<1> QED
  BY <1>3, <1>4 DEF ClassificationOrder

\* Whichever snapshots are compared: both policies order the versions, so promotions made
\* one after another are progress.
THEOREM PoliciesOrder == MCSpec => []PoliciesAreOrdered
<1> DEFINE Typed == input = System \/ input \in Inputs
<1>1. MCInit => Typed
  BY DEF MCInit
<1>2. Typed /\ [MCNext]_<<vars, input>> => Typed'
  BY DEF MCNext
<1>3. Typed => PoliciesAreOrdered
  <2> SUFFICES ASSUME input \in Inputs PROVE PoliciesAreOrdered
    BY DEF System, PoliciesAreOrdered, RegressionOrdered, ClassificationOrdered
  <2>1. Metric \subseteq Int \cup {Missing} /\ {0, 1, Missing} \subseteq Int \cup {Missing}
    BY BoundAssumption DEF Metric
  <2>2. ASSUME input.task = "regression"
        PROVE  /\ input.a \in RegressionMetrics /\ input.b \in RegressionMetrics
               /\ input.c \in RegressionMetrics
    BY <2>1, <2>2 DEF Inputs, Triples, RegressionMetrics
  <2>3. ASSUME input.task = "classification"
        PROVE  /\ input.a \in ClassificationMetrics /\ input.b \in ClassificationMetrics
               /\ input.c \in ClassificationMetrics
    BY <2>1, <2>3 DEF Inputs, Triples, ClassificationMetrics
  <2>4. RegressionOrdered
    BY <2>2, RegressionLadder, NoIncumbentAssumption DEF RegressionOrdered
  <2>5. ClassificationOrdered
    BY <2>3, ClassificationLadder, NoIncumbentAssumption DEF ClassificationOrdered
  <2> QED
    BY <2>4, <2>5 DEF PoliciesAreOrdered
<1> QED
  BY <1>1, <1>2, <1>3, PTL DEF MCSpec

-----------------------------------------------------------------------------
(* The inductive invariant *)

LEMMA Start == Init => IndInv
<1> SUFFICES ASSUME Init PROVE IndInv OBVIOUS
<1>1. TypeOK
  BY MaxFaultsAssumption
  DEF Init, TypeOK, NoAudit, Audit, Outcomes, AtRest, Pass, Verdicts, NoRequest, Aliases
<1> QED
  BY <1>1 DEF Init, IndInv, RequestFits, PassFits, HolderIsGoverned, SucceededWasHeld,
              PromotedIsAudited, NoAudit, AtRest, Live

\* The effect of the helpers that several actions use.
LEMMA Helpers ==
    ASSUME TypeOK, NEW q \in Requests
    PROVE  /\ Fault => faults' \in 0 .. MaxFaults
           /\ \A s \in {"new"} \cup Live \cup Replies :
                Goto(q, s) => /\ step' \in [Requests -> {"new"} \cup Live \cup Replies]
                              /\ step'[q] = s
                              /\ \A x \in Requests \ {q} : step'[x] = step[x]
           /\ \A o \in Outcomes :
                Settle(q, o) => /\ audit' \in [Requests -> Audit]
                                /\ audit'[q].decision = audit[q].decision
                                /\ audit'[q].outcome = IF Settleable(q) THEN o
                                                       ELSE audit[q].outcome
                                /\ \A x \in Requests \ {q} : audit'[x] = audit[x]
<1>1. Fault => faults' \in 0 .. MaxFaults
  BY MaxFaultsAssumption DEF Fault, TypeOK
<1>2. ASSUME NEW s \in {"new"} \cup Live \cup Replies, Goto(q, s)
      PROVE  /\ step' \in [Requests -> {"new"} \cup Live \cup Replies]
             /\ step'[q] = s
             /\ \A x \in Requests \ {q} : step'[x] = step[x]
  BY <1>2 DEF Goto, TypeOK
<1>3. ASSUME NEW o \in Outcomes, Settle(q, o)
      PROVE  /\ audit' \in [Requests -> Audit]
             /\ audit'[q].decision = audit[q].decision
             /\ audit'[q].outcome = IF Settleable(q) THEN o ELSE audit[q].outcome
             /\ \A x \in Requests \ {q} : audit'[x] = audit[x]
  BY <1>3 DEF Settle, TypeOK, Audit
<1> QED BY <1>1, <1>2, <1>3

LEMMA Preservation == IndInv /\ [Next]_vars => IndInv'
<1> SUFFICES ASSUME IndInv, [Next]_vars PROVE IndInv'
  OBVIOUS
<1> USE DEF registryVars, requestVars
<1> DEFINE Parts == /\ \A q \in Requests : RequestFits(q)
                    /\ \A p \in Reconcilers : PassFits(p)
                    /\ \A a \in Aliases : alias[a] # NoVersion => <<a, alias[a]>> \in held
                    /\ HolderIsGoverned /\ SucceededWasHeld /\ PromotedIsAudited
<1>0. TypeOK /\ Parts
  BY DEF IndInv
<1>q. TypeOK' /\ Parts' => IndInv'
  BY DEF IndInv
<1>1. ASSUME NEW q \in Requests, Begin(q) PROVE TypeOK' /\ Parts'
  <2>1. step[q] = "new" /\ audit[q] = NoAudit
    BY <1>0, <1>1 DEF Begin, RequestFits
  <2>2. \/ Goto(q, "refused") /\ request' = request
        \/ /\ Goto(q, "incumbent")
           /\ \E r \in Request : /\ r.version \in evidenced
                                 /\ request' = [request EXCEPT ![q] = r]
    BY <1>1 DEF Begin
  <2>3. TypeOK'
    BY <1>0, <1>1, <2>2, Helpers DEF Begin, TypeOK, Live, Replies
  <2>4. /\ request'[q] # request[q] => request'[q] \in Request
        /\ step'[q] = "incumbent" => request'[q] \in Request /\ request'[q].version \in evidenced
        /\ step'[q] \in {"refused", "incumbent"}
        /\ \A x \in Requests \ {q} : step'[x] = step[x] /\ request'[x] = request[x]
    BY <1>0, <2>2, Helpers DEF TypeOK, Live, Replies
  <2>5. UNCHANGED <<registryVars, previous, audit, pass, faults>>
    BY <1>1 DEF Begin
  <2>6. (\A x \in Requests : RequestFits(x))'
    BY <1>0, <2>1, <2>3, <2>4, <2>5 DEF RequestFits, NoAudit, Live
  <2>7. ASSUME NEW p \in Reconcilers PROVE PassFits(p)'
    <3>0. PassFits(p) /\ audit[q].outcome = "absent"
      BY <1>0, <2>1 DEF NoAudit
    <3>1. PassFits(p) /\ q \notin pass[p].todo /\ pass[p].verdict[q] = "none"
      BY <3>0 DEF PassFits
    <3>2. pass' = pass /\ held' = held /\ audit' = audit
      BY <2>5
    <3>3. ASSUME NEW x \in Requests, pass[p].verdict[x] = "succeeded"
          PROVE  <<request'[x].alias, request'[x].version>> \in held'
      <4>1. request'[x] = request[x]
        BY <2>4, <3>1, <3>3
      <4> QED
        BY <3>1, <3>2, <3>3, <4>1 DEF PassFits
    <3> QED
      BY <3>1, <3>2, <3>3 DEF PassFits
  <2>8. HolderIsGoverned'
    BY <1>0, <2>1, <2>4, <2>5 DEF HolderIsGoverned, NoAudit
  <2>9. SucceededWasHeld' /\ PromotedIsAudited'
    BY <1>0, <2>1, <2>4, <2>5 DEF SucceededWasHeld, PromotedIsAudited, NoAudit
  <2> QED
    BY <1>0, <2>3, <2>5, <2>6, <2>7, <2>8, <2>9
<1>2. ASSUME NEW q \in Requests, ReadIncumbent(q) PROVE TypeOK' /\ Parts'
  <2>1. /\ step[q] = "incumbent"
        /\ previous' \in [Requests -> Versions \cup {NoVersion}]
        /\ UNCHANGED <<registryVars, request, audit, pass, faults>>
        /\ Goto(q, "decide") \/ Goto(q, "refused")
    <3>1. alias[request[q].alias] \in Versions \cup {NoVersion}
      BY <1>0, <1>2 DEF ReadIncumbent, RequestFits, Live, Request, TypeOK
    <3> QED
      BY <1>0, <1>2, <3>1 DEF ReadIncumbent, TypeOK
  <2> QED
    BY <1>0, <2>1, Helpers
    DEF TypeOK, Live, Replies, RequestFits, PassFits, HolderIsGoverned, SucceededWasHeld,
        PromotedIsAudited
<1>3. ASSUME NEW q \in Requests, Decide(q) PROVE TypeOK' /\ Parts'
  <2>1. PICK d \in {"approved", "rejected", "overridden"} :
           /\ audit' = [audit EXCEPT ![q] = [outcome |-> "pending", decision |-> d,
                                             age |-> "recent"]]
           /\ Goto(q, IF Proceeds(d) THEN "assign" ELSE "reject")
    BY <1>3 DEF Decide, Decision
  <2>2. /\ step[q] = "decide" /\ audit[q] = NoAudit
        /\ UNCHANGED <<registryVars, request, previous, pass, faults>>
    BY <1>0, <1>3 DEF Decide, RequestFits
  <2>3. /\ audit' \in [Requests -> Audit]
        /\ audit'[q] = [outcome |-> "pending", decision |-> d, age |-> "recent"]
        /\ \A x \in Requests \ {q} : audit'[x] = audit[x]
    BY <1>0, <2>1 DEF TypeOK, Audit, Outcomes
  <2>4. /\ step' \in [Requests -> {"new"} \cup Live \cup Replies]
        /\ step'[q] \in {"assign", "reject"}
        /\ step'[q] = "assign" => d # "rejected"
        /\ \A x \in Requests \ {q} : step'[x] = step[x]
    BY <1>0, <2>1, Helpers DEF Live, Proceeds
  <2>5. request[q] \in Request /\ request[q].version \in evidenced
    BY <1>0, <2>2 DEF RequestFits, Live
  <2>6. (\A x \in Requests : RequestFits(x))'
    BY <1>0, <2>2, <2>3, <2>4, <2>5 DEF RequestFits, Live
  <2>7. (\A p \in Reconcilers : PassFits(p))'
    BY <1>0, <2>2, <2>3 DEF PassFits
  <2>8. HolderIsGoverned'
    BY <1>0, <2>2, <2>3 DEF HolderIsGoverned, NoAudit
  <2>9. SucceededWasHeld' /\ PromotedIsAudited'
    BY <1>0, <2>2, <2>3, <2>4 DEF SucceededWasHeld, PromotedIsAudited
  <2> QED
    BY <1>0, <2>2, <2>3, <2>4, <2>6, <2>7, <2>8, <2>9 DEF TypeOK
<1>4. ASSUME NEW q \in Requests, AssignAlias(q) \/ RegistryFails(q) PROVE TypeOK' /\ Parts'
  <2>1. /\ step[q] \in {"incumbent", "decide", "assign", "verify"}
        /\ step'[q] \in {"verify", "registry_failed", "registry_error"}
        /\ step'[q] \in {"verify", "registry_failed"} => step[q] \in {"assign", "verify"}
        /\ step' \in [Requests -> {"new"} \cup Live \cup Replies]
        /\ \A x \in Requests \ {q} : step'[x] = step[x]
    BY <1>0, <1>4, Helpers DEF AssignAlias, RegistryFails, Live, Replies
  <2>2. /\ UNCHANGED <<request, previous, audit, pass>>
        /\ faults' \in 0 .. MaxFaults
        /\ UNCHANGED registryVars \/ (step[q] = "assign" /\ Assign(q))
    BY <1>0, <1>4, Helpers DEF AssignAlias, RegistryFails, TypeOK
  <2>3. request[q] \in Request /\ request[q].version \in evidenced
    BY <1>0, <2>1 DEF RequestFits, Live
  <2>4. CASE UNCHANGED registryVars
    BY <1>0, <2>1, <2>2, <2>4
    DEF TypeOK, Live, RequestFits, PassFits, HolderIsGoverned, SucceededWasHeld,
        PromotedIsAudited
  <2>5. CASE step[q] = "assign" /\ Assign(q)
    <3>1. /\ alias' \in [Aliases -> Versions \cup {NoVersion}]
          /\ alias'[request[q].alias] = request[q].version
          /\ \A a \in Aliases \ {request[q].alias} : alias'[a] = alias[a]
          /\ held' = held \cup {<<request[q].alias, request[q].version>>}
          /\ held' \in SUBSET (Aliases \X Versions)
          /\ UNCHANGED <<metrics, evidenced>>
      BY <1>0, <2>3, <2>5 DEF Assign, TypeOK, Request
    <3>2. audit[q].decision \in {"approved", "overridden"}
      BY <1>0, <2>5 DEF RequestFits
    <3>3. TypeOK'
      BY <1>0, <2>1, <2>2, <3>1 DEF TypeOK
    <3>4. HolderIsGoverned'
      BY <1>0, <2>2, <2>3, <3>1, <3>2 DEF HolderIsGoverned
    <3>5. (\A x \in Requests : RequestFits(x))' /\ (\A p \in Reconcilers : PassFits(p))'
      BY <1>0, <2>1, <2>2, <2>3, <3>1, <3>2 DEF RequestFits, PassFits, Live
    <3> QED
      BY <1>0, <2>1, <2>2, <3>1, <3>3, <3>4, <3>5 DEF SucceededWasHeld, PromotedIsAudited
  <2> QED BY <2>2, <2>4, <2>5
<1>5. ASSUME NEW q \in Requests, VerifyAlias(q) \/ LoseRequest(q) PROVE TypeOK' /\ Parts'
  <2>1. /\ step' \in [Requests -> {"new"} \cup Live \cup Replies]
        /\ step[q] \in Live
        /\ step'[q] \in {"finalize", "registry_failed", "unreconciled", "lost"}
        /\ step'[q] \in {"finalize", "registry_failed"} => step[q] = "verify"
        /\ step'[q] = "finalize" => alias[request[q].alias] = request[q].version
        /\ \A x \in Requests \ {q} : step'[x] = step[x]
    BY <1>0, <1>5, Helpers DEF VerifyAlias, LoseRequest, Live, Replies
  <2>2. /\ UNCHANGED <<registryVars, request, previous, audit, pass>>
        /\ faults' \in 0 .. MaxFaults
    BY <1>0, <1>5, Helpers DEF VerifyAlias, LoseRequest, TypeOK
  <2>3. step'[q] = "finalize" => <<request[q].alias, request[q].version>> \in held
    BY <1>0, <2>1, NoVersionAssumption DEF RequestFits, Request
  <2> QED
    BY <1>0, <2>1, <2>2, <2>3
    DEF TypeOK, Live, RequestFits, PassFits, HolderIsGoverned, SucceededWasHeld,
        PromotedIsAudited
<1>6. ASSUME NEW q \in Requests, Finalize(q) \/ CompleteFailed(q) PROVE TypeOK' /\ Parts'
  <2>1. /\ step[q] \in {"finalize", "reject", "registry_failed"}
        /\ step'[q] \in {"promoted", "unreconciled", "rejected", "registry_error"}
        /\ step'[q] = "promoted" => step[q] = "finalize" /\ Settleable(q)
        /\ step' \in [Requests -> {"new"} \cup Live \cup Replies]
        /\ \A x \in Requests \ {q} : step'[x] = step[x]
    BY <1>0, <1>6, Helpers DEF Finalize, CompleteFailed, Live, Replies
  <2>2. /\ audit' \in [Requests -> Audit]
        /\ audit'[q].decision = audit[q].decision
        /\ \/ audit'[q].outcome = audit[q].outcome
           \/ audit'[q].outcome = "failed"
           \/ audit'[q].outcome = "succeeded" /\ step[q] = "finalize"
        /\ step'[q] = "promoted" => audit'[q].outcome = "succeeded"
        /\ \A x \in Requests \ {q} : audit'[x] = audit[x]
    BY <1>0, <1>6, <2>1, Helpers DEF Finalize, CompleteFailed, Outcomes, Live, Replies
  <2>3. UNCHANGED <<registryVars, request, previous, pass, faults>>
    BY <1>6 DEF Finalize, CompleteFailed
  <2>4. request[q] \in Request /\ request[q].version \in evidenced
    BY <1>0, <2>1 DEF RequestFits, Live
  <2>5. (\A x \in Requests : RequestFits(x))'
    BY <1>0, <2>1, <2>2, <2>3, <2>4 DEF RequestFits, Live
  <2>6. (\A p \in Reconcilers : PassFits(p))'
    BY <1>0, <2>1, <2>2, <2>3 DEF PassFits, TypeOK, RequestFits
  <2>7. HolderIsGoverned' /\ SucceededWasHeld' /\ PromotedIsAudited'
    BY <1>0, <2>1, <2>2, <2>3
    DEF HolderIsGoverned, SucceededWasHeld, PromotedIsAudited, RequestFits
  <2> QED
    BY <1>0, <2>1, <2>2, <2>3, <2>5, <2>6, <2>7 DEF TypeOK
<1>7. ASSUME NEW q \in Requests, Age(q) PROVE TypeOK' /\ Parts'
  <2>1. /\ audit' \in [Requests -> Audit]
        /\ \A x \in Requests : /\ audit'[x].outcome = audit[x].outcome
                               /\ audit'[x].decision = audit[x].decision
        /\ \A x \in Requests \ {q} : audit'[x] = audit[x]
        /\ audit[q].outcome = "pending"
        /\ UNCHANGED <<registryVars, requestVars, pass, faults>>
    BY <1>0, <1>7 DEF Age, TypeOK, Audit
  <2>2. (\A x \in Requests : RequestFits(x))'
    BY <1>0, <2>1 DEF RequestFits, NoAudit
  <2>3. (\A p \in Reconcilers : PassFits(p))'
    BY <1>0, <2>1 DEF PassFits
  <2>4. HolderIsGoverned'
    BY <1>0, <2>1 DEF HolderIsGoverned
  <2>5. SucceededWasHeld' /\ PromotedIsAudited'
    BY <1>0, <2>1 DEF SucceededWasHeld, PromotedIsAudited
  <2> QED
    BY <1>0, <2>1, <2>2, <2>3, <2>4, <2>5 DEF TypeOK
<1>8. ASSUME NEW v \in Versions, Succeed(v) PROVE TypeOK' /\ Parts'
  <2>1. /\ evidenced' = evidenced \cup {v}
        /\ UNCHANGED <<metrics, alias, held, requestVars, audit, pass, faults>>
    BY <1>8 DEF Succeed
  <2>2. (\A x \in Requests : RequestFits(x))'
    BY <1>0, <2>1 DEF RequestFits
  <2>3. (\A p \in Reconcilers : PassFits(p))'
    BY <1>0, <2>1 DEF PassFits
  <2>4. HolderIsGoverned'
    BY <1>0, <2>1 DEF HolderIsGoverned
  <2>5. SucceededWasHeld' /\ PromotedIsAudited'
    BY <1>0, <2>1 DEF SucceededWasHeld, PromotedIsAudited
  <2> QED
    BY <1>0, <2>1, <2>2, <2>3, <2>4, <2>5 DEF TypeOK
<1>9. ASSUME NEW p \in Reconcilers, pass' \in [Reconcilers -> Pass], PassFits(p)',
             \A x \in Reconcilers \ {p} : pass'[x] = pass[x],
             faults' \in 0 .. MaxFaults,
             UNCHANGED <<registryVars, requestVars, audit>>
      PROVE  TypeOK' /\ Parts'
  <2>1. (\A x \in Requests : RequestFits(x))'
    BY <1>0, <1>9 DEF RequestFits
  <2>2. ASSUME NEW x \in Reconcilers PROVE PassFits(x)'
    BY <1>0, <1>9 DEF PassFits
  <2>3. HolderIsGoverned'
    BY <1>0, <1>9 DEF HolderIsGoverned
  <2>4. SucceededWasHeld' /\ PromotedIsAudited'
    BY <1>0, <1>9 DEF SucceededWasHeld, PromotedIsAudited
  <2> QED
    BY <1>0, <1>9, <2>1, <2>2, <2>3, <2>4 DEF TypeOK
<1>10. ASSUME NEW p \in Reconcilers, ListPending(p) PROVE TypeOK' /\ Parts'
  <2>1. /\ pass' \in [Reconcilers -> Pass]
        /\ pass'[p].todo = {q \in Requests : Aged(q)}
        /\ pass'[p].verdict = pass[p].verdict
        /\ \A x \in Reconcilers \ {p} : pass'[x] = pass[x]
        /\ UNCHANGED <<registryVars, requestVars, audit, faults>>
        /\ pass[p].todo = {}
    BY <1>0, <1>10 DEF ListPending, TypeOK, Pass
  <2>2. PassFits(p)'
    BY <1>0, <2>1 DEF PassFits, Aged
  <2> QED
    BY <1>0, <1>9, <2>1, <2>2 DEF TypeOK
<1>11. ASSUME NEW p \in Reconcilers, NEW q \in Requests, Observe(p, q)
       PROVE  TypeOK' /\ Parts'
  <2>1. /\ pass' \in [Reconcilers -> Pass]
        /\ pass'[p].todo = pass[p].todo
        /\ pass'[p].verdict = [pass[p].verdict EXCEPT ![q] = Verdict(q)]
        /\ \A x \in Reconcilers \ {p} : pass'[x] = pass[x]
        /\ UNCHANGED <<registryVars, requestVars, audit, faults>>
        /\ q \in pass[p].todo
    BY <1>0, <1>11 DEF Observe, TypeOK, Pass, Verdict, Verdicts
  <2>2. Verdict(q) = "succeeded" => <<request[q].alias, request[q].version>> \in held
    BY <1>0, <2>1, NoVersionAssumption DEF Verdict, RequestFits, PassFits, Request
  <2>3. pass[p].verdict \in [Requests -> Verdicts]
    BY <1>0 DEF TypeOK, Pass
  <2>4. PassFits(p)'
    BY <1>0, <2>1, <2>2, <2>3 DEF PassFits
  <2> QED
    BY <1>0, <1>9, <2>1, <2>4 DEF TypeOK
<1>12. ASSUME NEW p \in Reconcilers, NEW q \in Requests, ObserveFails(p, q)
       PROVE  TypeOK' /\ Parts'
  <2>1. /\ pass' \in [Reconcilers -> Pass]
        /\ pass'[p].todo = pass[p].todo \ {q}
        /\ pass'[p].verdict = pass[p].verdict
        /\ \A x \in Reconcilers \ {p} : pass'[x] = pass[x]
        /\ UNCHANGED <<registryVars, requestVars, audit>>
        /\ \A x \in Requests : pass[p].verdict[x] = "none"
    BY <1>0, <1>12 DEF ObserveFails, TypeOK, Pass, Undecided
  <2>2. PassFits(p)'
    BY <1>0, <2>1 DEF PassFits
  <2> QED
    BY <1>0, <1>9, <1>12, <2>1, <2>2, Helpers DEF ObserveFails
<1>13. ASSUME NEW p \in Reconcilers, LosePass(p) PROVE TypeOK' /\ Parts'
  <2>1. /\ pass' \in [Reconcilers -> Pass]
        /\ pass'[p] = AtRest
        /\ \A x \in Reconcilers \ {p} : pass'[x] = pass[x]
    BY <1>0, <1>13 DEF LosePass, TypeOK, Pass, AtRest, Verdicts
  <2>2. UNCHANGED <<registryVars, requestVars, audit>> /\ faults' \in 0 .. MaxFaults
    BY <1>0, <1>13, MaxFaultsAssumption DEF LosePass, Fault, TypeOK
  <2>3. PassFits(p)'
    BY <2>1 DEF PassFits, AtRest
  <2> QED
    BY <1>9, <2>1, <2>2, <2>3
<1>14. ASSUME NEW p \in Reconcilers, NEW q \in Requests, Conclude(p, q)
       PROVE  TypeOK' /\ Parts'
  <2>1. /\ pass' \in [Reconcilers -> Pass]
        /\ pass'[p].todo = pass[p].todo \ {q}
        /\ pass'[p].verdict = [pass[p].verdict EXCEPT ![q] = "none"]
        /\ \A x \in Reconcilers \ {p} : pass'[x] = pass[x]
        /\ UNCHANGED <<registryVars, requestVars, faults>>
        /\ q \in pass[p].todo
        /\ pass[p].verdict \in [Requests -> Verdicts]
    BY <1>0, <1>14 DEF Conclude, TypeOK, Pass, Verdicts
  <2>2. pass[p].verdict[q] \in {"succeeded", "failed"} /\ Settle(q, pass[p].verdict[q])
    BY <1>14, <2>1 DEF Conclude, Verdicts
  <2>3. /\ audit' \in [Requests -> Audit]
        /\ audit'[q].decision = audit[q].decision
        /\ \/ audit'[q].outcome = audit[q].outcome
           \/ audit'[q].outcome = pass[p].verdict[q] /\ audit[q].outcome = "pending"
        /\ \A x \in Requests \ {q} : audit'[x] = audit[x]
    BY <1>0, <2>2, Helpers DEF Outcomes, Settleable
  <2>4. /\ audit[q].outcome # "absent"
        /\ pass[p].verdict[q] = "succeeded"
              => <<request[q].alias, request[q].version>> \in held
    BY <1>0, <2>1 DEF PassFits
  <2>5. (\A x \in Requests : RequestFits(x))'
    BY <1>0, <2>1, <2>3, <2>4 DEF RequestFits, NoAudit
  <2>6. \A x \in Requests : audit[x].outcome # "absent" => audit'[x].outcome # "absent"
    BY <2>2, <2>3
  <2>7. PassFits(p)'
    BY <1>0, <2>1, <2>6 DEF PassFits
  <2>8. \A x \in Reconcilers \ {p} : PassFits(x)'
    BY <1>0, <2>1, <2>6 DEF PassFits
  <2>9. HolderIsGoverned'
    BY <1>0, <2>1, <2>3 DEF HolderIsGoverned
  <2>10. SucceededWasHeld' /\ PromotedIsAudited'
    BY <1>0, <2>1, <2>3, <2>4 DEF SucceededWasHeld, PromotedIsAudited
  <2> QED
    BY <1>0, <2>1, <2>3, <2>5, <2>7, <2>8, <2>9, <2>10 DEF TypeOK
<1>15. CASE UNCHANGED vars
  <2>1. TypeOK' /\ HolderIsGoverned' /\ SucceededWasHeld' /\ PromotedIsAudited'
    BY <1>0, <1>15 DEF vars, TypeOK, HolderIsGoverned, SucceededWasHeld, PromotedIsAudited
  <2>2. (\A q \in Requests : RequestFits(q))'
    BY <1>0, <1>15 DEF vars, RequestFits
  <2>3. ASSUME NEW p \in Reconcilers PROVE PassFits(p)'
    <3>1. PassFits(p) /\ UNCHANGED <<pass, audit, request, held>>
      BY <1>0, <1>15 DEF vars
    <3> QED
      BY <3>1 DEF PassFits
  <2>4. (\A a \in Aliases : alias[a] # NoVersion => <<a, alias[a]>> \in held)'
    <3>1. UNCHANGED <<alias, held>>
      BY <1>15 DEF vars
    <3>2. \A a \in Aliases : alias[a] # NoVersion => <<a, alias[a]>> \in held
      BY <1>0
    <3> QED
      BY <3>1, <3>2
  <2> QED
    BY <1>q, <2>1, <2>2, <2>3, <2>4
<1>16. ASSUME NEW q \in Requests, Promote(q) \/ RegistryFails(q) \/ LoseRequest(q) \/ Age(q)
       PROVE  TypeOK' /\ Parts'
  <2> HIDE DEF Parts
  <2> QED
    BY <1>1, <1>2, <1>3, <1>4, <1>5, <1>6, <1>7, <1>16 DEF Promote
<1>17. ASSUME NEW p \in Reconcilers,
              Reconcile(p) \/ LosePass(p) \/ \E q \in Requests : ObserveFails(p, q)
       PROVE  TypeOK' /\ Parts'
  <2> HIDE DEF Parts
  <2> QED
    BY <1>10, <1>11, <1>12, <1>13, <1>14, <1>17 DEF Reconcile
<1> HIDE DEF Parts
<1> QED
  BY <1>q, <1>8, <1>15, <1>16, <1>17 DEF Next

\* The inductive invariant holds in every reachable state.
THEOREM Invariance == Spec => []IndInv
  BY Start, Preservation, PTL DEF Spec

\* Every variable keeps its type.
THEOREM TypeCorrect == Spec => []TypeOK
<1>1. IndInv => TypeOK BY DEF IndInv
<1> QED BY <1>1, Invariance, PTL

\* Whoever holds a governed alias has an approving audit and training evidence,
\* whichever requests race, fail or die.
THEOREM HoldersAreGoverned == Spec => []HolderIsGoverned
<1>1. IndInv => HolderIsGoverned BY DEF IndInv
<1> QED BY <1>1, Invariance, PTL

\* A succeeded audit is never about an assignment that did not happen.
THEOREM SuccessIsTruthful == Spec => []SucceededWasHeld
<1>1. IndInv => SucceededWasHeld BY DEF IndInv
<1> QED BY <1>1, Invariance, PTL

\* A promotion reported to its caller is audited as succeeded, for good.
THEOREM RepliesAreAudited == Spec => []PromotedIsAudited
<1>1. IndInv => PromotedIsAudited BY DEF IndInv
<1> QED BY <1>1, Invariance, PTL

\* Together: what an audit says of an assignment happened, and what a caller was
\* told of is audited.
THEOREM AuditsTellTheTruth == Spec => []AuditsAreTruthful
<1>1. TypeOK /\ SucceededWasHeld /\ PromotedIsAudited => AuditsAreTruthful
  BY DEF AuditsAreTruthful
<1> QED
  BY <1>1, TypeCorrect, SuccessIsTruthful, RepliesAreAudited, PTL

\* No request and no reconciliation command rewrites a final outcome: every
\* write of an outcome is Settle's, which only finalizes a pending audit.
THEOREM OutcomesAreFinal == Spec => OutcomeIsFinal
<1> DEFINE Final == \A q \in Requests : audit[q].outcome \in {"succeeded", "failed"}
                                          => audit'[q].outcome = audit[q].outcome
<1>1. IndInv /\ [Next]_vars => [Final]_vars
  <2> SUFFICES ASSUME IndInv, Next PROVE Final
    OBVIOUS
  <2>1. TypeOK /\ \A q \in Requests : RequestFits(q)
    BY DEF IndInv
  <2>2. ASSUME NEW x \in Requests, NEW o, Settle(x, o) PROVE Final
    BY <2>1, <2>2 DEF Settle, Settleable, TypeOK
  <2>3. ASSUME NEW x \in Requests, Decide(x) PROVE Final
    <3>0. step[x] = "decide" /\ RequestFits(x)
      BY <2>1, <2>3 DEF Decide
    <3>1. audit[x].outcome = "absent"
      BY <3>0 DEF RequestFits, NoAudit
    <3>2. PICK e : audit' = [audit EXCEPT ![x] = e]
      BY <2>3 DEF Decide
    <3>3. audit \in [Requests -> Audit]
      BY <2>1 DEF TypeOK
    <3>4. \A q \in Requests : q # x => audit'[q] = audit[q]
      BY <3>2, <3>3
    <3> QED
      BY <3>1, <3>4
  <2>4. ASSUME NEW x \in Requests, Age(x) PROVE Final
    BY <2>1, <2>4 DEF Age, TypeOK, Audit
  <2>5. CASE UNCHANGED audit
    BY <2>5
  <2> HIDE DEF Final
  <2>6. ASSUME NEW x \in Requests,
               Promote(x) \/ RegistryFails(x) \/ LoseRequest(x) \/ Age(x)
        PROVE  Final
    <3>1. CASE Finalize(x) \/ CompleteFailed(x)
      BY <2>2, <3>1 DEF Finalize, CompleteFailed
    <3> QED
      BY <2>3, <2>4, <2>5, <2>6, <3>1
      DEF Promote, Begin, ReadIncumbent, AssignAlias, VerifyAlias, RegistryFails, LoseRequest
  <2>7. ASSUME NEW p \in Reconcilers,
               Reconcile(p) \/ LosePass(p) \/ \E x \in Requests : ObserveFails(p, x)
        PROVE  Final
    <3>1. ASSUME NEW x \in Requests, Conclude(p, x) PROVE Final
      BY <2>2, <3>1 DEF Conclude
    <3> QED
      BY <2>5, <2>7, <3>1 DEF Reconcile, ListPending, Observe, LosePass, ObserveFails
  <2> QED
    BY <2>5, <2>6, <2>7 DEF Next, Succeed
<1> QED
  BY <1>1, Invariance, PTL DEF Spec, OutcomeIsFinal
=============================================================================
