--------------------------- MODULE ModelPromotion ---------------------------
(***************************************************************************)
(* Governed alias promotion of one registered model: the requests of       *)
(* ModelPromotionService.promote and the pending-audit reconciliation of   *)
(* PromotionAuditReconciliationService (ml/promotion/service.py).          *)
(*                                                                         *)
(* A step ends at a database commit or at a call of the model registry:    *)
(* between two of them other requests and the reconciliation command run.  *)
(* A request has at most one audit, which bears its name.  That a model    *)
(* version becomes READY and gets its succeeded training job is the        *)
(* business of TrainingJobs; here it is the environment's step Succeed.    *)
(*                                                                         *)
(* Definitions that no other uses (ProceedsAlways, SettleableAlways, ...)  *)
(* are faulty variants of the definition that follows them; each one makes *)
(* a property below fail.                                                  *)
(***************************************************************************)
EXTENDS PromotionPolicy, FiniteSets

CONSTANTS
    Requests,       \* promotion requests
    Versions,       \* versions of the registered model
    NoVersion,      \* an alias nobody holds
    TaskType,       \* which policy decides: of the model's trainer key
    Evidence,       \* the metrics snapshots a succeeded job may have
    Reconcilers,    \* concurrent runs of python -m app.ml.promotion.reconcile
    MaxFaults       \* bound: crashes and failed registry and database calls

ASSUME NoVersionAssumption == NoVersion \notin Versions
ASSUME TaskTypeAssumption == TaskType \in {"regression", "classification"}
ASSUME MaxFaultsAssumption == MaxFaults \in Nat

VARIABLES
    metrics,        \* each version's metrics snapshot
    evidenced,      \* READY versions with a succeeded training job
    alias,          \* the registry: who holds challenger and champion
    held,           \* history: every assignment the registry ever made
    request,        \* what each request asks for
    step,           \* where each request stands, or its reply
    previous,       \* the holder each request compared itself with
    audit,          \* the model_promotion_audits table
    pass,           \* what each reconciliation command is doing
    faults          \* faults so far

registryVars == <<metrics, evidenced, alias, held>>
requestVars == <<request, step, previous>>
vars == <<registryVars, requestVars, audit, pass, faults>>

-----------------------------------------------------------------------------
(* The state space *)

Aliases == {"challenger", "champion"}

Request == [version : Versions, alias : Aliases, mode : {"normal", "forced"}]
NoRequest == [version |-> NoVersion, alias |-> "challenger", mode |-> "normal"]

Live == {"incumbent", "decide", "reject", "assign", "verify", "registry_failed",
         "finalize"}
Replies == {"refused", "registry_error", "rejected", "promoted",
            "unreconciled", "lost"}

Outcomes == {"pending", "succeeded", "failed"}
Audit == [outcome : Outcomes \cup {"absent"},
          decision : {"none", "approved", "rejected", "overridden"},
          age : {"recent", "old"}]
NoAudit == [outcome |-> "absent", decision |-> "none", age |-> "recent"]

Verdicts == {"none", "succeeded", "failed"}
Pass == [todo : SUBSET Requests, verdict : [Requests -> Verdicts]]
AtRest == [todo |-> {}, verdict |-> [q \in Requests |-> "none"]]

TypeOK ==
    /\ metrics \in [Versions -> Evidence]
    /\ evidenced \in SUBSET Versions
    /\ alias \in [Aliases -> Versions \cup {NoVersion}]
    /\ held \in SUBSET (Aliases \X Versions)
    /\ request \in [Requests -> Request \cup {NoRequest}]
    /\ step \in [Requests -> {"new"} \cup Live \cup Replies]
    /\ previous \in [Requests -> Versions \cup {NoVersion}]
    /\ audit \in [Requests -> Audit]
    /\ pass \in [Reconcilers -> Pass]
    /\ faults \in 0 .. MaxFaults

Init ==
    /\ metrics \in [Versions -> Evidence]
    /\ evidenced = {}
    /\ alias = [a \in Aliases |-> NoVersion]
    /\ held = {}
    /\ request = [q \in Requests |-> NoRequest]
    /\ step = [q \in Requests |-> "new"]
    /\ previous = [q \in Requests |-> NoVersion]
    /\ audit = [q \in Requests |-> NoAudit]
    /\ pass = [p \in Reconcilers |-> AtRest]
    /\ faults = 0

Fault == faults < MaxFaults /\ faults' = faults + 1

Goto(q, s) == step' = [step EXCEPT ![q] = s]

-----------------------------------------------------------------------------
(* ModelPromotionService.promote *)

\* _authorize: champions and forced promotions are for administrators, and a
\* forced one has a reason.  The candidate alias is refused to everyone.
Authorized(role, r, reason) ==
    /\ role \in {"admin", "engineer"}
    /\ r.alias = "champion" => role = "admin"
    /\ r.mode = "forced" => role = "admin" /\ reason = "given"

\* The version must be READY and have the metrics of a succeeded job.
Begin(q) ==
    /\ step[q] = "new"
    /\ \E r \in Request, role \in {"admin", "engineer", "viewer"},
          reason \in {"given", "absent"} :
          IF Authorized(role, r, reason) /\ r.version \in evidenced
          THEN request' = [request EXCEPT ![q] = r] /\ Goto(q, "incumbent")
          ELSE Goto(q, "refused") /\ UNCHANGED request
    /\ UNCHANGED <<registryVars, previous, audit, pass, faults>>

\* _resolve_optional of the target alias, and the holder's own evidence.
ReadIncumbent(q) ==
    /\ step[q] = "incumbent"
    /\ LET holder == alias[request[q].alias]
       IN /\ previous' = [previous EXCEPT ![q] = holder]
          /\ Goto(q, IF holder \in evidenced \cup {NoVersion}
                     THEN "decide" ELSE "refused")
    /\ UNCHANGED <<registryVars, request, audit, pass, faults>>

\* The metrics the policy sees.
EvidenceOf(v) == IF v = NoVersion THEN NoIncumbent ELSE metrics[v]

Accepts(v, incumbent) ==
    IF TaskType = "regression"
    THEN RegressionAccepts(EvidenceOf(v), EvidenceOf(incumbent))
    ELSE ClassificationAccepts(EvidenceOf(v), EvidenceOf(incumbent))

\* _transition_allowed reads the challenger alias after the policy ran.
TransitionAllowed(r) ==
    \/ r.alias # "champion"
    \/ r.mode = "forced"
    \/ alias["challenger"] = r.version

Decision(r, incumbent) ==
    IF Accepts(r.version, incumbent) /\ TransitionAllowed(r) THEN "approved"
    ELSE IF r.mode = "forced" THEN "overridden" ELSE "rejected"

ProceedsAlways(decision) == TRUE

\* A rejected request stops after its audit is committed.
Proceeds(decision) == decision # "rejected"

\* The audit is committed before the registry is touched.
Decide(q) ==
    /\ step[q] = "decide"
    /\ LET decision == Decision(request[q], previous[q])
       IN /\ audit' = [audit EXCEPT ![q] = [outcome |-> "pending",
                                            decision |-> decision,
                                            age |-> "recent"]]
          /\ Goto(q, IF Proceeds(decision) THEN "assign" ELSE "reject")
    /\ UNCHANGED <<registryVars, request, previous, pass, faults>>

SettleableAlways(q) == TRUE

\* complete_attempt finalizes only an audit that is still pending.
Settleable(q) == audit[q].outcome = "pending"

Settle(q, outcome) ==
    audit' = [audit EXCEPT ![q].outcome = IF Settleable(q) THEN outcome ELSE @]

\* _complete_failed after a rejection or a registry failure.
CompleteFailed(q) ==
    /\ step[q] \in {"reject", "registry_failed"}
    /\ Settle(q, "failed")
    /\ Goto(q, IF step[q] = "reject" THEN "rejected" ELSE "registry_error")
    /\ UNCHANGED <<registryVars, request, previous, pass, faults>>

Assign(q) ==
    /\ alias' = [alias EXCEPT ![request[q].alias] = request[q].version]
    /\ held' = held \cup {<<request[q].alias, request[q].version>>}
    /\ UNCHANGED <<metrics, evidenced>>

AssignAlias(q) ==
    /\ step[q] = "assign"
    /\ Assign(q)
    /\ Goto(q, "verify")
    /\ UNCHANGED <<request, previous, audit, pass, faults>>

\* The read-back of assign_alias.
VerifyAlias(q) ==
    /\ step[q] = "verify"
    /\ Goto(q, IF alias[request[q].alias] = request[q].version
               THEN "finalize" ELSE "registry_failed")
    /\ UNCHANGED <<registryVars, request, previous, audit, pass, faults>>

FinalizeUnchecked(q) ==
    /\ step[q] = "finalize"
    /\ Settle(q, "succeeded")
    /\ Goto(q, "promoted")
    /\ UNCHANGED <<registryVars, request, previous, pass, faults>>

\* _finalize_success: an audit that somebody else finalized is an error.
Finalize(q) ==
    /\ step[q] = "finalize"
    /\ Settle(q, "succeeded")
    /\ Goto(q, IF Settleable(q) THEN "promoted" ELSE "unreconciled")
    /\ UNCHANGED <<registryVars, request, previous, pass, faults>>

\* A registry call fails.  Before the audit exists that ends the request; a
\* failed assignment leaves open whether the alias moved.
RegistryFails(q) ==
    /\ Fault
    /\ \/ /\ step[q] \in {"incumbent", "decide"}
          /\ Goto(q, "registry_error")
          /\ UNCHANGED registryVars
       \/ /\ step[q] = "assign"
          /\ Goto(q, "registry_failed")
          /\ Assign(q) \/ UNCHANGED registryVars
       \/ /\ step[q] = "verify"
          /\ Goto(q, "registry_failed")
          /\ UNCHANGED registryVars
    /\ UNCHANGED <<request, previous, audit, pass>>

\* The process dies or a database call fails: the rest of the request is lost.
LoseRequest(q) ==
    /\ Fault
    /\ step[q] \in Live
    /\ Goto(q, IF step[q] = "finalize" THEN "unreconciled" ELSE "lost")
    /\ UNCHANGED <<registryVars, request, previous, audit, pass>>

Promote(q) == \/ Begin(q) \/ ReadIncumbent(q) \/ Decide(q) \/ AssignAlias(q)
              \/ VerifyAlias(q) \/ Finalize(q) \/ CompleteFailed(q)

-----------------------------------------------------------------------------
(* PromotionAuditReconciliationService.reconcile *)

AgedUnrejected(q) == /\ audit[q].outcome = "pending" /\ audit[q].age = "old"
                     /\ audit[q].decision # "rejected"

\* The WHERE clause of list_pending_before.
Aged(q) == audit[q].outcome = "pending" /\ audit[q].age = "old"

\* A pass that finds nothing changes nothing.
ListPending(p) ==
    /\ pass[p].todo = {}
    /\ \E q \in Requests : Aged(q)
    /\ pass' = [pass EXCEPT ![p].todo = {q \in Requests : Aged(q)}]
    /\ UNCHANGED <<registryVars, requestVars, audit, faults>>

VerdictConflict(q) == IF alias[request[q].alias] = request[q].version
                      THEN "succeeded" ELSE "conflict"
VerdictOptimistic(q) == IF alias[request[q].alias] # NoVersion
                        THEN "succeeded" ELSE "failed"

\* What the alias, looked up once, says about the promotion.
Verdict(q) == IF alias[request[q].alias] = request[q].version
              THEN "succeeded" ELSE "failed"

\* The loop settles one audit before it looks at the next.
Undecided(p) == \A q \in Requests : pass[p].verdict[q] = "none"

Observe(p, q) ==
    /\ q \in pass[p].todo
    /\ Undecided(p)
    /\ pass' = [pass EXCEPT ![p].verdict[q] = Verdict(q)]
    /\ UNCHANGED <<registryVars, requestVars, audit, faults>>

\* An audit whose alias cannot be resolved stays pending for a later pass.
ObserveFails(p, q) ==
    /\ Fault
    /\ q \in pass[p].todo
    /\ Undecided(p)
    /\ pass' = [pass EXCEPT ![p].todo = @ \ {q}]
    /\ UNCHANGED <<registryVars, requestVars, audit>>

Conclude(p, q) ==
    /\ q \in pass[p].todo
    /\ pass[p].verdict[q] # "none"
    /\ Settle(q, pass[p].verdict[q])
    /\ pass' = [pass EXCEPT ![p].todo = @ \ {q}, ![p].verdict[q] = "none"]
    /\ UNCHANGED <<registryVars, requestVars, faults>>

\* A failed finalization raises out of the loop.
LosePass(p) ==
    /\ Fault
    /\ pass[p].todo # {}
    /\ pass' = [pass EXCEPT ![p] = AtRest]
    /\ UNCHANGED <<registryVars, requestVars, audit>>

Reconcile(p) == \/ ListPending(p)
                \/ \E q \in Requests : Observe(p, q) \/ Conclude(p, q)

-----------------------------------------------------------------------------
(* Training and time *)

Succeed(v) ==
    /\ v \notin evidenced
    /\ evidenced' = evidenced \cup {v}
    /\ UNCHANGED <<metrics, alias, held, requestVars, audit, pass, faults>>

\* promotion_audit_pending_after_seconds pass; the request may still be live.
Age(q) ==
    /\ audit[q].outcome = "pending"
    /\ audit[q].age = "recent"
    /\ audit' = [audit EXCEPT ![q].age = "old"]
    /\ UNCHANGED <<registryVars, requestVars, pass, faults>>

Next == \/ \E q \in Requests : \/ Promote(q) \/ RegistryFails(q)
                               \/ LoseRequest(q) \/ Age(q)
        \/ \E p \in Reconcilers : \/ Reconcile(p) \/ LosePass(p)
                                  \/ \E q \in Requests : ObserveFails(p, q)
        \/ \E v \in Versions : Succeed(v)

Spec == Init /\ [][Next]_vars

\* Requests and reconciliation commands run to their end unless they are
\* lost, the command is run again and again, and time passes.
Fairness ==
    /\ \A q \in Requests : WF_vars(Promote(q)) /\ WF_vars(Age(q))
    /\ \A p \in Reconcilers : WF_vars(Reconcile(p))

FairSpec == Spec /\ Fairness

-----------------------------------------------------------------------------
(* Properties *)

\* Nobody holds a governed alias without a committed audit of a request that
\* was approved or overridden, and without the evidence of a succeeded job:
\* whichever requests, failures and crashes moved the alias.
HolderIsGoverned ==
    \A a \in Aliases :
        alias[a] # NoVersion =>
            /\ alias[a] \in evidenced
            /\ \E q \in Requests : /\ request[q].alias = a
                                   /\ request[q].version = alias[a]
                                   /\ audit[q].decision \in {"approved", "overridden"}

\* An audit that says succeeded tells the truth: the registry did at some time
\* give the alias to the version, whether the request or a reconciliation with
\* a stale look at the alias finalized it.
SucceededWasHeld ==
    \A q \in Requests :
        audit[q].outcome = "succeeded" =>
            <<request[q].alias, request[q].version>> \in held

\* A caller that is told of a promotion has a succeeded audit, even when the
\* reconciliation command raced the request for it.
PromotedIsAudited ==
    \A q \in Requests : step[q] = "promoted" => audit[q].outcome = "succeeded"

\* The audit log tells the truth: a succeeded audit names an assignment that was
\* made, and a caller told of a promotion has one.
AuditsAreTruthful == TypeOK /\ SucceededWasHeld /\ PromotedIsAudited

\* The audit log is append-only: an outcome, once final, is never rewritten by
\* a late request, a second reconciliation command or a repeated pass.
OutcomeIsFinal ==
    [][\A q \in Requests : audit[q].outcome \in {"succeeded", "failed"}
                              => audit'[q].outcome = audit[q].outcome]_vars

\* No audit stays pending, whatever was lost on the way.
EveryAuditSettles ==
    \A q \in Requests : audit[q].outcome = "pending" ~> audit[q].outcome # "pending"

-----------------------------------------------------------------------------
(* The inductive invariant *)

\* Steps after the audit is committed, and what each knows.
RequestFits(q) ==
    /\ step[q] \in Live => request[q] \in Request /\ request[q].version \in evidenced
    /\ audit[q].outcome # "absent" => request[q] \in Request
    /\ step[q] \in {"new", "incumbent", "decide"} => audit[q] = NoAudit
    /\ step[q] \in {"assign", "verify", "registry_failed", "finalize"}
          => audit[q].decision \in {"approved", "overridden"}
    /\ step[q] = "finalize"
          => <<request[q].alias, request[q].version>> \in held

\* A reconciliation command holds back a verdict only for what it once saw.
PassFits(p) ==
    \A q \in Requests :
        /\ q \in pass[p].todo => audit[q].outcome # "absent"
        /\ pass[p].verdict[q] # "none" => q \in pass[p].todo
        /\ pass[p].verdict[q] = "succeeded"
              => <<request[q].alias, request[q].version>> \in held

IndInv ==
    /\ TypeOK
    /\ \A q \in Requests : RequestFits(q)
    /\ \A p \in Reconcilers : PassFits(p)
    /\ \A a \in Aliases : alias[a] # NoVersion => <<a, alias[a]>> \in held
    /\ HolderIsGoverned
    /\ SucceededWasHeld
    /\ PromotedIsAudited

-----------------------------------------------------------------------------
(* What the documentation and the code's messages say, and the code does not *)
(* do                                                                        *)

\* ml/promotion/service.py: "Champion promotion requires the selected version
\* to hold the challenger alias."
ChampionWasChallenger ==
    [][\A q \in Requests :
         /\ step[q] = "assign" /\ step'[q] = "verify"
         /\ request[q].alias = "champion" /\ request[q].mode = "normal"
         => alias["challenger"] = request[q].version]_vars

\* docs/ai-background-training-and-promotion.md: "Policy rejection and external
\* failure finalize that audit with stable safe error metadata."
RejectedNeverSucceeds ==
    \A q \in Requests : audit[q].decision = "rejected" => audit[q].outcome # "succeeded"
=============================================================================
