---------------------------- MODULE GroundedChat ----------------------------
(***************************************************************************)
(* A conversation grounded on one knowledge base (RAGService.submit_message *)
(* and what may happen to its messages meanwhile), composed with the       *)
(* indexing of that knowledge base.                                        *)
(*                                                                         *)
(* A question and its answer are inserted together, one pair per           *)
(* idempotency key (a partial unique index of rag_messages); the model     *)
(* keeps the answer's row under that key.  A piece of evidence is a pair   *)
(* of the build and the dataset version whose chunk was retrieved.         *)
(***************************************************************************)
EXTENDS KnowledgeBases

CONSTANTS
    Asks,         \* concurrent requests on the conversation
    Keys,         \* idempotency keys
    Contents      \* contents of questions

ASSUME ChatConstants == None \notin Contents /\ None \notin {"grounded", "insufficient_evidence"}

VARIABLES
    conversation, \* the rag_conversations row
    answer,       \* the assistant's rag_messages row of each key, with its citations
    ask           \* the local state of every request

chatVars == <<conversation, answer, ask>>
vars == <<indexVars, chatVars>>

Evidence == Builds \X Versions
Unfinished == {"retrieving", "generating"}

\* The rag_conversations row, once created.
ConversationRow == [status : {"absent", "active", "archived"}, version : Nat]

AnswerRow ==
    [status : Unfinished \cup {"absent", "succeeded", "failed", "cancelled"},
     question : Contents \cup {None},
     outcome : {None, "grounded", "insufficient_evidence"},
     cited : SUBSET Evidence]

NoAnswer == [status |-> "absent", question |-> None, outcome |-> None, cited |-> {}]

\* A request keeps the conversation's version and, between its steps, the build it
\* searches or the evidence it found.
NoAsk == [pc |-> "idle", key |-> None, content |-> None, version |-> 0,
          build |-> None, evidence |-> {}]

ChatInit ==
    /\ conversation = [status |-> "absent", version |-> 0]
    /\ answer = [k \in Keys |-> NoAnswer]
    /\ ask = [a \in Asks |-> NoAsk]

Init == IndexInit /\ ChatInit

Goes(a, new) == ask' = [ask EXCEPT ![a] = new]

\* Requests of both halves share their bound.
Asked == /\ spent.requests < MaxRequests
         /\ spent' = [spent EXCEPT !.requests = @ + 1]

\* Bound: one conversation.
create_conversation ==
    /\ conversation.status = "absent"
    /\ kb.status = "ready"
    /\ conversation' = [status |-> "active", version |-> 0]
    /\ UNCHANGED <<answer, ask, spent>>

-----------------------------------------------------------------------------
(* submit_message *)

\* An existing message of the key is returned, or refused if its content
\* differs; neither changes anything.
MayAsk(k) == conversation.status = "active" /\ answer[k].status = "absent"

submit_message(a, k, content) ==
    /\ ask[a] = NoAsk /\ MayAsk(k)
    /\ Goes(a, [NoAsk EXCEPT !.pc = "insert", !.key = k, !.content = content,
                             !.version = conversation.version])
    /\ Asked
    /\ UNCHANGED <<conversation, answer>>

\* The loser of a race for the key violates the unique index and ends as a replay.
Insert(a) ==
    /\ ask[a].pc = "insert"
    /\ IF answer[ask[a].key].status = "absent"
       THEN /\ answer' = [answer EXCEPT ![ask[a].key] =
                            [NoAnswer EXCEPT !.status = "retrieving",
                                             !.question = ask[a].content]]
            /\ Goes(a, [ask[a] EXCEPT !.pc = "search"])
       ELSE Goes(a, NoAsk) /\ UNCHANGED answer
    /\ UNCHANGED <<conversation, spent>>

Fails(a) == Goes(a, [NoAsk EXCEPT !.pc = "fail", !.key = ask[a].key])

\* _search_authorized reads the knowledge base, embeds the query, then ranks.
search(a) ==
    /\ ask[a].pc = "search"
    /\ IF kb.status = "ready" /\ kb.active # None
       THEN Goes(a, [ask[a] EXCEPT !.pc = "retrieve", !.build = kb.active])
       ELSE Fails(a)
    /\ UNCHANGED <<conversation, answer, spent>>

ListAnyBuild(b) == {<<b, v>> : v \in builds[b].indexed \cup attached}

\* The joins of list_retrieval_candidates, evaluated when the query runs.
list_retrieval_candidates(b) ==
    {<<b, v>> : v \in {w \in builds[b].indexed \cap attached :
                         kb.active = b /\ kb.status = "ready"}}

transition_message_by_id(k, from) == answer[k].status # "absent"

\* The WHERE clause of transition_message.
transition_message(k, from) == answer[k].status = from

\* The minimum score, the duplicates and top_k leave any part of the candidates.
Ranked(candidates) == SUBSET candidates

Retrieve(a) ==
    /\ ask[a].pc = "retrieve"
    /\ IF transition_message(ask[a].key, "retrieving")
       THEN \E found \in Ranked(list_retrieval_candidates(ask[a].build)) :
              /\ answer' = [answer EXCEPT ![ask[a].key].status = "generating"]
              /\ Goes(a, [ask[a] EXCEPT !.pc = "generate", !.build = None,
                                        !.evidence = found])
       ELSE Fails(a) /\ UNCHANGED answer
    /\ UNCHANGED <<conversation, spent>>

generate_refusal(evidence) == {[outcome |-> "refused", cited |-> {}]}

\* LocalExtractiveGenerationProvider: one piece of evidence is quoted, or none.
generate(evidence) ==
    {[outcome |-> "insufficient_evidence", cited |-> {}]}
        \cup {[outcome |-> "grounded", cited |-> {e}] : e \in evidence}

\* _validate_grounded_answer
Validated(new) == new.outcome = "grounded" <=> new.cited # {}

\* The answer, its citations and the conversation are one transaction.  The
\* conversation is touched only in the version the request read first.
Generate(a) ==
    /\ ask[a].pc = "generate"
    /\ LET k == ask[a].key
       IN \E new \in generate(ask[a].evidence) :
          IF transition_message(k, "generating") /\ Validated(new)
          THEN /\ answer' = [answer EXCEPT ![k].status = "succeeded",
                               ![k].outcome = new.outcome, ![k].cited = new.cited]
               /\ conversation' = IF conversation.version = ask[a].version
                                  THEN [conversation EXCEPT !.version = @ + 1]
                                  ELSE conversation
               /\ Goes(a, NoAsk)
          ELSE Fails(a) /\ UNCHANGED <<answer, conversation>>
    /\ UNCHANGED spent

\* A timeout, an error of the provider or an answer that is not validated.
GenerationFails(a) ==
    /\ ask[a].pc \in {"search", "retrieve", "generate"}
    /\ Fault /\ Fails(a)
    /\ UNCHANGED <<conversation, answer>>

fail_active_message(a) ==
    /\ ask[a].pc = "fail"
    /\ answer' = [answer EXCEPT ![ask[a].key].status =
                    IF @ \in Unfinished THEN "failed" ELSE @]
    /\ Goes(a, NoAsk)
    /\ UNCHANGED <<conversation, spent>>

AskDies(a) ==
    /\ ask[a].pc # "idle"
    /\ Fault /\ Goes(a, NoAsk)
    /\ UNCHANGED <<conversation, answer>>

-----------------------------------------------------------------------------

cancel_message(k) ==
    /\ answer[k].status \in Unfinished
    /\ answer' = [answer EXCEPT ![k].status = "cancelled"]
    /\ UNCHANGED <<conversation, ask, spent>>

FailGenerating(k) ==
    /\ answer[k].status = "generating"
    /\ answer' = [answer EXCEPT ![k].status = "failed"]
    /\ UNCHANGED <<conversation, ask, spent>>

\* Answers older than a timeout: in reconcile_stale_messages.
fail_stale_messages(k) ==
    /\ answer[k].status \in Unfinished
    /\ answer' = [answer EXCEPT ![k].status = "failed"]
    /\ UNCHANGED <<conversation, ask, spent>>

archive_conversation(a) ==
    /\ ask[a] = NoAsk /\ conversation.status = "active"
    /\ Goes(a, [NoAsk EXCEPT !.pc = "archive", !.version = conversation.version])
    /\ Asked
    /\ UNCHANGED <<conversation, answer>>

CommitArchiveConversation(a) ==
    /\ ask[a].pc = "archive"
    /\ conversation' =
         IF conversation.status = "active" /\ conversation.version = ask[a].version
         THEN [status |-> "archived", version |-> conversation.version + 1]
         ELSE conversation
    /\ Goes(a, NoAsk)
    /\ UNCHANGED <<answer, spent>>

-----------------------------------------------------------------------------

Turn(a) ==
    \/ \E k \in Keys, content \in Contents : submit_message(a, k, content)
    \/ Insert(a) \/ search(a) \/ Retrieve(a) \/ Generate(a)
    \/ GenerationFails(a) \/ fail_active_message(a) \/ AskDies(a)
    \/ archive_conversation(a) \/ CommitArchiveConversation(a)

ChatNext ==
    \/ create_conversation
    \/ \E a \in Asks : Turn(a)
    \/ \E k \in Keys : cancel_message(k) \/ fail_stale_messages(k)

Next == \/ IndexNext /\ UNCHANGED chatVars
        \/ ChatNext /\ UNCHANGED <<kb, attached, builds, queue, proc>>

\* The reconciliation is scheduled for as long as the worker service runs; no
\* request and no worker has to make progress.
Fairness ==
    /\ WF_vars(Reconcile /\ UNCHANGED chatVars)
    /\ \A k \in Keys : WF_vars(fail_stale_messages(k) /\ UNCHANGED indexVars)

Spec == Init /\ [][Next]_vars /\ Fairness

-----------------------------------------------------------------------------
(* Properties *)

TypeOK ==
    /\ IndexTypeOK
    /\ conversation \in ConversationRow
    /\ answer \in [Keys -> AnswerRow]
    /\ DOMAIN ask = Asks

\* A grounded answer cites, an ungrounded one does not, and every citation is of
\* a chunk that a finished build indexed, although the index may be replaced,
\* dropped or archived between the retrieval and the answer.
CitationsAreIndexed ==
    \A k \in Keys :
        /\ answer[k].outcome = "grounded" <=> answer[k].cited # {}
        /\ \A e \in answer[k].cited : /\ builds[e[1]].status = "succeeded"
                                      /\ e[2] \in builds[e[1]].indexed

\* The index is built once at a time, serves what is attached, and answers cite what
\* it had.
IndexIsSound ==
    TypeOK /\ IndexingWhileBuilding /\ ServesWhatIsAttached /\ CitationsAreIndexed

\* An answer that has succeeded, failed or been cancelled is never rewritten: by
\* the request that is still generating it, a second request with its key, a
\* cancellation or a reconciliation.
AnswersAreFinal ==
    [][\A k \in Keys : answer[k].status \notin Unfinished \cup {"absent"} =>
         answer'[k] = answer[k]]_vars

\* No answer stays unfinished, whichever request died.
AnswersEnd == \A k \in Keys : answer[k].status \in Unfinished ~>
                                answer[k].status \notin Unfinished

\* No build and no answer is left unfinished.
WorkEnds == BuildsEnd /\ AnswersEnd
=============================================================================
