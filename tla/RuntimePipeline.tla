--------------------------- MODULE RuntimePipeline ----------------------------
(***************************************************************************)
(* One workflow through app/runtime/service.py, stage by stage: the status *)
(* transitions, the node handlers, the grounding of a stage in retrieved   *)
(* citations, the stages handed to the language model, and what run and    *)
(* resume leave in the workflow's state.                                   *)
(*                                                                         *)
(* The run's state lives in several places, and the properties are about   *)
(* their agreement: the payload the service carries from stage to stage,   *)
(* the state LangGraph's stream accumulates on its own, the persisted      *)
(* state, which keeps the stage outputs twice (a section per stage and     *)
(* outputs.stage_outputs), and the events.  A request runs alone here;     *)
(* WorkflowRequests is the module about several of them, and about what    *)
(* becomes of an aborted request's writes.                                 *)
(***************************************************************************)
EXTENDS LLMService, SequencesExt

Lifecycle == INSTANCE WorkflowLifecycle

VARIABLES
    rag_enabled,  \* RAG_ENABLED, fixed when the process starts
    pc,           \* where the service is
    queue,        \* the stages it still has to enter
    stage,        \* the stage it is in
    payload,      \* runtime_payload
    stream,       \* the state the graph's stream has come to
    row,          \* the workflow as WorkflowService keeps it
    log           \* the events appended so far

vars == <<settings, call, tried, rag_enabled, pc, queue, stage, payload,
          stream, row, log>>

-----------------------------------------------------------------------------
PreApprovalStages  == <<"planner", "retrieval", "quotation", "compliance",
                        "validation", "approval">>
PostApprovalStages == <<"email_preparation">>
AllStages == PreApprovalStages \o PostApprovalStages
Stages    == Range(AllStages)

\* RUNTIME_STAGE_STATUSES.
StageStatus ==
    [s \in Stages |->
        CASE s = "planner"    -> "PLANNING"
          [] s = "retrieval"  -> "RETRIEVING"
          [] s = "quotation"  -> "CALCULATING"
          [] s = "compliance" -> "CHECKING_COMPLIANCE"
          [] s = "validation" -> "VALIDATING"
          [] s = "approval"   -> "WAITING_APPROVAL"
          [] OTHER            -> "GENERATING_EMAIL"]

\* RAG_SUPPORTED_STAGES, and the stages with a prompt (_STAGE_PROMPTS).
Grounded(s) == rag_enabled /\ s \in {"compliance", "validation", "approval"}
PromptStages == {"planner", "retrieval", "compliance", "validation",
                 "approval"}

\* A stage output: what made it, and what grounding and approvals added.
Output(kind, by) ==
    [kind |-> kind, by |-> by, evidence |-> "none", decided |-> FALSE]
NoOutput    == Output("none", "none")
Placeholder == Output("placeholder", "none")
Skipped     == Output("llm_skipped", "none")

\* What retrieval found for a stage: citations, none, or an error.
Findings == {"cited", "nothing"}

NewPayload ==
    [status |-> "CREATED", current |-> "none", completed |-> <<>>,
     failed |-> "none", error |-> "none",
     rag |-> [s \in Stages |-> "none"],
     outputs |-> [s \in Stages |-> NoOutput]]

\* The persisted state adds the sections planner .. email to the payload.
NewRow == [doc |-> NewPayload, sections |-> [s \in Stages |-> NoOutput]]

\* workflow_state_to_runtime_state: a section that is not empty overrides the
\* entry of outputs.stage_outputs.
ToRuntime(r) ==
    [r.doc EXCEPT !.outputs =
        [s \in Stages |-> IF r.sections[s] # NoOutput THEN r.sections[s]
                          ELSE @[s]]]

\* Mutant of ToWorkflow: the sections are left as the row had them.
KeepsSections(p, r) == [doc |-> p, sections |-> r.sections]

\* runtime_state_to_workflow_state, with _workflow_section_updates.
ToWorkflow(p, r) ==
    [doc |-> p,
     sections |-> [s \in Stages |-> IF p.outputs[s] # NoOutput
                                    THEN p.outputs[s] ELSE r.sections[s]]]

Init ==
    /\ LLMInit
    /\ rag_enabled \in BOOLEAN
    /\ pc      = "idle"
    /\ queue   = <<>>
    /\ stage   = "none"
    /\ payload = NewPayload
    /\ stream  = NewPayload
    /\ row     = NewRow
    /\ log     = <<>>

-----------------------------------------------------------------------------
Event(type, s) == <<type, s>>

\* transition_workflow_status: refused unless the lifecycle allows it.
Transition(to) ==
    /\ Lifecycle!CanTransition(row.doc.status, to)
    /\ row' = [row EXCEPT !.doc.status = to]

\* _complete_stage and _replace_stage_output: the stage's output is replaced
\* and the stage is noted once as completed.
WithOutput(p, s, output) ==
    [p EXCEPT !.current = s,
              !.completed = IF s \in Range(@) THEN @ ELSE Append(@, s),
              !.outputs[s] = output]

\* run_workflow up to its loop.  The graph's stream starts from the payload
\* of this moment and never sees a later one.
StartRun ==
    /\ pc = "idle"
    /\ row.doc.status = "CREATED"
    /\ payload' = ToRuntime(row)
    /\ stream'  = ToRuntime(row)
    /\ queue'   = PreApprovalStages
    /\ pc'      = "enter"
    /\ log'     = Append(log, Event("runtime.started", "none"))
    /\ UNCHANGED <<llmVars, rag_enabled, stage, row>>

\* The head of the loop: the transition, the node's event, and the event that
\* announces its grounding.
EnterStage ==
    /\ pc = "enter"
    /\ queue # <<>>
    /\ LET s == Head(queue) IN
       /\ Transition(StageStatus[s])
       /\ payload' = [payload EXCEPT !.status = StageStatus[s]]
       /\ stage'   = s
       /\ queue'   = Tail(queue)
       /\ log' = log \o <<Event("node.started", s)>>
                     \o (IF Grounded(s) THEN <<Event("grounding.started", s)>>
                         ELSE <<>>)
       /\ pc' = IF Grounded(s) THEN "search" ELSE "execute"
    /\ UNCHANGED <<llmVars, rag_enabled, stream>>

\* apply_grounding: the result is kept for the stage and, once the stage has
\* its output, attached to that.
ApplyGrounding(p, s, found, include_stage_output) ==
    [p EXCEPT !.rag[s] = found,
              !.outputs[s].evidence =
                  IF include_stage_output THEN found ELSE @]

\* _ground_stage_if_enabled when the search answered.
SearchSucceeds ==
    /\ pc = "search"
    /\ \E found \in Findings :
          payload' = ApplyGrounding(payload, stage, found, FALSE)
    /\ log' = Append(log, Event("grounding.completed", stage))
    /\ pc'  = "execute"
    /\ UNCHANGED <<llmVars, rag_enabled, queue, stage, stream, row>>

\* _ground_stage_if_enabled when anything was raised: the run goes on.
SearchFails ==
    /\ pc = "search"
    /\ payload' = [payload EXCEPT !.rag[stage] = "failed"]
    /\ log' = Append(log, Event("grounding.failed", stage))
    /\ pc'  = "execute"
    /\ UNCHANGED <<llmVars, rag_enabled, queue, stage, stream, row>>

\* Mutant of WithGrounding: a search that failed counts as evidence.
GroundsOnFailures(p, s) ==
    IF Grounded(s) THEN ApplyGrounding(p, s, p.rag[s], TRUE) ELSE p

\* _apply_existing_grounding_to_stage_output.
WithGrounding(p, s) ==
    IF Grounded(s) /\ p.rag[s] \in Findings
    THEN ApplyGrounding(p, s, p.rag[s], TRUE) ELSE p

\* The tail of the loop: grounding, status, and the event of the output.
CompleteStage(p) ==
    /\ payload' = [WithGrounding(p, stage) EXCEPT !.status = StageStatus[stage]]
    /\ log' = Append(log, Event("node.completed", stage))
    /\ pc'  = IF queue = <<>> THEN "persist" ELSE "enter"

UsesLLM(s) == settings.runtime_enabled /\ s # "email_preparation"

\* Mutant of RunsHandler: every deterministic stage is read from the stream.
RunsNoHandler(s) == FALSE

\* Mutant of RunsHandler: only where the search has answered.
RunsHandlerAfterAnswers(s) ==
    ~UsesLLM(s) /\ Grounded(s) /\ payload.rag[s] \in Findings

\* The deterministic stages whose handler is called on the payload, so that
\* what grounding put there is kept.
RunsHandler(s) == ~UsesLLM(s) /\ Grounded(s)

\* _execute_stage without a model: the handler, applied to the payload.
RunHandler ==
    /\ pc = "execute" /\ RunsHandler(stage)
    /\ CompleteStage(WithOutput(payload, stage, Placeholder))
    /\ UNCHANGED <<llmVars, rag_enabled, queue, stage, stream, row>>

\* _next_stage_payload: the same handler, applied by the graph to the state
\* of its stream, which then replaces the payload.
ReadStream ==
    /\ pc = "execute" /\ ~UsesLLM(stage) /\ ~RunsHandler(stage)
    /\ stream' = WithOutput(stream, stage, Placeholder)
    /\ CompleteStage(stream')
    /\ UNCHANGED <<llmVars, rag_enabled, queue, stage, row>>

\* Mutant of Prompted: the quotation is left to the model as well.
PromptsEveryStage(s) == UsesLLM(s)

\* The stages a model is asked about; quotation is not one of them.
Prompted(s) == UsesLLM(s) /\ s \in PromptStages

\* _run_quotation_without_llm_arithmetic.
SkipQuotation ==
    /\ pc = "execute" /\ UsesLLM(stage) /\ ~Prompted(stage)
    /\ CompleteStage(WithOutput(payload, stage, Skipped))
    /\ UNCHANGED <<llmVars, rag_enabled, queue, stage, stream, row>>

\* run_stage up to its call of the service.
AskModel ==
    /\ pc = "execute" /\ Prompted(stage)
    /\ BeginCompletion
    /\ pc' = "completing"
    /\ UNCHANGED <<rag_enabled, queue, stage, payload, stream, row, log>>

\* A provider answers, or does not.
AwaitModel ==
    /\ pc = "completing"
    /\ LLMStep
    /\ UNCHANGED <<rag_enabled, pc, queue, stage, payload, stream, row, log>>

\* run_stage from there on: parsed and validated, the text becomes the output.
UseCompletion ==
    /\ pc = "completing"
    /\ call.phase = "returned" /\ StructuredOutput(call.result.what)
    /\ CompleteStage(WithOutput(payload, stage, Output("llm", call.provider)))
    /\ UNCHANGED <<llmVars, rag_enabled, queue, stage, stream, row>>

\* Mutant of FailedStatus: the failure is recorded whatever the lifecycle says.
FailedAnyway(status) == "FAILED"

\* _transition_to_failed_if_allowed.
FailedStatus(status) ==
    IF Lifecycle!CanTransition(status, "FAILED") THEN "FAILED" ELSE status

\* Mutant of StageFailed: a text that is refused is not a failure.
OnlyErrorsFail == call.phase = "raised"

\* What run_stage raises: the service's error, or a text that does not parse.
StageFailed ==
    \/ call.phase = "raised"
    \/ call.phase = "returned" /\ ~StructuredOutput(call.result.what)

\* _handle_runtime_failure after the service raised or its text was refused.
FailStage ==
    /\ pc = "completing" /\ StageFailed
    /\ payload' = [payload EXCEPT
                      !.status = FailedStatus(row.doc.status),
                      !.failed = stage, !.error = "RUNTIME_NODE_FAILED"]
    /\ row' = ToWorkflow(payload', row)
    /\ log' = log \o <<Event("node.failed", stage),
                       Event("runtime.failed", stage)>>
    /\ pc'  = "failed"
    /\ UNCHANGED <<llmVars, rag_enabled, queue, stage, stream>>

\* run_workflow after its loop.
PersistRun ==
    /\ pc = "persist" /\ stage = Last(PreApprovalStages)
    /\ row' = ToWorkflow([payload EXCEPT !.status = row.doc.status], row)
    /\ log' = Append(log, Event("runtime.waiting", "none"))
    /\ pc'  = "waiting"
    /\ UNCHANGED <<llmVars, rag_enabled, queue, stage, payload, stream>>

\* A manager approves: _build_approval_payload adds the records to the
\* approval section and keeps what the stage had put there.
Approve ==
    /\ pc = "waiting"
    /\ row' = [row EXCEPT !.doc.status = "APPROVED",
                          !.sections["approval"].decided = TRUE]
    /\ pc'  = "approved"
    /\ UNCHANGED <<llmVars, rag_enabled, queue, stage, payload, stream, log>>

\* resume_workflow_after_approval up to its stage.
StartResume ==
    /\ pc = "approved"
    /\ row.doc.status = "APPROVED" /\ row.sections["approval"].decided
    /\ LET s == Head(PostApprovalStages) IN
       /\ Transition(StageStatus[s])
       /\ payload' = [ToRuntime(row) EXCEPT !.status = StageStatus[s]]
       /\ stream'  = payload'
       /\ stage'   = s
       /\ log' = log \o <<Event("resume.requested", "none"),
                          Event("node.started", s)>>
    /\ pc' = "execute"
    /\ UNCHANGED <<llmVars, rag_enabled, queue>>

\* resume_workflow_after_approval after its stage.
PersistResume ==
    /\ pc = "persist" /\ stage = Last(PostApprovalStages)
    /\ Lifecycle!CanTransition(row.doc.status, "COMPLETED")
    /\ row' = ToWorkflow([payload EXCEPT !.status = "COMPLETED"], row)
    /\ log' = Append(log, Event("resumed", "none"))
    /\ pc'  = "completed"
    /\ UNCHANGED <<llmVars, rag_enabled, queue, stage, payload, stream>>

\* What a request does once it was started.
Progress ==
    \/ EnterStage \/ SearchSucceeds \/ SearchFails \/ RunHandler
    \/ ReadStream \/ SkipQuotation \/ AskModel \/ AwaitModel
    \/ UseCompletion \/ FailStage \/ PersistRun \/ PersistResume

Next == StartRun \/ Progress \/ Approve \/ StartResume

\* A request that is being served goes on: every await of it returns, the
\* provider calls and the search because of their timeouts.  Nobody has to
\* start a run, to approve it or to resume it.
Spec == Init /\ [][Next]_vars /\ WF_vars(Progress)

-----------------------------------------------------------------------------
Outputs == [kind : {"none", "placeholder", "llm_skipped", "llm"},
            by : LLMProviders \cup {"none"},
            evidence : Findings \cup {"none"}, decided : BOOLEAN]
Payloads ==
    [status : Lifecycle!Statuses, current : Stages \cup {"none"},
     completed : Seq(Stages), failed : Stages \cup {"none"},
     error : {"none", "RUNTIME_NODE_FAILED"},
     rag : [Stages -> Findings \cup {"none", "failed"}],
     outputs : [Stages -> Outputs]]
EventTypes ==
    {"runtime.started", "runtime.waiting", "runtime.failed", "node.started",
     "node.completed", "node.failed", "grounding.started",
     "grounding.completed", "grounding.failed", "resume.requested", "resumed"}
Places == {"idle", "enter", "search", "execute", "completing", "persist",
           "waiting", "failed", "approved", "completed"}

TypeOK ==
    /\ LLMTypeOK
    /\ rag_enabled \in BOOLEAN
    /\ pc \in Places
    /\ queue \in Seq(Stages)
    /\ stage \in Stages \cup {"none"}
    /\ {payload, stream} \subseteq Payloads
    /\ row.doc \in Payloads /\ row.sections \in [Stages -> Outputs]
    /\ log \in Seq(EventTypes \X (Stages \cup {"none"}))

EventsOf(type) == {log[i][2] : i \in {j \in DOMAIN log : log[j][1] = type}}

\* run_workflow keeps four accounts of its progress, and they agree: the
\* completed stages, the stages with an output, the completed-node events and
\* the order of the runtime; a stage that failed is in none of them.
AccountsAgree ==
    /\ IsPrefix(payload.completed, AllStages)
    /\ Range(payload.completed) = EventsOf("node.completed")
    /\ Range(payload.completed) =
           {s \in Stages : payload.outputs[s].kind # "none"}
    /\ payload.failed \notin Range(payload.completed)
    /\ pc \in {"waiting", "failed", "approved", "completed"} =>
          /\ row.doc.completed = payload.completed
          /\ \A s \in Range(payload.completed) :
                row.sections[s].kind = payload.outputs[s].kind

\* The result of a stage's grounding reaches the stage's output, through the
\* handlers, the stream, the model and the two persisted copies; nothing is
\* attached to a stage whose grounding failed or that has none.
EvidenceIsKept ==
    \A s \in Range(payload.completed) :
        /\ Grounded(s) <=> payload.rag[s] # "none"
        /\ payload.outputs[s].evidence =
              (IF payload.rag[s] \in Findings THEN payload.rag[s] ELSE "none")
        /\ pc \in {"waiting", "approved", "completed"} =>
              row.sections[s].evidence = payload.outputs[s].evidence

\* Only what a real provider wrote and the stage's schema accepted becomes an
\* output: never the fake provider's canned object, although it is the default
\* fallback, never for the quotation or the email, and never with the model
\* switched off.
OnlyValidatedCompletions ==
    \A s \in Stages : payload.outputs[s].kind = "llm" =>
        /\ settings.runtime_enabled
        /\ s \in Stages \ {"quotation", "email_preparation"}
        /\ payload.outputs[s].by
              \in {settings.provider, settings.fallback_provider} \ {"fake"}

\* _handle_runtime_failure: a failed run names the stage it failed in and its
\* row is FAILED, except in the approval stage, whose status the lifecycle
\* does not let fail: that row stays WAITING_APPROVAL with an error in it.
FailureIsRecorded ==
    pc = "failed" =>
        /\ row.doc.failed = stage /\ row.doc.error = "RUNTIME_NODE_FAILED"
        /\ row.doc.status = IF stage = "approval" THEN "WAITING_APPROVAL"
                            ELSE "FAILED"

\* A completed stage is final: neither the later stages nor the round trip
\* through the persisted state at resume changes its output, except that the
\* approval stage's section gains the decision.
CompletedStagesAreFinal ==
    [][\A s \in Range(payload.completed) :
          /\ s \in Range(payload'.completed)
          /\ \/ payload'.outputs[s] = payload.outputs[s]
             \/ /\ s = "approval"
                /\ payload'.outputs[s] =
                      [payload.outputs[s] EXCEPT !.decided = TRUE]]_vars

\* A run that was started stops, at the approval or with a failure, however
\* the providers and the knowledge base behave.
RunsStop == (pc \notin {"idle", "approved"})
                ~> (pc \in {"waiting", "failed", "completed"})
=============================================================================
