---------------------------- MODULE AiGeneration ----------------------------
(***************************************************************************)
(* POST /ai/code-blocks/generate: AiService.generate_code of               *)
(* src/app/features/ai/service.py over the gateway that dependencies.py    *)
(* builds and provider.py implements.                                      *)
(*                                                                         *)
(* A request passes the gates (its shape, the notebook and its owner, the  *)
(* source block, the screening of the prompt), calls the provider, tries   *)
(* the candidates of the response with `node --check`, and when none of    *)
(* them passes, calls the provider once more to repair it.  AiService and  *)
(* its gateway are built for each request, so requests share nothing but   *)
(* the settings: one request at a time shows all they do.  What they share *)
(* with the rest of the server, the session and the connection, is in      *)
(* Sessions.                                                               *)
(***************************************************************************)
EXTENDS CodeExtraction

CONSTANTS
    Texts,      \* the texts the provider may answer with
    Timeouts,   \* values of AI_BEDROCK_TIMEOUT_SECONDS: only the sign is tested
    Retries,    \* values of AI_BEDROCK_MAX_RETRIES
    None        \* no request, no answer

\* What the settings may be: a field that is a string is set or empty, and the
\* SDK is installed or not.
Settings == [enabled : BOOLEAN, region : BOOLEAN, model : BOOLEAN,
             timeout : Timeouts, retries : Retries, sdk : BOOLEAN]

\* What the notebook id of a request names: no uuid, no row, someone else's row,
\* a row whose snapshot parse_snapshot refuses, a row of the user.
NotebookAccess == {"malformed", "missing", "foreign", "corrupt", "owned"}

\* find_block: what the source block id names in that notebook.
SourceBlock == {"absent", "code", "text"}

\* `schema`: AiCodeGenerateRequest accepts the body.  `prompt`: which of
\* UNSAFE_PATTERNS, CODE_ACTION_TERMS, CODE_OBJECT_TERMS it matches.
Request == [schema : BOOLEAN, notebook : NotebookAccess, block : SourceBlock,
            prompt : SUBSET {"unsafe", "action", "object"}]

ASSUME DomainAssumption ==
    /\ Texts \subseteq Seq(LineKinds)
    /\ Timeouts \subseteq Int
    /\ Retries \subseteq Int
    /\ None \notin Request

GateErrors     == {"AI_INVALID_REQUEST", "AI_FORBIDDEN",
                   "AI_PROMPT_REJECTED", "AI_PROMPT_UNSAFE"}
ProviderErrors == {"AI_PROVIDER_UNAVAILABLE", "AI_PROVIDER_TIMEOUT",
                   "AI_RESPONSE_INVALID"}
PipelineErrors == {"AI_CODE_EXTRACTION_FAILED", "AI_CODE_SYNTAX_INVALID"}
Errors == GateErrors \cup ProviderErrors \cup PipelineErrors \cup {"internal"}

VARIABLES
    settings,   \* core/config.py, read once
    request,    \* the request being served
    pc,         \* where its handler is
    attempt,    \* 0, or 1 for the repair
    content,    \* the response that is processed, or was the last to be
    failure,    \* _last_failure_kind
    outage,     \* the validator failed on a candidate of the last response
    calls,      \* how often the model was called for this request, up to MaxCalls
    answer      \* what is answered

handler == <<request, pc, attempt, content, failure, outage, calls, answer>>
vars    == <<settings, handler>>

\* The count stops here, past what any request should need.
MaxCalls == 3

Success(code, applied) ==
    [error |-> "none", code |-> code, applied |-> applied,
     repairs |-> attempt, warned |-> IsCommentOnly(code)]
Failure(error) ==
    [error |-> error, code |-> <<>>, applied |-> FALSE,
     repairs |-> 0, warned |-> FALSE]

TypeOK ==
    /\ settings \in Settings
    /\ request \in Request \cup {None}
    /\ pc \in {"idle", "gates", "call", "process", "reply"}
    /\ attempt \in {0, 1}
    /\ content \in Seq(LineKinds)
    /\ failure \in {"none", "extraction", "syntax"}
    /\ outage \in BOOLEAN
    /\ calls \in 0 .. MaxCalls
    /\ answer = None \/ answer.error \in Errors \cup {"none"}

Idle ==
    /\ request = None
    /\ pc = "idle"
    /\ attempt = 0
    /\ content = <<>>
    /\ failure = "none"
    /\ outage = FALSE
    /\ calls = 0
    /\ answer = None

Init == settings \in Settings /\ Idle

Answers(a) == pc' = "reply" /\ answer' = a

-----------------------------------------------------------------------------
\* ai_bedrock_runtime_missing_fields.  AI_PROVIDER_NAME has one legal value.
MissingFields(s) ==
    { f \in {"enabled", "region", "model"} : ~ s[f] }
    \cup { f \in {"timeout"} : s.timeout <= 0 }
    \cup { f \in {"retries"} : s.retries < 0 }

\* get_ai_runtime_status, which /system/health reports.
RuntimeStatus(s) ==
    IF ~ s.enabled THEN "disabled"
    ELSE IF MissingFields(s) # {} THEN "incomplete-config"
    ELSE IF ~ s.sdk THEN "sdk-unavailable"
    ELSE "ready"

\* get_ai_generation_gateway.
Gateway(s) == IF RuntimeStatus(s) = "ready" THEN "bedrock" ELSE "unavailable"

\* screen_prompt.
ScreenPrompt(prompt) ==
    IF "unsafe" \in prompt THEN "AI_PROMPT_UNSAFE"
    ELSE IF {"action", "object"} \subseteq prompt THEN "none"
    ELSE "AI_PROMPT_REJECTED"

\* Mutant: the notebook is looked up, whoever owns it.
GateErrorAnyOwner(r) ==
    IF r.notebook \in {"malformed", "missing"} THEN "AI_INVALID_REQUEST"
    ELSE IF r.notebook = "corrupt" THEN "internal"
    ELSE IF r.block # "text" THEN "AI_INVALID_REQUEST"
    ELSE ScreenPrompt(r.prompt)

\* The gates, in their order.  A stored snapshot that does not validate is a
\* ValueError that nobody handles.
GateError(r) ==
    IF r.notebook \in {"malformed", "missing"} THEN "AI_INVALID_REQUEST"
    ELSE IF r.notebook = "foreign" THEN "AI_FORBIDDEN"
    ELSE IF r.notebook = "corrupt" THEN "internal"
    ELSE IF r.block # "text" THEN "AI_INVALID_REQUEST"
    ELSE ScreenPrompt(r.prompt)

\* A body that does not fit the schema is answered before the handler runs.
Arrive(r) ==
    /\ pc = "idle"
    /\ request' = r
    /\ IF r.schema THEN pc' = "gates" /\ UNCHANGED answer
                   ELSE Answers(Failure("AI_INVALID_REQUEST"))
    /\ UNCHANGED <<settings, attempt, content, failure, outage, calls>>

\* From the read of the notebook to the first call.
PassGates ==
    /\ pc = "gates"
    /\ IF GateError(request) = "none"
       THEN pc' = "call" /\ UNCHANGED answer
       ELSE Answers(Failure(GateError(request)))
    /\ UNCHANGED <<settings, request, attempt, content, failure, outage, calls>>

\* gateway.generate: the placeholder raises at once; Bedrock answers with a
\* text, or the SDK or the reader of its payload raises.
CallProvider ==
    /\ pc = "call"
    /\ \/ /\ Gateway(settings) = "unavailable"
          /\ Answers(Failure("AI_PROVIDER_UNAVAILABLE"))
          /\ UNCHANGED <<content, calls>>
       \/ /\ Gateway(settings) = "bedrock"
          /\ calls' = IF calls < MaxCalls THEN calls + 1 ELSE calls
          /\ \/ \E error \in ProviderErrors : Answers(Failure(error))
                /\ UNCHANGED content
             \/ content' \in Texts
                /\ pc' = "process"
                /\ UNCHANGED answer
    /\ UNCHANGED <<settings, request, attempt, failure, outage>>

-----------------------------------------------------------------------------
\* The failure kind of an attempt none of whose candidates was accepted.
FailureKind(candidates) ==
    IF \E i \in DOMAIN candidates : LooksLikeCode(candidates[i].code)
    THEN "syntax" ELSE "extraction"

\* Mutant: the repair may be repaired.
MayRepairAgain == attempt = 0 \/ failure = "syntax"

\* The service makes one repair attempt.
MayRepair == attempt = 0

\* Mutant: the final error is about the first response.
FinalErrorOfFirst(kind) ==
    IF failure = "syntax" THEN "AI_CODE_SYNTAX_INVALID"
                          ELSE "AI_CODE_EXTRACTION_FAILED"

\* _build_final_pipeline_error.
FinalError(kind) == IF kind = "syntax" THEN "AI_CODE_SYNTAX_INVALID"
                                       ELSE "AI_CODE_EXTRACTION_FAILED"

\* A candidate that passed the checks is the answer.
AnswerWith(candidate) ==
    /\ Answers(Success(candidate.code, candidate.applied))
    /\ UNCHANGED <<attempt, failure, content>>

\* Mutant: the response that failed is processed again.
RepairInPlace(kind) ==
    /\ MayRepair
    /\ failure' = kind
    /\ UNCHANGED <<pc, attempt, content, answer, outage>>

\* The provider is asked to repair its response.  What it is told of it is left
\* out.
Repair(kind) ==
    /\ MayRepair
    /\ failure' = kind
    /\ attempt' = 1
    /\ content' = <<>>
    /\ pc' = "call"
    /\ UNCHANGED <<answer, outage>>

GiveUp(kind) ==
    /\ ~ MayRepair
    /\ failure' = kind
    /\ Answers(Failure(FinalError(kind)))
    /\ UNCHANGED <<attempt, content>>

\* _process_provider_attempt and what generate_code makes of it: the first
\* candidate that passes is taken.  The validator runs in the event loop, so
\* nothing comes between.  It may be absent or take too long, and then refuses
\* a candidate (`unchecked`) that parses.
ProcessAttempt ==
    /\ pc = "process"
    /\ \E candidates \in { Candidates(text) : text \in { Trim(content) } } :
       \E good \in { { i \in DOMAIN candidates : Parses(candidates[i].code) } } :
       \E unchecked \in SUBSET { candidates[i] : i \in good } :
          LET accepted == { i \in good : candidates[i] \notin unchecked } IN
          \/ /\ accepted # {}
             /\ AnswerWith(candidates[Min(accepted)])
             /\ outage' = (unchecked # {})
          \/ accepted = {} /\ Repair(FailureKind(candidates))
          \/ /\ accepted = {}
             /\ GiveUp(FailureKind(candidates))
             /\ outage' = (unchecked # {})
    /\ UNCHANGED <<settings, request, calls>>

\* The request is over: its service and its database session are dropped.
Forget ==
    /\ request' = None
    /\ pc' = "idle"
    /\ attempt' = 0
    /\ content' = <<>>
    /\ failure' = "none"
    /\ outage' = FALSE
    /\ calls' = 0
    /\ answer' = None
    /\ UNCHANGED settings

\* The answer is sent.
Reply == pc = "reply" /\ Forget

\* The client disconnects or the database fails, at an await; or the temporary
\* file of the validator cannot be written.
Abort == pc \in {"gates", "call", "process"} /\ Forget

Proceed == PassGates \/ CallProvider \/ ProcessAttempt \/ Reply

Next == (\E r \in Request : Arrive(r)) \/ Proceed \/ Abort

\* The provider answers or its SDK times out, and `node` has five seconds.
Spec == Init /\ [][Next]_vars /\ WF_vars(Proceed)

-----------------------------------------------------------------------------
\* docs/ai_contract.md 6.1 and 7.2: what a request must be for the provider to
\* be called, in the words of the contract.
Admissible(r) ==
    /\ r.schema
    /\ r.notebook = "owned"
    /\ r.block = "text"
    /\ "unsafe" \notin r.prompt
    /\ {"action", "object"} \subseteq r.prompt

Usable(s) ==
    s.enabled /\ s.region /\ s.model /\ s.timeout > 0 /\ s.retries >= 0 /\ s.sdk

\* The provider is called for no request that a gate refuses and under no
\* settings it cannot work with, and an answer that blames the request is only
\* given when the request is to blame.
GatesComeFirst ==
    /\ calls > 0 => Admissible(request) /\ Usable(settings)
    /\ (answer # None /\ answer.error \in GateErrors) =>
          calls = 0 /\ ~ Admissible(request)

\* The loop over the lines of a response, with its start, its best bounds and
\* its blank lines, finds the longest run of code in it.
MixedIsLongestRun ==
    pc = "process" =>
        \A text \in { Trim(content) } :
            { MixedBlock(text) } \ { <<>> } = LongestRun(text)

\* An attempt was processed, and `node` checked every candidate it was given.
Checked == pc = "reply" /\ answer.error \in PipelineErrors \cup {"none"} /\ ~ outage

\* When the last response has fenced blocks that parse, one of them is the
\* answer: the first of those in the language that comes first in
\* PREFERRED_FENCE_LANGS, wherever it stands.
FirstUsableFenceWins ==
    Checked =>
        \A text \in { Trim(content) } :
            UsableFences(text) # {} =>
                \E f \in UsableFences(text) :
                    /\ \A g \in UsableFences(text) : Wins(text, f, g)
                    /\ answer.code = Trim(SubSeq(text, f[1] + 1, f[2] - 1))

\* A request only fails on the responses it got when the last one has no code
\* to offer: no fenced block, no longest run of code, not the whole of it.
NothingUsableIsLost ==
    (Checked /\ answer.error # "none") =>
        \A text \in { Trim(content) } :
            /\ UsableFences(text) = {}
            /\ \A run \in LongestRun(text) : ~ Parses(run)
            /\ text = <<>> \/ ~ Parses(text)

\* The final error says what the last response was, whatever the first one
\* was: text that looks like code, or text that does not.
ErrorNamesTheFailure ==
    (answer # None /\ answer.error \in PipelineErrors) =>
        (answer.error = "AI_CODE_SYNTAX_INVALID" <=> LooksLikeCode(Trim(content)))

\* docs/ai_contract.md:257: the flag extractionApplied tells whether the code was
\* taken out of the response; code that was is plain.  So only a response that
\* is answered as a whole can break CodeIsPlain below.
ExtractionIsTold ==
    (answer # None /\ answer.error = "none") =>
        /\ answer.applied <=> answer.code # Trim(content)
        /\ answer.applied => IsPlain(answer.code)

\* A request that arrived is eventually over: there is no second repair.
EveryRequestEnds == pc # "idle" ~> pc = "idle"

\* docs/ai_contract.md:254: the code answered is plain code, never in markdown
\* fences or with prose around it.
CodeIsPlain ==
    (answer # None /\ answer.error = "none") => IsPlain(answer.code)

-----------------------------------------------------------------------------
(***************************************************************************)
(* The inductive invariant.                                                *)
(***************************************************************************)

\* The handler starts afresh, and past the gates its request is admissible.
GatesInv ==
    /\ pc = "idle" => Idle
    /\ pc = "gates" => request # None /\ request.schema
    /\ pc \in {"call", "process"} => request # None /\ Admissible(request)
    /\ pc # "reply" => answer = None

\* One call for each attempt, and calls only through a gateway that is ready.
CallsInv ==
    /\ pc = "gates" => calls = 0 /\ attempt = 0
    /\ pc = "call" => calls = attempt
    /\ pc = "process" => calls = attempt + 1
    /\ calls > 0 => Gateway(settings) = "bedrock"
    /\ calls <= attempt + 1    \* so never three

\* A repair follows a failure; a success says how many calls it took, and its
\* code parses.
AnswerInv ==
    /\ attempt = 1 => failure # "none"
    /\ (answer # None /\ answer.error = "none") =>
          calls = answer.repairs + 1 /\ Parses(answer.code)

IInv == TypeOK /\ GatesInv /\ CallsInv /\ AnswerInv /\ GatesComeFirst

=============================================================================
