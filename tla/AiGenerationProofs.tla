-------------------------- MODULE AiGenerationProofs -------------------------
(***************************************************************************)
(* Theorems about AiGeneration, for any texts of the provider and any      *)
(* settings: IInv of that module is inductive; it says that the gates come *)
(* first, that the provider is called at most twice and that what is       *)
(* answered as code parses.  With what CodeExtractionProofs shows of a     *)
(* text, what the last response was decides what is answered.              *)
(***************************************************************************)
EXTENDS AiGeneration, CodeExtractionProofs

-----------------------------------------------------------------------------
\* The gates, taken in their order, admit what the contract admits, and refuse
\* anything else with an error of theirs.
LEMMA GatesAdmit ==
  ASSUME NEW r \in Request, r.schema
  PROVE  /\ GateError(r) = "none" <=> Admissible(r)
         /\ GateError(r) \in GateErrors \cup {"internal", "none"}
BY DEF Request, NotebookAccess, SourceBlock, GateError, ScreenPrompt,
       Admissible, GateErrors

\* The gateway is Bedrock's exactly under settings it can work with.
LEMMA ReadyIsUsable ==
  ASSUME NEW s \in Settings
  PROVE  /\ Gateway(s) = "bedrock" <=> Usable(s)
         /\ Gateway(s) \in {"bedrock", "unavailable"}
<1>1. /\ s.timeout \in Int /\ s.retries \in Int
      /\ s.enabled \in BOOLEAN /\ s.region \in BOOLEAN
      /\ s.model \in BOOLEAN /\ s.sdk \in BOOLEAN
  BY DomainAssumption DEF Settings
<1>2. MissingFields(s) = {} <=> /\ s.enabled /\ s.region /\ s.model
                               /\ s.timeout > 0 /\ s.retries >= 0
  BY <1>1 DEF MissingFields
<1> QED BY <1>1, <1>2 DEF Gateway, RuntimeStatus, Usable

\* No request is under way.
LEMMA IdleInvariant ==
  ASSUME settings \in Settings, Idle
  PROVE  IInv
<1>1. <<>> \in Seq(LineKinds)
  BY EmptySeq
<1>2. TypeOK
  <2>1. outage \in BOOLEAN
    BY Zenon DEF Idle
  <2>2. calls \in 0 .. MaxCalls
    BY DEF Idle, MaxCalls
  <2> QED BY <1>1, <2>1, <2>2 DEF Idle, TypeOK
<1>3. GatesInv /\ CallsInv
  BY DEF Idle, GatesInv, CallsInv
<1>4. AnswerInv /\ GatesComeFirst
  BY DEF Idle, AnswerInv, GatesComeFirst
<1> QED BY <1>2, <1>3, <1>4 DEF IInv

-----------------------------------------------------------------------------
\* A request arrives, and its body fits the schema or does not.
LEMMA ArriveKeeps ==
  ASSUME IInv, NEW r \in Request, Arrive(r)
  PROVE  IInv'
<1>1. Idle /\ r # None
  BY DomainAssumption DEF IInv, GatesInv, Arrive
<1>2. TypeOK'
  BY <1>1 DEF IInv, TypeOK, Arrive, Answers, Failure, Errors, GateErrors
<1>3. GatesInv' /\ CallsInv'
  BY <1>1 DEF IInv, GatesInv, CallsInv, Arrive, Answers, Idle
<1>4. AnswerInv'
  BY <1>1 DEF IInv, AnswerInv, Arrive, Answers, Failure, Idle
<1>5. GatesComeFirst'
  BY <1>1 DEF GatesComeFirst, Arrive, Answers, Idle, Admissible
<1> QED BY <1>2, <1>3, <1>4, <1>5 DEF IInv

\* The gates refuse the request, or let it through to the provider.
LEMMA PassGatesKeeps ==
  ASSUME IInv, PassGates
  PROVE  IInv'
<1>1. request \in Request /\ request.schema
  BY DEF IInv, TypeOK, GatesInv, PassGates
<1>2. /\ GateError(request) = "none" <=> Admissible(request)
      /\ GateError(request) \in GateErrors \cup {"internal", "none"}
  BY <1>1, GatesAdmit
<1>3. calls = 0 /\ attempt = 0 /\ answer = None
  BY DEF IInv, GatesInv, CallsInv, PassGates
<1>4. request # None
  BY DEF IInv, GatesInv, PassGates
<1>5. TypeOK'
  BY <1>2 DEF IInv, TypeOK, PassGates, Answers, Failure, Errors
<1>6. GatesInv' /\ CallsInv'
  BY <1>2, <1>3, <1>4 DEF GatesInv, CallsInv, PassGates, Answers, MaxCalls
<1>7. AnswerInv' /\ GatesComeFirst'
  BY <1>2, <1>3 DEF AnswerInv, GatesComeFirst, PassGates, Answers, Failure,
     Admissible
<1> QED BY <1>5, <1>6, <1>7 DEF IInv

\* The provider answers with a text, or the gateway raises.
LEMMA CallProviderKeeps ==
  ASSUME IInv, CallProvider
  PROVE  IInv'
<1>1. /\ settings \in Settings /\ request # None /\ Admissible(request)
      /\ calls = attempt /\ attempt \in {0, 1} /\ answer = None
  BY DEF IInv, TypeOK, GatesInv, CallsInv, CallProvider
<1>2. calls' = calls + 1 => Usable(settings) /\ Gateway(settings) = "bedrock"
  BY <1>1, ReadyIsUsable DEF CallProvider
<1>3. calls' = calls \/ calls' = calls + 1
  BY <1>1 DEF CallProvider, MaxCalls
<1>4. Admissible(request)' /\ (Usable(settings)' <=> Usable(settings))
  BY <1>1 DEF CallProvider, Admissible, Usable
<1>5. TypeOK'
  BY <1>1, <1>3, DomainAssumption
     DEF IInv, TypeOK, CallProvider, Answers, Failure, Errors, ProviderErrors, MaxCalls
<1>6. GatesInv' /\ CallsInv'
  BY <1>1, <1>2, <1>3, <1>4
     DEF IInv, GatesInv, CallsInv, CallProvider, Answers, Gateway, RuntimeStatus,
         MissingFields, MaxCalls
<1>7. AnswerInv'
  BY <1>1 DEF IInv, AnswerInv, CallProvider, Answers, Failure, ProviderErrors
<1>8. GatesComeFirst'
  BY <1>1, <1>2, <1>3, <1>4
     DEF IInv, GatesComeFirst, CallProvider, Answers, Failure, ProviderErrors,
         GateErrors
<1> QED BY <1>5, <1>6, <1>7, <1>8 DEF IInv

\* The values of _last_failure_kind once an attempt has failed.
Kinds == {"extraction", "syntax"}

\* A response that is processed is answered with a candidate that parses, or
\* repaired, or given up.  When the validator checked every candidate, it is
\* the first of them, and only given up when there is none.
LEMMA Processed ==
  ASSUME IInv, ProcessAttempt
  PROVE  LET text == Trim(content) IN
         \/ \E i \in Good(text) :
              /\ AnswerWith(Candidates(text)[i])
              /\ outage' \in BOOLEAN
              /\ ~ outage' => i = Min(Good(text))
         \/ Repair(FailureKind(Candidates(text)))
         \/ /\ GiveUp(FailureKind(Candidates(text)))
            /\ outage' \in BOOLEAN
            /\ ~ outage' => Good(text) = {}
<1> DEFINE text == Trim(content)
<1>1. PICK candidates, good, unchecked :
         /\ candidates = Candidates(text)
         /\ good = { i \in DOMAIN candidates : Parses(candidates[i].code) }
         /\ LET accepted == { i \in good : candidates[i] \notin unchecked } IN
            \/ /\ accepted # {}
               /\ AnswerWith(candidates[Min(accepted)])
               /\ outage' = (unchecked # {})
            \/ accepted = {} /\ Repair(FailureKind(candidates))
            \/ /\ accepted = {}
               /\ GiveUp(FailureKind(candidates))
               /\ outage' = (unchecked # {})
  BY DEF ProcessAttempt
<1> DEFINE accepted == { i \in good : candidates[i] \notin unchecked }
<1>2. good = Good(text)
  BY <1>1 DEF Good
<1>3. good \subseteq Nat
  <2>1. text \in Seq(LineKinds)
    BY StrippedIsAText DEF IInv, TypeOK
  <2> HIDE DEF text
  <2>2. DOMAIN candidates \subseteq Nat
    BY <1>1, <2>1, CandidatesAreNumbered
  <2> QED BY <1>1, <2>2
<1>4. unchecked = {} => accepted = good
  OBVIOUS
<1>5. accepted \in SUBSET Nat /\ accepted \subseteq good
  BY <1>3
<1>6. \/ /\ accepted # {}
         /\ AnswerWith(candidates[Min(accepted)])
         /\ outage' = (unchecked # {})
      \/ accepted = {} /\ Repair(FailureKind(candidates))
      \/ /\ accepted = {}
         /\ GiveUp(FailureKind(candidates))
         /\ outage' = (unchecked # {})
  BY <1>1
<1> HIDE DEF accepted, text
<1>7. CASE accepted # {} /\ AnswerWith(candidates[Min(accepted)])
           /\ outage' = (unchecked # {})
  <2>1. Min(accepted) \in Good(text)
    BY <1>2, <1>5, <1>7, LeastExists
  <2>2. outage' \in BOOLEAN /\ (~ outage' => Min(accepted) = Min(Good(text)))
    BY <1>2, <1>4, <1>7
  <2>3. AnswerWith(Candidates(text)[Min(accepted)])
    BY <1>1, <1>7
  <2> QED BY <2>1, <2>2, <2>3 DEF text
<1>8. CASE accepted = {} /\ Repair(FailureKind(candidates))
  BY <1>1, <1>8 DEF text
<1>9. CASE accepted = {} /\ GiveUp(FailureKind(candidates))
           /\ outage' = (unchecked # {})
  <2>1. outage' \in BOOLEAN /\ (~ outage' => Good(text) = {})
    BY <1>2, <1>4, <1>9
  <2>2. GiveUp(FailureKind(Candidates(text)))
    BY <1>1, <1>9
  <2> QED BY <2>1, <2>2 DEF text
<1> QED BY <1>6, <1>7, <1>8, <1>9

\* A failure is one of the two kinds the final error tells apart.
LEMMA FailureKinds == \A candidates : FailureKind(candidates) \in Kinds
BY DEF FailureKind, Kinds

\* A response is processed: it is answered, repaired or given up.
LEMMA ProcessAttemptKeeps ==
  ASSUME IInv, ProcessAttempt
  PROVE  IInv'
<1>1. /\ pc = "process" /\ request # None /\ Admissible(request)
      /\ calls = attempt + 1 /\ attempt \in {0, 1} /\ answer = None
      /\ Gateway(settings) = "bedrock" /\ Usable(settings)
      /\ request \in Request /\ calls \in 0 .. MaxCalls /\ outage \in BOOLEAN
      /\ settings \in Settings /\ content \in Seq(LineKinds)
      /\ attempt = 1 => failure # "none"
      /\ failure \in {"none"} \cup Kinds
  BY DEF IInv, TypeOK, GatesInv, CallsInv, AnswerInv, GatesComeFirst,
         ProcessAttempt, Kinds
<1>2. /\ UNCHANGED <<settings, request, calls>>
      /\ Admissible(request)' /\ Usable(settings)'
      /\ Gateway(settings)' = "bedrock"
  BY <1>1 DEF ProcessAttempt
<1>3. ASSUME NEW c, Parses(c.code), AnswerWith(c), outage' \in BOOLEAN
      PROVE  IInv'
  <2>1. /\ pc' = "reply" /\ answer'.error = "none" /\ answer'.code = c.code
        /\ answer'.repairs = attempt
        /\ UNCHANGED <<attempt, failure, content>>
    BY <1>3 DEF AnswerWith, Answers, Success
  <2>2. TypeOK'
    BY <1>1, <1>2, <1>3, <2>1 DEF TypeOK, Kinds
  <2>3. GatesInv' /\ CallsInv'
    BY <1>1, <1>2, <2>1 DEF GatesInv, CallsInv
  <2>4. AnswerInv' /\ GatesComeFirst'
    BY <1>1, <1>2, <1>3, <2>1 DEF AnswerInv, GatesComeFirst, GateErrors
  <2> QED BY <2>2, <2>3, <2>4 DEF IInv
<1>4. ASSUME NEW kind \in Kinds, Repair(kind)
      PROVE  IInv'
  <2>1. attempt = 0 /\ <<>> \in Seq(LineKinds)
    BY <1>4 DEF Repair, MayRepair
  <2>2. TypeOK'
    BY <1>1, <1>2, <1>4, <2>1 DEF TypeOK, Repair, Kinds
  <2>3. GatesInv' /\ CallsInv'
    BY <1>1, <1>2, <1>4, <2>1 DEF GatesInv, CallsInv, Repair
  <2>4. AnswerInv' /\ GatesComeFirst'
    BY <1>1, <1>2, <1>4 DEF AnswerInv, GatesComeFirst, Repair, Kinds
  <2> QED BY <2>2, <2>3, <2>4 DEF IInv
<1>5. ASSUME NEW kind \in Kinds, GiveUp(kind), outage' \in BOOLEAN
      PROVE  IInv'
  <2>1. /\ pc' = "reply" /\ answer'.error \in PipelineErrors
        /\ failure' = kind
        /\ UNCHANGED <<attempt, content>>
    BY <1>5 DEF GiveUp, Answers, Failure, FinalError, PipelineErrors
  <2>2. TypeOK'
    BY <1>1, <1>2, <1>5, <2>1 DEF TypeOK, Kinds, Errors
  <2>3. GatesInv' /\ CallsInv'
    BY <1>1, <1>2, <2>1 DEF GatesInv, CallsInv
  <2>4. AnswerInv' /\ GatesComeFirst'
    BY <1>1, <1>2, <2>1
       DEF AnswerInv, GatesComeFirst, GateErrors, PipelineErrors, Kinds
  <2> QED BY <2>2, <2>3, <2>4 DEF IInv
<1>6. \A i \in Good(Trim(content)) : Parses(Candidates(Trim(content))[i].code)
  BY DEF Good
<1> QED BY <1>3, <1>4, <1>5, <1>6, Processed, FailureKinds

\* The request is forgotten.
LEMMA ForgetKeeps ==
  ASSUME IInv, Forget
  PROVE  IInv'
<1>1. <<>> \in Seq(LineKinds)
  BY EmptySeq
<1>2. TypeOK'
  <2>1. outage' \in BOOLEAN
    BY Zenon DEF Forget
  <2>2. calls' \in 0 .. MaxCalls
    BY DEF Forget, MaxCalls
  <2> QED BY <1>1, <2>1, <2>2 DEF IInv, TypeOK, Forget
<1>3. GatesInv' /\ CallsInv'
  BY DEF Forget, Idle, GatesInv, CallsInv
<1>4. AnswerInv' /\ GatesComeFirst'
  BY DEF Forget, AnswerInv, GatesComeFirst
<1> QED BY <1>2, <1>3, <1>4 DEF IInv

-----------------------------------------------------------------------------
\* Each action, and a step that changes nothing, keeps the invariant.
LEMMA NextInvariant == IInv /\ [Next]_vars => IInv'
<1> SUFFICES ASSUME IInv, [Next]_vars
             PROVE  IInv'
  OBVIOUS
<1>1. CASE UNCHANGED vars
  BY <1>1 DEF IInv, TypeOK, GatesInv, CallsInv, AnswerInv, GatesComeFirst, Idle,
              vars, handler
<1>2. ASSUME NEW r \in Request, Arrive(r)
      PROVE  IInv'
  BY <1>2, ArriveKeeps
<1>3. CASE Proceed
  BY <1>3, PassGatesKeeps, CallProviderKeeps, ProcessAttemptKeeps, ForgetKeeps
     DEF Proceed, Reply
<1>4. CASE Abort
  BY <1>4, ForgetKeeps DEF Abort
<1> QED BY <1>1, <1>2, <1>3, <1>4 DEF Next

\* The invariant holds in every behaviour: at most two calls of the provider,
\* a repair only after a failure, and only code that parses in an answer.
THEOREM InvariantHolds == Spec => []IInv
<1>1. Init => IInv
  BY IdleInvariant DEF Init
<1> QED BY <1>1, NextInvariant, PTL DEF Spec

\* The provider is called only for a request that passes every gate, under
\* settings it can work with, and a refusal is only given to one that does not.
THEOREM GatesHold == Spec => []GatesComeFirst
<1>1. IInv => GatesComeFirst
  BY DEF IInv
<1> QED BY <1>1, InvariantHolds, PTL

-----------------------------------------------------------------------------
(***************************************************************************)
(* What the last response decides of the answer.                           *)
(***************************************************************************)

\* The answer and the candidates of the last response: one that parses is
\* answered, the first unless the validator failed, none of them does when the
\* request fails, and then the error is the one that goes with them.
Verdict ==
    LET text == Trim(content) IN
    /\ Checked =>
          IF answer.error = "none"
          THEN answer.code = Candidates(text)[Min(Good(text))].code
          ELSE Good(text) = {}
    /\ (answer # None /\ answer.error = "none") =>
          \E i \in Good(text) : /\ answer.code = Candidates(text)[i].code
                               /\ answer.applied = Candidates(text)[i].applied
    /\ (answer # None /\ answer.error \in PipelineErrors) =>
          answer.error = FinalError(FailureKind(Candidates(text)))

\* Only the processing of a response answers with its code or blames it.
LEMMA VerdictElsewhere ==
  ASSUME IInv, (\E r \in Request : Arrive(r)) \/ PassGates \/ CallProvider \/ Forget
  PROVE  Verdict'
<1>1. \/ answer' = None /\ pc' # "reply"
      \/ answer'.error \notin PipelineErrors \cup {"none"}
  <2>1. ASSUME NEW r \in Request, Arrive(r)
        PROVE  \/ answer' = None /\ pc' # "reply"
               \/ answer'.error \notin PipelineErrors \cup {"none"}
    BY <2>1 DEF IInv, GatesInv, Arrive, Answers, Failure, PipelineErrors
  <2>2. CASE PassGates
    <3>1. request \in Request /\ request.schema /\ answer = None
      BY <2>2 DEF IInv, TypeOK, GatesInv, PassGates
    <3>2. GateError(request) \in GateErrors \cup {"internal", "none"}
      BY <3>1, GatesAdmit
    <3> QED BY <2>2, <3>1, <3>2 DEF PassGates, Answers, Failure, PipelineErrors, GateErrors
  <2>3. CASE CallProvider
    BY <2>3 DEF IInv, GatesInv, CallProvider, Answers, Failure, PipelineErrors,
                ProviderErrors
  <2>4. CASE Forget
    BY <2>4 DEF Forget
  <2> QED BY <2>1, <2>2, <2>3, <2>4
<1> QED BY <1>1 DEF Verdict, Checked

\* A response that is processed gets the answer its candidates call for.
LEMMA VerdictOfAttempt ==
  ASSUME IInv, ProcessAttempt
  PROVE  Verdict'
<1> DEFINE text == Trim(content)
<1>1. pc = "process" /\ answer = None
  BY DEF IInv, GatesInv, ProcessAttempt
<1>2. ASSUME NEW i \in Good(text), AnswerWith(Candidates(text)[i]),
             ~ outage' => i = Min(Good(text))
      PROVE  Verdict'
  <2>1. /\ content' = content /\ answer'.error = "none"
        /\ answer'.code = Candidates(text)[i].code
        /\ answer'.applied = Candidates(text)[i].applied
    BY <1>2 DEF AnswerWith, Answers, Success
  <2> QED BY <1>2, <2>1 DEF Verdict, Checked, PipelineErrors
<1>3. ASSUME NEW kind, Repair(kind)
      PROVE  Verdict'
  BY <1>1, <1>3 DEF Repair, Verdict, Checked
<1>4. ASSUME GiveUp(FailureKind(Candidates(text))), ~ outage' => Good(text) = {}
      PROVE  Verdict'
  <2>1. /\ content' = content
        /\ answer'.error = FinalError(FailureKind(Candidates(text)))
        /\ answer'.error \in PipelineErrors
    BY <1>4 DEF GiveUp, Answers, Failure, FinalError, PipelineErrors
  <2> QED BY <1>4, <2>1 DEF Verdict, Checked, PipelineErrors
<1> QED BY <1>2, <1>3, <1>4, Processed

\* The answer is always the one its last response calls for.
LEMMA VerdictHolds == Spec => []Verdict
<1>1. Init => Verdict
  BY DEF Init, Idle, Verdict, Checked
<1>2. IInv /\ Verdict /\ [Next]_vars => Verdict'
  <2> SUFFICES ASSUME IInv, Verdict, [Next]_vars
               PROVE  Verdict'
    OBVIOUS
  <2>1. CASE UNCHANGED vars
    BY <2>1 DEF Verdict, Checked, vars, handler
  <2>2. CASE Next
    BY <2>2, VerdictElsewhere, VerdictOfAttempt DEF Next, Proceed, Reply, Abort
  <2> QED BY <2>1, <2>2
<1> QED BY <1>1, <1>2, InvariantHolds, PTL DEF Spec

\* What is processed, or was, is a text, and so is what is left of it without
\* the blank lines around it.
LEMMA ContentIsAText ==
  ASSUME IInv
  PROVE  Trim(content) \in Seq(LineKinds)
BY StrippedIsAText DEF IInv, TypeOK

\* _extract_mixed_code_block finds the longest run of code of any response that
\* is processed, however long it is.
THEOREM LongestRunHolds == Spec => []MixedIsLongestRun
<1>1. IInv => MixedIsLongestRun
  BY ContentIsAText, MixedBlockIsLongestRun DEF MixedIsLongestRun
<1> QED BY <1>1, InvariantHolds, PTL

\* When the last response has fenced blocks that parse, the answer is one of
\* them, the first in the language that is listed before the others, unless the
\* validator failed on one.
THEOREM FirstFenceHolds == Spec => []FirstUsableFenceWins
<1>1. ASSUME IInv, Verdict
      PROVE  FirstUsableFenceWins
  <2> DEFINE text == Trim(content)
  <2>1. text \in Seq(LineKinds)
    BY <1>1, ContentIsAText
  <2>2. /\ Checked /\ answer.error = "none" =>
              answer.code = Candidates(text)[Min(Good(text))].code
        /\ Checked /\ answer.error # "none" => Good(text) = {}
    BY <1>1 DEF Verdict
  <2> HIDE DEF text
  <2>3. ASSUME Checked, UsableFences(text) # {}
        PROVE  \E f \in UsableFences(text) :
                  /\ \A g \in UsableFences(text) : Wins(text, f, g)
                  /\ answer.code = Trim(SubSeq(text, f[1] + 1, f[2] - 1))
    <3>1. PICK f \in UsableFences(text) :
            /\ \A g \in UsableFences(text) : Wins(text, f, g)
            /\ Good(text) # {}
            /\ Candidates(text)[Min(Good(text))].code =
                 Trim(SubSeq(text, f[1] + 1, f[2] - 1))
      BY <2>1, <2>3, FirstGoodIsFirstFence
    <3>2. answer.code = Candidates(text)[Min(Good(text))].code
      BY <2>2, <2>3, <3>1 DEF Checked
    <3> QED BY <3>1, <3>2
  <2> QED BY <2>3 DEF FirstUsableFenceWins, text
<1> QED BY <1>1, InvariantHolds, VerdictHolds, PTL

\* A request that fails on the responses it got, with a validator that checked
\* every candidate, has no code in the last of them that could be answered.
THEOREM NothingIsLost == Spec => []NothingUsableIsLost
<1>1. ASSUME IInv, Verdict
      PROVE  NothingUsableIsLost
  BY <1>1, ContentIsAText, NothingGoodIsNothingUsable
     DEF Verdict, NothingUsableIsLost
<1> QED BY <1>1, InvariantHolds, VerdictHolds, PTL

\* The final error is the one of the last response: it says that the syntax is
\* wrong exactly when that response looks like code.
THEOREM ErrorIsNamed == Spec => []ErrorNamesTheFailure
<1>1. ASSUME IInv, Verdict
      PROVE  ErrorNamesTheFailure
  <2>1. FailureKind(Candidates(Trim(content))) = "syntax"
          <=> LooksLikeCode(Trim(content))
    BY <1>1, ContentIsAText, LooksAreKept DEF FailureKind
  <2> QED BY <1>1, <2>1 DEF Verdict, ErrorNamesTheFailure, FinalError
<1> QED BY <1>1, InvariantHolds, VerdictHolds, PTL

\* An answer says truly whether its code was taken out of the response, and code
\* that was is plain: what CodeIsPlain misses is answered as a whole.
THEOREM ExtractionHolds == Spec => []ExtractionIsTold
<1>1. ASSUME IInv, Verdict
      PROVE  ExtractionIsTold
  BY <1>1, ContentIsAText, ExtractedIsPlain DEF Verdict, ExtractionIsTold
<1> QED BY <1>1, InvariantHolds, VerdictHolds, PTL

=============================================================================
