------------------------------ MODULE ReplyReview ------------------------------
(***************************************************************************)
(* What becomes of the words of a model before the customer reads them:     *)
(* the engines (hermes/hermes.service.ts, conversation-engine) and the      *)
(* reviews of auto-replies/auto-reply.service.ts, in their order.  Each of  *)
(* them drops, adds or replaces clauses, and what one of them writes the    *)
(* next ones read: AutoReply!Respond is the outcome.                        *)
(*                                                                         *)
(* A text is the set of the kinds of clauses it has.  Left out: how a       *)
(* clause is recognised; claims that an action is done (removed from the    *)
(* Nous engine's texts); profile, tags and intent.                          *)
(***************************************************************************)
EXTENDS Naturals, FiniteSets, FiniteSetsExt

CONSTANTS
  MaxClauses,   \* bound: clauses of what a model writes
  MaxAttempts   \* HERMES_COMPLETION_ATTEMPTS

ASSUME ReviewAssumption == MaxClauses \in Nat /\ MaxAttempts \in 1..3

VARIABLES
  engine,       \* of the conversation: "gemini_direct" or "nous_hermes"
  ask,          \* what the customer asks and what the CRM allows
  text, diagnostic,
  proposal,     \* an action of the Nous engine was accepted: a handoff, a call or a quote
  tasks, escalated,
  attempt, stage

reviewVars == <<engine, ask, text, diagnostic, proposal, tasks, escalated, attempt, stage>>

\* What reviewCommercialClaims refuses: amounts that are not the offer's, and payment
\* terms, taxes, promotions and inclusions that the snapshot does not have.
Refused == {"wrongPrice", "wrongTerms"}
\* What a model may write: the offer's amount, that of its renewal; gifts and features of
\* its own; a delivery date, the authorised days; a generic deferral of the price; a
\* discovery question, a meeting, a plan; a promise to come back; what the guard blocks.
Written == Refused \union {"price", "renewalPrice", "gift", "date", "days", "deferral",
                           "valuation", "question", "meeting", "plan", "promise",
                           "unsafe", "safe"}
\* What only the code writes.
Clause == Written \union {"market", "confirm", "filed", "reviewed", "retry"}

\* policy.guidance and the CRM's snapshot.  offer: the recommended offer or the only one;
\* extra: additionalScope; scope: what the offer's scope says besides.
Ask == {a \in [price : BOOLEAN, timeline : BOOLEAN, topic : {"price", "timeline", "other"},
               offer : {"none", "published", "quote"}, market : BOOLEAN, renewal : BOOLEAN,
               plan : BOOLEAN, meeting : BOOLEAN, question : BOOLEAN, extra : BOOLEAN,
               scope : SUBSET {"wrongTerms"}] :
          /\ a.topic = "price" => a.price
          /\ a.topic = "timeline" => a.timeline
          /\ a.market => a.price /\ a.offer = "none"
          /\ a.offer = "none" => ~a.extra /\ a.scope = {}
          /\ a.question => a.topic = "other"}

Category == {"none", "POLICY_VIOLATION", "PROVIDER_ERROR", "OUTPUT_BLOCKED", "CONTEXT_ERROR"}
NoDiagnostic == [category |-> "none", review |-> FALSE]
Diagnose(category, review) == [category |-> category, review |-> review]

ReviewTypeOK ==
  /\ engine \in {"gemini_direct", "nous_hermes"}
  /\ ask \in Ask /\ text \in SUBSET Clause
  /\ diagnostic \in [category : Category, review : BOOLEAN]
  /\ proposal \in BOOLEAN
  /\ tasks \in SUBSET {"CALLBACK", "QUOTE", "GENERAL"} /\ escalated \in BOOLEAN
  /\ attempt \in 0..MaxAttempts
  /\ stage \in {"generate", "infer", "proposal", "repair", "policy", "claims", "unrequested",
                "recommend", "renewal", "timeline", "final", "guard", "promise", "incident",
                "act", "done"}

ReviewInit ==
  /\ engine \in {"gemini_direct", "nous_hermes"}
  /\ ask \in Ask
  /\ text = {} /\ diagnostic = NoDiagnostic /\ proposal = FALSE
  /\ tasks = {} /\ escalated = FALSE /\ attempt = 0
  /\ stage = IF engine = "nous_hermes" THEN "infer" ELSE "generate"

--------------------------------------------------------------------------------
(* The operators on texts.                                                  *)

Amounts(t) == t \intersect {"price", "wrongPrice", "renewalPrice"}

\* reviewCommercialClaims; a text of which nothing is left asks for the market or defers.
Reviewed(t) ==
  IF t \ Refused # {} THEN t \ Refused
  ELSE IF ask.market THEN {"market"} ELSE {"confirm"}

HasAuthorizedAmount(t) == Amounts(Reviewed(t)) # {}

\* answerExplicitPriceIfMissing
AnswerPrice(t) ==
  IF ~ask.price THEN t
  ELSE IF ask.market THEN {"market"}
  ELSE IF HasAuthorizedAmount(t) \/ ask.offer = "none" THEN t
  ELSE IF ask.offer = "quote" THEN t \union {"valuation"}
  ELSE {"price"} \union (IF ask.extra THEN {"valuation"} ELSE {})
                 \union (IF "deferral" \in t THEN {} ELSE t)

\* A recommendation of the offer, in the words of its scope.
Recommendation ==
  {"plan"} \union ask.scope \union (IF ask.extra THEN {"valuation"} ELSE {})

\* What a model may write, whatever the customer asks.
Texts == UNION {kSubset(n, Written) : n \in 1..MaxClauses}

Candidates ==
  {t \in Texts :
     /\ "price" \in t => ask.offer = "published"
     /\ "renewalPrice" \in t => ask.offer # "none"}

--------------------------------------------------------------------------------
(* HermesService.generateResponse.                                          *)

\* outputPolicyViolation; what else it refuses (locations, details of plans, plans that are
\* missing) is left to the choice of Attempt.
PolicyViolation(t) ==
  \/ "meeting" \in t /\ ~ask.meeting
  \/ "plan" \in t /\ ~ask.plan
  \/ Amounts(t) # {} /\ t \intersect Refused # {}
  \/ "date" \in t /\ ask.topic = "timeline"

\* buildPolicyFallback: the text, and whether a human has to look at it.  A question that
\* must be answered has no other answer; the web plan that was missing is recovered.
PolicyFallback ==
  {<<{"safe"}, r>> : r \in IF ask.topic = "other" THEN BOOLEAN ELSE {}}
  \union
  (IF ask.price
   THEN IF AnswerPrice({}) # {} THEN {<<AnswerPrice({}), r>> : r \in BOOLEAN}
        ELSE {<<{"deferral"}, TRUE>>}
   ELSE IF ask.topic = "timeline" THEN {<<{"valuation"}, TRUE>>}
   ELSE IF ask.offer # "none" THEN {<<Recommendation, FALSE>>}
   ELSE IF ask.question THEN {<<{"question"}, FALSE>>} ELSE {})

\* buildStyleFallback
StyleFallback ==
  IF ask.price
  THEN {IF AnswerPrice({}) # {} THEN AnswerPrice({}) ELSE {"deferral"}, {"safe"}}
  ELSE IF ask.question THEN {{"question"}, {"safe"}} ELSE {{"safe"}}

ToPolicy(t, d) ==
  /\ text' = t /\ diagnostic' = d /\ attempt' = 0 /\ stage' = "policy"
  /\ UNCHANGED <<engine, ask, proposal, tasks, escalated>>

\* conversationRepairResponse, or a first question about everything: nothing of the model
\* is used.
Repair ==
  /\ stage = "generate"
  /\ ToPolicy({"safe"}, NoDiagnostic)

\* An attempt: it fails, it is informal, the policy refuses it, or its text is taken.  The
\* last attempt that fails is an error of the provider; the last one that is refused is
\* replaced.
Attempt ==
  /\ stage = "generate" /\ attempt < MaxAttempts
  /\ LET last == attempt + 1 = MaxAttempts
         again == /\ attempt' = attempt + 1
                  /\ UNCHANGED <<engine, ask, text, diagnostic, proposal, tasks, escalated, stage>>
     IN \/ ~last /\ again
        \/ last /\ ToPolicy({"safe"}, Diagnose("PROVIDER_ERROR", TRUE))
        \/ last /\ \E t \in StyleFallback : ToPolicy(t, NoDiagnostic)
        \/ last /\ \E f \in PolicyFallback :
                     ToPolicy(f[1], Diagnose("POLICY_VIOLATION", f[2]))
        \/ \E t \in Candidates : ~PolicyViolation(t) /\ ToPolicy(t, NoDiagnostic)

\* enforceResponsePolicy: questions that may not be asked or are repeated, and meetings
\* that were not asked for, are taken out; a catalogue that may be a shop is clarified.
EnforcePolicy ==
  LET kept == {t \in {text, text \ {"question"}} : "question" \in t => ask.question}
      stripped(t) == IF ask.meeting THEN t ELSE t \ {"meeting"}
  IN
  /\ stage = "policy"
  /\ \/ \E t \in kept : text' = IF stripped(t) = {} THEN {"safe"} ELSE stripped(t)
     \/ text' = {"question"}
  /\ stage' = "claims"
  /\ UNCHANGED <<engine, ask, diagnostic, proposal, tasks, escalated, attempt>>

--------------------------------------------------------------------------------
(* The Nous engine.                                                         *)

\* The queue, the gateway or the validation of its output fails, after the retries.
InferenceFails ==
  /\ stage = "infer"
  /\ text' = {"safe"} /\ diagnostic' = Diagnose("PROVIDER_ERROR", TRUE)
  /\ stage' = "claims"
  /\ UNCHANGED <<engine, ask, proposal, tasks, escalated, attempt>>

\* A valid output: a text, and an action or none.
Infer ==
  /\ stage = "infer"
  /\ text' \in Candidates /\ proposal' \in BOOLEAN
  /\ stage' = "proposal"
  /\ UNCHANGED <<engine, ask, diagnostic, tasks, escalated, attempt>>

\* reviewAgentProposal: an action that the customer's words do not support is dropped.
\* Without an action, what promises to come back is taken out.
ReviewProposal ==
  /\ stage = "proposal"
  /\ proposal' \in {FALSE, proposal}
  /\ text' = IF proposal' THEN text
             ELSE IF text = {"promise"} THEN {"safe"} ELSE text \ {"promise"}
  /\ stage' = "repair"
  /\ UNCHANGED <<engine, ask, diagnostic, tasks, escalated, attempt>>

\* repairNousCommercialClaims: what the approved knowledge does not back.
RepairClaims ==
  LET backed == text \ {"gift", "date", "wrongTerms"} IN
  /\ stage = "repair"
  /\ text' = IF backed = {} THEN {"valuation"} ELSE backed
  /\ stage' = "claims"
  /\ UNCHANGED <<engine, ask, diagnostic, proposal, tasks, escalated, attempt>>

--------------------------------------------------------------------------------
(* The reviews of processTurn.                                              *)

To(next, t) ==
  /\ text' = t /\ stage' = next
  /\ UNCHANGED <<engine, ask, diagnostic, proposal, tasks, escalated, attempt>>

ReviewClaims == stage = "claims" /\ To("unrequested", AnswerPrice(Reviewed(text)))

\* An amount nobody asked for: the plan is recommended instead, or a question asked.
RemoveUnrequestedPrice ==
  /\ stage = "unrequested"
  /\ To("recommend",
        IF ask.price \/ ask.renewal \/ Amounts(text) = {} THEN text
        ELSE IF ask.offer # "none" THEN Recommendation ELSE {"question"})

\* What is not in the plan is said to need a valuation; the plan is named, in place of a
\* text that defers the price.
Recommend ==
  LET t == IF ask.price /\ ask.extra THEN text \union {"valuation"} ELSE text
      named == "plan" \in t \/ diagnostic # NoDiagnostic \/ ~ask.plan \/ ask.offer = "none"
  IN
  /\ stage = "recommend"
  /\ \/ (named \/ "price" \in t) /\ To("renewal", t)
     \/ ~named /\ To("renewal", Recommendation \union (IF "deferral" \in t THEN {} ELSE t))

\* The renewal of an offer that has one, alone when it is the topic.
AddRenewal ==
  /\ stage = "renewal"
  /\ \/ To("timeline", text)
     \/ /\ ask.renewal /\ ask.offer # "none"
        /\ \/ To("timeline", text \union {"renewalPrice"})
           \/ ask.topic = "other" /\ To("timeline", {"renewalPrice"})

\* A customer who asks for the delivery reads the authorised days, or none; an empty text
\* becomes a greeting.
AnswerTimeline ==
  /\ stage = "timeline"
  /\ \E days \in SUBSET {"days"} :
       LET t == IF ask.timeline THEN (text \ {"date", "days"}) \union days ELSE text
       IN To("final", IF t = {} THEN {"safe"} ELSE t)

\* fault: what the substitutions brought in is not reviewed
FinalAnswer ==
  /\ stage = "final"
  /\ LET t == AnswerPrice(text)
     IN To("guard", IF ask.timeline /\ "days" \notin t THEN t \union {"valuation"} ELSE t)

\* fault: the price is not answered again after the substitutions
FinalClaims ==
  /\ stage = "final"
  /\ LET t == Reviewed(text)
     IN To("guard", IF ask.timeline /\ "days" \notin t THEN t \union {"valuation"} ELSE t)

\* The substitutions are reviewed, and a price that is still missing is answered.
FinalReview ==
  /\ stage = "final"
  /\ LET t == AnswerPrice(Reviewed(text))
     IN To("guard", IF ask.timeline /\ "days" \notin t THEN t \union {"valuation"} ELSE t)

\* inspectGeneratedResponse
Guard ==
  /\ stage = "guard"
  /\ stage' = "promise"
  /\ IF "unsafe" \in text
     THEN text' = {"retry"} /\ diagnostic' = Diagnose("OUTPUT_BLOCKED", FALSE)
     ELSE UNCHANGED <<text, diagnostic>>
  /\ UNCHANGED <<engine, ask, proposal, tasks, escalated, attempt>>

\* fault: the promises of the Nous engine are trusted, for they were reviewed with its
\* proposal
CheckGeminiPromise ==
  /\ stage = "promise"
  /\ stage' = "incident"
  /\ diagnostic' = IF /\ diagnostic = NoDiagnostic /\ "promise" \in text
                      /\ engine = "gemini_direct"
                   THEN Diagnose("CONTEXT_ERROR", TRUE) ELSE diagnostic
  /\ UNCHANGED <<engine, ask, text, proposal, tasks, escalated, attempt>>

\* A promise that nothing backs is an incident, and so is one whose action was accepted.
CheckPromise ==
  /\ stage = "promise"
  /\ stage' = "incident"
  /\ diagnostic' = IF diagnostic = NoDiagnostic /\ "promise" \in text
                   THEN Diagnose("CONTEXT_ERROR", TRUE) ELSE diagnostic
  /\ UNCHANGED <<engine, ask, text, proposal, tasks, escalated, attempt>>

\* The incident's review is filed, or that fails.
Incident ==
  /\ stage = "incident"
  /\ stage' = "act"
  /\ \/ diagnostic.review /\ tasks' = {"GENERAL"} /\ text' = {"reviewed"}
     \/ diagnostic.review /\ text' = {"retry"} /\ UNCHANGED tasks
     \/ ~diagnostic.review /\ UNCHANGED <<tasks, text>>
  /\ UNCHANGED <<engine, ask, diagnostic, proposal, escalated, attempt>>

\* Without an incident: a quote of what was asked and could not be answered, a handoff of
\* which the customer or the intent gives the signal; with the Nous engine, its action.
Act ==
  LET unanswered == \/ ask.price /\ ~HasAuthorizedAmount(text)
                    \/ ask.timeline /\ "days" \notin text
      quote == {"QUOTE"}
  IN
  /\ stage = "act"
  /\ stage' = "done"
  /\ \/ diagnostic # NoDiagnostic /\ UNCHANGED <<tasks, escalated, text>>
     \/ /\ diagnostic = NoDiagnostic /\ engine = "nous_hermes"
        /\ IF proposal
           THEN \/ tasks' \in {{"CALLBACK"}, {"QUOTE"}} /\ UNCHANGED escalated
                \/ escalated' = TRUE /\ UNCHANGED tasks
           ELSE UNCHANGED <<tasks, escalated>>
        /\ UNCHANGED text
     \/ /\ diagnostic = NoDiagnostic /\ engine = "gemini_direct"
        /\ tasks' \in {{}} \union (IF unanswered THEN {quote} ELSE {})
        /\ text' = IF tasks' = quote THEN text \union {"filed"} ELSE text
        /\ escalated' \in BOOLEAN
  /\ UNCHANGED <<engine, ask, diagnostic, proposal, attempt>>

ReviewNext ==
  \/ Repair \/ Attempt \/ EnforcePolicy
  \/ InferenceFails \/ Infer \/ ReviewProposal \/ RepairClaims
  \/ ReviewClaims \/ RemoveUnrequestedPrice \/ Recommend \/ AddRenewal \/ AnswerTimeline
  \/ FinalReview \/ Guard \/ CheckPromise \/ Incident \/ Act

ReviewSpec == ReviewInit /\ [][ReviewNext]_reviewVars

--------------------------------------------------------------------------------

\* Whatever the model wrote and whichever fallback replaced it, the customer reads no
\* amount and no condition the CRM does not back, and no amount that was not asked for; a
\* delivery date and a gift, only from Gemini; a meeting that was not wanted, only from Nous.
OnlyAuthorizedTerms ==
  stage = "done" =>
    /\ text \intersect Refused = {}
    /\ Amounts(text) # {} => ask.price \/ ask.renewal
    /\ "date" \in text => engine = "gemini_direct" /\ ~ask.timeline
    /\ "gift" \in text => engine = "gemini_direct"
    /\ "meeting" \in text => ask.meeting \/ engine = "nous_hermes"

\* A customer who asks for a published price reads it, or that of its renewal, whatever the
\* reviews and substitutions dropped on the way, unless an incident replaced the text.
PriceIsAnswered ==
  stage = "done" /\ ask.price /\ ask.offer = "published" =>
    Amounts(text) # {} \/ text \subseteq {"reviewed", "retry"}

\* No text promises what was not recorded, and what is recorded is what AutoReply files: a
\* review alone; or at most one task, and a handoff never with a callback.
PromisesAreRecorded ==
  stage = "done" =>
    /\ "promise" \notin text
    /\ "filed" \in text => tasks = {"QUOTE"}
    /\ "reviewed" \in text <=> tasks = {"GENERAL"}
    /\ tasks \in {{}, {"CALLBACK"}, {"QUOTE"}} \/ (tasks = {"GENERAL"} /\ ~escalated)
    /\ escalated => "CALLBACK" \notin tasks
================================================================================
