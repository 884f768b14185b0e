------------------------------ MODULE Assistant ------------------------------
(***************************************************************************)
(* The AI side of the back end: the branch's provider settings, the in-app *)
(* assistant with its daily allowance, answer cache, short memory of the   *)
(* configuration and circuit breaker, and the figures the AI features are  *)
(* given or cleaned with.                                                  *)
(* Modelled code: src/internal/{app,domain,adapter/postgres}/ai and        *)
(* src/internal/{app,domain,adapter/postgres}/assistant.                   *)
(*                                                                         *)
(* One user and one branch are followed; the desks are that user's         *)
(* questions in flight and the administrators' edits of the settings.  The *)
(* provider is asked without any lock held; it answers or fails.           *)
(***************************************************************************)
EXTENDS Rows, Sequences, SequencesExt, FiniteSetsExt

CONSTANTS DailyQuota,    \* model answers a user may have a day
          AnswerTTL,     \* ticks a cached answer lives (10 minutes)
          MemoTTL,       \* ticks the configuration is remembered (30 seconds)
          Cooldown,      \* ticks the breaker stays open (a minute)
          DayTicks,      \* ticks of a day
          LastAiTick     \* last tick of the clock

VARIABLES
    aiSettings,          \* ai_settings of the branch, or NoRow
    aiUsage,             \* assistant_usage: day -> model answers
    aiCache,             \* question -> when its cached answer was stored
    aiMemo,              \* the remembered configuration
    aiUntil,             \* when the breaker closes again
    aiTick,              \* the clock
    aiDesk,              \* desk -> what it is doing
    aiAnswer,            \* the last answer given
    aiFigure             \* one question to the pure rules and the answer

chatVars == <<aiSettings, aiUsage, aiCache, aiMemo, aiUntil, aiTick, aiDesk, aiAnswer>>
aiVars == <<chatVars, aiFigure>>

AiDay == aiTick \div DayTicks
Go(d, what) == aiDesk' = [aiDesk EXCEPT ![d] = what]

-----------------------------------------------------------------------------
(* Settings.  The key is named by the provider it was issued by.           *)
AiProviders == {"openai", "gemini"}
Models == {"m1", "m2"}
ValidProvider(p) == p \in AiProviders
GetSettings == aiSettings
UpsertSettings(row) == aiSettings' = row
apiKey(row) == row.keyOf
AiConfigured(row) == row # NoRow /\ row.enabled /\ ValidProvider(row.provider)
resolve == AiConfigured(GetSettings)

(* A blank key keeps the stored one, for the provider that issued it; a    *)
(* changed key or model is tried once if the AI is to be enabled.          *)
SetupRead(d) ==
    /\ aiDesk[d] = Free
    /\ \E provider \in AiProviders, model \in Models, enabled \in BOOLEAN, kept \in BOOLEAN :
        LET cur == GetSettings
        IN  /\ kept => cur # NoRow /\ cur.provider = provider
            /\ Go(d, [op |-> IF enabled /\ ~(kept /\ cur.model = model) THEN "verify" ELSE "setup",
                      row |-> [provider |-> provider, keyOf |-> IF kept THEN apiKey(cur) ELSE provider, model |-> model, enabled |-> enabled]])
    /\ UNCHANGED <<aiSettings, aiUsage, aiCache, aiMemo, aiUntil, aiTick, aiAnswer>>
(* The provider accepts, is busy (which counts as accepted), or refuses;   *)
(* status 0 stands for a call that timed out.                              *)
providerBusy(status) == status \in {0, 429, 503, 529}
VerifyKey(d) ==
    /\ aiDesk[d].op = "verify"
    /\ \E status \in {200, 401, 429} :
        Go(d, IF status = 200 \/ providerBusy(status) THEN [aiDesk[d] EXCEPT !.op = "setup"] ELSE Free)
    /\ UNCHANGED <<aiSettings, aiUsage, aiCache, aiMemo, aiUntil, aiTick, aiAnswer>>
DisableRead(d) ==
    /\ aiDesk[d] = Free /\ GetSettings # NoRow
    /\ Go(d, [op |-> "setup", row |-> [GetSettings EXCEPT !.enabled = FALSE]])
    /\ UNCHANGED <<aiSettings, aiUsage, aiCache, aiMemo, aiUntil, aiTick, aiAnswer>>
SettingsWrite(d) ==
    /\ aiDesk[d].op = "setup"
    /\ UpsertSettings(aiDesk[d].row)
    /\ Go(d, Free)
    /\ UNCHANGED <<aiUsage, aiCache, aiMemo, aiUntil, aiTick, aiAnswer>>

-----------------------------------------------------------------------------
(* What the assistant can do, and for whom.                                *)
Perms == {"ai.read", "ai.write", "dashboard.read", "targets.read"}
catalog ==
    {[id |-> "ops_summary",    kind |-> "data",  requires |-> {"ai.read", "dashboard.read"}, facts |-> TRUE],
     [id |-> "revenue_status", kind |-> "data",  requires |-> {"ai.read", "targets.read"},   facts |-> TRUE],
     [id |-> "message_draft",  kind |-> "draft", requires |-> {"ai.read", "ai.write"},       facts |-> FALSE],
     [id |-> "app_help",       kind |-> "help",  requires |-> {"ai.read"},                   facts |-> FALSE],
     [id |-> "work_request",   kind |-> "task",  requires |-> {"ai.read"},                   facts |-> FALSE],
     [id |-> "greeting",       kind |-> "rule",  requires |-> {"ai.read"},                   facts |-> FALSE],
     [id |-> "out_of_scope",   kind |-> "rule",  requires |-> {},                            facts |-> FALSE]}
Lookup(id) == CHOOSE c \in catalog : c.id = id
Allowed(c, perms) == c.requires \subseteq perms
allowedIDs(perms) == {c.id : c \in {x \in catalog : x.kind # "rule" /\ Allowed(x, perms)}}
(* A question carries the signals found in it; the first of the list wins. *)
Signals == <<"message_draft", "app_help", "work_request", "revenue_status", "ops_summary">>
Classify(q) ==
    LET found == SelectSeq(Signals, LAMBDA s : s \in q.signals)
    IN  IF q.blank THEN "out_of_scope"
        ELSE IF q.greeting THEN "greeting"
        ELSE IF found # <<>> THEN Head(found)
        ELSE IF q.offTopic THEN "out_of_scope" ELSE "work_request"
essentialSource(c) == IF c.facts THEN "data" ELSE "rule"

Exhausted(used) == DailyQuota > 0 /\ used >= DailyQuota
QuotaMode(used) == IF Exhausted(used) THEN "essential" ELSE "full"
QuotaRemaining(used) == IF DailyQuota <= 0 THEN 0 - 1 ELSE Max({0, DailyQuota - used})
Used(day) == aiUsage[day]
AddUsage(day) == aiUsage' = [aiUsage EXCEPT ![day] = @ + 1]
BreakerOpenShort == aiTick + 1 < aiUntil     \* closes a tick early
BreakerOpen == aiTick < aiUntil
Trip == aiUntil' = aiTick + Cooldown
CachedAnswer(q) == q \in DOMAIN aiCache /\ aiTick - aiCache[q] <= AnswerTTL
PutAnswer(q) == aiCache' = [x \in DOMAIN aiCache \cup {q} |-> IF x = q THEN aiTick ELSE aiCache[x]]
MemoAlive == aiMemo # NoRow /\ aiTick < aiMemo.expires
Say(c, source, notice, perms) ==
    aiAnswer' = [op |-> c.id, source |-> source, notice |-> notice, may |-> Allowed(c, perms),
                 age |-> IF source = "cache" THEN aiTick - aiCache[c.id] ELSE 0]
Essential(c, notice, perms) == Say(c, essentialSource(c), notice, perms)

(* A question: rules first, then the remembered or freshly read            *)
(* configuration.                                                          *)
Askable == {"ops_summary", "greeting"}
AskBegin(d) ==
    /\ aiDesk[d] = Free
    /\ \E id \in Askable, perms \in {{"ai.read"}, Perms} :
        LET c == Lookup(id)
        IN  IF c.kind = "rule" THEN Say(c, "rule", "", perms) /\ UNCHANGED aiDesk
            ELSE IF ~Allowed(c, perms) THEN Say(c, "rule", "not_allowed", perms) /\ UNCHANGED aiDesk
            ELSE /\ Go(d, [op |-> "decide", id |-> id, perms |-> perms, used |-> Used(AiDay),
                           conf |-> IF MemoAlive THEN aiMemo.value ELSE resolve, fresh |-> ~MemoAlive])
                 /\ UNCHANGED aiAnswer
    /\ UNCHANGED <<aiSettings, aiUsage, aiCache, aiMemo, aiUntil, aiTick>>
AskDecide(d) ==
    /\ aiDesk[d].op = "decide"
    /\ LET q == aiDesk[d]
           c == Lookup(q.id)
           refusal == IF ~q.conf THEN "not_configured"
                      ELSE IF Exhausted(q.used) THEN "quota_reached"
                      ELSE IF BreakerOpen THEN "ai_unavailable" ELSE ""
       IN  /\ aiMemo' = IF q.fresh THEN [value |-> q.conf, expires |-> aiTick + MemoTTL] ELSE aiMemo
           /\ IF refusal # "" THEN Essential(c, refusal, q.perms) /\ Go(d, Free)
              ELSE IF CachedAnswer(q.id) THEN Say(c, "cache", "", q.perms) /\ Go(d, Free)
              ELSE Go(d, [op |-> "call", id |-> q.id, perms |-> q.perms]) /\ UNCHANGED aiAnswer
    /\ UNCHANGED <<aiSettings, aiUsage, aiCache, aiUntil, aiTick>>
(* AssistantComplete reads the settings again before the provider is asked.*)
AskCall(d) ==
    /\ aiDesk[d].op = "call" /\ resolve
    /\ Go(d, [aiDesk[d] EXCEPT !.op = "model"])
    /\ UNCHANGED <<aiSettings, aiUsage, aiCache, aiMemo, aiUntil, aiTick, aiAnswer>>
(* The allowance is charged on the day the answer arrives.                 *)
AskReply(d) ==
    /\ aiDesk[d].op = "model"
    /\ AddUsage(AiDay)
    /\ PutAnswer(aiDesk[d].id)
    /\ Say(Lookup(aiDesk[d].id), "ai", "", aiDesk[d].perms)
    /\ Go(d, Free)
    /\ UNCHANGED <<aiSettings, aiMemo, aiUntil, aiTick>>
(* A refusal, a timeout, or settings that are gone by now.                 *)
AskFails(d) ==
    /\ aiDesk[d].op = "model" \/ (aiDesk[d].op = "call" /\ ~resolve)
    /\ Trip
    /\ Essential(Lookup(aiDesk[d].id), "ai_unavailable", aiDesk[d].perms)
    /\ Go(d, Free)
    /\ UNCHANGED <<aiSettings, aiUsage, aiCache, aiMemo, aiTick>>
AiTick ==
    /\ aiTick < LastAiTick
    /\ aiTick' = aiTick + 1
    /\ UNCHANGED <<aiSettings, aiUsage, aiCache, aiMemo, aiUntil, aiDesk, aiAnswer>>
ChatNext ==
    /\ \/ \E d \in Desks : \/ AskBegin(d) \/ AskDecide(d) \/ AskCall(d) \/ AskReply(d) \/ AskFails(d)
                           \/ DisableRead(d) \/ SettingsWrite(d)
       \/ AiTick
    /\ UNCHANGED aiFigure
SettingsNext ==
    /\ \E d \in Desks : SetupRead(d) \/ VerifyKey(d) \/ DisableRead(d) \/ SettingsWrite(d)
    /\ UNCHANGED aiFigure

-----------------------------------------------------------------------------
(* The score of a lead, from what the CRM knows of it.                     *)
StagePoints(stage) == IF stage = "hot" THEN 25 ELSE IF stage = "active" THEN 10 ELSE IF stage = "closed" THEN 0 - 20 ELSE 0
TouchPoints(hours) == IF hours >= 72 THEN 25 ELSE IF hours >= 24 THEN 15 ELSE 0
TaskPoints(in) == IF in.overdue THEN 20 ELSE IF in.openTask THEN 5 ELSE 0
Points(flag, n) == IF flag THEN n ELSE 0
HoursSince(touched, now) == IF touched = NoRow THEN 999 ELSE now - touched
ScoreLead(in) ==
    LET raw == StagePoints(in.stage) + Points(in.noFollowUp, 30) + TouchPoints(HoursSince(in.touched, 72)) + TaskPoints(in)
               + Points(in.unanswered, 20) + Points(in.warm, 10)
        score == Min({100, Max({0, raw})})
    IN  [score |-> score, band |-> IF score >= 70 THEN "urgent" ELSE IF score >= 45 THEN "high" ELSE IF score >= 20 THEN "normal" ELSE "low"]
DeterministicTargetInsight(target, actual, expected, status) ==
    [variance |-> actual - expected, gap |-> target - actual,
     advice |-> (IF target > actual THEN {"collect", "leads"} ELSE {}) \cup (IF status = "behind" THEN {"huddle"} ELSE {})
                \cup (IF actual < expected THEN {"protect"} ELSE {})]
(* What the provider proposes for a lead is kept only where it is usable;  *)
(* the fields it filled are named.                                         *)
DraftMaxPax == 3
sanitizeLeadDraft(raw, catalogue, contact) ==
    LET name == IF raw.name # "" THEN {"full_name"} ELSE {}
        pax == IF raw.pax \in 1 .. DraftMaxPax THEN {"pax_count"} ELSE {}
        budget == IF raw.budget > 0 /\ raw.currency = "SAR" THEN {"budget_amount"} ELSE {}
        package == IF raw.code \in catalogue THEN {"package_id"} ELSE {}
        interest == IF package = {} /\ raw.interest # "" THEN {"package_interest"} ELSE {}
    IN  [fullName |-> IF name # {} THEN raw.name ELSE contact, pax |-> IF pax # {} THEN raw.pax ELSE NoRow,
         budget |-> IF budget # {} THEN raw.budget * 100 ELSE NoRow, package |-> IF package # {} THEN raw.code ELSE NoRow,
         interest |-> IF interest # {} THEN raw.interest ELSE "", aiFields |-> name \cup pax \cup budget \cup package \cup interest]
(* Lost leads by reason, most frequent first.                              *)
ReasonOf(lead) == IF lead = "" THEN "other" ELSE lead
countReasons(leads) ==
    LET codes == {ReasonOf(leads[i]) : i \in DOMAIN leads}
        Rank(code) == CHOOSE n \in 1 .. 3 : <<"other", "price", "visa">>[n] = code
        N(code) == Cardinality({i \in DOMAIN leads : ReasonOf(leads[i]) = code})
    IN  [i \in 1 .. Cardinality(codes) |-> LET s == SetToSortSeq(codes, LAMBDA a, b : N(a) > N(b) \/ (N(a) = N(b) /\ Rank(a) < Rank(b)))
                                           IN [code |-> s[i], count |-> N(s[i])]]
LostMaxActions == 2
cleanActions(in) == LET kept == SelectSeq(in, LAMBDA a : a # "") IN SubSeq(kept, 1, Min({LostMaxActions, Len(kept)}))
parseLostAdvice(summary, actions) == [ok |-> summary # "" /\ cleanActions(actions) # <<>>, actions |-> cleanActions(actions)]
classifyProviderError(status, body) ==
    IF status \in {401, 403} \/ (status = 400 /\ body = "api key") THEN "ai_key_invalid"
    ELSE IF status = 404 \/ (status = 400 /\ body = "model") THEN "ai_model_not_found"
    ELSE IF status = 429 THEN "ai_rate_limited" ELSE "ai_provider_error"
(* The newest run of a kind that succeeded and has a wanted source.        *)
latestAIRun(runs, sources) ==
    LET fit == {i \in DOMAIN runs : runs[i].status = "ok" /\ runs[i].source \in sources} IN IF fit = {} THEN NoRow ELSE Max(fit)
(* The last turns of a conversation that fit the prompt, oldest first.     *)
HistoryChars == 3
trimHistory(turns, n) ==
    LET last == SubSeq(turns, Len(turns) - Min({n, Len(turns)}) + 1, Len(turns))
        spent[i \in 0 .. Len(last)] == IF i = 0 THEN 0 ELSE Min({HistoryChars, spent[i - 1] + last[Len(last) + 1 - i]})
        took[i \in 1 .. Len(last)] == spent[Len(last) + 1 - i] - spent[Len(last) - i]
    IN  SelectSeq(took, LAMBDA x : x > 0)
MaxAttention == 2
attention(items) ==
    LET first == SelectSeq([i \in DOMAIN items |-> IF \E j \in 1 .. i - 1 : items[j] = items[i] THEN "" ELSE items[i]], LAMBDA a : a # "")
    IN  SubSeq(first, 1, Min({MaxAttention, Len(first)}))

(* The features that ask the provider: what the caller gets and which run  *)
(* is kept of it, for a branch with or without AI and a reply that is      *)
(* usable, unusable or an error.                                           *)
Gone == [out |-> "error", run |-> ""]
InsertRun(out, status) == [out |-> out, run |-> status]
FailedRun == InsertRun("error", "error")
DailySummary(conf, reply) == IF ~conf THEN Gone ELSE IF reply = "ok" THEN InsertRun("ai", "ok") ELSE FailedRun
ConversationAssist(conf, reply) == IF ~conf THEN Gone ELSE IF reply = "error" THEN FailedRun ELSE InsertRun("ai", "ok")
OCRExtract(conf, reply) == IF ~conf THEN Gone ELSE IF reply = "error" THEN FailedRun ELSE InsertRun("confirm", "ok")
LeadDraftFromConversation(conf, reply) == IF ~conf THEN Gone ELSE IF reply = "error" THEN FailedRun ELSE InsertRun("confirm", "ok")
LostLeadsAnalysis(conf, reply, leads) ==
    IF ~conf THEN Gone ELSE IF leads = 0 THEN InsertRun("none", "ok") ELSE IF reply = "ok" THEN InsertRun("ai", "ok") ELSE FailedRun
(* These two have an answer of their own, which the provider only adds to. *)
ExplainScore(conf, reply) == InsertRun("deterministic", IF conf /\ reply # "error" THEN "ok" ELSE "")
TargetInsight(conf, reply) == IF conf /\ reply # "error" THEN InsertRun("ai", "ok") ELSE InsertRun("deterministic", "")
Feature(name, conf, reply, leads) ==
    CASE name = "summary" -> DailySummary(conf, reply) [] name = "assist" -> ConversationAssist(conf, reply)
      [] name = "ocr" -> OCRExtract(conf, reply) [] name = "lead" -> LeadDraftFromConversation(conf, reply)
      [] name = "lost" -> LostLeadsAnalysis(conf, reply, leads) [] name = "score" -> ExplainScore(conf, reply)
      [] name = "target" -> TargetInsight(conf, reply)

Texts == {"", "x"}
LeadSignals == [stage : {"hot", "active", "closed", "other"}, noFollowUp : BOOLEAN, touched : {NoRow, 0, 40, 72}, overdue : BOOLEAN, openTask : BOOLEAN, unanswered : BOOLEAN, warm : BOOLEAN]
RawDrafts == [name : Texts, pax : {0, 1, 3, 4}, budget : {0, 2}, currency : {"", "SAR"}, code : {"", "p1", "p9"}, interest : Texts]
SeqsUpTo(S, n) == UNION {[1 .. k -> S] : k \in 0 .. n}
AskFigure ==
    /\ aiFigure = Free
    /\ \/ \E in \in LeadSignals : aiFigure' = [op |-> "score", in |-> in, out |-> ScoreLead(in), touched |-> ScoreLead([in EXCEPT !.touched = 72])]
       \/ \E raw \in RawDrafts : aiFigure' = [op |-> "draft", raw |-> raw, out |-> sanitizeLeadDraft(raw, {"p1"}, "contact")]
       \/ \E leads \in SeqsUpTo({"", "price", "visa"}, 4) : aiFigure' = [op |-> "lost", in |-> leads, out |-> countReasons(leads)]
       \/ \E actions \in SeqsUpTo({"", "a", "b"}, 3), summary \in Texts : aiFigure' = [op |-> "advice", out |-> parseLostAdvice(summary, actions)]
       \/ \E target, actual, expected \in 0 .. 2, status \in {"behind", "ahead"} :
            aiFigure' = [op |-> "insight", target |-> target, actual |-> actual, out |-> DeterministicTargetInsight(target, actual, expected, status)]
       \/ \E signals \in SUBSET {Signals[i] : i \in DOMAIN Signals}, off \in BOOLEAN, hello \in BOOLEAN, perms \in SUBSET Perms :
            LET id == Classify([blank |-> FALSE, greeting |-> hello, signals |-> signals, offTopic |-> off])
            IN  aiFigure' = [op |-> "classify", signals |-> signals, off |-> off, id |-> id, may |-> Allowed(Lookup(id), perms), offered |-> allowedIDs(perms)]
       \/ \E used \in 0 .. DailyQuota + 1 : aiFigure' = [op |-> "quota", mode |-> QuotaMode(used), left |-> QuotaRemaining(used)]
       \/ \E name \in {"summary", "assist", "ocr", "lead", "lost", "score", "target"}, conf \in BOOLEAN, reply \in {"ok", "unusable", "error"}, leads \in 0 .. 1 :
            aiFigure' = [op |-> "feature", name |-> name, conf |-> conf, out |-> Feature(name, conf, reply, leads)]
       \/ \E status \in {400, 401, 404, 429, 500, 503}, body \in {"", "api key", "model"} :
            aiFigure' = [op |-> "error", busy |-> providerBusy(status), code |-> classifyProviderError(status, body)]
       \/ \E runs \in SeqsUpTo([status : {"ok", "error"}, source : {"ai", "none"}], 3), sources \in {{"ai"}, {"ai", "none"}} :
            aiFigure' = [op |-> "latest", runs |-> runs, sources |-> sources, out |-> latestAIRun(runs, sources)]
       \/ \E turns \in SeqsUpTo(0 .. 2, 3), n \in 0 .. 2 : aiFigure' = [op |-> "history", turns |-> turns, n |-> n, out |-> trimHistory(turns, n)]
       \/ \E items \in SeqsUpTo({"", "a", "b", "c"}, 4) : aiFigure' = [op |-> "attention", in |-> items, out |-> attention(items)]
    /\ UNCHANGED chatVars

AssistantInit ==
    /\ aiSettings \in {NoRow, [provider |-> "openai", keyOf |-> "openai", model |-> "m1", enabled |-> TRUE]}
    /\ aiUsage = [day \in 0 .. LastAiTick \div DayTicks |-> 0] /\ aiCache = [q \in {} |-> 0]
    /\ aiMemo = NoRow /\ aiUntil = 0 /\ aiTick = 0 /\ aiDesk = [d \in Desks |-> Free] /\ aiAnswer = Free /\ aiFigure = Free

-----------------------------------------------------------------------------
(* Times are counted in ticks, a day has some of them, and finitely many   *)
(* requests overlap.                                                       *)
AiRow == [provider : AiProviders, keyOf : AiProviders, model : Models, enabled : BOOLEAN]
ASSUME AssistantAssumption ==
    /\ {Cooldown, AnswerTTL, MemoTTL, LastAiTick} \subseteq Nat /\ DayTicks \in Nat \ {0}
    /\ DailyQuota \in Int /\ IsFiniteSet(Desks) /\ NoRow \notin AiRow

AssistantTypeOK ==
    /\ aiSettings # NoRow => aiSettings.provider \in AiProviders /\ aiSettings.model \in Models /\ aiSettings.enabled \in BOOLEAN
    /\ \A day \in DOMAIN aiUsage : aiUsage[day] \in Nat
    /\ DOMAIN aiCache \subseteq Askable /\ aiTick \in 0 .. LastAiTick
    /\ aiMemo # NoRow => aiMemo.value \in BOOLEAN /\ aiMemo.expires <= aiTick + MemoTTL

(* However settings are edited at the same time, and however often a blank *)
(* key keeps the stored one, the stored key is one its provider issued.    *)
KeyFitsProvider == aiSettings # NoRow => aiSettings.keyOf = aiSettings.provider

(* A user's questions in flight together cost at most one answer each      *)
(* beyond the day's allowance, also across midnight.                       *)
AllowanceHolds ==
    \A day \in DOMAIN aiUsage : DailyQuota > 0 => aiUsage[day] <= DailyQuota + Cardinality(Desks) - 1

(* A model or cached answer only ever reaches someone who may have it, and *)
(* a cached one is not older than its TTL; whoever may not have it is told *)
(* so by a rule.                                                           *)
AnswersGuarded ==
    aiAnswer # Free =>
        /\ aiAnswer.source \in {"ai", "cache", "data"} => aiAnswer.may
        /\ aiAnswer.notice = "not_allowed" <=> ~aiAnswer.may
        /\ aiAnswer.age <= AnswerTTL

(* A provider that fails is left alone: only a question that was already   *)
(* on its way when the breaker tripped is still asked before it closes.    *)
BreakerShields ==
    [][\A d \in Desks : (aiDesk[d].op # "call" /\ aiDesk'[d].op = "call") => aiTick >= aiUntil]_aiVars

(* The score of a lead stays in its range and never falls because the lead *)
(* was left alone longer; a draft names exactly the fields the provider    *)
(* filled, and never both a package and a wish; reasons of lost leads add  *)
(* up, most frequent first; a busy provider is not taken for a wrong key   *)
(* or model; what is shown as the provider's word is kept as a run, and so *)
(* is a failure the caller is told of; and a prompt's history stays within its budget and keeps the  *)
(* newest turns.                                                           *)
AiFiguresHold ==
    /\ aiFigure.op = "score" => aiFigure.out.score \in 0 .. 100 /\ aiFigure.out.score >= aiFigure.touched.score
    /\ aiFigure.op = "draft" =>
        LET f == aiFigure.out.aiFields
        IN  /\ {"package_id", "package_interest"} \subseteq f => FALSE
            /\ "pax_count" \in f <=> aiFigure.out.pax # NoRow
            /\ "package_id" \in f <=> aiFigure.out.package # NoRow
            /\ "budget_amount" \in f <=> aiFigure.out.budget # NoRow
            /\ aiFigure.out.fullName # ""
            /\ aiFigure.out.pax # NoRow => aiFigure.out.pax \in 1 .. DraftMaxPax
    /\ aiFigure.op = "lost" =>
        /\ FoldSeq(LAMBDA r, n : r.count + n, 0, aiFigure.out) = Len(aiFigure.in)
        /\ \A i \in 2 .. Len(aiFigure.out) : aiFigure.out[i - 1].count >= aiFigure.out[i].count
    /\ (aiFigure.op = "advice" /\ aiFigure.out.ok) => Len(aiFigure.out.actions) \in 1 .. LostMaxActions
    /\ aiFigure.op = "insight" => (aiFigure.out.advice = {} => aiFigure.actual >= aiFigure.target)
    /\ aiFigure.op = "classify" =>
        /\ (aiFigure.signals # {} /\ aiFigure.id # "greeting") => aiFigure.id \in aiFigure.signals
        /\ (aiFigure.may /\ Lookup(aiFigure.id).kind # "rule") => aiFigure.id \in aiFigure.offered
    /\ aiFigure.op = "error" => (aiFigure.busy => aiFigure.code \notin {"ai_key_invalid", "ai_model_not_found"})
    /\ aiFigure.op = "quota" => (aiFigure.mode = "essential" <=> aiFigure.left = 0)
    /\ aiFigure.op = "feature" =>
        /\ aiFigure.out.out \in {"ai", "confirm"} => aiFigure.conf /\ aiFigure.out.run = "ok"
        /\ aiFigure.name \in {"score", "target"} => aiFigure.out.out # "error"
        /\ (aiFigure.out.out = "error" /\ aiFigure.conf) => aiFigure.out.run = "error"
    /\ aiFigure.op = "latest" =>
        \A i \in DOMAIN aiFigure.runs : (aiFigure.runs[i].status = "ok" /\ aiFigure.runs[i].source \in aiFigure.sources)
            => aiFigure.out # NoRow /\ aiFigure.out >= i
    /\ aiFigure.op = "history" =>
        /\ FoldSeq(LAMBDA x, n : x + n, 0, aiFigure.out) <= HistoryChars /\ Len(aiFigure.out) <= aiFigure.n
        /\ (aiFigure.n > 0 /\ aiFigure.turns # <<>>) => (Last(aiFigure.turns) > 0 => aiFigure.out # <<>> /\ Last(aiFigure.out) = Last(aiFigure.turns))
    /\ aiFigure.op = "attention" =>
        /\ Len(aiFigure.out) = Min({MaxAttention, Cardinality(ToSet(aiFigure.in) \ {""})})
        /\ \A i, j \in DOMAIN aiFigure.out : aiFigure.out[i] = aiFigure.out[j] => i = j
=============================================================================
