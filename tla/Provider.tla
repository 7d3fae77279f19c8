------------------------------- MODULE Provider -------------------------------
(***************************************************************************)
(* What goes to a language model and what comes back: messages as an       *)
(* OpenAI-compatible endpoint gets them, its answers and its errors        *)
(* (linling_agent/providers/openai.py), and the attention probe that asks  *)
(* a smaller model whether a batch deserves an answer                      *)
(* (attention_probe.py), with the credentials bootstrap finds for it.      *)
(* Functions of their input, no state over time.                           *)
(***************************************************************************)
EXTENDS Integers, Sequences, FiniteSetsExt, TLC

CONSTANTS
  None,        \* a field that is not there, or null
  MaxChars     \* of the probe's prompt

--------------------------------------------------------------------------------
(* Messages.                                                               *)

Has(fields, names) == [name \in {n \in names : fields[n] # None} |-> fields[name]]

\* A message as the endpoint reads it: parts win over content, and what is not
\* there is left out.
MessageToDict(m) ==
  [role |-> m.role, content |-> IF m.parts # <<>> THEN m.parts ELSE m.content]
    @@ Has(m, {"name", "tool_call_id", "tool_calls", "reasoning_content"})

\* The request of a chat.
RequestBody(messages, tools, max_tokens, default) ==
  [messages |-> [i \in DOMAIN messages |-> MessageToDict(messages[i])],
   max_tokens |-> IF max_tokens \in {None, 0} THEN default ELSE max_tokens]
    @@ IF tools = <<>> THEN <<>> ELSE [tools |-> tools]

\* The message of an answer; calls that are null or none are no calls.
Parse(answer) ==
  [role |-> IF answer.role = None THEN "assistant" ELSE answer.role,
   content |-> IF answer.content = None THEN <<>> ELSE answer.content,
   tool_calls |-> IF answer.tool_calls \in {None, <<>>} THEN None ELSE answer.tool_calls,
   reasoning_content |-> answer.reasoning_content,
   name |-> None, tool_call_id |-> None, parts |-> <<>>]

--------------------------------------------------------------------------------
(* Errors.  A body is no JSON, or JSON with or without an error object.    *)

\* What body.get("error", {}).get("message", ...) does.
Bodies == {"text", "message", "empty", "error is text", "error is null", "list"}
Readable(body) == body \in {"text", "message", "empty"}

ErrorOf(status, body, retry_after) ==
  CASE ~Readable(body) -> "AttributeError"
    [] status = 429 /\ retry_after = "date" -> "ValueError"
    [] status = 429 /\ retry_after # "date" -> "LLMRateLimitError"
    [] status \in {401, 403} -> "LLMAuthError"
    [] OTHER -> "LLMError"

\* The end of chat(): a message, or what is raised.
Chat(outcome) ==
  CASE outcome.kind = "raised" -> [raised |-> outcome.error, message |-> None]
    [] outcome.kind = "status" /\ outcome.status >= 400 ->
         [raised |-> ErrorOf(outcome.status, outcome.body, outcome.retry_after), message |-> None]
    [] outcome.kind = "status" /\ outcome.status < 400 -> [raised |-> "KeyError", message |-> None]
    [] OTHER -> [raised |-> None, message |-> Parse(outcome.answer)]

--------------------------------------------------------------------------------
(* The probe.  Its answer is a text of characters: a space, a comma for    *)
(* every mark, and letters.                                                *)

Marks == {","}
YesTokens == {<<"y">>, <<"1">>}
NoTokens == {<<"n">>, <<"0">>}

Strip(text, chars) ==
  LET kept == {i \in DOMAIN text : text[i] \notin chars} IN
  IF kept = {} THEN <<>> ELSE SubSeq(text, Min(kept), Max(kept))

Before(text, chars) ==
  LET ends == {i \in DOMAIN text : text[i] \in chars} IN
  IF ends = {} THEN text ELSE SubSeq(text, 1, Min(ends) - 1)

\* _normalise_token
Token(content) == Before(Strip(Before(Strip(content, {" "}), {" "}), Marks), Marks)

Verdict(content) == Token(content) \in YesTokens

\* How many messages of the lengths given the prompt holds: the first always, then
\* those that fit, up to the first that does not.
Header == 1
Prompted(lengths) ==
  LET used(n) == Header + FoldFunction(LAMBDA a, b : a + 1 + b, 0, SubSeq(lengths, 1, n))
      over == {n \in 2 .. Len(lengths) : used(n) > MaxChars}
  IN IF over = {} THEN Len(lengths) ELSE Min(over) - 1

\* judge(): the verdict, and what it says of a failure; None for a cancellation,
\* which is raised.
Category(error) ==
  CASE error = "LLMAuthError" -> "auth"
    [] error = "LLMRateLimitError" -> "rate_limit"
    [] error \in {"TimeoutException", "TimeoutError"} -> "timeout"
    [] error = "TransportError" -> "network"
    [] error = "LLMError" -> "http"
    [] OTHER -> "other"

Judge(texts, outcome) ==
  LET end == Chat(outcome) IN
  CASE \A i \in DOMAIN texts : Strip(texts[i], {" "}) = <<>> -> [verdict |-> FALSE, failed |-> None]
    [] end.raised = "CancelledError" -> [verdict |-> None, failed |-> None]
    [] end.raised # None -> [verdict |-> FALSE, failed |-> Category(end.raised)]
    [] OTHER ->
         LET token == Token(end.message.content) IN
         [verdict |-> token \in YesTokens,
          failed |-> IF token \in YesTokens \cup NoTokens \cup {<<>>} THEN None ELSE "malformed"]

\* In a batch's loop the probe gets tools, and any call that would say something
\* or end the turn is a yes; every failure of it is a no.
ReplyTools == {"read_batch_messages", "reply_to_message", "send_group", "finish_turn"}

HasAction(message) ==
  message.tool_calls # None /\ \E i \in DOMAIN message.tool_calls : message.tool_calls[i] \in ReplyTools

Consulted(outcome) ==
  LET end == Chat(outcome) IN end.raised = None /\ HasAction(end.message)

\* The first of the variables that is set.
FirstOf(env, names) ==
  LET set == SelectSeq(names, LAMBDA n : env[n] # None) IN IF set = <<>> THEN None ELSE env[Head(set)]

\* What _build_attention_probe finds, None without a key.
ProbeSettings(env) ==
  LET key == FirstOf(env, <<"ATTENTION_PROBE_API_KEY", "LLM_API_KEY", "OPENAI_API_KEY">>)
  IN IF key = None THEN None
     ELSE [key |-> key,
           url |-> FirstOf(env, <<"ATTENTION_PROBE_BASE_URL", "LLM_BASE_URL", "OPENAI_BASE_URL">>),
           proxy |-> FirstOf(env, <<"ATTENTION_PROBE_HTTPS_PROXY", "OPENAI_HTTPS_PROXY">>)]

\* What an agent's file and the environment give its provider.
ProviderSettings(file, env) ==
  LET first(own, names) == IF own # None THEN own ELSE FirstOf(env, names) IN
  [key |-> first(file.api_key, <<"LLM_API_KEY", "OPENAI_API_KEY">>),
   url |-> first(file.base_url, <<"LLM_BASE_URL", "OPENAI_BASE_URL">>),
   proxy |-> FirstOf(env, <<"OPENAI_HTTPS_PROXY">>)]

--------------------------------------------------------------------------------
\* What a model said is sent back to it whole: its calls and its reasoning, which
\* some endpoints require in the next request ("HTTP 400: reasoning_content is
\* missing"), and nothing that was not there.
AnswerIsEchoed(answer) ==
  LET again == MessageToDict(Parse(answer)) IN
  /\ \A f \in {"tool_calls", "reasoning_content"} :
       IF answer[f] \in {None, <<>>} THEN f \notin DOMAIN again
       ELSE f \in DOMAIN again /\ again[f] = answer[f]
  /\ again.content = <<>> <=> answer.content \in {None, <<>>}

\* The probe says yes when the answer begins, marks aside, with the word yes, and
\* otherwise never: no failure is a yes, and only a cancellation gets out.
ProbeIsClosed(texts, outcome) ==
  LET judged == Judge(texts, outcome).verdict
      c == outcome.answer.content
      word(i) ==
        /\ c[i] \in {"y", "1"} /\ (i = Len(c) \/ c[i + 1] \in {" ", ","})
        /\ \A j \in 1 .. i - 1 : c[j] \in {" ", ","} /\ (c[j] = "," => c[j + 1] # " ")
  IN /\ judged = TRUE <=> /\ outcome.kind = "answer" /\ c # None /\ \E i \in DOMAIN c : word(i)
                          /\ \E i \in DOMAIN texts : \E j \in DOMAIN texts[i] : texts[i][j] # " "
     /\ judged = None => outcome.kind = "raised" /\ outcome.error = "CancelledError"
     /\ outcome.kind # "answer" => ~Consulted(outcome)

\* The prompt of the probe is within its size or has a single message, and it is
\* the longest such beginning of the batch.
PromptIsFull(lengths) ==
  LET n == Prompted(lengths)
      used == Header + FoldFunction(LAMBDA a, b : a + 1 + b, 0, SubSeq(lengths, 1, n))
  IN lengths # <<>> => /\ n >= 1 /\ (used <= MaxChars \/ n = 1)
                       /\ n < Len(lengths) => used + 1 + lengths[n + 1] > MaxChars

\* An answer of an error's status raises the error of that status ("Raise
\* appropriate error for non-2xx responses").
StatusIsTold(outcome) ==
  outcome.kind = "status" /\ outcome.status >= 400 =>
    Chat(outcome).raised = CASE outcome.status = 429 -> "LLMRateLimitError"
                             [] outcome.status \in {401, 403} -> "LLMAuthError"
                             [] OTHER -> "LLMError"

\* An answer that says yes and no is no yes ("refusing ambiguous outputs").
AmbiguousIsNo(content) ==
  (\E i, j \in DOMAIN content : content[i] = "y" /\ content[j] = "n") => ~Verdict(content)

\* Where nothing is set for the probe or in the agent's file, both talk to the same
\* endpoint with the same key.
ProbeFollowsAgent(env) ==
  (\A n \in {"ATTENTION_PROBE_API_KEY", "ATTENTION_PROBE_BASE_URL", "ATTENTION_PROBE_HTTPS_PROXY"} : env[n] = None)
    => ProbeSettings(env) \in {None, ProviderSettings([api_key |-> None, base_url |-> None], env)}

\* A request holds every message, in order, and a call of a tool by its id.
RequestIsWhole(messages, tools) ==
  LET body == RequestBody(messages, tools, None, 1) IN
  /\ Len(body.messages) = Len(messages)
  /\ \A i \in DOMAIN messages :
       messages[i].tool_call_id # None => body.messages[i].tool_call_id = messages[i].tool_call_id
  /\ "tools" \in DOMAIN body <=> tools # <<>>

\* Without the probe's own key or OpenAI's there is no probe.
KeylessIsOff(env) ==
  env["ATTENTION_PROBE_API_KEY"] = None /\ env["OPENAI_API_KEY"] = None => ProbeSettings(env) = None
===============================================================================
