------------------------------ MODULE WebPanel ------------------------------
(* The suggestions of the chat composer (useTriggerSuggest.ts, ChatComposer.vue): *)
(* lists are loaded for the agent chosen, answers come late and in any order, and  *)
(* the panel is shown or held back as the user types, composes, leaves or waits.   *)
EXTENDS Integers, FiniteSets

CONSTANTS
  Agents,     \* what there is to choose
  Hits,       \* for each agent, how many of its triggers the query finds
  NoAgent,
  MaxLoads    \* bound: loads started

VARIABLES
  agent,      \* the agent the chat is with, or NoAgent
  token,      \* loadToken
  loads,      \* loads in flight: their token and agent
  shown,      \* the agent whose triggers are held, or NoAgent
  streaming, composing, suppressed,
  query,      \* the draft's last token may find a trigger
  cursor      \* the highlighted row, or -1

vars == <<agent, token, loads, shown, streaming, composing, suppressed, query, cursor>>

Init ==
  /\ agent = NoAgent /\ token = 0 /\ loads = {} /\ shown = NoAgent
  /\ streaming = FALSE /\ composing = FALSE /\ suppressed = TRUE /\ query = FALSE /\ cursor = -1

Guarded == streaming \/ composing \/ agent = NoAgent
Results == IF query /\ shown # NoAgent THEN Hits[shown] ELSE 0
Visible == ~suppressed /\ Results > 0

--------------------------------------------------------------------------------
\* Both watchers of the composer: suppressed follows the guard when it changes, and
\* the highlight goes when the results do or the panel is held back.
Watched(closing) ==
  /\ suppressed' = IF Guarded' # Guarded THEN Guarded' ELSE closing
  /\ cursor' = IF query' # query \/ shown' # shown \/ suppressed' THEN -1 ELSE cursor

\* load(): the list held stays until the answer; without an agent it goes at once.
Choose(a) ==
  /\ a # agent /\ token < MaxLoads
  /\ agent' = a /\ token' = token + 1
  /\ IF a = NoAgent
     THEN loads' = loads /\ shown' = NoAgent /\ query' = FALSE
     ELSE /\ loads' = loads \cup {[token |-> token + 1, agent |-> a]} /\ UNCHANGED <<shown, query>>
  /\ UNCHANGED <<streaming, composing>>
  /\ Watched(suppressed)

\* Bug: an answer is taken whatever was asked since.
LatestAny(l) == TRUE

\* An answer counts only while its load is the latest one.
Latest(l) == l.token = token

Answer(l, ok) ==
  /\ l \in loads /\ loads' = loads \ {l}
  /\ IF Latest(l)
     THEN shown' = IF ok THEN l.agent ELSE NoAgent
     ELSE UNCHANGED shown
  /\ UNCHANGED <<agent, token, streaming, composing, query>>
  /\ Watched(suppressed)

\* onInput, onCompositionEnd: the query follows the draft, but not while composing.
Input(text) ==
  /\ query' = (text /\ ~composing)
  /\ UNCHANGED <<agent, token, loads, shown, streaming, composing>>
  /\ Watched(suppressed /\ Guarded)

Reopened == Guarded

Focus(text) ==
  /\ query' = (text /\ ~composing)
  /\ UNCHANGED <<agent, token, loads, shown, streaming, composing>>
  /\ Watched(Reopened)

\* Escape, and the input losing the focus.
Close ==
  /\ UNCHANGED <<agent, token, loads, shown, streaming, composing, query>>
  /\ Watched(TRUE)

\* The input method opens, or closes and the query is taken from the draft.
Compose(on, text) ==
  /\ composing' = on
  /\ query' = IF on THEN query ELSE text
  /\ UNCHANGED <<agent, token, loads, shown, streaming>>
  /\ Watched(suppressed)

\* An answer starts or ends on the page; submitting a draft clears the query.
Stream(on) ==
  /\ streaming' = on
  /\ query' = (query /\ ~on)
  /\ UNCHANGED <<agent, token, loads, shown, composing>>
  /\ Watched(suppressed)

\* Arrow keys move through what is shown and wrap.
Move(delta) ==
  /\ Visible /\ ~composing
  /\ cursor' = IF cursor = -1 THEN (IF delta > 0 THEN 0 ELSE Results - 1)
               ELSE (cursor + delta + Results) % Results
  /\ UNCHANGED <<agent, token, loads, shown, streaming, composing, suppressed, query>>

\* Tab, or Enter on a highlighted row: the draft becomes the trigger.
Pick ==
  /\ Visible /\ ~composing
  /\ query' = FALSE
  /\ UNCHANGED <<agent, token, loads, shown, streaming, composing>>
  /\ Watched(suppressed)

Next ==
  \/ \E a \in Agents \cup {NoAgent} : Choose(a)
  \/ \E l \in loads, ok \in BOOLEAN : Answer(l, ok)
  \/ \E text \in BOOLEAN : Input(text) \/ Focus(text) \/ \E on \in BOOLEAN : Compose(on, text)
  \/ Close \/ Pick
  \/ \E on \in BOOLEAN : Stream(on)
  \/ \E delta \in {1, -1} : Move(delta)

Spec == Init /\ [][Next]_vars

--------------------------------------------------------------------------------
\* The type invariant: a highlight is one of the rows shown.
TypeOK ==
  /\ agent \in Agents \cup {NoAgent} /\ shown \in Agents \cup {NoAgent}
  /\ cursor \in -1..(Results - 1)
  /\ \A l \in loads : l.token <= token

\* Once the latest load has been answered the lists belong to what is chosen,
\* in whatever order the answers came; and no panel is open over an answer
\* being written, an input method or a disabled input.
PanelIsTrue ==
  /\ (\A l \in loads : l.token # token) => shown \in {agent, NoAgent}
  /\ Visible => ~Guarded
================================================================================
