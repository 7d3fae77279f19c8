-------------------------------- MODULE MCWebUI --------------------------------
(***************************************************************************)
(* Instances of the Web UI's parts for TLC. The parts share no state: in a *)
(* behaviour one of them moves, which "part" names, and the others stay as *)
(* they began.                                                             *)
(***************************************************************************)
EXTENDS Integers, Sequences, FiniteSets

CONSTANTS
  Parts,     \* which may move
  Tabs, MaxTurns, MaxStops, MaxDrops,                \* WebChat
  Bots, Capacity, MaxEvents, MaxBreaks, MaxLate,     \* WebEvents
  Windows, Calls, MaxTokens,                         \* WebAuth
  AuditRows, QueueSize, MaxRows,                     \* WebAudit
  Keys, Limit, Editors, EditKey, MaxChanges,         \* WebStore
  Agents, Hits, NoAgent, MaxLoads,                   \* WebPanel
  AgentList, MaxVisits                               \* Overlays

\* Turns and broken connections are counted.
ASSUME ChatAssumption == MaxTurns \in Nat /\ MaxDrops \in Nat

\* A frame of the feed is an event or the ack; a queue that holds nothing loses all.
ASSUME FeedAssumption ==
  /\ "ack" \notin Bots /\ Capacity \in Nat \ {0} /\ MaxEvents \in Nat /\ MaxBreaks \in Nat
  /\ QueueSize \in Nat \ {0} /\ MaxRows \in Nat

\* A tab is not mistaken for another reason why a token ended.
ASSUME WindowAssumption ==
  Windows \cap {"no", "lost", "logout", "reset"} = {} /\ MaxTokens \in Nat

\* Every key is after the cursor a listing begins with, and a page holds some.
ASSUME KeyAssumption ==
  Keys \subseteq Nat \ {0} /\ EditKey \in Keys /\ IsFiniteSet(Keys) /\ Limit \in Nat \ {0}

\* Nobody is called as no one, and a page is opened at least once.
ASSUME AgentAssumption ==
  /\ NoAgent \notin Agents /\ Hits \in [Agents -> Nat] /\ MaxLoads \in Nat
  /\ AgentList \in Seq(STRING \ {"none"}) /\ AgentList # <<>> /\ MaxVisits \in Nat \ {0}

VARIABLES
  part,
  tab, conn, holder, runs, audit,                               \* WebChat
  latest, page, server, shown, late,                            \* WebEvents
  issued, ended, tokens, req, store, bounced,                   \* WebAuth
  rows, queue, sending, sent, open,                             \* WebAudit
  value, changes, cursor, slice, at, read, got, steady, editor, \* WebStore
  agent, token, loads, held, streaming, composing, suppressed, query, light, \* WebPanel
  route, visit, names, chosen, said, listing, streams, hasty, drawer, picker,
  resolver, answer, mixed, stack, locks, prev, moving, focus, there \* Overlays

chat == <<tab, conn, holder, runs, audit>>
feed == <<latest, page, server, shown, late>>
auth == <<issued, ended, tokens, req, store, bounced>>
hits == <<rows, queue, sending, sent, open>>
keys == <<value, changes, cursor, slice, at, read, got, steady, editor>>
panel == <<agent, token, loads, held, streaming, composing, suppressed, query, light>>
layers == <<route, visit, names, chosen, said, listing, streams, hasty, drawer, picker,
            resolver, answer, mixed, stack, locks, prev, moving, focus, there>>
vars == <<part, chat, feed, auth, hits, keys, panel, layers>>

\* In the run: one page, three turns, one stop and one broken connection.
Chat == INSTANCE WebChat

\* The buffer forgets one of three events; the page reconnects once.
Events == INSTANCE WebEvents WITH MaxDrops <- MaxBreaks

\* Two tabs of one browser, each with two requests that find the token expired.
Auth == INSTANCE WebAuth WITH Tabs <- Windows, Requests <- Calls, tab <- tokens

\* More hits than the feed's queue and the list in memory hold.
Audit == INSTANCE WebAudit WITH Capacity <- AuditRows, Pages <- {1}

\* Two pages of keys, changed twice, and an editor of one of them.
Store == INSTANCE WebStore WITH rows <- read, left <- at

\* Two agents, one with two triggers and one with one, chosen four times.
Panel == INSTANCE WebPanel WITH shown <- held, cursor <- light
TwoAndOne == [a \in Agents |-> IF a = "ann" THEN 2 ELSE 1]

\* The same two; the chat page is left and opened again.
Layers == INSTANCE Overlays WITH Agents <- AgentList, agent <- chosen
AnnThenBen == <<"ann", "ben">>

Init ==
  /\ part \in Parts
  /\ Chat!Init /\ Events!Init /\ Auth!Init /\ Audit!Init /\ Panel!Init /\ Layers!Init
  /\ Store!Init /\ (part # "keys" => value = [k \in Keys |-> 0])

Next ==
  \/ part = "chat" /\ Chat!Next
     /\ UNCHANGED <<part, feed, auth, hits, keys, panel, layers>>
  \/ part = "feed" /\ Events!Next
     /\ UNCHANGED <<part, chat, auth, hits, keys, panel, layers>>
  \/ part = "auth" /\ Auth!Next
     /\ UNCHANGED <<part, chat, feed, hits, keys, panel, layers>>
  \/ part = "hits" /\ Audit!Next
     /\ UNCHANGED <<part, chat, feed, auth, keys, panel, layers>>
  \/ part = "keys" /\ Store!Next
     /\ UNCHANGED <<part, chat, feed, auth, hits, panel, layers>>
  \/ part = "panel" /\ Panel!Next
     /\ UNCHANGED <<part, chat, feed, auth, hits, keys, layers>>
  \/ part = "layers" /\ Layers!Next
     /\ UNCHANGED <<part, chat, feed, auth, hits, keys, panel>>

\* WebChat is fair when it moves; the others owe nothing.
Spec == Init /\ [][Next]_vars
        /\ \A t \in Tabs : WF_chat(part = "chat" /\ Chat!Page(t))
        /\ \A c \in Tabs \X (1..MaxDrops + 1) : WF_chat(part = "chat" /\ Chat!Read(c))
                                     /\ WF_chat(part = "chat" /\ Chat!Notice(c))
                                     /\ WF_chat(part = "chat" /\ Chat!Task(c))

--------------------------------------------------------------------------------
\* WebChat: what a page shows of a reply is the whole of it and in its place, and
\* what the audit says of a turn is what became of it.
ChatIsTrue == Chat!TypeOK /\ Chat!WholeReply /\ Chat!RepliesInPlace /\ Chat!AuditIsTrue

\* WebEvents and WebAudit: a feed of events misses nothing while its connection
\* lasts, and a feed of rule hits is in order and ends with the latest.
FeedsAreTrue == Events!TypeOK /\ Events!NoGap /\ Audit!TypeOK /\ Audit!HitsAreRecent

\* WebStore, WebPanel and Overlays: the pages of a listing cover what was there though
\* keys change, the trigger panel is the chosen agent's, and shut when held back, and
\* what lies over a page frees it, answers its own question and ends with it.
ListsAreTrue ==
  /\ Store!TypeOK /\ Store!PagesCover /\ Panel!TypeOK /\ Panel!PanelIsTrue
  /\ Layers!TypeOK /\ Layers!PageIsFree /\ Layers!AnswerIsMeant /\ Layers!StreamsEnd

\* WebAuth: no tab is signed out by refreshes of its own.
NotByItself == Auth!TypeOK /\ Auth!NotByItself

\* WebChat: no page shows "streaming" for ever, unless its connection broke.
TurnsEnd == Chat!TurnsEnd
================================================================================
