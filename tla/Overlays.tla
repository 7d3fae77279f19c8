------------------------------ MODULE Overlays ------------------------------
(* What lies over a page (useOverlay.ts): the drawer of the shell, the chat      *)
(* page's sheet of agents and the question of useConfirm.ts, each with its place *)
(* in the stack, the focus it takes and gives back and its share of the scroll   *)
(* lock; and the chat page (Chat.vue) that opens them, waits for their answers   *)
(* and may be left meanwhile. A control is its place and its number there; only  *)
(* a panel's first and last control count. Watchers run before the next event.   *)
EXTENDS Integers, FiniteSets, Sequences

CONSTANTS
  Agents,      \* a sequence: what listAgents() answers
  MaxVisits    \* bound: times the chat page is opened

Layers == {"drawer", "picker", "confirm"}
Routes == {"chat", "settings", "login"}
Body == <<"body", 0>>
Header == 1
Composer == 2
Nobody == [why |-> "none", visit |-> 0, name |-> "none", from |-> "none"]

VARIABLES
  route, visit,  \* the page shown, and how often it was the chat page
  names,         \* the list has come to this visit
  agent, said,   \* currentAgentName, and whether the conversation has messages
  listing,       \* visits that wait for listAgents()
  streams,       \* open conversations: their visit and agent
  hasty,         \* visits left while they waited for an answer (for the properties only)
  drawer, picker,
  resolver,      \* state.resolver: who asked, or Nobody
  answer,        \* the question answered and the answer, its asker not yet resumed
  stack, locks,  \* OVERLAY_STACK and bodyLockCount
  prev,          \* prevActive of each layer
  moving,        \* layers whose focus awaits nextTick()
  focus, there,  \* activeElement, and the places in the document
  mixed          \* another conversation was cleared than the one asked about (likewise)

page == <<route, visit, names, agent, said, listing, streams, hasty>>
ask == <<resolver, answer, mixed>>
dom == <<stack, locks, prev, moving, focus, there>>
vars == <<page, drawer, picker, ask, dom>>

NoAnswer == [who |-> Nobody, yes |-> FALSE]
Open == {o \in Layers : (o = "drawer" /\ drawer) \/ (o = "picker" /\ picker) \/ (o = "confirm" /\ resolver # Nobody)}
Attached == {stack[i] : i \in DOMAIN stack}
Top == stack[Len(stack)]
Settled == Open = Attached /\ moving = {} /\ answer = NoAnswer

Init ==
  /\ route = "chat" /\ visit = 1 /\ names = FALSE /\ agent = "none" /\ said = FALSE
  /\ listing = {1} /\ streams = {} /\ hasty = {}
  /\ drawer = FALSE /\ picker = FALSE /\ resolver = Nobody /\ answer = NoAnswer /\ mixed = FALSE
  /\ stack = <<>> /\ locks = 0 /\ prev = [o \in Layers |-> Body] /\ moving = {}
  /\ focus = Body /\ there = {"chat"}

--------------------------------------------------------------------------------
\* An element that is gone, and the body, do not take the focus.
Given(control, now) == IF control[1] \in there THEN control ELSE now

\* The focus goes to a panel's first control when it can be found.
Attach(o) ==
  /\ o \in Open \ Attached
  /\ stack' = Append(stack, o) /\ locks' = locks + 1
  /\ there' = there \cup {o} /\ moving' = moving \cup {o}
  /\ LET lost(c) == IF c[1] = o THEN Body ELSE c IN   \* a panel still leaving is replaced
       /\ focus' = lost(focus)
       /\ prev' = [p \in Layers |-> IF p = o THEN lost(focus) ELSE lost(prev[p])]
  /\ UNCHANGED <<page, drawer, picker, ask>>

Unlocked(gone) == IF locks < Cardinality(gone) THEN 0 ELSE locks - Cardinality(gone)

\* OVERLAY_STACK.splice(), where it holds the layer.
Spliced(s, o) ==
  LET place == CHOOSE i \in DOMAIN s : s[i] = o IN
  IF \E i \in DOMAIN s : s[i] = o THEN SubSeq(s, 1, place - 1) \o SubSeq(s, place + 1, Len(s)) ELSE s

\* detach() of two layers, or of one, that are attached: at most one gives its focus
\* back to what is still there.
Without(o, p) ==
  LET left == {o, p} \cap Attached IN
  /\ stack' = Spliced(Spliced(stack, o), p)
  /\ locks' = Unlocked(left)
  /\ moving' = moving \ left
  /\ prev' = [l \in Layers |-> IF l \in left THEN Body ELSE prev[l]]
  /\ IF left = {} THEN focus' = focus
     ELSE \E l \in left : focus' = Given(prev[l], focus)

Detach(o) ==
  /\ o \in Attached \ Open
  /\ Without(o, o)
  /\ UNCHANGED <<page, drawer, picker, ask, there>>

NextTick(o) ==
  /\ o \in moving
  /\ moving' = moving \ {o}
  /\ focus' = Given(<<o, 1>>, focus)
  /\ UNCHANGED <<page, drawer, picker, ask, stack, locks, prev, there>>

\* A layer or page that was left is taken out of the document when it has faded.
Fade(p) ==
  /\ p \in there \ (Attached \cup Open \cup {route})
  /\ there' = there \ {p}
  /\ focus' = IF focus[1] = p THEN Body ELSE focus
  /\ prev' = [o \in Layers |-> IF prev[o][1] = p THEN Body ELSE prev[o]]
  /\ UNCHANGED <<page, drawer, picker, ask, stack, locks, moving>>

--------------------------------------------------------------------------------
\* openFor(): the visit's stream is closed and another opened.
OpenFor(v, name) == {s \in streams : s.visit # v} \cup {[visit |-> v, agent |-> name]}

\* Another page: the old one's layers are unmounted and its stream closed, though not
\* what waits for an answer; the shell and its drawer go at the sign-in page.
GoTo(r) ==
  /\ r # route /\ r \notin there /\ (r = "settings" => route # "login")
  /\ (r = "chat" => visit < MaxVisits)
  /\ route' = r /\ there' = there \cup {r}
  /\ visit' = (IF r = "chat" THEN visit + 1 ELSE visit)
  /\ listing' = (IF r = "chat" THEN listing \cup {visit + 1} ELSE listing)
  /\ names' = FALSE /\ agent' = "none" /\ said' = FALSE
  /\ streams' = {s \in streams : route # "chat" \/ s.visit # visit}
  /\ hasty' = hasty \cup {v \in {visit} : v \in listing \/ resolver.visit = v}
  /\ picker' = FALSE /\ drawer' = (drawer /\ r # "login")
  /\ Without("picker", IF r = "login" THEN "drawer" ELSE "picker")

\* confirm(): while a question is open another is answered no at once.
Confirm(who) == resolver' = IF resolver # Nobody THEN resolver ELSE who

Resolve(yes) ==
  /\ resolver # Nobody
  /\ answer' = [who |-> resolver, yes |-> yes] /\ resolver' = Nobody
  /\ UNCHANGED <<page, drawer, picker, mixed, dom>>

\* onPickAgent() after its question, and onResetClick() after its own.
Switch(v, name) ==
  LET here == route = "chat" /\ v = visit IN
  /\ streams' = OpenFor(v, name)
  /\ agent' = (IF here THEN name ELSE agent) /\ said' = (said /\ ~here)
  /\ picker' = (picker /\ ~here)
  /\ UNCHANGED <<route, visit, names, listing, hasty, drawer, dom>>

Reset(v) ==
  /\ said' = (said /\ ~(route = "chat" /\ v = visit))
  /\ UNCHANGED <<route, visit, names, agent, listing, streams, hasty, drawer, picker, dom>>

\* The asker goes on with the answer to its question.
Resumed ==
  LET who == answer.who IN
  /\ answer # NoAnswer /\ answer' = NoAnswer /\ UNCHANGED resolver
  /\ mixed' = (mixed \/ (answer.yes /\ said /\ who.visit = visit /\ agent # who.from))
  /\ \/ ~answer.yes /\ UNCHANGED <<page, drawer, picker, dom>>
     \/ answer.yes /\ who.why = "switch" /\ Switch(who.visit, who.name)
     \/ answer.yes /\ who.why = "reset" /\ Reset(who.visit)
     \/ answer.yes /\ who.why = "logout" /\ GoTo("login")
     \/ answer.yes /\ who.why = "logout" /\ route = "login" /\ UNCHANGED <<page, drawer, picker, dom>>

\* listAgents() answers a visit, which then talks to the first agent, or fails.
Listed(v, ok) ==
  LET here == route = "chat" /\ v = visit IN
  /\ v \in listing /\ listing' = listing \ {v}
  /\ names' = (names \/ (here /\ ok))
  /\ agent' = (IF here /\ ok THEN Agents[1] ELSE agent)
  /\ streams' = (IF ok THEN OpenFor(v, Agents[1]) ELSE streams)
  /\ UNCHANGED <<route, visit, said, hasty, drawer, picker, ask, dom>>

--------------------------------------------------------------------------------
\* A control is pressed when nothing covers it; the focus is then its own.
Uncovered(o) == o \in Open /\ (o = "confirm" \/ resolver = Nobody)
Press(control) == focus' = control /\ UNCHANGED <<stack, locks, prev, moving, there>>

OpenDrawer ==
  /\ Open = {} /\ route # "login"
  /\ drawer' = TRUE /\ Press(<<route, Header>>)
  /\ UNCHANGED <<page, picker, ask>>

\* onAgentClick: one agent alone needs no sheet.
OpenPicker ==
  /\ Open = {} /\ route = "chat" /\ names /\ Len(Agents) > 1
  /\ picker' = TRUE /\ Press(<<"chat", Header>>)
  /\ UNCHANGED <<page, drawer, ask>>

AskReset ==
  /\ Open = {} /\ route = "chat" /\ agent # "none" /\ said
  /\ Confirm([why |-> "reset", visit |-> visit, name |-> agent, from |-> agent])
  /\ Press(<<"chat", Header>>)
  /\ UNCHANGED <<page, drawer, picker, answer, mixed>>

AskLogout ==
  /\ Open = {} /\ route = "settings"
  /\ Confirm([why |-> "logout", visit |-> 0, name |-> "none", from |-> "none"])
  /\ Press(<<"settings", Header>>)
  /\ UNCHANGED <<page, drawer, picker, answer, mixed>>

\* onPickAgent, by hand or, with the focus in the sheet, by Enter.
PickAgent(name) ==
  /\ picker /\ (Uncovered("picker") \/ focus[1] = "picker")
  /\ IF name = agent
     THEN picker' = FALSE /\ UNCHANGED <<page, drawer, ask, dom>>
     ELSE IF said
     THEN /\ Confirm([why |-> "switch", visit |-> visit, name |-> name, from |-> agent])
          /\ Press(<<"picker", 2>>)
          /\ UNCHANGED <<page, drawer, picker, answer, mixed>>
     ELSE Switch(visit, name) /\ UNCHANGED ask

Send ==
  /\ route = "chat" /\ agent # "none" /\ (Open = {} \/ focus = <<"chat", Composer>>)
  /\ said' = TRUE /\ Press(<<"chat", Composer>>)
  /\ UNCHANGED <<route, visit, names, agent, listing, streams, hasty, drawer, picker, ask>>

\* A layer is closed by its veil or button; the question's are its answers.
Close(o) ==
  /\ Uncovered(o)
  /\ \/ o = "confirm" /\ \E yes \in BOOLEAN : Resolve(yes)
     \/ /\ o # "confirm"
        /\ drawer' = (drawer /\ o # "drawer") /\ picker' = (picker /\ o # "picker")
        /\ UNCHANGED <<page, ask, dom>>

\* onGlobalKey: Escape closes the layer opened last and Tab stays in its panel.
Escape ==
  /\ stack # <<>>
  /\ \/ Top = "confirm" /\ Resolve(FALSE)
     \/ /\ Top # "confirm"
        /\ drawer' = (drawer /\ Top # "drawer") /\ picker' = (picker /\ Top # "picker")
        /\ UNCHANGED <<page, ask, dom>>

Tab(back) ==
  /\ stack # <<>>
  /\ LET inside == focus[1] = Top  from == IF back THEN 1 ELSE 2 IN
     focus' = IF ~inside \/ focus[2] = from THEN <<Top, 3 - from>> ELSE <<Top, from>>
  /\ UNCHANGED <<page, drawer, picker, ask, stack, locks, prev, moving, there>>

\* onShortcut: Ctrl+K opens the sheet of agents and / goes to the input, whatever is open.
CtrlK ==
  /\ route = "chat" /\ names /\ Len(Agents) > 1 /\ ~picker
  /\ picker' = TRUE /\ UNCHANGED <<page, drawer, ask, dom>>

Slash ==
  /\ route = "chat" /\ agent # "none" /\ focus # <<"chat", Composer>>
  /\ focus' = <<"chat", Composer>>
  /\ UNCHANGED <<page, drawer, picker, ask, stack, locks, prev, moving, there>>

\* The drawer's links and the browser's own buttons lead to another page.
Navigate(r) == GoTo(r) /\ UNCHANGED ask

User ==
  \/ OpenDrawer \/ OpenPicker \/ AskReset \/ AskLogout \/ Send \/ Escape \/ CtrlK \/ Slash
  \/ \E i \in DOMAIN Agents : PickAgent(Agents[i])
  \/ \E o \in Layers : Close(o)
  \/ \E back \in BOOLEAN : Tab(back)
  \/ \E r \in Routes \ {"login"} : Navigate(r)

Next ==
  \/ Settled /\ User
  \/ \E o \in Layers : Attach(o) \/ Detach(o) \/ NextTick(o)
  \/ Resumed
  \/ \E v \in listing, ok \in BOOLEAN : Listed(v, ok)
  \/ Open = Attached /\ \E p \in there : Fade(p)

Spec == Init /\ [][Next]_vars

--------------------------------------------------------------------------------
TypeOK ==
  /\ route \in Routes /\ visit \in 1..MaxVisits /\ listing \subseteq 1..MaxVisits
  /\ stack \in Seq(Layers) /\ locks \in 0..Cardinality(Layers)
  /\ focus[1] \in there \cup {"body"} /\ prev \in [Layers -> (there \cup {"body"}) \X (0..2)]

\* useOverlay.ts:16, 141: when everything has been closed, left or unmounted, in
\* whatever order, the page scrolls again, and a closed layer does not come back.
PageIsFree ==
  /\ Cardinality(Attached) = Len(stack)
  /\ Settled => (locks > 0) = (drawer \/ picker \/ resolver # Nobody)

\* useConfirm.ts:58-62: a yes is the answer to the question on the screen: what is
\* cleared is the conversation its question named, whatever was opened meanwhile.
AnswerIsMeant == ~mixed

\* useConversation.ts:313: an agent's stream ends with the page that opened it, unless
\* that page was left while it waited for the agents or for an answer.
StreamsEnd == \A s \in streams : s.visit \in hasty \/ (route = "chat" /\ s.visit = visit)

\* Chat.vue:165 fears for its key listener on exactly that path; the stream is what leaks.
NothingLeaks == hasty # {} => \A s \in streams : route = "chat" /\ s.visit = visit

\* useOverlay.ts:47: Escape closes the question, not the sheet below it.
QuestionIsTop == "confirm" \in Attached => Top = "confirm"
================================================================================
