------------------------------ MODULE WebChat ------------------------------
(* The chat page of the Web UI against its server: the page's conversation and *)
(* its socket (useConversation.ts, agentStream.ts), the socket's handler       *)
(* (webui/ws/agents.py) and the dispatcher that serves it                      *)
(* (wire_webui.py). All tabs are one account, so they share one session and    *)
(* its lock.                                                                   *)
(* A step of the page is one callback; a step of the server is what runs       *)
(* between two awaits. A text is the number of the turn it answers.            *)
EXTENDS Naturals, Sequences, FiniteSets

CONSTANTS
  Tabs,
  MaxTurns,   \* bound: messages a user sends from one tab
  MaxStops,   \* bound: uses of "stop" and "clear" in one tab
  MaxDrops    \* bound: connections one tab loses

VARIABLES
  tab,     \* what each page holds
  conn,    \* each connection: its two directions, its handler and its task
  holder,  \* the connection whose task has the session's lock, or NoOne
  runs,    \* agent runs alive, <<connection, turn>>
  audit    \* history: audit rows, and what was really served

vars == <<tab, conn, holder, runs, audit>>

NoOne == <<>>
Conns == Tabs \X (1..MaxDrops + 1)
Current(t) == <<t, tab[t].gen>>

NoTask == [pc |-> "none", turn |-> 0, parts |-> 1, cancelled |-> FALSE]

Init ==
  /\ tab = [t \in Tabs |->
       [gen |-> 1, sock |-> "connecting", opened |-> FALSE, waiting |-> <<>>,
        turn |-> 0, streaming |-> FALSE, log |-> <<>>, bubble |-> 0, pending |-> {},
        timers |-> <<>>, stops |-> 0, stopped |-> {}, cut |-> {}, answered |-> {}, hurt |-> FALSE]]
  /\ conn = [c \in Conns |->
       [net |-> "new", handler |-> "none", in |-> <<>>, out |-> <<>>, task |-> NoTask]]
  /\ holder = NoOne /\ runs = {} /\ audit = [rows |-> {}, served |-> {}]

--------------------------------------------------------------------------------
\* The page.

Bubble(who, n) == [who |-> who, of |-> {n}]
Frame(kind, n) == [t |-> kind, turn |-> n, parts |-> 1]
Timer(kind, n) == [t |-> kind, turn |-> n]

\* The page takes the end of turn n, whichever it is, for that of the one it is at:
\* history keeps the turns that another one's end cut short.
EndedBy(n, p, q) ==
  [q EXCEPT !.cut = IF p.streaming /\ ~q.streaming /\ n # p.turn THEN @ \cup {p.turn} ELSE @]

\* What is queued for the next animation frame goes into the open bubble, or
\* opens one.
Flushed(p) ==
  IF p.pending = {} THEN p
  ELSE IF p.bubble = 0
       THEN [p EXCEPT !.log = Append(@, [who |-> "bot", of |-> p.pending]),
                      !.bubble = Len(p.log) + 1, !.pending = {}]
       ELSE [p EXCEPT !.log[p.bubble].of = @ \cup p.pending, !.pending = {}]

\* abortAssistant: flush, drop the delayed texts, close the bubble.
Aborted(p) == [Flushed(p) EXCEPT !.bubble = 0, !.timers = <<>>, !.streaming = FALSE]

\* Input and cancel frames only leave over an open socket; otherwise send() drops them.
Sent(t, frame) ==
  conn' = IF tab[t].sock = "open"
          THEN [conn EXCEPT ![Current(t)].in = Append(@, frame)] ELSE conn

Free(t) == ~tab[t].streaming

\* send(): the user's bubble, a fresh queue, then the socket. whenOpen() waits on
\* the promise of the first open() only: once that has resolved it never waits again.
Send(t) ==
  LET p == tab[t]
      n == p.turn + 1
      later == p.sock # "open" /\ ~p.opened
      lost == p.sock # "open" /\ p.opened
  IN /\ p.sock # "off" /\ Free(t) /\ p.turn < MaxTurns
     /\ tab' = [tab EXCEPT ![t] =
          [p EXCEPT !.turn = n, !.log = Append(@, Bubble("user", n)), !.streaming = TRUE,
                    !.bubble = 0, !.pending = {}, !.timers = <<>>, !.hurt = lost,
                    !.waiting = IF later THEN Append(@, n) ELSE @]]
     /\ Sent(t, Frame("input", n))
     /\ UNCHANGED <<holder, runs, audit>>

\* whenOpen(2000) gives up.
GiveUp(t) ==
  /\ tab[t].waiting # <<>>
  /\ LET p == tab[t]
     IN tab' = [tab EXCEPT ![t] =
          EndedBy(Head(p.waiting), p, [p EXCEPT !.waiting = Tail(@), !.streaming = FALSE])]
  /\ UNCHANGED <<conn, holder, runs, audit>>

\* The stop button, and "clear", which empties the page as well.
Stop(t, clear) ==
  LET p == tab[t]
      q == [Aborted(p) EXCEPT !.stops = @ + 1, !.stopped = @ \cup {p.turn}]
  IN /\ p.sock # "off" /\ p.stops < MaxStops
     /\ IF clear THEN p.streaming \/ p.log # <<>> ELSE p.streaming
     /\ tab' = [tab EXCEPT ![t] =
          IF clear THEN [q EXCEPT !.log = <<>>, !.answered = {}] ELSE q]
     /\ Sent(t, Frame("cancel", 0))
     /\ UNCHANGED <<holder, runs, audit>>

\* Bug: finishTurn() runs at once, although texts of the reply are still to come.
FinishedEarly(p, frame) ==
  LET q == Flushed(p)
      split == q.bubble # 0 /\ frame.parts > 1
  IN [q EXCEPT !.bubble = 0, !.streaming = FALSE,
               !.log = IF split THEN [q.log EXCEPT ![q.bubble] = Bubble("bot", frame.turn)] ELSE @,
               !.timers = IF split THEN [k \in 1..frame.parts - 1 |-> Timer("text", frame.turn)] ELSE @]

\* "done": the bubble is closed; a reply of several texts takes its place, the
\* first at once and each other after its delay, and then the turn is over
\* (the timer of finishTurn).
Finished(p, frame) ==
  LET q == Flushed(p)
      split == q.bubble # 0 /\ frame.parts > 1
  IN [q EXCEPT !.bubble = 0, !.streaming = IF split THEN @ ELSE FALSE,
               !.log = IF split THEN [q.log EXCEPT ![q.bubble] = Bubble("bot", frame.turn)] ELSE @,
               !.timers = IF split THEN @ \o [k \in 1..frame.parts |->
                 Timer(IF k = frame.parts THEN "finish" ELSE "text", frame.turn)] ELSE @]

\* onMessage.
Receive(t) ==
  LET c == Current(t)
      frame == Head(conn[c].out)
      p == tab[t]
  IN /\ p.sock = "open" /\ conn[c].out # <<>>
     /\ conn' = [conn EXCEPT ![c].out = Tail(@)]
     /\ tab' = [tab EXCEPT ![t] =
          CASE frame.t = "delta" -> [p EXCEPT !.pending = @ \cup {frame.turn}]
            [] frame.t = "done" ->
                 EndedBy(frame.turn, p, [Finished(p, frame) EXCEPT
                                           !.answered = @ \cup {<<frame.turn, frame.parts>>}])
            [] frame.t = "error" -> EndedBy(frame.turn, p, Aborted(p))]
     /\ UNCHANGED <<holder, runs, audit>>

\* An animation frame.
Paint(t) ==
  /\ tab[t].pending # {} /\ tab' = [tab EXCEPT ![t] = Flushed(tab[t])]
  /\ UNCHANGED <<conn, holder, runs, audit>>

\* The next timer of the delayed texts fires.
Tick(t) ==
  LET p == tab[t]
      timer == Head(p.timers)
  IN /\ p.timers # <<>>
     /\ tab' = [tab EXCEPT ![t] =
          IF timer.t = "finish"
          THEN EndedBy(timer.turn, p, [p EXCEPT !.timers = Tail(@), !.streaming = FALSE])
          ELSE [p EXCEPT !.timers = Tail(@), !.log = Append(@, Bubble("bot", timer.turn))]]
     /\ UNCHANGED <<conn, holder, runs, audit>>

--------------------------------------------------------------------------------
\* The connection.

\* The socket opens (onopen) and what waited for it is sent; the server has accepted
\* and authorised it.
Open(t) ==
  /\ tab[t].sock = "connecting"
  /\ tab' = [tab EXCEPT ![t].sock = "open", ![t].opened = TRUE, ![t].waiting = <<>>]
  /\ conn' = [conn EXCEPT ![Current(t)].net = "up", ![Current(t)].handler = "on",
                          ![Current(t)].in = [k \in DOMAIN tab[t].waiting |->
                                              Frame("input", tab[t].waiting[k])]]
  /\ UNCHANGED <<holder, runs, audit>>

\* The connection breaks: what was under way to the page is lost, and a suffix of
\* what was under way to the server. onclose plans a reconnection.
Drop(t) ==
  LET c == Current(t)
  IN /\ tab[t].sock \in {"connecting", "open"} /\ tab[t].gen <= MaxDrops
     /\ tab' = [tab EXCEPT ![t].sock = "backoff", ![t].hurt = @ \/ tab[t].streaming]
     /\ \E k \in 0..Len(conn[c].in) :
          conn' = [conn EXCEPT ![c].net = "cut", ![c].out = <<>>, ![c].in = SubSeq(@, 1, k)]
     /\ UNCHANGED <<holder, runs, audit>>

Reconnect(t) ==
  /\ tab[t].sock = "backoff"
  /\ tab' = [tab EXCEPT ![t].sock = "connecting", ![t].gen = @ + 1]
  /\ UNCHANGED <<conn, holder, runs, audit>>

\* The page is left: timers and queue are dropped, the socket is closed.
Leave(t) ==
  /\ tab[t].sock # "off"
  /\ tab' = [tab EXCEPT ![t].sock = "off", ![t].waiting = <<>>, ![t].pending = {},
                        ![t].timers = <<>>, ![t].bubble = 0, ![t].hurt = TRUE]
  /\ conn' = [conn EXCEPT ![Current(t)].net = "cut", ![Current(t)].out = <<>>]
  /\ UNCHANGED <<holder, runs, audit>>

--------------------------------------------------------------------------------
\* The socket's handler: one frame at a time, and a task for a turn.

Busy(c) == conn[c].task.pc # "none"

\* A frame reaches the page unless the connection is gone.
Out(c, frame) == IF conn[c].net = "up" THEN Append(conn[c].out, frame) ELSE conn[c].out

\* Bug: an input that finds a task running is passed over in silence.
RefusedSilently(c, frame) == [conn[c] EXCEPT !.in = Tail(@)]

Refused(c, frame) ==
  [conn[c] EXCEPT !.in = Tail(@), !.out = Out(c, Frame("error", frame.turn))]

Stopping(c) == [conn[c] EXCEPT !.in = Tail(@), !.task.cancelled = Busy(c)]

Starting(c, frame) ==
  [conn[c] EXCEPT !.in = Tail(@), !.task = [NoTask EXCEPT !.pc = "start", !.turn = frame.turn]]

Read(c) ==
  LET frame == Head(conn[c].in)
  IN /\ conn[c].handler = "on" /\ conn[c].in # <<>>
     /\ conn' = [conn EXCEPT ![c] =
          IF frame.t = "cancel" THEN Stopping(c)
          ELSE IF Busy(c) THEN Refused(c, frame) ELSE Starting(c, frame)]
     /\ UNCHANGED <<tab, holder, runs, audit>>

\* WebSocketDisconnect: the task is cancelled and awaited.
Notice(c) ==
  /\ conn[c].handler = "on" /\ conn[c].in = <<>> /\ conn[c].net = "cut"
  /\ conn' = [conn EXCEPT ![c].handler = "gone", ![c].task.cancelled = Busy(c)]
  /\ UNCHANGED <<tab, holder, runs, audit>>

--------------------------------------------------------------------------------
\* The task of a turn.

At(c, pc) == conn[c].task.pc = pc /\ ~conn[c].task.cancelled
Goto(c, pc) == conn' = [conn EXCEPT ![c].task.pc = pc]
Run(c) == <<c, conn[c].task.turn>>

\* The classifier decides: a rule runs (on a session of its own, without the lock)
\* or fails, nothing is to be said, or the turn is one for the agent.
Classify(c) ==
  /\ At(c, "start")
  /\ \E pc \in {"reply", "fail", "wait"} : Goto(c, pc)
  /\ UNCHANGED <<tab, holder, runs, audit>>

\* The session's lock is free: the agent is started as a task of its own.
Take(c) ==
  /\ At(c, "wait") /\ holder = NoOne
  /\ holder' = c /\ runs' = runs \cup {Run(c)} /\ Goto(c, "turn")
  /\ UNCHANGED <<tab, audit>>

\* The lock could not be had in time: the busy reply.
LockTimeout(c) ==
  /\ At(c, "wait") /\ holder # NoOne /\ Goto(c, "reply")
  /\ UNCHANGED <<tab, holder, runs, audit>>

\* The agent answers, with one text or with several, or fails.
Answer(c) ==
  /\ At(c, "turn")
  /\ holder' = NoOne /\ runs' = runs \ {Run(c)}
  /\ \E pc \in {"reply", "fail"}, parts \in 1..2 :
       conn' = [conn EXCEPT ![c].task.pc = pc, ![c].task.parts = parts]
  /\ UNCHANGED <<tab, audit>>

\* The text goes out as one delta. On a dead socket that raises, and so does the
\* error frame.
SendDelta(c) ==
  /\ At(c, "reply")
  /\ IF conn[c].net = "up"
     THEN conn' = [conn EXCEPT ![c].out = Out(c, Frame("delta", conn[c].task.turn)),
                               ![c].task.pc = "rest"]
     ELSE Goto(c, "fail")
  /\ UNCHANGED <<tab, holder, runs, audit>>

Ended(c, frames) ==
  conn' = [conn EXCEPT ![c].out = IF conn[c].net = "up" THEN @ \o frames ELSE @, ![c].task = NoTask]

Row(c, ok) == [turn |-> Run(c), ok |-> ok]

SendDone(c) ==
  /\ At(c, "rest")
  /\ IF conn[c].net = "up"
     THEN /\ Ended(c, <<[Frame("done", conn[c].task.turn) EXCEPT !.parts = conn[c].task.parts]>>)
          /\ audit' = [rows |-> audit.rows \cup {Row(c, TRUE)}, served |-> audit.served \cup {Run(c)}]
     ELSE Goto(c, "fail") /\ UNCHANGED audit
  /\ UNCHANGED <<tab, holder, runs>>

\* The exception is raised again, so the done callback sees a task that failed.
RowOfError(c) == Row(c, FALSE)

SendError(c) ==
  /\ At(c, "fail")
  /\ Ended(c, <<Frame("error", conn[c].task.turn)>>)
  /\ audit' = [audit EXCEPT !.rows = @ \cup {RowOfError(c)}]
  /\ UNCHANGED <<tab, holder, runs>>

\* CancelledError: the lock is released on the way out. dispatch() waits with
\* asyncio.wait, which leaves the agent's own task running.
Cancelled(c) ==
  /\ Busy(c) /\ conn[c].task.cancelled
  /\ holder' = IF holder = c THEN NoOne ELSE holder
  /\ Ended(c, <<>>)
  /\ audit' = [audit EXCEPT !.rows = @ \cup {Row(c, FALSE)}]
  /\ UNCHANGED <<tab, runs>>

\* An agent nobody waits for any more comes to its end.
OrphanEnds(r) ==
  /\ r \in runs /\ ~(Busy(r[1]) /\ Run(r[1]) = r)
  /\ runs' = runs \ {r}
  /\ UNCHANGED <<tab, conn, holder, audit>>

--------------------------------------------------------------------------------
Page(t) == Receive(t) \/ Paint(t) \/ Tick(t) \/ GiveUp(t) \/ Open(t) \/ Reconnect(t)
Task(c) ==
  \/ Classify(c) \/ Take(c) \/ LockTimeout(c) \/ Answer(c) \/ SendDelta(c) \/ SendDone(c)
  \/ SendError(c) \/ Cancelled(c)

Next ==
  \/ \E t \in Tabs : Page(t) \/ Send(t) \/ Drop(t) \/ Leave(t) \/ \E clear \in BOOLEAN : Stop(t, clear)
  \/ \E c \in Conns : Read(c) \/ Notice(c) \/ Task(c) \/ \E n \in 1..MaxTurns : OrphanEnds(<<c, n>>)

\* Callbacks run, frames arrive while the connection lasts, timers fire, and the
\* agent answers or fails (its provider has a timeout).
Fairness ==
  /\ \A t \in Tabs : WF_vars(Page(t))
  /\ \A c \in Conns : WF_vars(Read(c)) /\ WF_vars(Notice(c)) /\ WF_vars(Task(c))

Spec == Init /\ [][Next]_vars /\ Fairness

--------------------------------------------------------------------------------
\* The type invariant: the lock's holder is at its turn, and that turn's agent runs.
TypeOK ==
  /\ \A t \in Tabs :
       /\ tab[t].sock \in {"connecting", "open", "backoff", "off"}
       /\ tab[t].gen \in 1..MaxDrops + 1 /\ tab[t].turn \in 0..MaxTurns
       /\ tab[t].bubble \in 0..Len(tab[t].log)
  /\ \A c \in Conns : conn[c].task.pc = "turn" <=> holder = c
  /\ holder # NoOne => Run(holder) \in runs

\* Turns the user gave up, or the page by mistake: a stopped turn's last frames may
\* still be on the wire, and its end ends the turn that the page is at.
GivenUp(p) == p.stopped \cup p.cut

\* Whoever has seen "done" for a message and let the reply come finds all of its
\* texts on the page, or still under a timer: nothing is dropped by what the page
\* does next (useConversation.ts: replies of several texts are shown with delays).
WholeReply ==
  \A t \in Tabs : \A a \in tab[t].answered :
    \/ a[1] \in GivenUp(tab[t]) \/ tab[t].sock = "off"
    \/ Cardinality({k \in DOMAIN tab[t].log : tab[t].log[k].who = "bot" /\ a[1] \in tab[t].log[k].of})
       + Cardinality({k \in DOMAIN tab[t].timers : tab[t].timers[k] = Timer("text", a[1])}) >= a[2]

\* Below a message stands no text that answers an earlier one, unless that one was
\* given up; and no turn is cut short before the user has stopped one.
RepliesInPlace ==
  \A t \in Tabs :
    /\ \A i, j \in DOMAIN tab[t].log :
         /\ i < j /\ tab[t].log[i].who = "user" /\ tab[t].log[j].who = "bot"
         => \A n \in tab[t].log[j].of, m \in tab[t].log[i].of : n < m => n \in GivenUp(tab[t])
    /\ \A n \in tab[t].cut : \E m \in tab[t].stopped : m < n

\* The audit says "ok" of the turns whose reply went out to the end, and of no
\* other (ws/agents.py: without raising again the "audit lies").
AuditIsTrue == \A row \in audit.rows : row.ok <=> row.turn \in audit.served

\* A page does not show "streaming" for ever: a turn ends, unless its connection
\* broke or was already broken when the message was sent.
AtRest == \A t \in Tabs : tab[t].streaming => tab[t].hurt

TurnsEnd == []<>AtRest

\* At most one agent works for a session (wire_webui.py: dispatch "must run under
\* the per-session lock").
OneRunAtATime == Cardinality(runs) <= 1
================================================================================
