----------------------------- MODULE WebEvents -----------------------------
(* The live event feed of the Web UI: the ring buffer of each bot (buffers.py), *)
(* the handler of /ws/events (ws/events.py) and the page's socket (api/ws.ts).  *)
(* An event is <<bot, seq>>; the page numbers its connections. A step is what   *)
(* runs between two awaits, or one callback of the page.                        *)
EXTENDS Naturals, Sequences, FiniteSets, Functions

CONSTANTS
  Bots,
  Capacity,    \* events a ring buffer keeps
  MaxEvents,   \* bound: events of one bot
  MaxDrops,    \* bound: connections the page loses
  MaxLate      \* bound: deliveries that miss their deadline

VARIABLES
  latest,      \* the last sequence number of each bot
  page,        \* the socket's state, lastSeq, the connection's number, stop()
  server,      \* the handler of each connection
  shown,       \* history: events the page has ever received
  late         \* history: deliveries given up

vars == <<latest, page, server, shown, late>>

Conns == 1..MaxDrops + 1

Idle == [net |-> "new", handler |-> "none", subscribed |-> FALSE, wants |-> <<>>,
         due |-> <<>>, since |-> 0, todo |-> {}, replay |-> <<>>, acking |-> FALSE, out |-> <<>>,
         base |-> [b \in Bots |-> 0], got |-> {}, acked |-> FALSE]

Init ==
  /\ latest = [b \in Bots |-> 0]
  /\ page = [sock |-> "off", conn |-> 0, lastSeq |-> 0, stopped |-> FALSE]
  /\ server = [c \in Conns |-> Idle]
  /\ shown = {} /\ late = {}

--------------------------------------------------------------------------------
\* The ring buffer.

\* The last event that the deque has lost or that since_seq says is known.
Before(b, since) ==
  IF since + Capacity < latest[b] THEN latest[b] - Capacity
  ELSE IF since < latest[b] THEN since ELSE latest[b]

\* Bug: since_seq is taken for the first event wanted, and the next one is sent.
TailShort(b, since) ==
  LET from == Before(b, since + 1) IN [k \in 1..latest[b] - from |-> <<b, from + k>>]

\* tail(since_seq): what the deque still holds of the events after since_seq.
Tail_(b, since) ==
  LET from == Before(b, since) IN [k \in 1..latest[b] - from |-> <<b, from + k>>]

\* publish(): the event is kept, then offered to the subscribers there are.
Publish(b) ==
  /\ latest[b] < MaxEvents
  /\ latest' = [latest EXCEPT ![b] = @ + 1]
  /\ server' = [c \in Conns |->
       IF server[c].subscribed
       THEN [server[c] EXCEPT !.due = Append(@, <<b, latest[b] + 1>>)] ELSE server[c]]
  /\ UNCHANGED <<page, shown, late>>

\* A frame is written, or lost with the connection (deliver suppresses the error).
Put(h, frame) == IF h.net = "up" THEN Append(h.out, frame) ELSE h.out

\* The send lock is free for the next live event.
Deliver(c) ==
  /\ server[c].due # <<>>
  /\ server' = [server EXCEPT ![c].due = Tail(@), ![c].out = Put(server[c], Head(server[c].due))]
  /\ UNCHANGED <<latest, page, shown, late>>

\* The deadline of a delivery passes; the subscriber stays.
Late(c) ==
  /\ server[c].due # <<>> /\ Cardinality(late) < MaxLate
  /\ late' = late \cup {Head(server[c].due)}
  /\ server' = [server EXCEPT ![c].due = Tail(@)]
  /\ UNCHANGED <<latest, page, shown>>

--------------------------------------------------------------------------------
\* The handler.

\* hello has gone out: the handler subscribes, and reads frames from now on.
Subscribe(c) ==
  /\ server[c].handler = "hello"
  /\ server' = [server EXCEPT ![c].handler = "on", ![c].subscribed = TRUE, ![c].base = latest]
  /\ UNCHANGED <<latest, page, shown, late>>

\* A "filter" frame: the tails of all bots are to be sent again.
Filter(c) ==
  LET h == server[c]
  IN /\ h.handler = "on" /\ h.wants # <<>> /\ ~h.acking
     /\ server' = [server EXCEPT ![c].wants = Tail(@), ![c].acking = TRUE,
                                 ![c].since = Head(h.wants), ![c].todo = Bots]
     /\ UNCHANGED <<latest, page, shown, late>>

\* The next bot's tail is read, as it is by then.
ReadTail(c, b) ==
  LET h == server[c]
      from == Before(b, h.since)
  IN /\ h.acking /\ h.replay = <<>> /\ b \in h.todo
     /\ server' = [server EXCEPT ![c].todo = @ \ {b}, ![c].replay = Tail_(b, h.since),
                                 ![c].base[b] = IF from < @ THEN from ELSE @]
     /\ UNCHANGED <<latest, page, shown, late>>

\* One event of it is sent, or the ack when there is none left.
Replay(c) ==
  LET h == server[c]
  IN /\ h.acking
     /\ \/ /\ h.replay # <<>>
           /\ server' = [server EXCEPT ![c].replay = Tail(@), ![c].out = Put(h, Head(h.replay))]
        \/ /\ h.replay = <<>> /\ h.todo = {}
           /\ server' = [server EXCEPT ![c].acking = FALSE, ![c].out = Put(h, <<"ack", 0>>)]
     /\ UNCHANGED <<latest, page, shown, late>>

\* The read fails: the handler unsubscribes on its way out.
Notice(c) ==
  /\ server[c].handler = "on" /\ ~server[c].acking /\ server[c].net = "cut"
  /\ server' = [server EXCEPT ![c] = [Idle EXCEPT !.net = "cut", !.handler = "gone"]]
  /\ UNCHANGED <<latest, page, shown, late>>

--------------------------------------------------------------------------------
\* The page.

\* start(), or the timer of onclose.
Connect ==
  /\ page.sock \in {"off", "retry"} /\ page.conn \in 0..MaxDrops
  /\ page.sock = "off" => page.conn = 0
  /\ page' = [page EXCEPT !.sock = "connecting", !.conn = @ + 1]
  /\ UNCHANGED <<latest, server, shown, late>>

\* onopen: whoever has seen an event asks for those after it.
Open ==
  /\ page.sock = "connecting"
  /\ page' = [page EXCEPT !.sock = "open"]
  /\ server' = [server EXCEPT ![page.conn].net = "up", ![page.conn].handler = "hello",
       ![page.conn].wants = IF page.lastSeq # 0 THEN <<page.lastSeq>> ELSE <<>>]
  /\ UNCHANGED <<latest, shown, late>>

\* onmessage: lastSeq is the number of the last event that arrived.
Receive ==
  LET c == page.conn
      e == Head(server[c].out)
  IN /\ page.sock = "open" /\ server[c].out # <<>>
     /\ IF e[1] = "ack"
        THEN /\ server' = [server EXCEPT ![c].out = Tail(@), ![c].acked = TRUE]
             /\ UNCHANGED <<page, shown>>
        ELSE /\ server' = [server EXCEPT ![c].out = Tail(@), ![c].got = @ \cup {e}]
             /\ page' = [page EXCEPT !.lastSeq = e[2]]
             /\ shown' = shown \cup {e}
     /\ UNCHANGED <<latest, late>>

Cut(c) == [server EXCEPT ![c].net = "cut", ![c].out = <<>>]

\* The connection breaks; onclose plans the next one.
Drop ==
  /\ page.sock \in {"connecting", "open"} /\ page.conn <= MaxDrops
  /\ page' = [page EXCEPT !.sock = "retry"]
  /\ server' = Cut(page.conn)
  /\ UNCHANGED <<latest, shown, late>>

\* stop(), when the page is left. The socket's onclose is still to come.
Stop ==
  /\ ~page.stopped /\ page.sock \in {"connecting", "open"}
  /\ page' = [page EXCEPT !.sock = "closing", !.stopped = TRUE]
  /\ server' = Cut(page.conn)
  /\ UNCHANGED <<latest, shown, late>>

\* onclose of a socket that stop() has closed: it reconnects like any other.
Closed ==
  /\ page.sock = "closing"
  /\ page' = [page EXCEPT !.sock = "retry"]
  /\ UNCHANGED <<latest, server, shown, late>>

Next ==
  \/ Connect \/ Open \/ Receive \/ Drop \/ Stop \/ Closed
  \/ \E b \in Bots : Publish(b)
  \/ \E c \in Conns : Deliver(c) \/ Late(c) \/ Subscribe(c) \/ Filter(c) \/ Replay(c) \/ Notice(c)
                       \/ \E b \in Bots : ReadTail(c, b)

Spec == Init /\ [][Next]_vars

--------------------------------------------------------------------------------
\* The type invariant: sequence numbers stay in range, and only a handler that
\* is at its loop is subscribed.
TypeOK ==
  /\ latest \in [Bots -> 0..MaxEvents] /\ page.lastSeq \in 0..MaxEvents
  /\ \A c \in Conns : server[c].subscribed <=> server[c].handler = "on"

InFlight(h) == Range(h.due) \cup Range(h.replay) \cup Range(h.out)

\* A connection that lasts misses nothing between what its page asked for and the
\* present: the handler subscribes before it reads the tail, so an event is in the
\* tail, or delivered live, or was given up for its deadline.
NoGap ==
  \A c \in Conns : server[c].subscribed /\ server[c].net = "up" =>
    \A b \in Bots : \A s \in server[c].base[b] + 1..latest[b] :
      <<b, s>> \in server[c].got \cup InFlight(server[c]) \cup late

\* After a reconnection the page has shown every event that is newer than the
\* first it showed and that the buffer still holds, once all is delivered
\* (WUI-C10: new events since the last one are sent again).
SelfHeals ==
  page.sock = "open" /\ server[page.conn].acked /\ InFlight(server[page.conn]) = {} =>
    \A b \in Bots : \A e \in shown : e[1] = b =>
      \A s \in e[2]..latest[b] : s + Capacity > latest[b] => <<b, s>> \in shown

\* A page that was left opens no connection any more (ObsEventsPane.vue: the feed
\* stops by itself when the page is unmounted).
StopIsFinal == page.stopped => page.sock \notin {"connecting", "open"}
================================================================================
