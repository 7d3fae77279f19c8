------------------------------ MODULE WebAudit ------------------------------
(* The audit store of the Web UI (audit_reader.py) and the feed of rule hits     *)
(* that reads along (ws/rules.py). A row is a record; rows are numbered in the    *)
(* order they are appended. append() and the callback it runs have no await.      *)
EXTENDS Naturals, Sequences, FiniteSets

CONSTANTS
  Capacity,   \* rows the store in memory keeps
  QueueSize,  \* rows the feed queues
  Pages,      \* limits a search may ask for
  MaxRows     \* bound: rows appended

VARIABLES
  rows,      \* every row ever appended, newest last
  queue,     \* the feed's queue
  sending,   \* the row the feed is writing to its socket, or none
  sent,      \* history: what the feed has written
  open       \* the feed is subscribed

vars == <<rows, queue, sending, sent, open>>

\* A rule hit of a visible bot, another row; and whether a search's text occurs in it.
Row == [id : 1..MaxRows, hit : BOOLEAN, text : BOOLEAN]

Init == rows = <<>> /\ queue = <<>> /\ sending = <<>> /\ sent = <<>> /\ open = TRUE

\* A full queue loses its oldest row.
Enqueued(row) == Append(IF Len(queue) < QueueSize THEN queue ELSE Tail(queue), row)

\* append(): the row is kept, then shown to the subscribers.
Write(row) ==
  /\ row.id = Len(rows) + 1
  /\ rows' = Append(rows, row)
  /\ queue' = IF open /\ row.hit THEN Enqueued(row) ELSE queue
  /\ UNCHANGED <<sending, sent, open>>

\* The feed takes a row, and its send ends.
Take ==
  /\ open /\ sending = <<>> /\ queue # <<>>
  /\ sending' = <<Head(queue)>> /\ queue' = Tail(queue)
  /\ UNCHANGED <<rows, sent, open>>

Written ==
  /\ open /\ sending # <<>> /\ sent' = sent \o sending /\ sending' = <<>>
  /\ UNCHANGED <<rows, queue, open>>

\* The socket is gone. The feed never reads, so it learns this from a send only.
Gone ==
  /\ open /\ sending # <<>> /\ open' = FALSE /\ sending' = <<>>
  /\ UNCHANGED <<rows, queue, sent>>

Next == (\E row \in Row : Write(row)) \/ Take \/ Written \/ Gone

Spec == Init /\ [][Next]_vars

--------------------------------------------------------------------------------
\* search(): the newest rows that match, newest first, in memory and in SQLite.

NewestFirst(s) == [i \in 1..Len(s) |-> s[Len(s) + 1 - i]]
Matching(s, text) == SelectSeq(NewestFirst(s), LAMBDA r : text => r.text)
Cut(s, n) == SubSeq(s, 1, IF Len(s) < n THEN Len(s) ELSE n)

\* Memory: what the bounded list still holds is walked from its end.
SearchMemory(text, limit) ==
  Cut(Matching(SubSeq(rows, IF Len(rows) > Capacity THEN Len(rows) - Capacity + 1 ELSE 1, Len(rows)),
               text), limit)

\* SQLite: the newest rows are fetched, five times as many for a text, then filtered.
SearchSqlite(text, limit) ==
  Cut(SelectSeq(Cut(NewestFirst(rows), IF text THEN limit * 5 ELSE limit), LAMBDA r : text => r.text),
      limit)

--------------------------------------------------------------------------------
\* The type invariant: the queue is bounded, and rows keep their numbers.
TypeOK ==
  /\ Len(queue) <= QueueSize /\ Len(sending) <= 1
  /\ \A k \in DOMAIN rows : rows[k] \in Row /\ rows[k].id = k

\* The feed favours what is new: what it has written, writes and queues is in the
\* order of the hits, and ends with the latest one (ws/rules.py: "favour recency
\* over completeness").
HitsAreRecent ==
  LET feed == sent \o sending \o queue
      latest(k) == rows[k].hit /\ \A j \in DOMAIN rows : rows[j].hit => j <= k
  IN open => /\ \A i, j \in DOMAIN feed : i < j => feed[i].id < feed[j].id
             /\ \A k \in DOMAIN rows : latest(k) => feed # <<>> /\ feed[Len(feed)] = rows[k]

\* Both stores answer a search alike while nothing was trimmed (SqliteAuditReader:
\* "Drop-in replacement").
SameAnswers ==
  Len(rows) <= Capacity =>
    \A text \in BOOLEAN, limit \in Pages : SearchMemory(text, limit) = SearchSqlite(text, limit)
================================================================================
