------------------------------ MODULE WebStore ------------------------------
(* The key-value pages of the Web UI (webui/routers/kv.py): the listing of a      *)
(* file by pages, while others insert and delete, and the conditional write.      *)
(* A key is its place in the order. A step is one call of the store.              *)
EXTENDS Naturals, Sequences, FiniteSets, Functions

CONSTANTS
  Keys,        \* a set of numbers
  Limit,       \* rows of a page
  Editors,     \* requests that write key EditKey under If-Match
  EditKey,
  MaxChanges   \* bound: inserts and deletes by the bot itself

VARIABLES
  value,     \* the store: each key's version, 0 when it is absent
  changes,
  cursor,    \* the last key of the page before, or Done
  slice,     \* the keys of the page being read
  left,      \* those of them not yet read
  rows,      \* rows of that page
  got,       \* history: rows of all pages so far
  steady,    \* history: keys that were there at every moment of the listing
  editor     \* each conditional write: its ETag, its place

vars == <<value, changes, cursor, slice, left, rows, got, steady, editor>>

Done == 1 + CHOOSE m \in Keys : \A k \in Keys : k <= m   \* no page left: past every key

Present == {k \in Keys : value[k] # 0}

Init ==
  /\ value \in [Keys -> {0, 1}]
  /\ changes = 0 /\ cursor = 0 /\ slice = {} /\ left = {} /\ rows = <<>> /\ got = <<>> /\ steady = Present
  /\ editor = [e \in Editors |-> [pc |-> "idle", etag |-> 0]]

--------------------------------------------------------------------------------
\* list_keys: the keys after the cursor, in order, as many as a page holds.
Page(from) ==
  {k \in Present : k > from /\ Cardinality({j \in Present : from < j /\ j <= k}) <= Limit}

List ==
  /\ cursor # Done /\ slice = {}
  /\ slice' = Page(cursor) /\ left' = Page(cursor) /\ rows' = <<>>
  /\ cursor' = IF Page(cursor) = {} THEN Done ELSE cursor
  /\ UNCHANGED <<value, changes, got, steady, editor>>

\* next_cursor: the last key of a full page, whether or not its row was still there.
NextCursor(last) == IF Cardinality(slice) = Limit THEN last ELSE Done

\* The values are read one by one; a key that has gone leaves no row. The client
\* asks for the next page with the cursor it is given.
ReadRow(k) ==
  LET r == IF value[k] # 0 THEN Append(rows, k) ELSE rows
  IN /\ k \in left /\ \A j \in left : k <= j
     /\ IF left # {k}
        THEN rows' = r /\ left' = left \ {k} /\ UNCHANGED <<slice, cursor, got>>
        ELSE /\ rows' = <<>> /\ left' = {} /\ slice' = {}
             /\ got' = got \o r /\ cursor' = NextCursor(k)
     /\ UNCHANGED <<value, changes, steady, editor>>

--------------------------------------------------------------------------------
\* Meanwhile the bot inserts, overwrites and deletes.
Change(k, v) ==
  /\ changes < MaxChanges /\ changes' = changes + 1
  /\ value' = [value EXCEPT ![k] = v]
  /\ steady' = IF v = 0 THEN steady \ {k} ELSE steady
  /\ UNCHANGED <<cursor, slice, left, rows, got, editor>>

\* read_key: an editor takes the value's ETag.
Read(e) ==
  /\ editor[e].pc = "idle" /\ value[EditKey] # 0
  /\ editor' = [editor EXCEPT ![e] = [pc |-> "editing", etag |-> value[EditKey]]]
  /\ UNCHANGED <<value, changes, cursor, slice, left, rows, got, steady>>

\* write_key, first half: the ETag is compared with what the store holds now.
Compare(e) ==
  /\ editor[e].pc = "editing"
  /\ editor' = [editor EXCEPT ![e].pc = IF value[EditKey] = editor[e].etag THEN "matched" ELSE "refused"]
  /\ UNCHANGED <<value, changes, cursor, slice, left, rows, got, steady>>

\* Second half: the value is written, whatever has happened since.
Store(e) ==
  /\ editor[e].pc = "matched"
  /\ value' = [value EXCEPT ![EditKey] = @ + 1]
  /\ editor' = [editor EXCEPT ![e].pc = "written"]
  /\ UNCHANGED <<changes, cursor, slice, left, rows, got, steady>>

Next ==
  \/ List \/ \E k \in Keys : ReadRow(k)
  \/ \E k \in Keys, v \in {0, 1} : Change(k, v)
  \/ \E e \in Editors : Read(e) \/ Compare(e) \/ Store(e)

Spec == Init /\ [][Next]_vars

--------------------------------------------------------------------------------
\* The type invariant: a page is at most Limit rows, of keys after its cursor.
TypeOK ==
  /\ Cardinality(slice) <= Limit /\ left \subseteq slice /\ (left = {} <=> slice = {})
  /\ cursor # Done => \A k \in slice : k > cursor

\* The pages together show every key that was there all the time, and none
\* twice, however the file changes between two pages and within one.
PagesCover ==
  /\ IsInjective(got)
  /\ cursor = Done => steady \subseteq Range(got)

\* Of two editors who started from the same value one is refused (write_key:
\* "optimistic concurrency").
NoLostUpdate ==
  \A e, f \in Editors : e # f /\ editor[e].pc = "written" /\ editor[f].pc = "written" =>
    editor[e].etag # editor[f].etag
================================================================================
