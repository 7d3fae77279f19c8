-------------------------- MODULE ConversationProofs --------------------------
(***************************************************************************)
(* Proofs about a conversation, for every window, number of kept turns,    *)
(* ledger length, and any number of turns, commands, faults and losses.    *)
(*                                                                         *)
(* The argument for Remembered: seen from their ends, the deque and the    *)
(* row agree with the messages owed as far as they go, and what is owed    *)
(* beyond that is in the summary (Held).                                   *)
(***************************************************************************)
EXTENDS Conversation, SequenceTheorems, TLAPS

-----------------------------------------------------------------------------
(* The newest elements of a sequence.                                      *)

\* Newest(s, n) has as many elements as there are, at most n, counted from the
\* end.
LEMMA NewestElements ==
  ASSUME NEW S, NEW s \in Seq(S), NEW n \in Nat
  PROVE  /\ Newest(s, n) \in Seq(S)
         /\ Len(Newest(s, n)) = IF Len(s) <= n THEN Len(s) ELSE n
         /\ \A i \in 1..Len(Newest(s, n)) :
              Newest(s, n)[i] = s[Len(s) - Len(Newest(s, n)) + i]
<1>1. CASE Len(s) <= n
  BY <1>1 DEF Newest
<1>2. CASE ~(Len(s) <= n)
  <2> DEFINE m == Len(s) - n + 1
  <2>1. Newest(s, n) = SubSeq(s, m, Len(s)) /\ m \in Int /\ Len(s) \in Nat /\ m >= 1
    BY <1>2 DEF Newest
  <2>2. \A i \in m..Len(s) : s[i] \in S
    BY <2>1
  <2> HIDE DEF m
  <2>3. /\ SubSeq(s, m, Len(s)) \in Seq(S)
        /\ Len(SubSeq(s, m, Len(s))) = IF m <= Len(s) THEN Len(s) - m + 1 ELSE 0
        /\ \A i \in 1..(Len(s) - m + 1) : SubSeq(s, m, Len(s))[i] = s[m + i - 1]
    BY <2>1, <2>2, SubSeqProperties
  <2>4. Len(Newest(s, n)) = n
    BY <2>1, <2>3, <1>2 DEF m
  <2>5. \A i \in 1..n : Newest(s, n)[i] = s[Len(s) - n + i]
    <3> TAKE i \in 1..n
    <3>1. i \in 1..(Len(s) - m + 1) /\ m + i - 1 = Len(s) - n + i
      BY <2>1 DEF m
    <3> QED
      BY <3>1, <2>1, <2>3
  <2> QED
    BY <2>1, <2>3, <2>4, <2>5, <1>2
<1> QED
  BY <1>1, <1>2

\* It has no elements of its own.
LEMMA NewestRange ==
  ASSUME NEW S, NEW s \in Seq(S), NEW n \in Nat
  PROVE  Range(Newest(s, n)) \subseteq Range(s)
<1> SUFFICES ASSUME NEW x \in Range(Newest(s, n)) PROVE x \in Range(s)
  OBVIOUS
<1>1. PICK i \in 1..Len(Newest(s, n)) : x = Newest(s, n)[i]
  BY NewestElements DEF Range
<1>2. /\ Len(Newest(s, n)) \in Nat /\ Len(s) \in Nat
      /\ Len(Newest(s, n)) <= Len(s)
      /\ Newest(s, n)[i] = s[Len(s) - Len(Newest(s, n)) + i]
  BY NewestElements
<1>3. Len(s) - Len(Newest(s, n)) + i \in 1..Len(s)
  BY <1>2
<1> QED
  BY <1>1, <1>2, <1>3 DEF Range

\* As a sequence of numbers within its bound.
LEMMA NewestType ==
  ASSUME NEW s \in Seq(Nat), NEW n \in Nat
  PROVE  Newest(s, n) \in Seq(Nat) /\ Len(Newest(s, n)) <= n
<1>1. Len(s) \in Nat
  OBVIOUS
<1> QED
  BY <1>1, NewestElements

-----------------------------------------------------------------------------
(* Type correctness.                                                       *)

\* What a deque holds after a load.
LEMMA FilledType ==
  ASSUME NEW s \in Seq(Nat), NEW r \in Seq(Nat), NEW n \in Nat, Len(s) <= n
  PROVE  Filled(s, r, n) \in Seq(Nat) /\ Len(Filled(s, r, n)) <= n
BY NewestType DEF Filled

LEMMA Constants ==
  /\ Window \in Nat /\ Window >= 1 /\ Keep \in Nat /\ 2 * Keep \in Nat
  /\ LedgerMaxlen \in Nat /\ LedgerMaxlen >= 1
BY LimitsAssumption

LEMMA FailsType == ASSUME faults \subseteq Kinds, losses \in Nat, NEW k \in Kinds, Fails(k)
                   PROVE  faults' \subseteq Kinds /\ losses' \in Nat
BY DEF Fails

\* The two messages a turn adds.
LEMMA TurnMessages ==
  ASSUME turn \in Nat, turn >= 1
  PROVE  <<2 * turn - 1, 2 * turn>> \in Seq(Nat)
OBVIOUS

LEMMA TypeInit == Init => TypeOK
<1> SUFFICES ASSUME Init PROVE TypeOK
  OBVIOUS
<1>1. pc \in Places /\ pc \notin TurnPlaces
  BY DEF Init, Places, TurnPlaces
<1>2. <<>> \in Seq(Nat) /\ Len(<<>>) = 0 /\ <<>> \in Seq(Seq(Nat))
  OBVIOUS
<1>3. forgotten \in [turn : Nat, command : Nat] /\ faults \subseteq Kinds
  BY DEF Init
<1>4. /\ history \in Seq(Nat) /\ row \in Seq(Nat) /\ kept \in Seq(Nat)
      /\ Len(history) <= Window /\ summary \subseteq Nat
      /\ events \in Seq(Nat) /\ Len(events) <= LedgerMaxlen
      /\ ledger \in Seq(Nat) /\ saves \in Seq(Seq(Nat))
  BY <1>2, Constants DEF Init
<1> QED
  BY <1>1, <1>3, <1>4 DEF Init, TypeOK

\* The chat turn up to the agent's call.
LEMMA TypeTurn ==
  ASSUME TypeOK,
         BeginTurn \/ Start \/ RestoreHistory \/ RestoreLedger \/ Replay
           \/ Compact \/ Say \/ Abort \/ EndUnrecorded
  PROVE  TypeOK'
<1> USE Constants
<1>1. CASE BeginTurn
  <2>1. turn' \in Nat /\ turn' >= 1 /\ pc' \in Places
    BY <1>1 DEF BeginTurn, TypeOK, Places, TurnPlaces
  <2> QED
    BY <1>1, <2>1 DEF BeginTurn, TypeOK, chat, acts, ghosts, env
<1>2. CASE Start
  BY <1>2 DEF Start, TypeOK, Places, TurnPlaces, chat, acts, told, ghosts, env
<1>3. CASE RestoreHistory
  <2>1. history' \in Seq(Nat) /\ Len(history') <= Window
    BY <1>3, FilledType DEF RestoreHistory, TypeOK
  <2>2. faults' \subseteq Kinds /\ losses' \in Nat
    BY <1>3, FailsType DEF RestoreHistory, TypeOK, Kinds, env
  <2> QED
    BY <1>3, <2>1, <2>2 DEF RestoreHistory, TypeOK, lock, acts, told, ghosts
<1>4. CASE RestoreLedger
  <2>1. events' \in Seq(Nat) /\ Len(events') <= LedgerMaxlen
    <3>1. \A n \in 0..Len(ledger) : Newest(ledger, n) \in Seq(Nat)
      BY NewestType DEF TypeOK
    <3>2. CASE \E n \in 0..Len(ledger) :
                 events' = Filled(events, Newest(ledger, n), LedgerMaxlen)
      BY <3>1, <3>2, FilledType DEF TypeOK
    <3>3. CASE UNCHANGED events
      BY <3>3 DEF TypeOK
    <3> QED
      BY <1>4, <3>2, <3>3 DEF RestoreLedger
  <2>2. faults' \subseteq Kinds /\ losses' \in Nat
    BY <1>4, FailsType DEF RestoreLedger, TypeOK, Kinds, env
  <2> QED
    BY <1>4, <2>1, <2>2 DEF RestoreLedger, TypeOK, lock, chat, told, ghosts
<1>5. CASE Replay
  BY <1>5 DEF Replay, Restored, TypeOK, Places, TurnPlaces, acts, told, ghosts, env
<1>6. CASE Compact
  <2>1. Older \subseteq Nat
    BY DEF Older, TypeOK
  <2>2. summary' \subseteq Nat /\ fold' \in BOOLEAN
    BY <1>6, <2>1 DEF Compact, TypeOK
  <2>3. faults' \subseteq Kinds /\ losses' \in Nat
    BY <1>6, FailsType DEF Compact, TypeOK, Kinds, env
  <2> QED
    BY <1>6, <2>2, <2>3 DEF Compact, Restored, TypeOK, Places, TurnPlaces, acts,
         told, ghosts
<1>7. CASE Say
  BY <1>7 DEF Say, TypeOK, lock, chat, acts, ghosts, env
<1>8. CASE Abort
  BY <1>8 DEF Abort, TypeOK, Places, TurnPlaces, chat, acts, ghosts, env
<1>9. CASE EndUnrecorded
  BY <1>9 DEF EndUnrecorded, TypeOK, Places, TurnPlaces, chat, acts, ghosts, env
<1> QED
  BY <1>1, <1>2, <1>3, <1>4, <1>5, <1>6, <1>7, <1>8, <1>9

\* What compaction keeps, and the history a turn leaves.
LEMMA RecentType ==
  ASSUME TypeOK
  PROVE  /\ Recent \in Seq(Nat)
         /\ (IF fold THEN Recent ELSE history) \in Seq(Nat)
BY NewestType, Constants DEF Recent, TypeOK

\* Recording a turn.
LEMMA TypeRecord ==
  ASSUME TypeOK, Complete \/ Save
  PROVE  TypeOK'
<1> USE Constants
<1>1. CASE Complete
  <2> DEFINE base == IF fold THEN Recent ELSE history
             new == <<2 * turn - 1, 2 * turn>>
  <2>1. turn >= 1 /\ turn \in Nat
    BY <1>1 DEF Complete, TypeOK, TurnPlaces
  <2>2. base \in Seq(Nat) /\ new \in Seq(Nat)
    BY <2>1, RecentType, TurnMessages
  <2>3. base \o new \in Seq(Nat)
    BY <2>2
  <2>4. history' = Newest(base \o new, Window)
    BY <1>1 DEF Complete
  <2>5. history' \in Seq(Nat) /\ Len(history') <= Window
    BY <2>3, <2>4, NewestType
  <2> QED
    BY <1>1, <2>5 DEF Complete, TypeOK, Places, TurnPlaces, acts, ghosts, env
<1>2. CASE Save
  <2>1. turn >= 1 /\ turn \in Nat
    BY <1>2 DEF Save, TypeOK, TurnPlaces
  <2>2. row' \in Seq(Nat) /\ kept' \in Seq(Nat)
    <3> DEFINE new == <<2 * turn - 1, 2 * turn>>
    <3>1. new \in Seq(Nat)
      BY <2>1, TurnMessages
    <3>2. \/ row' = history /\ kept' = kept \o new
          \/ UNCHANGED <<row, kept>>
      BY <1>2 DEF Save
    <3> HIDE DEF new
    <3>3. kept \o new \in Seq(Nat) /\ kept \in Seq(Nat) /\ row \in Seq(Nat)
            /\ history \in Seq(Nat)
      BY <3>1 DEF TypeOK
    <3> QED
      BY <3>2, <3>3
  <2>3. faults' \subseteq Kinds /\ losses' \in Nat
    BY <1>2, FailsType DEF Save, TypeOK, Kinds, env
  <2> QED
    BY <1>2, <2>2, <2>3 DEF Save, TypeOK, Places, TurnPlaces, acts, told
<1> QED
  BY <1>1, <1>2

\* Commands and the saves they leave behind.
LEMMA TypeCommand ==
  ASSUME TypeOK, BeginCommand \/ EndCommand \/ SaveLedger
  PROVE  TypeOK'
<1> USE Constants
<1>1. CASE BeginCommand
  BY <1>1 DEF BeginCommand, TypeOK, Places, TurnPlaces, chat, acts, told, ghosts, env
<1>2. CASE EndCommand
  <2>1. /\ command' \in Nat /\ events' \in Seq(Nat) /\ Len(events') <= LedgerMaxlen
        /\ saves' \in Seq(Seq(Nat))
    <3>1. CASE command' = command + 1 /\ AppendEvent
      <4>1. Append(events, command + 1) \in Seq(Nat)
        BY DEF TypeOK
      <4>2. events' \in Seq(Nat) /\ Len(events') <= LedgerMaxlen
        BY <3>1, <4>1, NewestType DEF AppendEvent
      <4> QED
        BY <3>1, <4>2 DEF AppendEvent, TypeOK
    <3>2. CASE UNCHANGED <<command, events, saves>>
      BY <3>2 DEF TypeOK
    <3> QED
      BY <1>2, <3>1, <3>2 DEF EndCommand
  <2> QED
    BY <1>2, <2>1 DEF EndCommand, TypeOK, Places, TurnPlaces, chat, told, ghosts, env
<1>3. CASE SaveLedger
  <2>1. saves' \in Seq(Seq(Nat)) /\ ledger' \in Seq(Nat)
    <3>1. Head(saves) \in Seq(Nat) /\ Tail(saves) \in Seq(Seq(Nat))
      BY <1>3, HeadTailProperties DEF SaveLedger, TypeOK
    <3> QED
      BY <1>3, <3>1 DEF SaveLedger, TypeOK
  <2>2. faults' \subseteq Kinds /\ losses' \in Nat
    BY <1>3, FailsType DEF SaveLedger, TypeOK, Kinds, env
  <2> QED
    BY <1>3, <2>1, <2>2 DEF SaveLedger, TypeOK, lock, chat, told, ghosts
<1> QED
  BY <1>1, <1>2, <1>3

\* /cancel and /reset.
LEMMA TypeReset ==
  ASSUME TypeOK,
         Cancel \/ BeginReset \/ ClearMessages \/ ClearSummary \/ ClearLedger
  PROVE  TypeOK'
<1> USE Constants
<1>0. <<>> \in Seq(Nat) /\ Len(<<>>) = 0
  OBVIOUS
<1>1. CASE Cancel
  BY <1>1 DEF Cancel, TypeOK, lock, chat, acts, ghosts, env
<1>2. CASE BeginReset
  <2>1. pc' \in Places \ TurnPlaces
    BY <1>2 DEF BeginReset, Places, TurnPlaces, Clearing
  <2>2. /\ history' \in Seq(Nat) /\ Len(history') <= Window
        /\ events' \in Seq(Nat) /\ Len(events') <= LedgerMaxlen
        /\ kept' \in Seq(Nat)
    <3>1. history' = <<>> /\ events' = <<>> /\ kept' = <<>>
      BY <1>2 DEF BeginReset
    <3> QED
      BY <1>0, <3>1, Constants
  <2> QED
    BY <1>2, <2>1, <2>2 DEF BeginReset, TypeOK, told, env
<1>3. CASE ClearMessages
  <2>1. row' \in Seq(Nat) /\ pc' \in Clearing
    BY <1>0, <1>3 DEF ClearMessages, TypeOK, Clearing
  <2>2. faults' \subseteq Kinds /\ losses' \in Nat
    BY <1>3, FailsType DEF ClearMessages, TypeOK, Kinds, env
  <2> QED
    BY <1>3, <2>1, <2>2 DEF ClearMessages, TypeOK, Places, TurnPlaces, Clearing,
         acts, told, ghosts
<1>4. CASE ClearSummary
  <2>1. summary' \subseteq Nat /\ forgotten' \in [turn : Nat, command : Nat]
    BY <1>4 DEF ClearSummary, TypeOK
  <2>2. faults' \subseteq Kinds /\ losses' \in Nat
    BY <1>4, FailsType DEF ClearSummary, TypeOK, Kinds, env
  <2> QED
    BY <1>4, <2>1, <2>2 DEF ClearSummary, TypeOK, Places, TurnPlaces, Clearing,
         acts, told
<1>5. CASE ClearLedger
  <2>1. /\ ledger' \in Seq(Nat) /\ saves' \in Seq(Seq(Nat))
        /\ forgotten' \in [turn : Nat, command : Nat]
    <3>1. Append(saves, <<>>) \in Seq(Seq(Nat))
      BY <1>0 DEF TypeOK
    <3>2. CASE ledger' = <<>> /\ forgotten' = [forgotten EXCEPT !.command = command]
                 /\ UNCHANGED saves
      BY <1>0, <3>2 DEF TypeOK
    <3>3. CASE saves' \in {saves, Append(saves, <<>>)} /\ UNCHANGED <<ledger, forgotten>>
      BY <3>1, <3>3 DEF TypeOK
    <3> QED
      BY <1>5, <3>2, <3>3 DEF ClearLedger, LedgerCleared
  <2>2. faults' \subseteq Kinds /\ losses' \in Nat
    BY <1>5, FailsType DEF ClearLedger, LedgerCleared, TypeOK, Kinds, env
  <2> QED
    BY <1>5, <2>1, <2>2 DEF ClearLedger, TypeOK, Places, TurnPlaces, Clearing, told
<1> QED
  BY <1>1, <1>2, <1>3, <1>4, <1>5

\* The end of a session.
LEMMA TypeLoss ==
  ASSUME TypeOK, Evict \/ Restart
  PROVE  TypeOK'
<1>0. <<>> \in Seq(Nat) /\ Len(<<>>) = 0 /\ <<>> \in Seq(Seq(Nat))
  OBVIOUS
<1>1. CASE Evict
  <2>1. /\ history' \in Seq(Nat) /\ Len(history') <= Window
        /\ events' \in Seq(Nat) /\ Len(events') <= LedgerMaxlen
    BY <1>0, <1>1, Constants DEF Evict, FreshSession
  <2>2. hydrated' \in BOOLEAN /\ eventsHydrated' \in BOOLEAN /\ cancel' \in BOOLEAN
    BY <1>1 DEF Evict, FreshSession
  <2>3. losses' \in Nat
    BY <1>1 DEF Evict, FreshSession, TypeOK
  <2> QED
    BY <1>1, <2>1, <2>2, <2>3 DEF Evict, FreshSession, TypeOK, told, ghosts
<1>2. CASE Restart
  <2>1. /\ history' \in Seq(Nat) /\ Len(history') <= Window
        /\ events' \in Seq(Nat) /\ Len(events') <= LedgerMaxlen
        /\ saves' \in Seq(Seq(Nat))
    BY <1>0, <1>2, Constants DEF Restart, FreshSession
  <2>2. pc' \in Places \ TurnPlaces
    BY <1>2 DEF Restart, Places, TurnPlaces
  <2>3. hydrated' \in BOOLEAN /\ eventsHydrated' \in BOOLEAN /\ cancel' \in BOOLEAN
        /\ asked' \in BOOLEAN /\ sent' \in BOOLEAN
    BY <1>2 DEF Restart, FreshSession
  <2>4. losses' \in Nat /\ last' \in {"none", "recorded", "cancelled", "unrecorded"}
    BY <1>2 DEF Restart, FreshSession, TypeOK
  <2> QED
    BY <1>2, <2>1, <2>2, <2>3, <2>4 DEF Restart, FreshSession, TypeOK, ghosts
<1> QED
  BY <1>1, <1>2

LEMMA TypeStep == TypeOK /\ [Next]_vars => TypeOK'
<1> SUFFICES ASSUME TypeOK, [Next]_vars PROVE TypeOK'
  OBVIOUS
<1>1. CASE UNCHANGED vars
  BY <1>1 DEF vars, lock, chat, acts, told, ghosts, env, TypeOK
<1>2. CASE Next
  BY <1>2, TypeTurn, TypeRecord, TypeCommand, TypeReset, TypeLoss
    DEF Next, Turn, Command, Reset
<1> QED
  BY <1>1, <1>2

\* The state stays well typed and both deques within their maxlen.
THEOREM TypeCorrect == Spec => []TypeOK
BY TypeInit, TypeStep, PTL DEF Spec

-----------------------------------------------------------------------------
(* /cancel.                                                                *)

\* While the agent may be aborted, a cancel flag that is up has been asked for.
FlagIsFresh == (pc \in {"restoring", "thinking"} /\ cancel) => asked

CancelInv == FlagIsFresh /\ AbortWasAsked

LEMMA CancelInit == Init => CancelInv
BY DEF Init, CancelInv, FlagIsFresh, AbortWasAsked

LEMMA CancelStep == CancelInv /\ [Next]_vars => CancelInv'
<1> SUFFICES ASSUME CancelInv, [Next]_vars PROVE CancelInv'
  OBVIOUS
<1> USE DEF CancelInv, FlagIsFresh, AbortWasAsked
<1>1. CASE BeginTurn
  BY <1>1 DEF BeginTurn
<1>2. CASE Start
  BY <1>2 DEF Start, told
<1>3. CASE RestoreHistory \/ RestoreLedger \/ SaveLedger
  BY <1>3 DEF RestoreHistory, RestoreLedger, SaveLedger, lock, told
<1>4. CASE Replay \/ Compact
  BY <1>4 DEF Replay, Compact, Restored, told
<1>5. CASE Say
  BY <1>5 DEF Say, lock
<1>6. CASE Abort
  BY <1>6 DEF Abort
<1>7. CASE EndUnrecorded \/ Complete
  BY <1>7 DEF EndUnrecorded, Complete
<1>8. CASE Save \/ BeginCommand \/ EndCommand
  BY <1>8 DEF Save, BeginCommand, EndCommand, told
<1>9. CASE Cancel
  BY <1>9 DEF Cancel, lock, TurnPlaces
<1>10. CASE BeginReset \/ ClearMessages \/ ClearSummary \/ ClearLedger
  BY <1>10 DEF BeginReset, ClearMessages, ClearSummary, ClearLedger, told
<1>11. CASE Evict \/ Restart
  BY <1>11 DEF Evict, Restart, FreshSession, told
<1>12. CASE UNCHANGED vars
  BY <1>12 DEF vars, lock, told
<1> QED
  BY <1>1, <1>2, <1>3, <1>4, <1>5, <1>6, <1>7, <1>8, <1>9, <1>10, <1>11, <1>12
    DEF Next, Turn, Command, Reset

\* A turn is only aborted by a /cancel that came while it ran.
THEOREM AbortsWereAsked == Spec => []AbortWasAsked
<1>1. CancelInv => AbortWasAsked
  BY DEF CancelInv
<1> QED
  BY <1>1, CancelInit, CancelStep, PTL DEF Spec

-----------------------------------------------------------------------------
(* The ledger.                                                             *)

\* The events of s rise and were all appended by the c-th command.
Good(s, c) ==
  /\ \A i, j \in 1..Len(s) : i < j => s[i] < s[j]
  /\ \A i \in 1..Len(s) : s[i] <= c

LedgersInOrder ==
  /\ Good(events, command) /\ Good(ledger, command)
  /\ \A k \in 1..Len(saves) : Good(saves[k], command)

OrderInv == TypeOK /\ LedgersInOrder

LEMMA GoodEmpty == ASSUME NEW c PROVE Good(<<>>, c)
BY DEF Good

LEMMA GoodNewest ==
  ASSUME NEW s \in Seq(Nat), NEW c \in Nat, Good(s, c), NEW n \in Nat
  PROVE  Good(Newest(s, n), c)
<1> DEFINE t == Newest(s, n)
           d == Len(s) - Len(t)
<1>1. /\ Len(t) \in Nat /\ Len(s) \in Nat /\ Len(t) <= Len(s)
      /\ \A i \in 1..Len(t) : t[i] = s[d + i]
  BY NewestElements
<1>2. d \in Nat /\ \A i \in 1..Len(t) : d + i \in 1..Len(s)
  BY <1>1
<1>3. ASSUME NEW i \in 1..Len(t), NEW j \in 1..Len(t), i < j
      PROVE  t[i] < t[j]
  <2>1. d + i < d + j /\ d + i \in 1..Len(s) /\ d + j \in 1..Len(s)
    BY <1>1, <1>2, <1>3
  <2>2. t[i] = s[d + i] /\ t[j] = s[d + j]
    BY <1>1
  <2> HIDE DEF t, d
  <2> QED
    BY <2>1, <2>2 DEF Good
<1>4. ASSUME NEW i \in 1..Len(t) PROVE t[i] <= c
  <2>1. t[i] = s[d + i] /\ d + i \in 1..Len(s)
    BY <1>1, <1>2
  <2> HIDE DEF t, d
  <2> QED
    BY <2>1 DEF Good
<1> QED
  BY <1>3, <1>4 DEF Good

LEMMA GoodAppend ==
  ASSUME NEW s \in Seq(Nat), NEW c \in Nat, Good(s, c)
  PROVE  Good(Append(s, c + 1), c + 1)
<1>1. /\ Len(Append(s, c + 1)) = Len(s) + 1 /\ Len(s) \in Nat
      /\ \A i \in 1..Len(s) : Append(s, c + 1)[i] = s[i] /\ s[i] \in Nat
      /\ Append(s, c + 1)[Len(s) + 1] = c + 1
  OBVIOUS
<1>2. \A i \in 1..(Len(s) + 1) : i \in 1..Len(s) \/ i = Len(s) + 1
  BY <1>1
<1> QED
  BY <1>1, <1>2 DEF Good

LEMMA GoodLater ==
  ASSUME NEW s \in Seq(Nat), NEW c \in Nat, Good(s, c)
  PROVE  Good(s, c + 1)
<1>1. \A i \in 1..Len(s) : s[i] \in Nat
  OBVIOUS
<1> QED
  BY <1>1 DEF Good

LEMMA OrderInit == Init => LedgersInOrder
BY GoodEmpty DEF Init, LedgersInOrder

\* A step that leaves the ledger alone.
LEMMA OrderFrame ==
  ASSUME LedgersInOrder, UNCHANGED <<command, events, ledger, saves>>
  PROVE  LedgersInOrder'
BY DEF LedgersInOrder

LEMMA OrderStep == OrderInv /\ [Next]_vars => LedgersInOrder'
<1> SUFFICES ASSUME OrderInv, [Next]_vars PROVE LedgersInOrder'
  OBVIOUS
<1> USE DEF OrderInv
<1>0. /\ events \in Seq(Nat) /\ ledger \in Seq(Nat) /\ saves \in Seq(Seq(Nat))
      /\ command \in Nat /\ LedgerMaxlen \in Nat
  BY Constants DEF TypeOK
<1>1. CASE RestoreLedger
  <2>1. ASSUME NEW n \in 0..Len(ledger)
        PROVE  Good(Filled(events, Newest(ledger, n), LedgerMaxlen), command)
    <3>1. Newest(ledger, n) \in Seq(Nat) /\ Good(Newest(ledger, n), command)
      BY <1>0, NewestType, GoodNewest DEF LedgersInOrder
    <3> QED
      BY <1>0, <3>1, GoodNewest DEF Filled, LedgersInOrder
  <2>2. Good(events', command)
    BY <1>1, <2>1 DEF RestoreLedger, LedgersInOrder
  <2> QED
    BY <1>1, <2>2 DEF RestoreLedger, LedgersInOrder, lock
<1>2. CASE EndCommand /\ command' = command + 1 /\ AppendEvent
  <2> DEFINE e == Append(events, command + 1)
  <2>1. e \in Seq(Nat) /\ Good(e, command + 1)
    BY <1>0, GoodAppend DEF LedgersInOrder
  <2>2. events' = Newest(e, LedgerMaxlen) /\ saves' = Append(saves, events')
    BY <1>2 DEF AppendEvent
  <2>3. events' \in Seq(Nat) /\ Good(events', command + 1)
    <3> HIDE DEF e
    <3> QED
      BY <1>0, <2>1, <2>2, GoodNewest, NewestType
  <2>4. Good(ledger, command + 1)
    BY <1>0, GoodLater DEF LedgersInOrder
  <2>5. ASSUME NEW k \in 1..Len(saves') PROVE Good(saves'[k], command + 1)
    <3>1. CASE k \in 1..Len(saves)
      <4>1. saves'[k] = saves[k] /\ saves[k] \in Seq(Nat)
        BY <1>0, <2>2, <3>1
      <4> QED
        BY <1>0, <3>1, <4>1, GoodLater DEF LedgersInOrder
    <3>2. CASE k \notin 1..Len(saves)
      <4>1. saves'[k] = events'
        BY <1>0, <2>2, <3>2
      <4> QED
        BY <2>3, <4>1
    <3> QED
      BY <3>1, <3>2
  <2>6. ledger' = ledger /\ command' = command + 1
    BY <1>2 DEF EndCommand
  <2> QED
    BY <2>3, <2>4, <2>5, <2>6 DEF LedgersInOrder
<1>3. CASE SaveLedger
  <2>1. saves' = Tail(saves) /\ Len(saves) \in Nat /\ Len(saves) >= 1
    BY <1>0, <1>3 DEF SaveLedger
  <2>2. Head(saves) = saves[1] /\ Good(saves[1], command)
    BY <1>0, <2>1 DEF LedgersInOrder
  <2>3. \A k \in 1..Len(saves') : saves'[k] = saves[k + 1] /\ k + 1 \in 1..Len(saves)
    BY <1>0, <2>1
  <2>4. Good(ledger', command)
    BY <1>3, <2>2 DEF SaveLedger, LedgersInOrder
  <2>5. events' = events /\ command' = command
    BY <1>3 DEF SaveLedger, lock
  <2> QED
    BY <2>3, <2>4, <2>5 DEF LedgersInOrder
<1>4. CASE BeginReset
  BY <1>4, GoodEmpty DEF BeginReset, LedgersInOrder
<1>5. CASE ClearLedger
  <2>1. command' = command /\ events' = events
    BY <1>5 DEF ClearLedger
  <2>2. CASE saves = <<>> /\ ledger' = <<>> /\ UNCHANGED saves
    BY <2>1, <2>2, GoodEmpty DEF LedgersInOrder
  <2>3. CASE saves' \in {saves, Append(saves, <<>>)} /\ UNCHANGED ledger
    <3>1. CASE saves' = saves
      BY <2>1, <2>3, <3>1 DEF LedgersInOrder
    <3>2. CASE saves' = Append(saves, <<>>)
      <4>1. \A k \in 1..Len(saves') :
              \/ k \in 1..Len(saves) /\ saves'[k] = saves[k]
              \/ saves'[k] = <<>>
        BY <1>0, <3>2
      <4> QED
        BY <2>1, <2>3, <4>1, GoodEmpty DEF LedgersInOrder
    <3> QED
      BY <2>3, <3>1, <3>2
  <2> QED
    BY <1>5, <2>2, <2>3 DEF ClearLedger, LedgerCleared
<1>6. CASE Evict
  BY <1>6, GoodEmpty DEF Evict, FreshSession, LedgersInOrder
<1>7. CASE Restart
  <2>1. events' = <<>> /\ saves' = <<>> /\ command' = command /\ ledger' = ledger
    BY <1>7 DEF Restart, FreshSession
  <2> QED
    BY <2>1, GoodEmpty DEF LedgersInOrder
<1>8. CASE \/ BeginTurn \/ Start \/ RestoreHistory \/ Replay \/ Compact \/ Say \/ Abort
           \/ EndUnrecorded \/ Complete \/ Save \/ BeginCommand \/ Cancel
           \/ ClearMessages \/ ClearSummary \/ UNCHANGED vars
           \/ (EndCommand /\ UNCHANGED <<command, events, saves>>)
  <2>1. UNCHANGED <<command, events, ledger, saves>>
    BY <1>8 DEF BeginTurn, Start, RestoreHistory, Replay, Compact, Say, Abort,
         EndUnrecorded, Complete, Save, BeginCommand, EndCommand, Cancel,
         ClearMessages, ClearSummary, vars, lock, acts
  <2> QED
    BY <2>1, OrderFrame
<1>9. EndCommand => \/ EndCommand /\ command' = command + 1 /\ AppendEvent
                    \/ EndCommand /\ UNCHANGED <<command, events, saves>>
  BY DEF EndCommand
<1> QED
  BY <1>1, <1>2, <1>3, <1>4, <1>5, <1>6, <1>7, <1>8, <1>9
    DEF Next, Turn, Command, Reset

\* Deque and row hold each event once, in order.
THEOREM LedgersAreOrdered == Spec => []EventsInOrder
<1>1. OrderInv => EventsInOrder
  <2> SUFFICES ASSUME OrderInv PROVE EventsInOrder
    OBVIOUS
  <2>1. DOMAIN events = 1..Len(events) /\ DOMAIN ledger = 1..Len(ledger)
    BY DEF OrderInv, TypeOK
  <2> QED
    BY <2>1 DEF OrderInv, LedgersInOrder, Good, EventsInOrder
<1>2. Init => OrderInv
  BY TypeInit, OrderInit DEF OrderInv
<1>3. OrderInv /\ [Next]_vars => OrderInv'
  BY TypeStep, OrderStep DEF OrderInv
<1> QED
  BY <1>1, <1>2, <1>3, PTL DEF Spec

-----------------------------------------------------------------------------
(* The stored ledger.                                                      *)

\* e is the end of s.
EndOf(e, s) ==
  /\ Len(e) <= Len(s)
  /\ \A i \in 1..Len(e) : e[i] = s[Len(s) - Len(e) + i]

\* What the row will hold once all saves under way are through.
Final == IF saves = <<>> THEN ledger ELSE saves[Len(saves)]

\* While no save has failed, the deque is the end of what will be stored, and
\* /reset empties it before it asks for the delete.
LedgerFollows ==
  /\ "save_ledger" \notin faults => EndOf(events, Final)
  /\ pc \in Clearing => events = <<>>

StoredInv == TypeOK /\ LedgerFollows

LEMMA EndOfEmpty == ASSUME NEW s \in Seq(Nat) PROVE EndOf(<<>>, s)
<1>1. Len(<<>>) = 0 /\ Len(s) \in Nat
  OBVIOUS
<1> QED
  BY <1>1 DEF EndOf

LEMMA EndOfNewest ==
  ASSUME NEW s \in Seq(Nat), NEW n \in Nat
  PROVE  EndOf(Newest(s, n), s)
<1>1. Len(s) \in Nat
  OBVIOUS
<1> QED
  BY <1>1, NewestElements DEF EndOf

LEMMA EndOfTransitive ==
  ASSUME NEW r \in Seq(Nat), NEW s \in Seq(Nat), NEW t \in Seq(Nat),
         EndOf(r, s), EndOf(s, t)
  PROVE  EndOf(r, t)
<1>1. Len(r) \in Nat /\ Len(s) \in Nat /\ Len(t) \in Nat
  OBVIOUS
<1>2. Len(r) <= Len(s) /\ Len(s) <= Len(t)
  BY DEF EndOf
<1>3. ASSUME NEW i \in 1..Len(r) PROVE r[i] = t[Len(t) - Len(r) + i]
  <2>1. Len(s) - Len(r) + i \in 1..Len(s)
    BY <1>1, <1>2
  <2>2. Len(t) - Len(s) + (Len(s) - Len(r) + i) = Len(t) - Len(r) + i
    BY <1>1
  <2> QED
    BY <2>1, <2>2 DEF EndOf
<1> QED
  BY <1>1, <1>2, <1>3 DEF EndOf

\* An end of s is its newest elements.
LEMMA EndOfIsNewest ==
  ASSUME NEW e \in Seq(Nat), NEW s \in Seq(Nat), EndOf(e, s)
  PROVE  e = Newest(s, Len(e))
<1> DEFINE t == Newest(s, Len(e))
<1>1. Len(e) \in Nat /\ Len(s) \in Nat /\ Len(e) <= Len(s)
  BY DEF EndOf
<1>2. /\ t \in Seq(Nat) /\ Len(t) = Len(e)
      /\ \A i \in 1..Len(t) : t[i] = s[Len(s) - Len(t) + i]
  BY <1>1, NewestElements
<1>3. \A i \in 1..Len(e) : e[i] = t[i]
  BY <1>2 DEF EndOf
<1> HIDE DEF t
<1>4. e = t
  BY <1>2, <1>3, SeqEqual
<1> QED
  BY <1>4 DEF t

LEMMA FollowsInit == Init => LedgerFollows
<1> SUFFICES ASSUME Init PROVE LedgerFollows
  OBVIOUS
<1>1. events = <<>> /\ Final = <<>> /\ pc \notin Clearing
  BY DEF Init, Final, Clearing
<1>2. <<>> \in Seq(Nat)
  OBVIOUS
<1> QED
  BY <1>1, <1>2, EndOfEmpty DEF LedgerFollows

\* A failed operation is never taken back.
LEMMA FaultsGrow == [Next]_vars => faults \subseteq faults'
<1> SUFFICES ASSUME [Next]_vars PROVE faults \subseteq faults'
  OBVIOUS
<1>1. \A k : Fails(k) => faults \subseteq faults'
  BY DEF Fails
<1> QED
  BY <1>1 DEF Next, Turn, Command, Reset, BeginTurn, Start, RestoreHistory,
     RestoreLedger, Replay, Compact, Say, Abort, EndUnrecorded, Complete, Save,
     BeginCommand, EndCommand, SaveLedger, Cancel, BeginReset, ClearMessages,
     ClearSummary, ClearLedger, LedgerCleared, Evict, Restart, FreshSession,
     vars, env

LEMMA FinalType == TypeOK => Final \in Seq(Nat)
<1> SUFFICES ASSUME TypeOK PROVE Final \in Seq(Nat)
  OBVIOUS
<1>1. saves \in Seq(Seq(Nat)) /\ ledger \in Seq(Nat)
  BY DEF TypeOK
<1> QED
  BY <1>1 DEF Final

\* A step that leaves the ledger alone.
LEMMA FollowsFrame ==
  ASSUME LedgerFollows, UNCHANGED <<events, ledger, saves>>, faults \subseteq faults',
         pc' \in Clearing => pc \in Clearing
  PROVE  LedgerFollows'
BY DEF LedgerFollows, Final

LEMMA FollowsStep == StoredInv /\ [Next]_vars => LedgerFollows'
<1> SUFFICES ASSUME StoredInv, [Next]_vars PROVE LedgerFollows'
  OBVIOUS
<1> USE DEF StoredInv
<1>0. /\ events \in Seq(Nat) /\ ledger \in Seq(Nat) /\ saves \in Seq(Seq(Nat))
      /\ LedgerMaxlen \in Nat /\ Final \in Seq(Nat) /\ faults \subseteq faults'
  BY Constants, FaultsGrow, FinalType DEF TypeOK
<1>t. Final' \in Seq(Nat)
  <2>1. saves' \in Seq(Seq(Nat)) /\ ledger' \in Seq(Nat)
    BY TypeStep DEF TypeOK
  <2> QED
    BY <2>1 DEF Final
<1>1. CASE RestoreLedger
  <2>1. ASSUME NEW n \in 0..Len(ledger), EndOf(events, ledger)
        PROVE  EndOf(Filled(events, Newest(ledger, n), LedgerMaxlen), ledger)
    <3> DEFINE t == Newest(ledger, n)
    <3>1. t \in Seq(Nat) /\ EndOf(t, ledger)
      BY <1>0, NewestType, EndOfNewest
    <3> HIDE DEF t
    <3>2. Newest(t, LedgerMaxlen) \in Seq(Nat) /\ EndOf(Newest(t, LedgerMaxlen), t)
      BY <1>0, <3>1, NewestType, EndOfNewest
    <3>3. EndOf(Newest(t, LedgerMaxlen), ledger)
      BY <1>0, <3>1, <3>2, EndOfTransitive
    <3>4. Filled(events, t, LedgerMaxlen) \in {events, Newest(t, LedgerMaxlen)}
      BY DEF Filled
    <3> QED
      BY <2>1, <3>3, <3>4 DEF t
  <2>2. saves = <<>> /\ saves' = saves /\ ledger' = ledger /\ pc' = pc
    BY <1>1 DEF RestoreLedger, lock
  <2>3. Final = ledger /\ Final' = ledger
    BY <2>2 DEF Final
  <2>4. EndOf(events, ledger) => EndOf(events', ledger)
    BY <1>1, <2>1 DEF RestoreLedger
  <2>5. pc' \notin Clearing
    BY <1>1, <2>2 DEF RestoreLedger, Clearing
  <2> QED
    BY <1>0, <2>3, <2>4, <2>5 DEF LedgerFollows
<1>2. CASE EndCommand /\ command' = command + 1 /\ AppendEvent
  <2>1. saves' = Append(saves, events') /\ events' \in Seq(Nat)
    BY <1>2, TypeStep DEF AppendEvent, TypeOK
  <2>2. Final' = events'
    BY <1>0, <2>1 DEF Final
  <2>3. EndOf(events', Final')
    <3>1. Len(events') \in Nat
      BY <2>1
    <3> QED
      BY <2>2, <3>1 DEF EndOf
  <2>4. pc' \notin Clearing
    BY <1>2 DEF EndCommand, Clearing
  <2> QED
    BY <2>3, <2>4 DEF LedgerFollows
<1>3. CASE SaveLedger
  <2>1. saves # <<>> /\ saves' = Tail(saves) /\ events' = events /\ pc' = pc
    BY <1>3 DEF SaveLedger, lock
  <2>2. CASE "save_ledger" \in faults'
    BY <2>1, <2>2 DEF LedgerFollows
  <2>3. CASE "save_ledger" \notin faults'
    <3>1. ledger' = Head(saves)
      BY <1>3, <2>3 DEF SaveLedger, Fails
    <3>2. Len(saves) \in Nat /\ Len(saves) >= 1 /\ Head(saves) = saves[1]
      BY <1>0, <2>1
    <3>3. Len(saves') = Len(saves) - 1 /\ saves' \in Seq(Seq(Nat))
          /\ \A k \in 1..Len(saves') : saves'[k] = saves[k + 1]
      BY <1>0, <2>1
    <3>4. Final' = saves[Len(saves)]
      <4>1. CASE saves' = <<>>
        <5>1. Len(saves) = 1
          BY <3>2, <3>3, <4>1
        <5> QED
          BY <3>1, <3>2, <4>1, <5>1 DEF Final
      <4>2. CASE saves' # <<>>
        <5>1. Len(saves') \in 1..Len(saves')
          BY <3>2, <3>3, <4>2
        <5>2. saves'[Len(saves')] = saves[Len(saves)]
          BY <3>2, <3>3, <5>1
        <5> QED
          BY <4>2, <5>2 DEF Final
      <4> QED
        BY <4>1, <4>2
    <3>5. Final' = Final
      BY <2>1, <3>4 DEF Final
    <3> QED
      BY <1>0, <2>1, <2>3, <3>5 DEF LedgerFollows
  <2> QED
    BY <2>2, <2>3
<1>4. CASE BeginReset \/ Evict \/ Restart
  <2>1. events' = <<>>
    BY <1>4 DEF BeginReset, Evict, Restart, FreshSession
  <2> QED
    BY <1>t, <2>1, EndOfEmpty DEF LedgerFollows
<1>5. CASE ClearMessages \/ ClearSummary \/ ClearLedger
  <2>1. events = <<>> /\ events' = events
    BY <1>5 DEF ClearMessages, ClearSummary, ClearLedger, acts, Clearing, LedgerFollows
  <2> QED
    BY <1>t, <2>1, EndOfEmpty DEF LedgerFollows
<1>6. CASE \/ BeginTurn \/ Start \/ RestoreHistory \/ Replay \/ Compact \/ Say \/ Abort
           \/ EndUnrecorded \/ Complete \/ Save \/ BeginCommand \/ Cancel
           \/ UNCHANGED vars \/ (EndCommand /\ UNCHANGED <<command, events, saves>>)
  <2>1. UNCHANGED <<events, ledger, saves>>
    BY <1>6 DEF BeginTurn, Start, RestoreHistory, Replay, Compact, Say, Abort,
         EndUnrecorded, Complete, Save, BeginCommand, EndCommand, Cancel, vars, acts
  <2>2. pc' \in Clearing => pc \in Clearing
    BY <1>6 DEF BeginTurn, Start, RestoreHistory, Replay, Compact, Say, Abort,
         EndUnrecorded, Complete, Save, BeginCommand, EndCommand, Cancel, vars, lock,
         Clearing
  <2> QED
    BY <1>0, <2>1, <2>2, FollowsFrame
<1>7. EndCommand => \/ EndCommand /\ command' = command + 1 /\ AppendEvent
                    \/ EndCommand /\ UNCHANGED <<command, events, saves>>
  BY DEF EndCommand
<1> QED
  BY <1>1, <1>2, <1>3, <1>4, <1>5, <1>6, <1>7 DEF Next, Turn, Command, Reset

\* With no save under way and none failed, a restart loses nothing of the deque.
THEOREM LedgerIsStored == Spec => []LedgerIsDurable
<1>1. StoredInv => LedgerIsDurable
  <2> SUFFICES ASSUME StoredInv, "save_ledger" \notin faults, saves = <<>>
               PROVE  Len(events) <= Len(ledger) /\ events = Newest(ledger, Len(events))
    BY DEF LedgerIsDurable
  <2>1. events \in Seq(Nat) /\ ledger \in Seq(Nat) /\ EndOf(events, ledger)
    BY DEF StoredInv, TypeOK, LedgerFollows, Final
  <2>2. events = Newest(ledger, Len(events))
    BY <2>1, EndOfIsNewest
  <2> QED
    BY <2>1, <2>2 DEF EndOf
<1>2. Init => StoredInv
  BY TypeInit, FollowsInit DEF StoredInv
<1>3. StoredInv /\ [Next]_vars => StoredInv'
  BY TypeStep, FollowsStep DEF StoredInv
<1> QED
  BY <1>1, <1>2, <1>3, PTL DEF Spec

-----------------------------------------------------------------------------
(* /reset.                                                                 *)

\* What is said or done later than the last full /reset.
Later(S, n) == \A x \in S : x > n

MessagesAreLater ==
  /\ Later(Range(history), 2 * forgotten.turn)
  /\ Later(Range(row), 2 * forgotten.turn)
  /\ Later(summary, 2 * forgotten.turn)

\* A /reset leaves nothing in memory, and takes the summary after the row.
ChatForgets ==
  /\ MessagesAreLater
  /\ forgotten.turn <= turn
  /\ pc \in TurnPlaces => forgotten.turn < turn
  /\ pc \in Clearing => history = <<>>
  /\ pc = "clearing_summary" => row = <<>>

EventsAreLater ==
  /\ Later(Range(events), forgotten.command)
  /\ Later(Range(ledger), forgotten.command)
  /\ \A k \in 1..Len(saves) : Later(Range(saves[k]), forgotten.command)

LedgerForgets ==
  /\ EventsAreLater
  /\ forgotten.command <= command
  /\ pc \in Clearing => events = <<>>

ForgetInv == TypeOK /\ ChatForgets /\ LedgerForgets

LEMMA RangeEmpty == Range(<<>>) = {}
BY DEF Range

LEMMA LaterEmpty == ASSUME NEW n PROVE Later(Range(<<>>), n)
BY RangeEmpty DEF Later

LEMMA LaterNewest ==
  ASSUME NEW s \in Seq(Nat), NEW n \in Nat, NEW m, Later(Range(s), m)
  PROVE  Later(Range(Newest(s, n)), m)
BY NewestRange DEF Later

LEMMA ForgetInit == Init => ChatForgets /\ LedgerForgets
<1> SUFFICES ASSUME Init PROVE ChatForgets /\ LedgerForgets
  OBVIOUS
<1>1. /\ history = <<>> /\ row = <<>> /\ summary = {} /\ events = <<>>
      /\ ledger = <<>> /\ saves = <<>> /\ turn = 0 /\ command = 0
      /\ forgotten.turn = 0 /\ forgotten.command = 0
      /\ pc \notin TurnPlaces /\ pc \notin Clearing /\ pc # "clearing_summary"
  BY DEF Init, TurnPlaces, Clearing
<1>2. MessagesAreLater
  BY <1>1, LaterEmpty DEF MessagesAreLater, Later
<1>3. EventsAreLater
  BY <1>1, LaterEmpty DEF EventsAreLater
<1> QED
  BY <1>1, <1>2, <1>3 DEF ChatForgets, LedgerForgets

\* The messages of a step that does not move the mark of /reset.
LEMMA ChatForgetsFrame ==
  ASSUME ChatForgets, forgotten' = forgotten, turn' = turn,
         MessagesAreLater',
         pc' \in TurnPlaces => pc \in TurnPlaces,
         pc' \in Clearing => history' = <<>>,
         pc' = "clearing_summary" => row' = <<>>
  PROVE  ChatForgets'
BY DEF ChatForgets

LEMMA ChatForgetsTurn ==
  ASSUME TypeOK, ChatForgets,
         \/ BeginTurn \/ Start \/ RestoreHistory \/ RestoreLedger \/ Replay
         \/ Compact \/ Say \/ Abort \/ EndUnrecorded \/ Complete \/ Save
  PROVE  ChatForgets'
<1> USE DEF TurnPlaces, Clearing
<1>0. /\ history \in Seq(Nat) /\ row \in Seq(Nat) /\ Window \in Nat
      /\ turn \in Nat /\ forgotten.turn \in Nat /\ Recent \in Seq(Nat)
  BY Constants, RecentType DEF TypeOK
<1>1. CASE BeginTurn
  <2>1. /\ pc' = "resolving" /\ turn' = turn + 1
        /\ UNCHANGED <<history, row, summary, forgotten>>
    BY <1>1 DEF BeginTurn, chat, ghosts
  <2> QED
    BY <1>0, <2>1 DEF ChatForgets, MessagesAreLater
<1>2. CASE Start \/ RestoreLedger \/ Replay \/ Say \/ Abort \/ EndUnrecorded
  <2>1. /\ UNCHANGED <<turn, history, row, summary, forgotten>>
        /\ pc' \notin Clearing /\ pc' # "clearing_summary"
        /\ pc' \in TurnPlaces => pc \in TurnPlaces
    BY <1>2 DEF Start, RestoreLedger, Replay, Restored, Say, Abort, EndUnrecorded,
         chat, ghosts, lock
  <2> QED
    BY <2>1, ChatForgetsFrame DEF ChatForgets, MessagesAreLater
<1>3. CASE RestoreHistory
  <2>1. Later(Range(history'), 2 * forgotten.turn)
    <3>1. Later(Range(Filled(history, row, Window)), 2 * forgotten.turn)
      BY <1>0, LaterNewest DEF Filled, ChatForgets, MessagesAreLater
    <3> QED
      BY <1>3, <3>1 DEF RestoreHistory, ChatForgets, MessagesAreLater
  <2>2. /\ UNCHANGED <<turn, row, summary, forgotten>>
        /\ pc' \notin Clearing /\ pc' # "clearing_summary"
        /\ pc' \in TurnPlaces => pc \in TurnPlaces
    BY <1>3 DEF RestoreHistory, ghosts, lock
  <2> QED
    BY <2>1, <2>2, ChatForgetsFrame DEF ChatForgets, MessagesAreLater
<1>4. CASE Compact
  <2>1. Older \subseteq Range(history)
    <3>1. DOMAIN history = 1..Len(history) /\ 2 * Keep \in Nat /\ Len(history) \in Nat
      BY <1>0, Constants
    <3>2. 1..(Len(history) - 2 * Keep) \subseteq 1..Len(history)
      BY <3>1
    <3> QED
      BY <3>1, <3>2 DEF Older, Range
  <2>2. summary' \subseteq summary \cup Older
    BY <1>4 DEF Compact
  <2>3. Later(summary', 2 * forgotten.turn)
    BY <2>1, <2>2 DEF Later, ChatForgets, MessagesAreLater
  <2>4. /\ UNCHANGED <<turn, history, row, forgotten>>
        /\ pc' \notin Clearing /\ pc' # "clearing_summary"
        /\ pc' \in TurnPlaces => pc \in TurnPlaces
    BY <1>4 DEF Compact, Restored, ghosts
  <2> QED
    BY <2>3, <2>4, ChatForgetsFrame DEF ChatForgets, MessagesAreLater
<1>5. CASE Complete
  <2> DEFINE base == IF fold THEN Recent ELSE history
             new == <<2 * turn - 1, 2 * turn>>
  <2>1. turn >= 1 /\ forgotten.turn < turn
    BY <1>5 DEF Complete, TypeOK, ChatForgets
  <2>2. base \in Seq(Nat) /\ new \in Seq(Nat) /\ base \o new \in Seq(Nat)
    BY <1>0, <2>1, TurnMessages
  <2>3. Later(Range(base), 2 * forgotten.turn)
    <3>1. Later(Range(Recent), 2 * forgotten.turn)
      BY <1>0, Constants, LaterNewest DEF Recent, ChatForgets, MessagesAreLater
    <3> QED
      BY <3>1 DEF ChatForgets, MessagesAreLater
  <2>4. Later(Range(base \o new), 2 * forgotten.turn)
    <3> SUFFICES ASSUME NEW x \in Range(base \o new) PROVE x > 2 * forgotten.turn
      BY DEF Later
    <3>1. Len(new) = 2 /\ new[1] = 2 * turn - 1 /\ new[2] = 2 * turn
      OBVIOUS
    <3> HIDE DEF base, new
    <3>2. /\ Len(base \o new) = Len(base) + Len(new) /\ Len(base) \in Nat
          /\ DOMAIN (base \o new) = 1..Len(base \o new)
          /\ \A i \in 1..Len(base) : (base \o new)[i] = base[i]
          /\ \A i \in 1..Len(new) : (base \o new)[Len(base) + i] = new[i]
      BY <2>2
    <3>3. PICK i \in 1..(Len(base) + 2) : x = (base \o new)[i]
      BY <3>1, <3>2 DEF Range
    <3>4. CASE i \in 1..Len(base)
      <4>1. x \in Range(base)
        BY <2>2, <3>2, <3>3, <3>4 DEF Range
      <4> QED
        BY <2>3, <4>1 DEF Later
    <3>5. CASE i \notin 1..Len(base)
      <4>1. i = Len(base) + 1 \/ i = Len(base) + 2
        BY <3>2, <3>3, <3>5
      <4>2. x = 2 * turn - 1 \/ x = 2 * turn
        BY <3>1, <3>2, <3>3, <4>1
      <4> QED
        BY <1>0, <2>1, <4>2
    <3> QED
      BY <3>4, <3>5
  <2>5. history' = Newest(base \o new, Window)
    BY <1>5 DEF Complete
  <2>6. Later(Range(history'), 2 * forgotten.turn)
    <3> HIDE DEF base, new
    <3> QED
      BY <1>0, <2>2, <2>4, <2>5, LaterNewest
  <2>7. /\ UNCHANGED <<turn, row, summary, forgotten>>
        /\ pc' \notin Clearing /\ pc' # "clearing_summary"
        /\ pc' \in TurnPlaces => pc \in TurnPlaces
    BY <1>5 DEF Complete, ghosts
  <2> QED
    BY <2>6, <2>7, ChatForgetsFrame DEF ChatForgets, MessagesAreLater
<1>6. CASE Save
  <2>1. /\ UNCHANGED <<turn, history, summary, forgotten>> /\ row' \in {row, history}
        /\ pc' \notin Clearing /\ pc' # "clearing_summary"
        /\ pc' \in TurnPlaces => pc \in TurnPlaces
    BY <1>6 DEF Save
  <2> QED
    BY <2>1, ChatForgetsFrame DEF ChatForgets, MessagesAreLater
<1> QED
  BY <1>1, <1>2, <1>3, <1>4, <1>5, <1>6

LEMMA ChatForgetsStep == ForgetInv /\ [Next]_vars => ChatForgets'
<1> SUFFICES ASSUME ForgetInv, [Next]_vars PROVE ChatForgets'
  OBVIOUS
<1> USE DEF ForgetInv
<1>0. turn \in Nat /\ forgotten \in [turn : Nat, command : Nat] /\ command \in Nat
  BY DEF TypeOK
<1>1. CASE Turn
  BY <1>1, ChatForgetsTurn DEF Turn
<1> USE DEF TurnPlaces, Clearing
<1>2. CASE Command \/ Cancel \/ UNCHANGED vars
  <2>1. /\ UNCHANGED <<turn, history, row, summary, forgotten>>
        /\ pc' \in Clearing => pc \in Clearing
        /\ pc' = "clearing_summary" => pc = "clearing_summary"
        /\ pc' \in TurnPlaces => pc \in TurnPlaces
    BY <1>2 DEF Command, BeginCommand, EndCommand, SaveLedger, Cancel, vars, chat,
         ghosts, lock
  <2> QED
    BY <2>1, ChatForgetsFrame DEF ChatForgets, MessagesAreLater
<1>3. CASE BeginReset
  <2>1. /\ UNCHANGED <<turn, row, summary, forgotten>> /\ history' = <<>>
        /\ pc' \notin TurnPlaces /\ pc' # "clearing_summary"
    BY <1>3 DEF BeginReset
  <2>2. MessagesAreLater'
    BY <2>1, LaterEmpty DEF ChatForgets, MessagesAreLater
  <2> QED
    BY <2>1, <2>2, ChatForgetsFrame
<1>4. CASE ClearMessages
  <2>1. /\ UNCHANGED <<turn, history, summary, forgotten>> /\ row' \in {row, <<>>}
        /\ pc' \notin TurnPlaces /\ pc \in Clearing
        /\ pc' = "clearing_summary" => row' = <<>>
    BY <1>4 DEF ClearMessages, ghosts
  <2>2. MessagesAreLater'
    BY <2>1, LaterEmpty DEF ChatForgets, MessagesAreLater
  <2>3. history' = <<>>
    BY <2>1 DEF ChatForgets
  <2> QED
    BY <2>1, <2>2, <2>3, ChatForgetsFrame
<1>5. CASE ClearSummary
  <2>1. /\ UNCHANGED <<turn, history, row>> /\ history = <<>> /\ row = <<>>
        /\ pc' \notin TurnPlaces /\ pc' # "clearing_summary"
    BY <1>5 DEF ClearSummary, ChatForgets
  <2>2. CASE summary' = {} /\ forgotten' = [forgotten EXCEPT !.turn = turn]
    <3>1. forgotten'.turn = turn
      BY <1>0, <2>2
    <3>2. MessagesAreLater'
      BY <2>1, <2>2, LaterEmpty DEF MessagesAreLater, Later
    <3> QED
      BY <1>0, <2>1, <3>1, <3>2 DEF ChatForgets
  <2>3. CASE summary' \in {summary, {}} /\ UNCHANGED forgotten
    <3>1. MessagesAreLater'
      BY <2>1, <2>3 DEF MessagesAreLater, Later, ChatForgets
    <3> QED
      BY <2>1, <2>3, <3>1, ChatForgetsFrame
  <2> QED
    BY <1>5, <2>2, <2>3 DEF ClearSummary
<1>6. CASE ClearLedger
  <2>1. /\ UNCHANGED <<turn, history, row, summary>> /\ forgotten'.turn = forgotten.turn
        /\ pc' = "idle"
    BY <1>0, <1>6 DEF ClearLedger, LedgerCleared
  <2> QED
    BY <2>1 DEF ChatForgets, MessagesAreLater
<1>7. CASE Evict \/ Restart
  <2>1. /\ UNCHANGED <<turn, row, summary, forgotten>> /\ history' = <<>>
        /\ pc' = "idle"
    BY <1>7 DEF Evict, Restart, FreshSession, ghosts
  <2>2. MessagesAreLater'
    BY <2>1, LaterEmpty DEF ChatForgets, MessagesAreLater
  <2> QED
    BY <2>1, <2>2, ChatForgetsFrame
<1> QED
  BY <1>1, <1>2, <1>3, <1>4, <1>5, <1>6, <1>7 DEF Next, Reset

\* The events of a step that does not move the mark of /reset.
LEMMA LedgerForgetsFrame ==
  ASSUME LedgerForgets, forgotten'.command = forgotten.command,
         command' \in {command, command + 1}, command \in Nat, forgotten.command \in Nat,
         EventsAreLater', pc' \in Clearing => events' = <<>>
  PROVE  LedgerForgets'
BY DEF LedgerForgets

\* What is in a queue after an append.
LEMMA AppendedElements ==
  ASSUME NEW q \in Seq(Seq(Nat)), NEW r, r = Append(q, <<>>)
  PROVE  \A k \in 1..Len(r) : (k \in 1..Len(q) /\ r[k] = q[k]) \/ r[k] = <<>>
<1>1. <<>> \in Seq(Nat)
  OBVIOUS
<1>2. /\ Len(r) = Len(q) + 1 /\ Len(q) \in Nat
      /\ \A k \in 1..Len(q) : r[k] = q[k]
      /\ r[Len(q) + 1] = <<>>
  BY <1>1, AppendProperties
<1> QED
  BY <1>2

LEMMA LedgerForgetsStep == ForgetInv /\ [Next]_vars => LedgerForgets'
<1> SUFFICES ASSUME ForgetInv, [Next]_vars PROVE LedgerForgets'
  OBVIOUS
<1> USE DEF ForgetInv
<1>0. /\ events \in Seq(Nat) /\ ledger \in Seq(Nat) /\ saves \in Seq(Seq(Nat))
      /\ command \in Nat /\ forgotten.command \in Nat /\ LedgerMaxlen \in Nat
      /\ forgotten \in [turn : Nat, command : Nat]
  BY Constants DEF TypeOK
<1> DEFINE c == forgotten.command
<1>1. CASE RestoreLedger
  <2>1. ASSUME NEW n \in 0..Len(ledger)
        PROVE  Later(Range(Filled(events, Newest(ledger, n), LedgerMaxlen)), c)
    <3>1. Newest(ledger, n) \in Seq(Nat) /\ Later(Range(Newest(ledger, n)), c)
      BY <1>0, NewestType, LaterNewest DEF LedgerForgets, EventsAreLater
    <3> QED
      BY <1>0, <3>1, LaterNewest DEF Filled, LedgerForgets, EventsAreLater
  <2>2. Later(Range(events'), c)
    BY <1>1, <2>1 DEF RestoreLedger, LedgerForgets, EventsAreLater
  <2>3. /\ UNCHANGED <<command, ledger, saves, forgotten>> /\ pc' \notin Clearing
    BY <1>1 DEF RestoreLedger, ghosts, lock, Clearing
  <2>4. EventsAreLater'
    BY <2>2, <2>3 DEF LedgerForgets, EventsAreLater
  <2> QED
    BY <1>0, <2>3, <2>4, LedgerForgetsFrame
<1>2. CASE EndCommand /\ command' = command + 1 /\ AppendEvent
  <2> DEFINE e == Append(events, command + 1)
  <2>1. e \in Seq(Nat) /\ Len(e) = Len(events) + 1 /\ Len(events) \in Nat
        /\ DOMAIN e = 1..Len(e) /\ e[Len(events) + 1] = command + 1
        /\ \A i \in 1..Len(events) : e[i] = events[i] /\ events[i] \in Range(events)
    BY <1>0 DEF Range
  <2>2. Later(Range(e), c)
    <3> SUFFICES ASSUME NEW i \in 1..Len(e) PROVE e[i] > c
      BY <2>1 DEF Later, Range
    <3> HIDE DEF e
    <3>1. CASE i \in 1..Len(events)
      <4>1. e[i] \in Range(events)
        BY <2>1, <3>1
      <4> QED
        BY <4>1 DEF LedgerForgets, EventsAreLater, Later
    <3>2. CASE i = Len(events) + 1
      BY <1>0, <2>1, <3>2 DEF LedgerForgets
    <3> QED
      BY <2>1, <3>1, <3>2
  <2>3. events' = Newest(e, LedgerMaxlen) /\ saves' = Append(saves, events')
        /\ UNCHANGED <<ledger, forgotten>> /\ pc' \notin Clearing
    BY <1>2 DEF AppendEvent, EndCommand, ghosts, Clearing
  <2> HIDE DEF e
  <2>4. Later(Range(events'), c) /\ events' \in Seq(Nat)
    BY <1>0, <2>1, <2>2, <2>3, LaterNewest, NewestType
  <2>5. \A k \in 1..Len(saves') :
          \/ k \in 1..Len(saves) /\ saves'[k] = saves[k]
          \/ saves'[k] = events'
    BY <1>0, <2>3, <2>4
  <2>6. EventsAreLater'
    BY <2>3, <2>4, <2>5 DEF LedgerForgets, EventsAreLater
  <2> QED
    BY <1>0, <1>2, <2>3, <2>6, LedgerForgetsFrame
<1>3. CASE SaveLedger
  <2>1. /\ saves # <<>> /\ saves' = Tail(saves) /\ UNCHANGED <<pc, command, events, forgotten>>
    BY <1>3 DEF SaveLedger, lock, ghosts
  <2>2. Len(saves) \in Nat /\ Len(saves) >= 1 /\ Head(saves) = saves[1]
    BY <1>0, <2>1
  <2>3. \A k \in 1..Len(saves') : saves'[k] = saves[k + 1] /\ k + 1 \in 1..Len(saves)
    BY <1>0, <2>1, <2>2
  <2>4. ledger' = saves[1] \/ ledger' = ledger
    BY <1>3, <2>2 DEF SaveLedger
  <2>5. EventsAreLater'
    BY <2>1, <2>2, <2>3, <2>4 DEF LedgerForgets, EventsAreLater
  <2>6. pc' \in Clearing => events' = <<>>
    BY <2>1 DEF LedgerForgets
  <2> QED
    BY <1>0, <2>1, <2>5, <2>6, LedgerForgetsFrame
<1>4. CASE BeginReset \/ Evict
  <2>1. /\ events' = <<>> /\ UNCHANGED <<command, ledger, saves, forgotten>>
    BY <1>4 DEF BeginReset, Evict, FreshSession, ghosts
  <2>2. EventsAreLater'
    BY <2>1, LaterEmpty DEF LedgerForgets, EventsAreLater
  <2> QED
    BY <1>0, <2>1, <2>2, LedgerForgetsFrame
<1>5. CASE Restart
  <2>1. /\ events' = <<>> /\ saves' = <<>> /\ UNCHANGED <<command, ledger, forgotten>>
    BY <1>5 DEF Restart, FreshSession, ghosts
  <2>2. EventsAreLater'
    BY <2>1, LaterEmpty DEF LedgerForgets, EventsAreLater
  <2> QED
    BY <1>0, <2>1, <2>2, LedgerForgetsFrame
<1>6. CASE ClearSummary
  <2>1. /\ UNCHANGED <<command, events, ledger, saves>>
        /\ forgotten'.command = forgotten.command /\ pc \in Clearing
    BY <1>0, <1>6 DEF ClearSummary, acts, Clearing
  <2>2. EventsAreLater' /\ events' = <<>>
    BY <2>1 DEF LedgerForgets, EventsAreLater
  <2> QED
    BY <1>0, <2>1, <2>2, LedgerForgetsFrame
<1>7. CASE ClearLedger
  <2>1. /\ UNCHANGED <<command, events>> /\ events = <<>>
    BY <1>7 DEF ClearLedger, Clearing, LedgerForgets
  <2>2. CASE /\ saves = <<>> /\ ledger' = <<>> /\ UNCHANGED saves
             /\ forgotten' = [forgotten EXCEPT !.command = command]
    <3>1. forgotten'.command = command
      BY <1>0, <2>2
    <3>2. EventsAreLater'
      BY <2>1, <2>2, LaterEmpty DEF EventsAreLater
    <3> QED
      BY <1>0, <2>1, <3>1, <3>2 DEF LedgerForgets
  <2>3. CASE saves' \in {saves, Append(saves, <<>>)} /\ UNCHANGED <<ledger, forgotten>>
    <3>1. \A k \in 1..Len(saves') :
            \/ k \in 1..Len(saves) /\ saves'[k] = saves[k]
            \/ saves'[k] = <<>>
      <4>1. CASE saves' = saves
        BY <4>1
      <4>2. CASE saves' = Append(saves, <<>>)
        BY <1>0, <4>2, AppendedElements
      <4> QED
        BY <2>3, <4>1, <4>2
    <3>2. EventsAreLater'
      BY <2>1, <2>3, <3>1, LaterEmpty DEF LedgerForgets, EventsAreLater
    <3> QED
      BY <1>0, <2>1, <2>3, <3>2, LedgerForgetsFrame
  <2> QED
    BY <1>7, <2>2, <2>3 DEF ClearLedger, LedgerCleared
<1>8. CASE \/ BeginTurn \/ Start \/ RestoreHistory \/ Replay \/ Compact \/ Say \/ Abort
           \/ EndUnrecorded \/ Complete \/ Save \/ BeginCommand \/ Cancel
           \/ ClearMessages \/ UNCHANGED vars
           \/ (EndCommand /\ UNCHANGED <<command, events, saves>>)
  <2>1. UNCHANGED <<command, events, ledger, saves, forgotten>>
    BY <1>8 DEF BeginTurn, Start, RestoreHistory, Replay, Compact, Say, Abort,
         EndUnrecorded, Complete, Save, BeginCommand, EndCommand, Cancel,
         ClearMessages, vars, lock, acts, ghosts
  <2>2. pc' \in Clearing => pc \in Clearing
    BY <1>8 DEF BeginTurn, Start, RestoreHistory, Replay, Compact, Say, Abort,
         EndUnrecorded, Complete, Save, BeginCommand, EndCommand, Cancel,
         ClearMessages, vars, lock, Clearing
  <2>3. EventsAreLater'
    BY <2>1 DEF LedgerForgets, EventsAreLater
  <2>4. pc' \in Clearing => events' = <<>>
    BY <2>1, <2>2 DEF LedgerForgets
  <2> QED
    BY <1>0, <2>1, <2>3, <2>4, LedgerForgetsFrame
<1>9. EndCommand => \/ EndCommand /\ command' = command + 1 /\ AppendEvent
                    \/ EndCommand /\ UNCHANGED <<command, events, saves>>
  BY DEF EndCommand
<1> QED
  BY <1>1, <1>2, <1>3, <1>4, <1>5, <1>6, <1>7, <1>8, <1>9
    DEF Next, Turn, Command, Reset

\* After a full /reset nothing said or done before it comes back.
THEOREM ResetsForget == Spec => []ResetForgets
<1>1. ForgetInv => ResetForgets
  <2> SUFFICES ASSUME ForgetInv PROVE ResetForgets
    OBVIOUS
  <2>1. \A m \in Range(history) \cup Range(row) \cup summary : m > 2 * forgotten.turn
    BY DEF ForgetInv, ChatForgets, MessagesAreLater, Later
  <2>2. ASSUME NEW s \in Range(saves), NEW e \in Range(s) PROVE e > forgotten.command
    <3>1. PICK k \in 1..Len(saves) : s = saves[k]
      BY DEF Range, ForgetInv, TypeOK
    <3> QED
      BY <2>2, <3>1 DEF ForgetInv, LedgerForgets, EventsAreLater, Later
  <2>3. ASSUME NEW e \in Range(events) \cup Range(ledger)
        PROVE  e > forgotten.command
    BY DEF ForgetInv, LedgerForgets, EventsAreLater, Later
  <2> QED
    BY <2>1, <2>2, <2>3 DEF ResetForgets
<1>2. Init => ForgetInv
  BY TypeInit, ForgetInit DEF ForgetInv
<1>3. ForgetInv /\ [Next]_vars => ForgetInv'
  BY TypeStep, ChatForgetsStep, LedgerForgetsStep DEF ForgetInv
<1> QED
  BY <1>1, <1>2, <1>3, PTL DEF Spec

-----------------------------------------------------------------------------
(* Memory.                                                                 *)

\* The d-th element of s from its end, from 0.
Back(s, d) == s[Len(s) - d]

\* s has the last Window elements of due, or the messages m cover those that s
\* is too short for.
Held(s, due, m) ==
  \A d \in 0..(Len(due) - 1) :
     d < Window => IF d < Len(s) THEN Back(s, d) = Back(due, d) ELSE Back(due, d) \in m

NewTurn == <<2 * turn - 1, 2 * turn>>

\* What the deque owes: its turn as well, while that is being saved.
Due == IF pc = "saving" THEN kept \o NewTurn ELSE kept

\* No fault that Remembered excuses.
Excused == faults \cap {"load_history", "load_summary", "save_history"} # {}

Memory ==
  /\ Held(row, kept, summary)
  /\ hydrated => Held(history, Due, summary)
  /\ (pc = "thinking" /\ fold) => Older \subseteq summary

MemoryShape ==
  /\ ~hydrated => history = <<>>
  /\ pc \in {"thinking", "saving"} => hydrated
  /\ pc \in Clearing => kept = <<>> /\ history = <<>>

MemoryInv == TypeOK /\ MemoryShape /\ (~Excused => Memory)

LEMMA HeldNothing == ASSUME NEW s, NEW m PROVE Held(s, <<>>, m)
BY DEF Held

LEMMA HeldMore ==
  ASSUME NEW s, NEW due, NEW m, NEW n, m \subseteq n, Held(s, due, m)
  PROVE  Held(s, due, n)
BY DEF Held

\* The newest Window elements of what is held are held.
LEMMA HeldNewest ==
  ASSUME NEW s \in Seq(Nat), NEW due \in Seq(Nat), NEW m, Held(s, due, m)
  PROVE  Held(Newest(s, Window), due, m)
<1> DEFINE t == Newest(s, Window)
<1>1. /\ Window \in Nat /\ Len(s) \in Nat /\ Len(t) \in Nat
      /\ Len(t) = IF Len(s) <= Window THEN Len(s) ELSE Window
      /\ \A i \in 1..Len(t) : t[i] = s[Len(s) - Len(t) + i]
  BY Constants, NewestElements
<1> HIDE DEF t
<1> SUFFICES ASSUME NEW d \in 0..(Len(due) - 1), d < Window
             PROVE  IF d < Len(t) THEN Back(t, d) = Back(due, d) ELSE Back(due, d) \in m
  BY DEF Held, t
<1>2. d \in Nat /\ (IF d < Len(s) THEN Back(s, d) = Back(due, d) ELSE Back(due, d) \in m)
  BY DEF Held
<1>3. d < Len(t) <=> d < Len(s)
  BY <1>1, <1>2
<1>4. CASE d < Len(t)
  <2>1. Len(t) - d \in 1..Len(t) /\ Len(s) - Len(t) + (Len(t) - d) = Len(s) - d
    BY <1>1, <1>2, <1>4
  <2>2. t[Len(t) - d] = s[Len(s) - d]
    BY <1>1, <2>1
  <2> QED
    BY <1>2, <1>3, <1>4, <2>2 DEF Back
<1>5. CASE ~(d < Len(t))
  BY <1>2, <1>3, <1>5
<1> QED
  BY <1>4, <1>5

\* The elements of a sequence with two more at its end.
LEMMA BackConcat ==
  ASSUME NEW s \in Seq(Nat), NEW a \in Nat, NEW b \in Nat
  PROVE  /\ s \o <<a, b>> \in Seq(Nat) /\ Len(s \o <<a, b>>) = Len(s) + 2
         /\ Back(s \o <<a, b>>, 0) = b /\ Back(s \o <<a, b>>, 1) = a
         /\ \A d \in 2..(Len(s) + 1) : Back(s \o <<a, b>>, d) = Back(s, d - 2)
<1> DEFINE t == s \o <<a, b>>
<1>1. /\ t \in Seq(Nat) /\ Len(t) = Len(s) + 2 /\ Len(s) \in Nat
      /\ t[Len(s) + 2] = b /\ t[Len(s) + 1] = a
      /\ \A i \in 1..Len(s) : t[i] = s[i]
  OBVIOUS
<1> HIDE DEF t
<1>2. Len(t) - 0 = Len(s) + 2 /\ Len(t) - 1 = Len(s) + 1
  BY <1>1
<1>3. ASSUME NEW d \in 2..(Len(s) + 1) PROVE Back(t, d) = Back(s, d - 2)
  <2>1. Len(t) - d \in 1..Len(s) /\ Len(t) - d = Len(s) - (d - 2)
    BY <1>1
  <2> QED
    BY <1>1, <2>1 DEF Back
<1>4. Back(t, 0) = b /\ Back(t, 1) = a
  BY <1>1, <1>2 DEF Back
<1> QED
  BY <1>1, <1>3, <1>4 DEF t

\* A turn after the whole history, or after what compaction keeps of it.
LEMMA HeldTurn ==
  ASSUME NEW s \in Seq(Nat), NEW h \in Seq(Nat), NEW due \in Seq(Nat), NEW m,
         NEW a \in Nat, NEW b \in Nat, Held(h, due, m), EndOf(s, h),
         \A i \in 1..(Len(h) - Len(s)) : h[i] \in m
  PROVE  Held(s \o <<a, b>>, due \o <<a, b>>, m)
<1> DEFINE t == s \o <<a, b>>
           e == due \o <<a, b>>
<1>1. /\ t \in Seq(Nat) /\ Len(t) = Len(s) + 2 /\ Back(t, 0) = b /\ Back(t, 1) = a
      /\ \A d \in 2..(Len(s) + 1) : Back(t, d) = Back(s, d - 2)
  BY BackConcat
<1>2. /\ e \in Seq(Nat) /\ Len(e) = Len(due) + 2 /\ Back(e, 0) = b /\ Back(e, 1) = a
      /\ \A d \in 2..(Len(due) + 1) : Back(e, d) = Back(due, d - 2)
  BY BackConcat
<1>3. /\ Window \in Nat /\ Len(s) \in Nat /\ Len(h) \in Nat /\ Len(due) \in Nat
      /\ Len(s) <= Len(h)
  BY Constants DEF EndOf
<1> HIDE DEF t, e
<1> SUFFICES ASSUME NEW d \in 0..(Len(e) - 1), d < Window
             PROVE  IF d < Len(t) THEN Back(t, d) = Back(e, d) ELSE Back(e, d) \in m
  BY DEF Held, t, e
<1>4. CASE d \in {0, 1}
  <2>1. d < Len(t)
    BY <1>1, <1>3, <1>4
  <2> QED
    BY <1>1, <1>2, <1>4, <2>1
<1>5. CASE d \notin {0, 1}
  <2>1. /\ d \in 2..(Len(due) + 1) /\ d - 2 \in 0..(Len(due) - 1) /\ d - 2 < Window
        /\ d - 2 \in Nat
    BY <1>2, <1>3, <1>5
  <2>2. Back(e, d) = Back(due, d - 2)
    BY <1>2, <2>1
  <2>3. IF d - 2 < Len(h) THEN Back(h, d - 2) = Back(due, d - 2) ELSE Back(due, d - 2) \in m
    BY <2>1 DEF Held
  <2>4. CASE d < Len(t)
    <3>1. d \in 2..(Len(s) + 1) /\ d - 2 < Len(h)
      <4>1. d \in Nat /\ d >= 2 /\ d < Len(s) + 2
        BY <1>1, <2>1, <2>4
      <4> QED
        BY <1>3, <4>1
    <3>2. Back(t, d) = Back(s, d - 2)
      BY <1>1, <3>1
    <3>3. Len(s) - (d - 2) \in 1..Len(s)
          /\ Len(h) - Len(s) + (Len(s) - (d - 2)) = Len(h) - (d - 2)
      BY <1>3, <2>1, <3>1
    <3>4. Back(s, d - 2) = Back(h, d - 2)
      BY <3>3 DEF Back, EndOf
    <3> QED
      BY <2>2, <2>3, <2>4, <3>1, <3>2, <3>4
  <2>5. CASE ~(d < Len(t))
    <3>1. d - 2 >= Len(s)
      BY <1>1, <1>3, <2>1, <2>5
    <3>2. CASE d - 2 < Len(h)
      <4>1. Len(h) - (d - 2) \in 1..(Len(h) - Len(s))
        BY <1>3, <2>1, <3>1, <3>2
      <4>2. Back(h, d - 2) \in m
        BY <4>1 DEF Back
      <4> QED
        BY <2>2, <2>3, <2>5, <3>2, <4>2
    <3>3. CASE ~(d - 2 < Len(h))
      BY <2>2, <2>3, <2>5, <3>3
    <3> QED
      BY <3>2, <3>3
  <2> QED
    BY <2>4, <2>5
<1> QED
  BY <1>4, <1>5

LEMMA ExcuseGrows == [Next]_vars /\ ~Excused' => ~Excused
BY FaultsGrow DEF Excused

LEMMA MemoryInit == Init => MemoryInv
<1> SUFFICES ASSUME Init PROVE MemoryInv
  OBVIOUS
<1>1. kept = <<>> /\ history = <<>> /\ ~hydrated /\ pc = "idle"
  BY DEF Init
<1>2. Memory
  BY <1>1, HeldNothing DEF Memory
<1> QED
  BY <1>1, <1>2, TypeInit DEF MemoryInv, MemoryShape, Clearing

LEMMA ShapeStep == MemoryInv /\ [Next]_vars => MemoryShape'
<1> SUFFICES ASSUME MemoryInv, [Next]_vars PROVE MemoryShape'
  OBVIOUS
<1> USE DEF MemoryInv, MemoryShape, Clearing
<1>1. CASE BeginTurn \/ Start \/ RestoreHistory
  BY <1>1 DEF BeginTurn, Start, RestoreHistory, chat, ghosts, lock
<1>2. CASE RestoreLedger \/ Replay \/ Compact
  BY <1>2 DEF RestoreLedger, Replay, Compact, Restored, chat, ghosts, lock
<1>3. CASE Say \/ Abort \/ EndUnrecorded \/ Complete
  BY <1>3 DEF Say, Abort, EndUnrecorded, Complete, chat, ghosts, lock
<1>4. CASE Save \/ BeginCommand \/ EndCommand \/ SaveLedger
  BY <1>4 DEF Save, BeginCommand, EndCommand, SaveLedger, chat, ghosts, lock
<1>5. CASE Cancel \/ BeginReset \/ ClearMessages
  BY <1>5 DEF Cancel, BeginReset, ClearMessages, chat, ghosts, lock
<1>6. CASE ClearSummary \/ ClearLedger
  BY <1>6 DEF ClearSummary, ClearLedger
<1>7. CASE Evict \/ Restart
  BY <1>7 DEF Evict, Restart, FreshSession, ghosts
<1>8. CASE UNCHANGED vars
  BY <1>8 DEF vars, chat, ghosts, lock
<1> QED
  BY <1>1, <1>2, <1>3, <1>4, <1>5, <1>6, <1>7, <1>8 DEF Next, Turn, Command, Reset

\* A step that leaves the history, its row and its summary alone.
LEMMA MemoryFrame ==
  ASSUME Memory, UNCHANGED <<history, hydrated, row, summary, kept>>,
         pc' = "saving" <=> pc = "saving", turn' = turn \/ pc # "saving",
         (pc' = "thinking" /\ fold') => (pc = "thinking" /\ fold)
  PROVE  Memory'
<1>1. Due' = Due
  BY DEF Due, NewTurn
<1>2. Older' = Older
  BY DEF Older
<1> QED
  BY <1>1, <1>2 DEF Memory

LEMMA MemoryStep == MemoryInv /\ [Next]_vars /\ ~Excused' => Memory'
<1> SUFFICES ASSUME MemoryInv, [Next]_vars, ~Excused' PROVE Memory'
  OBVIOUS
<1>0. /\ history \in Seq(Nat) /\ row \in Seq(Nat) /\ kept \in Seq(Nat)
      /\ Recent \in Seq(Nat) /\ turn \in Nat /\ 2 * Keep \in Nat /\ Memory /\ MemoryShape
  BY ExcuseGrows, RecentType, Constants DEF MemoryInv, TypeOK
<1>1. CASE RestoreHistory
  <2>1. ~ Fails("load_history")
    BY DEF Fails, Excused
  <2>2. history = <<>> /\ history' = Newest(row, Window) /\ hydrated'
    BY <1>0, <1>1, <2>1 DEF RestoreHistory, Filled, MemoryShape
  <2>3. pc = "restoring" /\ pc' = pc /\ UNCHANGED <<row, summary, kept>>
    BY <1>1 DEF RestoreHistory, lock, ghosts
  <2>4. Held(history', kept, summary)
    BY <1>0, <2>2, HeldNewest DEF Memory
  <2>5. Due' = kept
    BY <2>3 DEF Due
  <2> QED
    BY <1>0, <2>3, <2>4, <2>5 DEF Memory
<1>2. CASE Compact
  <2>1. ~ Fails("load_summary")
    BY DEF Fails, Excused
  <2>2. /\ pc = "restoring" /\ pc' = "thinking" /\ UNCHANGED <<history, hydrated, row, kept>>
        /\ summary \subseteq summary' /\ (fold' => Older \subseteq summary')
    BY <1>2, <2>1 DEF Compact, Restored, ghosts
  <2>3. Due' = Due /\ Older' = Older
    BY <2>2 DEF Due, Older
  <2> QED
    BY <1>0, <2>2, <2>3, HeldMore DEF Memory
<1>3. CASE Complete
  <2> DEFINE base == IF fold THEN Recent ELSE history
  <2>1. turn >= 1 /\ hydrated /\ pc = "thinking" /\ pc' = "saving"
    BY <1>0, <1>3 DEF Complete, MemoryInv, TypeOK, TurnPlaces, MemoryShape
  <2>2. /\ history' = Newest(base \o NewTurn, Window) /\ Due' = kept \o NewTurn
        /\ UNCHANGED <<hydrated, row, summary, kept>>
    BY <1>3, <2>1 DEF Complete, Due, NewTurn, ghosts
  <2>3. Held(history, kept, summary)
    BY <1>0, <2>1 DEF Memory, Due
  <2>4. base \in Seq(Nat) /\ EndOf(base, history)
        /\ \A i \in 1..(Len(history) - Len(base)) : history[i] \in summary
    <3>1. CASE fold
      <4>1. EndOf(Recent, history)
        BY <1>0, EndOfNewest DEF Recent
      <4>2. Len(history) \in Nat
            /\ Len(Recent) = IF Len(history) <= 2 * Keep THEN Len(history) ELSE 2 * Keep
        BY <1>0, NewestElements DEF Recent
      <4>3. ASSUME NEW i \in 1..(Len(history) - Len(Recent)) PROVE history[i] \in summary
        <5>1. i \in 1..(Len(history) - 2 * Keep)
          BY <1>0, <4>2
        <5>2. history[i] \in Older
          BY <5>1 DEF Older
        <5> QED
          BY <1>0, <2>1, <3>1, <5>2 DEF Memory
      <4> QED
        BY <1>0, <3>1, <4>1, <4>3
    <3>2. CASE ~fold
      <4>1. Len(history) \in Nat
        BY <1>0
      <4> QED
        BY <1>0, <3>2, <4>1 DEF EndOf
    <3> QED
      BY <3>1, <3>2
  <2>5. Held(base \o NewTurn, kept \o NewTurn, summary)
    <3>1. 2 * turn - 1 \in Nat /\ 2 * turn \in Nat
      BY <1>0, <2>1
    <3> HIDE DEF base
    <3> QED
      BY <1>0, <2>3, <2>4, <3>1, HeldTurn DEF NewTurn
  <2>6. base \o NewTurn \in Seq(Nat) /\ kept \o NewTurn \in Seq(Nat)
    <3>1. NewTurn \in Seq(Nat)
      BY <1>0, <2>1, TurnMessages DEF NewTurn
    <3> HIDE DEF base
    <3> QED
      BY <1>0, <2>4, <3>1
  <2>7. Held(history', Due', summary)
    <3> HIDE DEF base
    <3> QED
      BY <2>2, <2>5, <2>6, HeldNewest
  <2> QED
    BY <1>0, <2>1, <2>2, <2>7 DEF Memory
<1>4. CASE Save
  <2>1. ~ Fails("save_history")
    BY DEF Fails, Excused
  <2>2. /\ pc = "saving" /\ pc' = "idle" /\ row' = history /\ kept' = kept \o NewTurn
        /\ UNCHANGED <<history, hydrated, summary>>
    BY <1>4, <2>1 DEF Save, NewTurn
  <2>3. hydrated /\ Due = kept' /\ Due' = kept'
    BY <1>0, <2>2 DEF MemoryShape, Due
  <2>4. Held(history, kept', summary)
    BY <1>0, <2>3 DEF Memory
  <2> QED
    BY <2>2, <2>3, <2>4 DEF Memory
<1>5. CASE BeginReset \/ ClearMessages \/ ClearSummary \/ ClearLedger
  <2>1. kept' = <<>> /\ pc' # "saving" /\ pc' # "thinking"
    BY <1>0, <1>5 DEF BeginReset, ClearMessages, ClearSummary, ClearLedger, ghosts,
         MemoryShape, Clearing
  <2>2. Due' = <<>>
    BY <2>1 DEF Due
  <2> QED
    BY <2>1, <2>2, HeldNothing DEF Memory
<1>6. CASE Evict \/ Restart
  <2>1. hydrated' = FALSE /\ pc' = "idle" /\ UNCHANGED <<row, summary, kept>>
    BY <1>6 DEF Evict, Restart, FreshSession, ghosts
  <2> QED
    BY <1>0, <2>1 DEF Memory
<1>7. CASE \/ BeginTurn \/ Start \/ RestoreLedger \/ Replay \/ Say \/ Abort
           \/ EndUnrecorded \/ BeginCommand \/ EndCommand \/ SaveLedger \/ Cancel
           \/ UNCHANGED vars
  <2>1. UNCHANGED <<history, hydrated, row, summary, kept>>
    BY <1>7 DEF BeginTurn, Start, RestoreLedger, Replay, Say, Abort, EndUnrecorded,
         BeginCommand, EndCommand, SaveLedger, Cancel, vars, chat, ghosts
  <2>2. /\ pc' = "saving" <=> pc = "saving"
        /\ turn' = turn \/ pc # "saving"
        /\ (pc' = "thinking" /\ fold') => (pc = "thinking" /\ fold)
    BY <1>7 DEF BeginTurn, Start, RestoreLedger, Replay, Restored, Say, Abort,
         EndUnrecorded, BeginCommand, EndCommand, SaveLedger, Cancel, vars, chat, lock
  <2> QED
    BY <1>0, <2>1, <2>2, MemoryFrame
<1> QED
  BY <1>1, <1>2, <1>3, <1>4, <1>5, <1>6, <1>7 DEF Next, Turn, Command, Reset

\* The last Window messages that were saved are in the history or the summary.
THEOREM SavedTurnsRemembered == Spec => []Remembered
<1>1. MemoryInv => Remembered
  <2> SUFFICES ASSUME MemoryInv, ~Excused, pc # "saving",
                      NEW x \in Range(Newest(kept, Window))
               PROVE  x \in Range(Effective) \cup summary
    BY DEF Remembered, Excused, Owed
  <2>1. /\ kept \in Seq(Nat) /\ history \in Seq(Nat) /\ row \in Seq(Nat) /\ Window \in Nat
        /\ Effective \in Seq(Nat)
    BY Constants DEF MemoryInv, TypeOK, Effective
  <2>2. Held(Effective, kept, summary)
    BY DEF MemoryInv, Memory, Due, Effective
  <2> DEFINE t == Newest(kept, Window)
  <2>3. /\ t \in Seq(Nat) /\ Len(kept) \in Nat /\ Len(t) \in Nat
        /\ Len(t) <= Window /\ Len(t) <= Len(kept)
        /\ \A i \in 1..Len(t) : t[i] = kept[Len(kept) - Len(t) + i]
    BY <2>1, NewestElements
  <2>4. PICK i \in 1..Len(t) : x = t[i]
    BY <2>3 DEF Range
  <2> HIDE DEF t
  <2> DEFINE d == Len(t) - i
  <2>5. /\ d \in 0..(Len(kept) - 1) /\ d < Window /\ d \in Nat
        /\ Len(kept) - Len(t) + i = Len(kept) - d
    BY <2>1, <2>3
  <2>6. x = Back(kept, d)
    BY <2>3, <2>4, <2>5 DEF Back
  <2> HIDE DEF d
  <2>7. CASE d < Len(Effective)
    <3>1. Len(Effective) - d \in 1..Len(Effective)
      BY <2>1, <2>5, <2>7
    <3>2. x = Effective[Len(Effective) - d]
      BY <2>2, <2>5, <2>6, <2>7 DEF Held, Back
    <3> QED
      BY <2>1, <3>1, <3>2 DEF Range
  <2>8. CASE ~(d < Len(Effective))
    BY <2>2, <2>5, <2>6, <2>8 DEF Held
  <2> QED
    BY <2>7, <2>8
<1>2. Init => MemoryInv
  BY MemoryInit
<1>3. MemoryInv /\ [Next]_vars => MemoryInv'
  BY TypeStep, ShapeStep, MemoryStep DEF MemoryInv
<1> QED
  BY <1>1, <1>2, <1>3, PTL DEF Spec
=============================================================================
