----------------------------- MODULE Attention -----------------------------
(* Whom the bot still listens to in a group (group_batch.py): a user it has answered *)
(* is heard without being addressed for a while. The time of the answer is kept in   *)
(* the store, as seconds by the bot itself and as hour and minute by the rules, and  *)
(* both are read by the same code. Time is in seconds since a midnight.              *)
EXTENDS Integers

CONSTANTS
  Users, Times,   \* moments at which something happens
  Window,         \* attention_window_s
  None            \* no stamp

Minute == 60
Day == 86400

VARIABLES
  now,
  stamp,     \* the stored row of each user: a number, or None
  answer,    \* history: when each was last answered and in which form it was kept
  heard      \* how the last message was weighed, and what its sender was owed

vars == <<now, stamp, answer, heard>>

Never == [at |-> -1, form |-> "none"]
Nothing == [attended |-> FALSE, addressed |-> FALSE, failed |-> FALSE, owed |-> FALSE, spent |-> FALSE]

Init ==
  /\ now \in Times
  /\ stamp = [u \in Users |-> None] /\ answer = [u \in Users |-> Never] /\ heard = Nothing

\* HHmm as a number, the form the rules write, and seconds since the epoch; the
\* epoch was so long ago that the two cannot be confused.
HHmm(t) == LET m == (t % Day) \div Minute IN (m \div 60) * 100 + (m % 60)
HHmmMax == 9999
Epoch == 1000000
MinutesOf(hhmm) == (hhmm \div 100) * 60 + (hhmm % 100)

AbsDiff(a, b) == IF a < b THEN b - a ELSE a - b
Least(a, b) == IF a < b THEN a ELSE b
Most(a, b) == IF a < b THEN b ELSE a

\* Bug: two times of day are compared as numbers.
AroundStraight(a, b) == AbsDiff(a, b)

\* The shorter way around the clock.
Around(a, b) == Least(AbsDiff(a, b), 1440 - AbsDiff(a, b))

\* _parse_attention_stamp: zero counts as never written.
Within(s, t) ==
  /\ s # None /\ s > 0
  /\ IF s > HHmmMax
     THEN Epoch + t - s <= Window
     ELSE /\ s <= 2359
          /\ Around((t % Day) \div Minute, MinutesOf(s)) <= Most(1, Window \div Minute)

--------------------------------------------------------------------------------
\* _refresh_attention_window after the bot has answered, if the store takes it.
Answer(u) ==
  \/ /\ stamp' = [stamp EXCEPT ![u] = Epoch + now]
     /\ answer' = [answer EXCEPT ![u] = [at |-> now, form |-> "epoch"]]
     /\ UNCHANGED <<now, heard>>
  \/ UNCHANGED vars

\* The rules keep the hour and the minute.
Rule(u) ==
  /\ stamp' = [stamp EXCEPT ![u] = HHmm(now)]
  /\ answer' = [answer EXCEPT ![u] = [at |-> now, form |-> "clock"]]
  /\ UNCHANGED <<now, heard>>

\* _is_attention_candidate: an @ of the bot or of all, a quote known to be of the
\* bot, its name, a question.
Addresses == [at : {"bot", "all", "other", "nobody"}, quotes : {"bot", "other", "unknown", "nobody"}, asks : BOOLEAN]
Candidate(m) == m.at \in {"bot", "all"} \/ m.quotes = "bot" \/ m.asks

\* What WindowIsTrue measures the code by: the time since the bot answered the user.
Since(u) == now - answer[u].at
Midnight(u) == answer[u].form = "clock" /\ HHmm(answer[u].at) = 0
Lasts(u) == IF answer[u].form = "clock" THEN Minute * Most(1, Window \div Minute) ELSE Window
Owed(u) == answer[u] # Never /\ Since(u) <= Lasts(u)
Spent(u) ==
  \/ answer[u] = Never
  \/ answer[u].form = "epoch" /\ Since(u) > Window
  \/ answer[u].form = "clock" /\ \A days \in 0..(Since(u) \div Day) + 1 : AbsDiff(Since(u), days * Day) >= Most(Window, Minute) + Minute

\* run(): a message is weighed before it joins the batch; a failing read counts as no.
Hear(u, m, fails) ==
  /\ LET within == Window > 0 /\ ~fails /\ Within(stamp[u], now)
     IN heard' = [attended |-> within \/ Candidate(m), addressed |-> Candidate(m), failed |-> fails,
                  owed |-> Owed(u) /\ ~Midnight(u), spent |-> Spent(u)]
  /\ UNCHANGED <<now, stamp, answer>>

Tick == /\ \E t \in Times : t > now /\ now' = t
        /\ UNCHANGED <<stamp, answer, heard>>

Next ==
  \/ \E u \in Users : Answer(u) \/ Rule(u) \/ \E m \in Addresses, fails \in BOOLEAN : Hear(u, m, fails)
  \/ Tick

Spec == Init /\ [][Next]_vars

--------------------------------------------------------------------------------
\* The type invariant: stamps of either form stay told apart.
TypeOK ==
  \A u \in Users :
    \/ stamp[u] = None
    \/ stamp[u] \in Nat /\ (stamp[u] <= 2359 \/ stamp[u] >= Epoch)

\* Whoever the bot has answered is heard for the window, in whole minutes if the
\* rules kept the time, across midnight too, but for the minute that is written as
\* zero; and, not addressing it, for no more than a minute longer, though a time of
\* day comes back every day.
WindowIsTrue ==
  /\ heard.owed /\ ~heard.failed => heard.attended
  /\ heard.spent /\ ~heard.addressed => ~heard.attended

\* The same at midnight: _parse_attention_stamp takes "0" for never written.
MidnightIsHeard == \A u \in Users : Owed(u) => Within(stamp[u], now)
================================================================================
