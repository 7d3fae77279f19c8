----------------------------- MODULE ContextFit -----------------------------
(* fit_messages_to_budget (context.py): the newest part of a prompt that fits a     *)
(* token budget. A message is [role, size, calls]: the tokens of its text and the  *)
(* number of tool calls it makes. A message that makes calls and its results are   *)
(* one block; a block is kept whole, clipped, or left out.                          *)
EXTENDS Integers, Sequences, FiniteSetsExt

\* A message costs its text, its calls, and one for the envelope.
Cost(s) ==
  LET sum[n \in 0..Len(s)] == IF n = 0 THEN 0 ELSE sum[n - 1] + s[n].size + s[n].calls + 1
  IN sum[Len(s)]

Joined(bs) == LET upto[n \in 0..Len(bs)] == IF n = 0 THEN <<>> ELSE upto[n - 1] \o bs[n] IN upto[Len(bs)]

\* The calls of s[i] are answered by the messages that follow it.
Whole(s, i) == /\ i + s[i].calls <= Len(s)
               /\ \A k \in 1..s[i].calls : s[i + k].role = "tool"


\* _message_blocks: incomplete blocks and stray results are left out.
Blocks(s) ==
  LET starts == SelectSeq([k \in DOMAIN s |-> k], LAMBDA i : s[i].role # "tool" /\ Whole(s, i))
  IN [k \in DOMAIN starts |-> SubSeq(s, starts[k], starts[k] + s[starts[k]].calls)]

System(s) == IF s # <<>> /\ s[1].role = "system" THEN <<s[1]>> ELSE <<>>
Rest(s) == SubSeq(s, Len(System(s)) + 1, Len(s))

\* _truncate_message_to_budget: the end of the text is kept, if any of it fits.
Clip(m, max) ==
  IF m.size + m.calls + 1 <= max THEN <<m>>
  ELSE LET size == max - m.calls - 1 IN IF size > 0 THEN <<[m EXCEPT !.size = size]>> ELSE <<>>

\* _truncate_block_to_budget: the results lose their text, the oldest first.
ClipBlock(b, max) ==
  IF Len(b) = 1 THEN Clip(b[1], max)
  ELSE LET bare == Len(b) - 1
           asked == Clip(b[1], max - bare)
           left == max - bare - Cost(asked)
           \* room for the text of result n, once the newer ones have theirs
           room[n \in 2..Len(b)] == IF n = Len(b) THEN left ELSE room[n + 1] - Min({b[n + 1].size, room[n + 1]})
       IN IF asked = <<>> THEN <<>>
          ELSE asked \o [k \in 1..bare |-> [b[k + 1] EXCEPT !.size = Min({@, room[k + 1]})]]

\* From the newest block to the oldest: what fits is kept, the first that can be
\* clipped is the last one taken; one that cannot be clipped is passed over.
Newest(bs, max) ==
  LET take[n \in 1..(Len(bs) + 1)] ==
        IF n > Len(bs) THEN [kept |-> <<>>, used |-> 0, full |-> FALSE]
        ELSE LET acc == take[n + 1]
                 cost == Cost(bs[n])
                 clipped == ClipBlock(bs[n], max - acc.used)
             IN IF acc.full THEN acc
                ELSE IF acc.used + cost <= max
                     THEN [acc EXCEPT !.kept = bs[n] \o @, !.used = @ + cost]
                     ELSE IF clipped = <<>> THEN [acc EXCEPT !.full = acc.used >= max]
                          ELSE [acc EXCEPT !.kept = clipped \o @, !.full = TRUE]
  IN take[1].kept

\* fit_messages_to_budget: the system message stays, or alone is left of the prompt.
Fit(s, max) ==
  LET system == System(s)
      blocks == Blocks(Rest(s))
      normal == system \o Joined(blocks)
      room == max - Cost(system)
  IN IF Cost(normal) <= max THEN normal
     ELSE IF system # <<>> /\ room <= 0 THEN Clip(s[1], max)
     ELSE system \o Newest(blocks, room)

\* What a provider accepts: every call answered at once, no answer without a call.
WellFormed(s) ==
  \A i \in DOMAIN s : Whole(s, i) /\ (s[i].role = "tool" => \E j \in 1..(i - 1) : s[j].calls >= i - j)
================================================================================
