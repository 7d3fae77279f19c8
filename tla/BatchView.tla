------------------------------ MODULE BatchView ------------------------------
(* What a group's batch shows the model (group_batch.py): whom a message is meant  *)
(* for, which messages read_batch picks, and what of the batch an answer is kept   *)
(* with. Messages are named by their place in the batch, the last part of a reply. *)
EXTENDS Integers, Sequences, FiniteSets, SequencesExt

CONSTANTS
  Bot,      \* its user id
  MaxRead   \* _MAX_READ_MESSAGES

Everyone == "all"
Someone == "someone"

--------------------------------------------------------------------------------
\* What _to_buffered takes from an event: its at segments, whether it names the bot or
\* quotes a message, and the senders its raw frame tells of that message.
MentionsBot(e) == e.named \/ Contains(e.ats, Bot)
MentionsAll(e) == Contains(e.ats, Everyone)
RepliesToBot(e) == e.quotes /\ Contains(e.sources, Bot)

FirstOfEach(s) ==
  LET fresh == {i \in DOMAIN s : \A j \in 1 .. i - 1 : s[j] # s[i]}
      places == SetToSortSeq(fresh, <)
  IN [k \in DOMAIN places |-> s[places[k]]]

\* _other_at_user_ids: those a message is aimed at, the bot and everyone left out.
Others(e) == FirstOfEach(SelectSeq(e.ats, LAMBDA u : u \notin {Bot, Everyone}))

\* _render_at_targets: whoever spoke in the batch by name, all the rest as one someone.
Targets(ats, names) ==
  FirstOfEach([i \in DOMAIN ats |-> IF ats[i] \in names THEN ats[i] ELSE Someone])

\* _render_candidate_line: the first that applies.
Line(e, names) ==
  IF RepliesToBot(e) THEN [to |-> <<"reply to you">>, tag |-> "directed"]
  ELSE IF MentionsBot(e) THEN [to |-> <<"you">>, tag |-> "directed"]
  ELSE IF Others(e) # <<>> THEN [to |-> Targets(Others(e), names), tag |-> "not directed"]
  ELSE IF MentionsAll(e) THEN [to |-> <<Everyone>>, tag |-> "everyone"]
  ELSE [to |-> <<>>, tag |-> "not directed"]

\* _build_tool_prompt: how many of the messages are directed at the bot.
Directed(es) == Cardinality({i \in DOMAIN es : MentionsBot(es[i]) \/ RepliesToBot(es[i])})

--------------------------------------------------------------------------------
\* _message_by_id: of two messages with one id, the later.
ById(ids, id) == CHOOSE i \in DOMAIN ids : ids[i] = id /\ \A j \in i + 1 .. Len(ids) : ids[j] # id

Valid(ids, line) == line \in DOMAIN ids

\* _select_batch_messages: by ids, by lines and by a range, each id once, in order.
Asked(args, ids) ==
  LET known == SelectSeq(args.ids, LAMBDA id : Contains(ids, id))
      low == IF args.first < 1 THEN 1 ELSE args.first
      high == IF args.last > Len(ids) THEN Len(ids) ELSE args.last
  IN [i \in DOMAIN known |-> ById(ids, known[i])]
     \o SelectSeq(args.lines, LAMBDA line : Valid(ids, line))
     \o (IF args.ranged /\ low <= high THEN [i \in 1 .. high - low + 1 |-> low + i - 1] ELSE <<>>)

Select(args, ids) ==
  LET asked == Asked(args, ids)
      fresh == {i \in DOMAIN asked : \A j \in 1 .. i - 1 : ids[asked[j]] # ids[asked[i]]}
  IN SetToSortSeq({asked[i] : i \in fresh}, <)

\* _tool_read_batch: the first few, or an error.
Read(args, ids) ==
  LET picked == Select(args, ids) IN
  [ok |-> picked # <<>>, lines |-> SubSeq(picked, 1, IF Len(picked) > MaxRead THEN MaxRead ELSE Len(picked))]

\* _tool_reply_to_message: an answer is kept with the message it quotes, and none is given to
\* an unknown one; _tool_send_group, which quotes nothing: with the batch.
Nothing == "nothing"
Kept(quoted, ids) ==
  IF quoted = Nothing THEN [i \in DOMAIN ids |-> i]
  ELSE IF Contains(ids, quoted) THEN <<ById(ids, quoted)>> ELSE <<>>

--------------------------------------------------------------------------------
\* group_batch.py:1850: a number never stands for a person, and the unknown are one.
NamesOnly(e, names) ==
  LET to == Line(e, names).to IN
  /\ ToSet(to) \subseteq names \cup {"reply to you", "you", Everyone, Someone}
  /\ Cardinality({i \in DOMAIN to : to[i] = Someone}) <= 1

\* group_batch.py:1698: the header counts the messages whose lines say "directed at you".
HeaderIsTrue(es, names) == Directed(es) = Cardinality({i \in DOMAIN es : Line(es[i], names).tag = "directed"})

\* group_batch.py:2240-2267: what is picked is what was asked, in the batch's order, each
\* id once; a message stands for those that share its id.
PickIsAsked(args, ids) ==
  LET picked == Select(args, ids)
      wanted == {i \in DOMAIN ids : \/ Contains(args.ids, ids[i]) \/ Contains(args.lines, i)
                                    \/ args.ranged /\ args.first <= i /\ i <= args.last}
  IN /\ \A i, j \in DOMAIN picked : i < j => picked[i] < picked[j] /\ ids[picked[i]] # ids[picked[j]]
     /\ {ids[i] : i \in ToSet(picked)} = {ids[i] : i \in wanted}
     /\ Read(args, ids).ok = (wanted # {})

\* An answer is kept with the message it quotes.
QuoteIsKept(quoted, ids) ==
  {ids[i] : i \in ToSet(Kept(quoted, ids))} = ToSet(ids) \cap (IF quoted = Nothing THEN ToSet(ids) ELSE {quoted})

\* group_batch.py:1872: a message to everyone says so, or that it is the bot's.
EveryoneIsTold(e, names) == MentionsAll(e) => Line(e, names).tag # "not directed"
================================================================================
