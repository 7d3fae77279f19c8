------------------------------ MODULE MCDispatch ------------------------------
(***************************************************************************)
(* Instances for TLC of what stands between a chat network and a rule: the *)
(* codec of messages, the router's queues, the parser of rule files, a     *)
(* handler's run in the VM, and the pond its rules are about.  In a        *)
(* behaviour one of them moves, which "part" names, and the others stay as *)
(* they began; the parser and the codec only begin, once with each source  *)
(* and frame.                                                              *)
(***************************************************************************)
EXTENDS DslFlat, TLC

CONSTANTS
  Parts,    \* which may move
  NoEvent   \* of a delivery of the router

VARIABLES
  part,
  source,                                                                   \* DslParser
  frame,                                                                    \* Messages
  rows, task, caught, told, casts, enchants, crashes,                       \* Fishing
  carried, at, turn, permits, seen, accepted, session, stored, used, locked \* Router

vm == <<stack, phase, event, chosen, sent, ledger, count, late>>
pond == <<rows, task, caught, told, casts, enchants, crashes>>
router == <<carried, at, turn, permits, seen, accepted, session, stored, used, locked>>

\* Three events of one conversation, two permits, and a store of one session.
Incoming(id, kind) == [id |-> id, key |-> "k", kind |-> kind]
Deliveries == {"d1", "d2", "d3"}
Routing == INSTANCE Router
  WITH Deliveries <- Deliveries, Events <- {Incoming(1, "chat"), Incoming(2, "reset"),
         Incoming(3, "unknown"), Incoming(4, "ignore"), Incoming(5, "cancel")},
       None <- NoEvent, MaxConcurrent <- 2, MaxSessions <- 1, MaxSeen <- 3, event <- carried, pc <- at

\* One player with a fish in the older bucket, and a fish of each worth.
Pond == INSTANCE Fishing
  WITH Tasks <- {"c"}, Species <- {"dragon", "carp", "boot"},
       Tier <- [dragon |-> "legend", carp |-> "common", boot |-> "junk"],
       BaseValue <- [dragon |-> 5, carp |-> 2, boot |-> 0],
       OldCatch <- [dragon |-> 0, carp |-> 1, boot |-> 0],
       Times <- {-1, 24, 25, 100, 200, 300, 900},
       Price <- 3, Charges <- 1, MaxCasts <- 3, MaxEnchants <- 1, MaxCrashes <- 0

--------------------------------------------------------------------------------
(***************************************************************************)
(* A rule file with loops out of nested bodies, a label of the same name   *)
(* in two bodies, a jump nowhere, handlers that call each other, errors    *)
(* and too much output; each handler with the values 0, 1 and 2 of %x%.    *)
(***************************************************************************)

Set(v, from, n) == [op |-> "assign", var |-> v, from |-> from, plus |-> n]
When(v, op, n, body) ==
  [op |-> "if", condition |-> {{[var |-> v, op |-> op, than |-> n]}}, body |-> body]
WhenAll(cs, body) == [op |-> "if", condition |-> {cs}, body |-> body]
Is(v, op, n) == [var |-> v, op |-> op, than |-> n]
LabelHere(l) == [op |-> "label", name |-> l]
Goto(l) == [op |-> "jump", name |-> l]
Say(kind, v) == [op |-> "out", kind |-> kind, parts |-> <<v>>]
Use(tool, v) == [op |-> "tool", tool |-> tool, var |-> v]
CallBack(h, v) == [op |-> "callback", handler |-> h, var |-> v]
Inline(h) == [op |-> "inline", handler |-> h, var |-> "none"]
Stop == [op |-> "return"]

Rule(triggers, literal, internal, expose, mode, body) ==
  [triggers |-> triggers, literal |-> literal, internal |-> internal,
   expose |-> expose, mode |-> mode, body |-> body]

MCHandlers ==
  [ loop |-> Rule({"loop"}, TRUE, FALSE, None, None,
      <<Set("i", "i", 0), LabelHere("again"), Set("i", "i", 1), Say("text", "i"),
        When("i", "<", 3,
             <<When("x", "==", 1, <<When("i", "<", 2, <<Goto("again")>>), Say("image", "x")>>),
               When("x", "==", 2, <<LabelHere("again"), Goto("again")>>),
               When("x", "<", 1, <<Stop>>)>>),
        Say("reply", "x"), Say("text", "nowhere")>>),
    knot |-> Rule({"knot", "any"}, FALSE, FALSE, "yes", "trigger_only",
      <<CallBack("ping", "r"), When("r", "truthy", 0, <<Say("text", "r")>>),
        WhenAll({Is("x", "truthy", 0), Is("r", "<", 9)}, <<Inline("pong"), Goto("nowhere")>>),
        Use("renderer", "x"), Use("silent", "x")>>),
    maze |-> Rule({"maze"}, FALSE, FALSE, None, None,
      <<Set("i", "x", 0), When("x", "<", 3,
         <<LabelHere("deep"), Set("i", "i", 1), When("i", "<", 4,
              <<When("i", "truthy", 0, <<[Say("text", "i") EXCEPT !.parts = <<"i", "x">>], Goto("deep")>>)>>)>>),
        Use("renderer", "i")>>),
    flood |-> Rule({"flood", "any"}, FALSE, FALSE, "no", None,
      <<LabelHere("more"), Inline("spout"), When("x", "<", 2, <<Goto("more")>>)>>),
    ping |-> Rule({"ping"}, TRUE, TRUE, None, None,
      <<Set("y", "x", 1), Say("text", "y"), Inline("pong"), Say("reply", "x")>>),
    pong |-> Rule({"pong"}, TRUE, TRUE, None, None,
      <<Say("text", "x"), CallBack("ping", "s"), When("x", "<", 1, <<Use("broken", "x")>>)>>),
    spout |-> Rule({"spout"}, TRUE, TRUE, None, None,
      <<Say("voice", "x"), When("x", "==", 2, <<LabelHere("on"), Goto("on")>>)>>) ]

MCOrder == <<"ping", "knot", "loop", "maze", "flood", "pong", "spout">>

Message(text, x, inline) ==
  [message |-> TRUE, own |-> FALSE, blocked |-> FALSE, synthetic |-> FALSE, prefixed |-> FALSE,
   text |-> text, inline |-> inline, context |-> IF x = 3 THEN <<>> ELSE [x |-> x]]

MCEvents ==
  {Message(text, x, inline) : text \in {"loop", "knot", "maze", "flood", "any"},
                              x \in 0 .. 3, inline \in BOOLEAN}
    \cup {Message("ping", 1, TRUE), [Message("hello", 1, TRUE) EXCEPT !.prefixed = TRUE],
          [Message("hello", 1, TRUE) EXCEPT !.synthetic = TRUE],
          [Message("loop", 1, TRUE) EXCEPT !.own = TRUE]}

--------------------------------------------------------------------------------
Parser == INSTANCE DslParser

\* What is parsed: the lines of a file, and a text.
UpTo(n, S) == UNION {[1 .. m -> S] : m \in 0 .. n}
Sources ==
  [lines : UpTo(5, {"blank", "comment", "if", "endif", "text", "return", "typo"}), text : {<<>>}]
    \cup [lines : {<<>>}, text : UpTo(5, {"%", "$", "[", "]", "@", " ", "a"})]

Net == INSTANCE Messages WITH SelfId <- "bot", None <- "none"

\* Items of each type with their fields there, empty or absent, messages of two of
\* them, and a frame of each kind.
Some(names) == UNION {[some -> {"", "v"}] : some \in SUBSET names}
Items ==
  {[type |-> t, data |-> d] :
     t \in {"text", "at", "json", "poke", "reply", "xml"}, d \in Some({"text", "qq", "id", "data"})}
    \cup {[type |-> t, data |-> d] :
           t \in {"image", "file", "record", "video", "mface", "bface", "unknown"},
           d \in Some({"url", "file", "alt", "id", "size", "duration", "subType", "name"})}
Short == {[type |-> t, data |-> d] : t \in Net!Known \cup {"unknown"}, d \in Some({"id"})}
Frames ==
  {[post |-> post, type |-> type, sub |-> sub, user |-> user, target |-> "bot",
    group |-> group, message |-> message] :
     post \in {"message", "notice", "request", "meta_event"}, user \in {"", "u", "bot"},
     type \in {"group", "private", "notify", "group_increase", "group_decrease", "group_admin", "other"},
     sub \in {"", "poke"}, group \in {"", "0", "g"}, message \in {<<>>}}
Says(message) == [post |-> "message", type |-> "group", sub |-> "", user |-> "u", target |-> "",
                   group |-> "g", message |-> message]
NoFrame == [Says(<<>>) EXCEPT !.post = "meta_event"]

MCInit ==
  /\ part \in Parts
  /\ frame \in IF part = "wire"
               THEN Frames \cup {Says(<<i>>) : i \in Items} \cup {Says(<<i, j>>) : i, j \in Short}
               ELSE {NoFrame}
  /\ source \in IF part = "parser" THEN Sources ELSE {[lines |-> <<>>, text |-> <<>>]}
  /\ Init
  /\ Pond!Init
  /\ Routing!Init

MCNext ==
  \/ part = "vm" /\ Next /\ UNCHANGED <<part, source, frame, pond, router>>
  \/ part = "router" /\ Routing!Next /\ UNCHANGED <<part, source, frame, vm, pond>>
  \/ part = "pond" /\ Pond!Next /\ UNCHANGED <<part, source, frame, vm, router>>

\* The fairness of the part that moves.
MCSpec ==
  /\ MCInit /\ [][MCNext]_<<part, source, frame, vm, pond, router>>
  /\ WF_vm(part = "vm" /\ Work)
  /\ WF_router(part = "router" /\ \E d \in Deliveries : Routing!Progress(d))

--------------------------------------------------------------------------------
\* DslVM: a handler's run does what its flattened program means, and its frames
\* and output stay within their limits.  DslParser: bodies hold the lines of the
\* file as deep as its conditions stand, and the parts of a text make it up.
\* Messages: answers go back where a frame came from, with all parts of a message.
\* Fishing: what is caught is in the bucket or paid for, once.
RulesAreMeant ==
  /\ TypeOK /\ MeansWhatItSays
  /\ part = "parser" => Parser!BodiesAreMeant(source.lines) /\ Parser!TextIsKept(source.text)
  /\ part = "wire" => Net!AnswersGoBack(frame) /\ Net!PartsSurvive(frame.message)
  /\ Pond!TypeOK /\ Pond!CatchIsWholeAlone

\* A handler's run ends, and a delivery gets to its dispatch or is turned away:
\* again and again, none is under way.
PartsEnd == []<>(AtRest /\ Routing!NobodyWaits)
================================================================================
