--------------------------------- MODULE DslVM ---------------------------------
(***************************************************************************)
(* A message meets the DSL rules: the classifier (core/classifier.py)      *)
(* picks a handler, the dispatcher (dsl/dispatcher.py) runs it in a VM     *)
(* (dsl/vm.py), merges its output into one reply and notes the run in the  *)
(* ledger (dsl/ledger.py).  A handler may run an internal handler in a VM  *)
(* of its own (tools-stdlib: $callback$ and $call 0$).                     *)
(*                                                                         *)
(* Values are numerals, as the DSL's strings mostly are; Empty is "", Hole *)
(* a text with an unresolved %placeholder% in it.  A statement is a        *)
(* record; the body of an "if" is inside it.                               *)
(***************************************************************************)
EXTENDS Integers, Sequences, FiniteSets, SequencesExt, FiniteSetsExt

CONSTANTS
  Handlers,    \* name -> [triggers, literal, internal, expose, mode, body]
  Order,       \* the names in the order of the rule file
  Events,      \* what may be received
  DefaultExpose,  \* global_default_expose
  MaxSteps, MaxOutput,      \* limits of a handler the dispatcher runs
  InnerSteps, InnerOutput,  \* VM's defaults, which an inner handler gets
  Stride,      \* the clock is looked at every so many steps
  MaxDepth,    \* _CALLBACK_MAX_DEPTH
  MaxEvents,   \* bound: how many events come
  MaxLate      \* bound: how often a handler is found to be late

ASSUME LimitsAssumption ==
  /\ MaxSteps \in Nat /\ InnerSteps \in Nat /\ MaxOutput \in Nat /\ InnerOutput \in Nat
  /\ Stride \in Nat \ {0} /\ MaxDepth \in Nat

VARIABLES
  stack,    \* the VMs under way, the outermost first
  phase,    \* idle, running, or how the outermost handler has ended
  event,    \* the event being handled
  chosen,   \* the handler it was matched with
  sent,     \* what has been sent: one sequence of segments per event
  ledger,   \* session.dsl_events
  count,    \* how many events have come
  late      \* how often a handler was found to be late

vars == <<stack, phase, event, chosen, sent, ledger, count, late>>

Empty == -2
Hole == -1
None == "none"

-------------------------------------------------------------------------------
(* The classifier.                                                         *)

Public == SelectSeq(Order, LAMBDA h : ~Handlers[h].internal)

\* The first declaration of a literal wins over every pattern; then the first
\* pattern that matches in full.
MatchDsl(text) ==
  LET fits(h, literal) == Handlers[h].literal = literal /\ text \in Handlers[h].triggers
      first(literal) == SelectInSeq(Public, LAMBDA h : fits(h, literal))
      found == IF first(TRUE) # 0 THEN first(TRUE) ELSE first(FALSE)
  IN IF found = 0 THEN None ELSE Public[found]

\* Prefixed messages are commands, known or not; a synthetic event without a
\* handler is dropped; anything else is chat.
Classify(e) ==
  LET h == MatchDsl(e.text)
      intent(kind, match) == [kind |-> kind, match |-> match] IN
  CASE ~e.message \/ e.own \/ e.blocked -> intent("ignore", None)
    [] e.message /\ ~e.own /\ ~e.blocked ->
         IF h # None \/ e.prefixed THEN intent("command", h)
         ELSE IF e.synthetic THEN intent("ignore", None)
         ELSE intent("chat", None)

-------------------------------------------------------------------------------
(* Values, conditions and output.                                          *)

\* %var%: the handler's own variables, then those of the event.
Known(vm, v) == v \in DOMAIN vm.scope \/ v \in DOMAIN event.context

Value(vm, v) ==
  IF v \in DOMAIN vm.scope THEN vm.scope[v]
  ELSE IF v \in DOMAIN event.context THEN event.context[v] ELSE Hole

\* [%var% + n]: a variable that is not known counts as 0; a text that is no
\* expression is kept.
Arith(vm, v, n) ==
  CASE ~Known(vm, v) \/ Value(vm, v) = Empty -> n
    [] Known(vm, v) /\ Value(vm, v) = Hole -> Hole
    [] OTHER -> Value(vm, v) + n

\* Texts one after the other, as one.
Concat(texts) ==
  FoldLeft(LAMBDA acc, t : CASE acc = Empty -> t
                             [] acc # Empty /\ t = Empty -> acc
                             [] acc = Hole \/ (acc # Empty /\ t = Hole) -> Hole
                             [] OTHER -> 10 * acc + t,
           Empty, texts)

\* The parts of a line, each with its placeholders filled in.
Text(vm, parts) == Concat([i \in DOMAIN parts |-> Value(vm, parts[i])])

\* One comparison.  What is no number is compared as text, where "" and "%"
\* come before the digits.
Compare(vm, c) ==
  LET val == IF Known(vm, c.var) THEN Value(vm, c.var) ELSE Empty IN
  CASE c.op = "<" -> val < c.than
    [] c.op = "==" -> val = c.than
    [] c.op = "truthy" -> val \notin {0, Empty}

\* "|" splits before "&".
Holds(vm, condition) ==
  \E clause \in condition : \A c \in clause : Compare(vm, c)

Segment(kind, value) == [kind |-> kind, value |-> value]

TextsOf(segments) ==
  LET texts == SelectSeq(segments, LAMBDA s : s.kind = "text")
  IN [i \in DOMAIN texts |-> texts[i].value]

\* Neighbouring texts become one segment, and the first reply goes to the head.
Merge(segments) ==
  FoldLeft(LAMBDA acc, s :
             IF s.kind = "text" /\ acc # <<>> /\ Last(acc).kind = "text"
             THEN Front(acc) \o <<Segment("text", Concat(<<Last(acc).value, s.value>>))>>
             ELSE Append(acc, s),
           <<>>, segments)

Hoist(segments) ==
  LET i == SelectInSeq(segments, LAMBDA s : s.kind = "reply")
  IN IF i = 0 THEN segments ELSE <<segments[i]>> \o RemoveAt(segments, i)

Action(segments) == Hoist(Merge(segments))

-------------------------------------------------------------------------------
(* The VMs.                                                                *)

Frame(body, at) == [body |-> body, at |-> at]

\* A fresh execution of handler h.
Fresh(h, steps, output) ==
  [frames |-> <<Frame(Handlers[h].body, 1)>>, scope |-> <<>>, segments |-> <<>>,
   steps |-> 0, maxSteps |-> steps, maxOutput |-> output]

Current == Last(stack)
Here == Last(Current.frames)
Statement == Here.body[Here.at]

Top(vm) == Front(stack) \o <<vm>>

Running(s) == phase' = "running" /\ stack' = s

\* The statement is done: on to the one after it.
Advanced(vm) ==
  [vm EXCEPT !.frames = Front(@) \o <<[Last(@) EXCEPT !.at = @ + 1]>>]

\* Bug: labels and jumps cost nothing.
TickedAtWork(vm) ==
  IF Statement.op \in {"label", "jump"} THEN vm ELSE [vm EXCEPT !.steps = Min({@ + 1, vm.maxSteps})]

\* The steps are counted when a statement begins (no further than the limit).
Ticked(vm) == [vm EXCEPT !.steps = Min({@ + 1, vm.maxSteps})]

Exhausted(vm) == vm.steps >= vm.maxSteps

Assigned(vm, v, value) ==
  [vm EXCEPT !.scope = [u \in DOMAIN @ \cup {v} |-> IF u = v THEN value ELSE @[u]]]

\* An exception ends the innermost VM.  For the outermost that is the end; an
\* inner one was called by a tool that logs the error and returns nothing.
Fail(s) ==
  IF Len(s) = 1
  THEN phase' = "failed" /\ stack' = <<>>
  ELSE LET vm == Advanced(s[Len(s) - 1])
           call == Last(s[Len(s) - 1].frames)
           statement == call.body[call.at]
           resumed == IF statement.op = "callback" THEN Assigned(vm, statement.var, Empty) ELSE vm
       IN Running(SubSeq(s, 1, Len(s) - 2) \o <<resumed>>)

\* Output is appended one segment at a time, each time within the limit.
Emit(s, vm, segments) ==
  LET out == vm.segments \o segments IN
  IF Len(out) > vm.maxOutput THEN Fail(s)
  ELSE Running(Front(s) \o <<[vm EXCEPT !.segments = out]>>)

\* A statement that begins within the limits.
Begins(op) ==
  /\ phase = "running" /\ Current.frames # <<>> /\ Here.at <= Len(Here.body)
  /\ Statement.op = op /\ ~Exhausted(Current)

Same == UNCHANGED <<event, chosen, sent, ledger, count, late>>

Init ==
  /\ stack = <<>> /\ phase = "idle" /\ event = None /\ chosen = None
  /\ sent = <<>> /\ ledger = <<>> /\ count = 0 /\ late = 0

\* Router: classify, and dispatch a command that has a handler.
Receive(e) ==
  LET intent == Classify(e) IN
  /\ phase = "idle" /\ count < MaxEvents
  /\ count' = count + 1 /\ event' = e /\ chosen' = intent.match
  /\ IF intent.kind = "command" /\ intent.match # None
     THEN Running(<<Fresh(intent.match, MaxSteps, MaxOutput)>>) /\ UNCHANGED sent
     ELSE /\ UNCHANGED <<stack, phase>> /\ sent' = Append(sent, <<>>)
  /\ UNCHANGED <<ledger, late>>

\* SandboxError: too many steps, or too late when the clock is looked at.
Overrun ==
  /\ phase = "running" /\ Current.frames # <<>> /\ Here.at <= Len(Here.body)
  /\ Exhausted(Current)
  /\ Fail(stack) /\ Same

TooLate ==
  /\ phase = "running" /\ Current.frames # <<>> /\ Here.at <= Len(Here.body)
  /\ ~Exhausted(Current) /\ (Current.steps + 1) % Stride = 0 /\ late < MaxLate
  /\ late' = late + 1
  /\ Fail(stack)
  /\ UNCHANGED <<event, chosen, sent, ledger, count>>

Assign ==
  /\ Begins("assign")
  /\ Running(Top(Assigned(Advanced(Ticked(Current)), Statement.var,
                          Arith(Current, Statement.from, Statement.plus))))
  /\ Same

\* The "if" is done when its body is: the frame below already stands after it.
If ==
  /\ Begins("if")
  /\ LET vm == Advanced(Ticked(Current)) IN
     Running(Top(IF Holds(Current, Statement.condition)
                 THEN [vm EXCEPT !.frames = Append(@, Frame(Statement.body, 1))]
                 ELSE vm))
  /\ Same

\* The flag is looked at before every statement, in every body on the way out.
Return ==
  /\ Begins("return")
  /\ Running(Top([Ticked(Current) EXCEPT !.frames = <<>>])) /\ Same

Label == Begins("label") /\ Running(Top(Advanced(Ticked(Current)))) /\ Same

LabelIn(body, name) ==
  SelectInSeq(body, LAMBDA s : s.op = "label" /\ s.name = name)

\* Bug: only the body with the jump and the handler's own are searched.
OwnersAtEnds(vm, name) ==
  {i \in {1, Len(vm.frames)} : LabelIn(vm.frames[i].body, name) # 0}

\* _JumpSignal bubbles up through the bodies to the first that has the label.
Owners(vm, name) == {i \in DOMAIN vm.frames : LabelIn(vm.frames[i].body, name) # 0}

\* A label that no body has ends the handler; its output is kept.
Jump ==
  /\ Begins("jump")
  /\ LET owners == Owners(Current, Statement.name)
         depth == IF owners = {} THEN 0 ELSE Max(owners)
         body == Current.frames[depth].body
     IN Running(Top([Ticked(Current) EXCEPT !.frames =
          IF depth = 0 THEN <<>>
          ELSE SubSeq(@, 1, depth - 1) \o <<Frame(body, LabelIn(body, Statement.name))>>]))
  /\ Same

\* Text, image, voice, flash image; a reply only with a message id.
Output ==
  /\ Begins("out")
  /\ LET vm == Advanced(Ticked(Current))
         value == Text(Current, Statement.parts)
     IN IF Statement.kind = "reply" /\ value = Empty
        THEN Running(Top(vm))
        ELSE Emit(stack, vm, <<Segment(Statement.kind, value)>>)
  /\ Same

\* A tool on a line of its own: renderers emit their result, others are silent,
\* and any may raise.
Tool ==
  /\ Begins("tool")
  /\ LET vm == Advanced(Ticked(Current))
         value == Value(Current, Statement.var)
     IN CASE Statement.tool = "broken" -> Fail(stack)
          [] Statement.tool = "renderer" /\ value # Empty ->
               Emit(stack, vm, <<Segment("text", value)>>)
          [] OTHER -> Running(Top(vm))
  /\ Same

TooDeep == Len(stack) > MaxDepth

\* $callback$ and $call 0$ run another handler before they return, unless that
\* is nested too deep.  (Where calls are not inlined $call 0$ is Scheduler's.)
Call(op) ==
  /\ Begins(op)
  /\ LET vm == Ticked(Current)
         refused == IF op = "callback" THEN Assigned(vm, Statement.var, Empty) ELSE vm
     IN IF TooDeep \/ (op = "inline" /\ ~event.inline)
        THEN Running(Top(Advanced(refused)))
        ELSE Running(Top(vm) \o <<Fresh(Statement.handler, InnerSteps, InnerOutput)>>)
  /\ Same

\* The end of a body: back to the statement after the "if".
EndOfBody ==
  /\ phase = "running" /\ Current.frames # <<>> /\ Here.at > Len(Here.body)
  /\ Running(Top([Current EXCEPT !.frames = Front(@)])) /\ Same

\* An inner handler's text is the value of a $callback$; all it put out is
\* taken over by a $call 0$.
EndOfCall ==
  /\ phase = "running" /\ Current.frames = <<>> /\ Len(stack) > 1
  /\ LET below == Front(stack)
         caller == Last(below)
         at == Last(caller.frames)
         call == at.body[at.at]
         vm == Advanced(caller)
     IN IF call.op = "callback"
        THEN Running(Front(below) \o
               <<Assigned(vm, call.var, Concat(TextsOf(Current.segments)))>>)
        ELSE Emit(below, vm, Current.segments)
  /\ Same

\* LedgerWriter.append: whether, and how much, the model is told of a run.
Exposed(h) ==
  CASE Handlers[h].expose # None -> Handlers[h].expose = "yes"
    [] Handlers[h].expose = None -> ~Handlers[h].internal /\ DefaultExpose

Summary(h, outcome, texts) ==
  IF outcome = "error" \/ Handlers[h].mode = "trigger_only" THEN Empty ELSE Concat(texts)

Recorded(outcome, texts) ==
  IF ~Exposed(chosen) THEN ledger
  ELSE Append(ledger, [trigger |-> chosen, outcome |-> outcome,
                       summary |-> Summary(chosen, outcome, texts)])

\* DslCommandDispatcher.run: one action, or none; an error is noted and raised.
Done ==
  /\ phase = "running" /\ Current.frames = <<>> /\ Len(stack) = 1
  /\ ledger' = Recorded("ok", TextsOf(Current.segments))
  /\ sent' = Append(sent, Action(Current.segments))
  /\ stack' = <<>> /\ phase' = "idle"
  /\ UNCHANGED <<event, chosen, count, late>>

Failed ==
  /\ phase = "failed"
  /\ ledger' = Recorded("error", <<>>)
  /\ sent' = Append(sent, <<>>)
  /\ phase' = "idle"
  /\ UNCHANGED <<stack, event, chosen, count, late>>

Work ==
  \/ Overrun \/ TooLate \/ Assign \/ If \/ Return \/ Label \/ Jump \/ Output \/ Tool
  \/ Call("callback") \/ Call("inline") \/ EndOfBody \/ EndOfCall \/ Done \/ Failed

Next == Work \/ \E e \in Events : Receive(e)

\* The event loop runs the dispatcher; events need not come.
Spec == Init /\ [][Next]_vars /\ WF_vars(Work)

-------------------------------------------------------------------------------
Phases == {"idle", "running", "failed"}

TypeOK ==
  /\ phase \in Phases
  /\ phase = "running" => stack # <<>>
  /\ Len(stack) <= MaxDepth + 1
  /\ \A i \in DOMAIN stack :
       stack[i].steps <= stack[i].maxSteps /\ Len(stack[i].segments) <= stack[i].maxOutput
  /\ count \in 0 .. MaxEvents /\ late \in 0 .. MaxLate
  /\ Len(sent) + (IF phase = "idle" THEN 0 ELSE 1) = count

\* Whatever a handler jumps to and calls, handlers that call each other
\* included, its dispatch ends and the session is free again (vm.py:717,
\* legacy_stubs.py:113).
AtRest == phase = "idle"

Ends == []<>AtRest
===============================================================================
