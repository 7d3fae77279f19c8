-------------------------------- MODULE DslFlat --------------------------------
(***************************************************************************)
(* What a handler means, without frames, signals and flags: its bodies are *)
(* laid out one after the other, and every jump goes to the nearest        *)
(* enclosing label of that name, found once, in the text (vm.py:67-84).    *)
(***************************************************************************)
EXTENDS DslVM

RECURSIVE Size(_)
Size(body) ==
  FoldLeft(LAMBDA n, s : n + 1 + (IF s.op = "if" THEN Size(s.body) ELSE 0), 0, body)

\* Where statement i of a body that is laid out from position base begins.
Position(body, base, i) == base + Size(SubSeq(body, 1, i - 1))

LabelsOf(body) == {body[i].name : i \in {j \in DOMAIN body : body[j].op = "label"}}

\* The positions of the labels that can be reached from inside a body.
Reach(body, base, env) ==
  [l \in LabelsOf(body) \cup DOMAIN env |->
     IF l \in LabelsOf(body) THEN Position(body, base, LabelIn(body, l)) ELSE env[l]]

RECURSIVE Layout(_, _, _)
Layout(body, base, outer) ==
  LET env == Reach(body, base, outer)
      laid(i) ==
        LET s == body[i] at == Position(body, base, i) IN
        CASE s.op = "if" ->
               <<[op |-> "unless", condition |-> s.condition, to |-> at + 1 + Size(s.body)]>>
                 \o Layout(s.body, at + 1, env)
          [] s.op = "jump" ->
               <<[op |-> "goto", to |-> IF s.name \in DOMAIN env THEN env[s.name] ELSE 0]>>
          [] OTHER -> <<s>>
  IN FlattenSeq([i \in DOMAIN body |-> laid(i)])

Broken == [ok |-> FALSE, segments |-> <<>>]

RECURSIVE Flow(_, _, _, _)

\* A handler from its first statement on, called at the given depth.
Meaning(h, depth, steps, output) ==
  Flow(Layout(Handlers[h].body, 1, <<>>), 1, Fresh(h, steps, output), depth)

Put(code, at, vm, depth, segments) ==
  IF Len(vm.segments) + Len(segments) > vm.maxOutput THEN Broken
  ELSE Flow(code, at, [vm EXCEPT !.segments = @ \o segments], depth)

Flow(code, at, before, depth) ==
  LET vm == [before EXCEPT !.steps = @ + 1]
      s == code[at]
      called == IF depth >= MaxDepth \/ (s.op = "inline" /\ ~event.inline) THEN Broken
                ELSE Meaning(s.handler, depth + 1, InnerSteps, InnerOutput)
  IN
  CASE at = 0 \/ at > Len(code) -> [ok |-> TRUE, segments |-> before.segments]
    [] at \in 1 .. Len(code) ->
       CASE before.steps >= before.maxSteps -> Broken
         [] before.steps < before.maxSteps ->
            CASE s.op = "goto" -> Flow(code, s.to, vm, depth)
              [] s.op = "return" -> Flow(code, 0, vm, depth)
              [] s.op = "unless" ->
                   Flow(code, IF Holds(vm, s.condition) THEN at + 1 ELSE s.to, vm, depth)
              [] s.op = "assign" ->
                   Flow(code, at + 1, Assigned(vm, s.var, Arith(vm, s.from, s.plus)), depth)
              [] s.op = "out" /\ (s.kind # "reply" \/ Text(vm, s.parts) # Empty) ->
                   Put(code, at + 1, vm, depth, <<Segment(s.kind, Text(vm, s.parts))>>)
              [] s.op = "tool" /\ s.tool = "broken" -> Broken
              [] s.op = "tool" /\ s.tool = "renderer" /\ Value(vm, s.var) # Empty ->
                   Put(code, at + 1, vm, depth, <<Segment("text", Value(vm, s.var))>>)
              [] s.op = "callback" ->
                   Flow(code, at + 1,
                        Assigned(vm, s.var, IF called.ok THEN Concat(TextsOf(called.segments)) ELSE Empty),
                        depth)
              [] s.op = "inline" -> Put(code, at + 1, vm, depth, called.segments)
              [] OTHER -> Flow(code, at + 1, vm, depth)

\* Unless the clock ended a handler, what has been sent for an event is what
\* the handler means, and nothing when it means an error; the ledger says which.
MeansWhatItSays ==
  phase = "idle" /\ chosen # None /\ late = 0 =>
    LET meaning == Meaning(chosen, 0, MaxSteps, MaxOutput) IN
    /\ Last(sent) = Action(meaning.segments)
    /\ Exposed(chosen) =>
         Last(ledger).outcome = (IF meaning.ok THEN "ok" ELSE "error")
===============================================================================
