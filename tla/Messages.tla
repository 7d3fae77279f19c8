------------------------------ MODULE Messages -------------------------------
(***************************************************************************)
(* What a OneBot frame says and how an answer is put: the events that the  *)
(* adapter makes of a frame (adapter.py), the segments that core's codec   *)
(* makes of a message and back (onebot_codec.py, segments.py), the sink's  *)
(* choice of an adapter (bootstrap.py) and the call that sends an action.  *)
(*                                                                         *)
(* The fields of an item or of a segment are a function from the names of  *)
(* those that are there to strings; a field that is absent is None.        *)
(***************************************************************************)
EXTENDS Sequences, SequencesExt, FiniteSets, FiniteSetsExt, Functions

CONSTANTS SelfId, None

Opt(d, name) == IF name \in DOMAIN d THEN d[name] ELSE None
Get(d, name, default) == IF name \in DOMAIN d THEN d[name] ELSE default
Or(a, b) == IF a \in {None, ""} THEN b ELSE a
Without(d, names) == Restrict(d, DOMAIN d \ names)

\* The function of the fields that are there, of those that say something.
Fields(f) == Restrict(f, {name \in DOMAIN f : f[name] # None})
NonEmpty(f) == Restrict(f, {name \in DOMAIN f : f[name] \notin {None, ""}})

Segment(kind, fields) == [kind |-> kind, fields |-> Fields(fields), extras |-> <<>>]

--------------------------------------------------------------------------------
\* Decoding: an item is [type, data]; those of an unknown type are dropped.

Known == {"text", "image", "at", "reply", "face", "poke", "file", "record", "video", "xml",
          "json", "mface", "bface"}

Decode(item) ==
  LET d == item.data
      url == [url |-> Or(Opt(d, "url"), Opt(d, "file"))] IN
  CASE item.type = "text" -> Segment("text", [text |-> Get(d, "text", "")])
    [] item.type = "image" ->
         [Segment("image", url @@ [alt |-> Opt(d, "alt")])
            EXCEPT !.extras = Without(d, {"url", "file", "alt"})]
    [] item.type = "at" -> Segment("at", [user_id |-> Get(d, "qq", "all")])
    [] item.type = "reply" -> Segment("reply", [message_id |-> Get(d, "id", "")])
    [] item.type = "face" -> Segment("face", [face_id |-> Get(d, "id", "")])
    [] item.type = "poke" -> Segment("poke", [target_user_id |-> Opt(d, "qq")])
    [] item.type = "file" ->
         Segment("file", [url |-> Opt(d, "url"), name |-> Opt(d, "name"), size |-> Opt(d, "size")])
    [] item.type = "record" -> Segment("voice", url @@ [duration_s |-> Opt(d, "duration")])
    [] item.type = "video" -> Segment("video", url)
    [] item.type = "xml" -> Segment("xml", [xml |-> Get(d, "data", "")])
    [] item.type = "json" -> Segment("card", [payload |-> Get(d, "data", "")])
    [] item.type = "mface" ->
         [Segment("face", [face_id |-> Get(d, "emoji_id", "")])
            EXCEPT !.extras = Without(d, {"emoji_id"})]
    [] item.type = "bface" -> [Segment("face", [face_id |-> Get(d, "id", "")]) EXCEPT !.extras = d]

FromOneBot(message) ==
  LET known == SelectSeq(message, LAMBDA item : item.type \in Known)
  IN [n \in DOMAIN known |-> Decode(known[n])]

--------------------------------------------------------------------------------
\* Encoding.

Source(f) == Or(Opt(f, "url"), Opt(f, "path"))

\* An image is sent from where it is; a name behind "file://", data behind "base64://".
Image(f) ==
  CASE Opt(f, "url") \notin {None, ""} -> f.url
    [] Opt(f, "url") \in {None, ""} /\ Opt(f, "path") \notin {None, ""} -> "file://" \o f.path
    [] OTHER -> IF Opt(f, "b64") \in {None, ""} THEN None ELSE "base64://" \o f.b64

Encode(segment) ==
  LET f == segment.fields
      Item(type, data) == [type |-> type, data |-> Fields(data)] IN
  CASE segment.kind = "text" -> Item("text", f)
    [] segment.kind = "image" ->
         Item("image", NonEmpty([file |-> Image(f), alt |-> Opt(f, "alt")])
                         @@ [subType |-> Opt(segment.extras, "subType")])
    [] segment.kind = "at" -> Item("at", [qq |-> f.user_id])
    [] segment.kind = "reply" -> Item("reply", [id |-> f.message_id])
    [] segment.kind = "face" -> Item("face", [id |-> f.face_id])
    [] segment.kind = "poke" -> Item("poke", NonEmpty([qq |-> Opt(f, "target_user_id")]))
    [] segment.kind = "file" -> Item("file", NonEmpty([url |-> Opt(f, "url"), name |-> Opt(f, "name")]))
    [] segment.kind = "voice" -> Item("record", NonEmpty([file |-> Source(f)]))
    [] segment.kind = "video" -> Item("video", NonEmpty([file |-> Source(f)]))
    [] segment.kind = "xml" -> Item("xml", [data |-> f.xml])
    [] segment.kind = "card" -> Item("json", [data |-> f.payload])

ToOneBot(segments) == [n \in DOMAIN segments |-> Encode(segments[n])]

--------------------------------------------------------------------------------
(***************************************************************************)
(* Events: a frame is [post, type, sub, user, target, group, message],     *)
(* where type and sub are those of its kind of post, and user, target and  *)
(* group are "" when the frame has none.                                   *)
(***************************************************************************)

InGroup(data) == data.group \notin {"", "0"}
Scope(kind, id) == [kind |-> kind, id |-> id, platform |-> "onebot"]
Event(kind, scope, sender, segments, synthetic) ==
  [kind |-> kind, scope |-> scope, sender |-> sender, segments |-> segments, synthetic |-> synthetic]

EventFromMessage(data) ==
  Event("message",
        IF data.type = "group" THEN Scope("group", data.group) ELSE Scope("dm", data.user),
        data.user, FromOneBot(data.message), FALSE)

IsPoke(data) == data.type = "notify" /\ data.sub = "poke"

EventFromNotice(data) ==
  Event("notice",
        CASE InGroup(data) -> Scope("group", data.group)
          [] ~InGroup(data) /\ IsPoke(data) -> Scope("dm", data.user)
          [] OTHER -> Scope("system", "system"),
        data.user,
        IF IsPoke(data) THEN <<Segment("poke", [target_user_id |-> data.target])>> ELSE <<>>, FALSE)

\* The text that rules of the older bot know a notice or a request by, or None.
Trigger(data) ==
  CASE data.post = "request" -> "[system]"
    [] data.post = "notice" /\ data.type = "group_increase" -> "[system]"
    [] data.post = "notice" /\ data.type = "group_decrease" -> "[leave]"
    [] data.post = "notice" /\ data.type = "group_admin" -> "[admin]"
    [] data.post = "notice" /\ IsPoke(data) -> "[poke]"
    [] OTHER -> None

Synthetic(data) ==
  LET user == Or(data.user, SelfId)
  IN Event("message", IF InGroup(data) THEN Scope("group", data.group) ELSE Scope("dm", user),
           user, <<Segment("text", [text |-> Trigger(data)])>>, TRUE)

\* What a frame is made into, in order.
Published(data) ==
  LET synthetic == IF Trigger(data) = None THEN <<>> ELSE <<Synthetic(data)>> IN
  CASE data.post = "message" -> <<EventFromMessage(data)>>
    [] data.post = "notice" -> <<EventFromNotice(data)>> \o synthetic
    [] data.post = "request" -> synthetic
    [] OTHER -> <<>>

\* Whether the classifier looks for a rule at all.
Heard(event) == event.kind = "message" /\ event.sender # SelfId

--------------------------------------------------------------------------------
\* Actions: [kind, target, segments, user].

ToPayload(action) ==
  LET target == action.target
      group == [group |-> target.id]
      Api(name, params) == [action |-> name, params |-> params] IN
  CASE action.kind \in {"reply", "send"} ->
         Api("send_msg", (IF target.kind = "group" THEN group @@ [type |-> "group"]
                          ELSE [type |-> "private", user |-> target.id])
                           @@ [message |-> ToOneBot(action.segments)])
    [] action.kind \in {"mute", "unmute"} -> Api("set_group_ban", group @@ [user |-> action.user])
    [] action.kind = "kick" -> Api("set_group_kick", group @@ [user |-> action.user])
    [] action.kind = "poke" ->
         Api("send_msg", group @@ [type |-> IF target.kind = "group" THEN "group" ELSE "private"]
                           @@ [message |-> <<[type |-> "poke", data |-> [qq |-> action.user]]>>])
    [] action.kind = "recall" -> Api("delete_msg", [message |-> <<>>])
    [] OTHER -> Api("send_msg", <<>>)

\* The adapter that the sink chooses, or None: the first of the platform, the only one.
Chosen(adapters, action) ==
  LET fits == {n \in DOMAIN adapters : adapters[n] = action.target.platform} IN
  CASE adapters = <<>> -> None
    [] Len(adapters) = 1 -> adapters[1]
    [] OTHER -> IF fits = {} THEN None ELSE adapters[Min(fits)]

--------------------------------------------------------------------------------
\* Where a frame comes from, as a call names it.
Origin(data) ==
  IF IF data.post = "message" THEN data.type = "group" ELSE InGroup(data)
  THEN [type |-> "group", group |-> data.group]
  ELSE [type |-> "private", user |-> IF data.post = "message" THEN data.user ELSE Or(data.user, SelfId)]

Reply(event) == [kind |-> "reply", target |-> event.scope, segments |-> event.segments, user |-> ""]

\* What a rule answers to a frame goes to the adapter, the group or the person
\* that it came from, and a rule is asked at most once.
AnswersGoBack(data) ==
  LET asked == {n \in DOMAIN Published(data) : Heard(Published(data)[n])} IN
  /\ Cardinality(asked) <= 1
  /\ \A n \in asked :
       LET reply == Reply(Published(data)[n]) IN
       /\ Without(ToPayload(reply).params, {"message"}) = Origin(data)
       /\ Chosen(<<"cli", "onebot", "onebot">>, reply) = "onebot"

\* A message that is sent on arrives as it was: with its parts, in order, each of
\* its kind and with what the network gave of it, but for the fields only one side knows.
PartsSurvive(message) ==
  LET once == FromOneBot(message)
      twice == FromOneBot(ToOneBot(once))
      Lost == {"size", "duration_s"} IN
  /\ Len(twice) = Len(once)
  /\ \A n \in DOMAIN once :
       /\ twice[n].kind = once[n].kind
       /\ NonEmpty(twice[n].fields) = NonEmpty(Without(once[n].fields, Lost))
  /\ ToOneBot(twice) = ToOneBot(once)

\* Whatever a segment is to send goes out with it (segments.py: losslessly).
SourceIsSent(segment) ==
  (\E name \in {"url", "path", "b64"} : Opt(segment.fields, name) \notin {None, ""})
    => {"url", "file"} \cap DOMAIN Encode(segment).data # {}

\* A rule for the older text of a frame is asked (_build_qrspeed_synthetic).
SyntheticIsHeard(data) ==
  \A n \in DOMAIN Published(data) : Published(data)[n].synthetic => Heard(Published(data)[n])
===============================================================================
