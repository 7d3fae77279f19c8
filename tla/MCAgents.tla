-------------------------------- MODULE MCAgents --------------------------------
(***************************************************************************)
(* Instances for TLC of the agent's parts: the tool loop of one turn, what *)
(* a conversation keeps of its turns, the pictures of a message, the       *)
(* sticker collection, the user profiles, the attention window, what is    *)
(* shown of a user's actions; and of what carries them: the OneBot adapter *)
(* and the process. The parts share no state: in a behaviour one of them   *)
(* moves, which "part" names, and the others stay as they began; the       *)
(* exchange with a language model only begins, once with each case.        *)
(***************************************************************************)
EXTENDS Integers, Sequences, FiniteSets

CONSTANTS
  Parts,     \* which may move
  NoValue,   \* of a field that is not there
  Askers, Urls, CacheMax, NoTask,                              \* Images
  Savers, Senders, Pictures, NoPicture, MaxStickers, MaxFaults, \* Stickers
  Learners, Updaters, Users, Facts, MaxFacts, MaxRounds,          \* Profiles
  Times, Window, NoStamp,                                      \* Attention
  Keep, MaxDays, MaxTurns, MaxLate, MaxRestarts,               \* DailySummary
  Callers, Remote, Fallback, CacheSize, MaxBackoff, MaxFrames, MaxDrops, Begun, \* OneBot
  Jobs, Files, HasAgents, MaxEdits                                              \* Lifecycle

ASSUME PicturesAssumption ==
  CacheMax \in Nat /\ NoTask \notin Askers /\ MaxFaults \in Nat
ASSUME UsersAssumption ==
  IsFiniteSet(Learners \cup Updaters) /\ MaxFacts \in Nat /\ MaxRounds \in Nat
\* A window of no time is none at all.
ASSUME WindowAssumption ==
  Times \subseteq Nat /\ NoStamp \notin Nat /\ Window \in Nat \ {0}
\* The faults are those of Stickers and of DailySummary.
ASSUME DaysAssumption ==
  /\ Keep \in Nat /\ MaxDays \in Nat \ {0} /\ MaxTurns \in Nat
  /\ MaxLate \in Nat /\ MaxRestarts \in Nat
\* Both caps are constants of adapter.py; a start has some events and callers behind it.
ASSUME AdapterAssumption ==
  /\ CacheSize \in Nat \ {0} /\ MaxBackoff \in Nat \ {0} /\ MaxFrames \in Nat /\ MaxDrops \in Nat
  /\ Begun \subseteq (0..MaxFrames) \X SUBSET Callers
\* No job is called as no one.
ASSUME ProcessAssumption == "none" \notin Jobs /\ MaxEdits \in Nat

VARIABLES
  part,
  pc, messages, calls, finished, made, nudges, late, sent, result,          \* AgentLoop
  history, row, summary, prompt,                                            \* ChatMemory
  asker, url, joined, future, inflight, cache, outcome, told,               \* Images
  index, files, keeper, picture, faults,                                    \* Stickers
  profile, writer, user, seen, read, rounds, authors, clamped, known,       \* Profiles
  now, stamp, answer, heard,                                                \* Attention
  clock, deque, saved, grouped, count, damaged, setBack,                    \* LedgerView
  today, mark, turned, kept, folded, batch, date, force, turns, since, due, failed, lates, restarts, \* DailySummary
  running, stopping, conn, backoff, stage, job, got, pending, reply, wire, ready, working,
  preflight, log, frames, drops,                                            \* OneBot
  disk, edits, script, extras, work, phase, firing, serving, kv,            \* Lifecycle
  exchange                                                                  \* Provider, BatchView

loop == <<pc, messages, calls, finished, made, nudges, late, sent, result>>
memory == <<history, row, summary, prompt>>
images == <<asker, url, joined, future, inflight, cache, outcome, told>>
stickers == <<index, files, keeper, picture, faults>>
profiles == <<profile, writer, user, seen, read, rounds, authors, clamped, known>>
attention == <<now, stamp, answer, heard>>
actions == <<clock, deque, saved, grouped, count, damaged, setBack>>
days == <<today, mark, turned, kept, folded, batch, date, force, turns, since, due, failed, lates, restarts>>
adapter == <<running, stopping, conn, backoff, stage, job, got, pending, reply, wire, ready, working,
             preflight, log, frames, drops>>
process == <<disk, edits, script, extras, work, phase, firing, serving, kv>>
vars == <<part, loop, memory, images, stickers, profiles, attention, actions, days, adapter, process, exchange>>

\* A prompt that fits, and one that fills the budget; two calls of tools, one
\* reminder to use them.
Said(role, size) == [role |-> role, size |-> size, calls |-> 0]
MCStarts ==
  {<<Said("system", 1), Said("user", 2), Said("assistant", 1), Said("user", 2)>>, <<Said("user", 9)>>}
Loop == INSTANCE AgentLoop
  WITH Starts <- MCStarts, Budget <- 9, MaxToolCalls <- 2, NudgeLimit <- 1, MaxParallel <- 2, Sizes <- {3}

\* Two turns; a question that fits and one that must be cut.
Memory == INSTANCE ChatMemory
  WITH Budget <- 16, Trigger <- 12, KeepTurns <- 1, Reserve <- 2, SystemSize <- 1, Window <- 5,
       MaxTurns <- 2, MaxSummary <- 2, Extras <- {0, 1}, Inputs <- {1, 20}

\* In the run three tasks ask for two pictures, and the cache keeps one.
Downloads == INSTANCE Images WITH Tasks <- Askers, pc <- asker

\* Two saves of the same picture or of two, one sender, and one fault.
Album == INSTANCE Stickers WITH pc <- keeper

\* A turn that notes facts itself and an updater in the background, of one user.
Notes == INSTANCE Profiles WITH pc <- writer

\* Around a midnight, a minute and the end of a window, and a day later.
Hearing == INSTANCE Attention WITH None <- NoStamp

\* Runs of handlers whose lines fit together or not, one too long, one failed.
Run(ok, mode, line, output, actor) ==
  [ok |-> ok, mode |-> mode, line |-> line, output |-> output, actor |-> actor]
Actions == INSTANCE LedgerView
  WITH Runs <- {Run(TRUE, "with_result", 1, 1, "ann"), Run(TRUE, "with_result", 1, 5, "_unknown"),
                Run(TRUE, "trigger_only", 2, 5, "ann"), Run(FALSE, "with_result", 1, 5, "ann"),
                Run(TRUE, "trigger_only", 9, 0, "ann")},
       Maxlen <- 2, Ttl <- 1, SummaryBudget <- 2, Budget <- 9, Frame <- 1, Marker <- 1, By <- 1,
       Damages <- {"corrupt", "older"}, MaxRuns <- 3, MaxTime <- 2, MaxDamages <- 1

\* In the run three days, three answers, and one failure, late batch and restart.
Days == INSTANCE DailySummary WITH history <- turned, row <- kept, made <- due, faults <- failed

\* In the run two callers without events, one with an event, or two events.
Adapter == INSTANCE OneBot WITH Urls <- Remote, pc <- stage, result <- got, cache <- preflight
MCBegun == {<<0, Callers>>, <<1, {"d"}>>, <<2, {}>>}

\* In the run two rule files, edited once, and two jobs.
Process == INSTANCE Lifecycle WITH job <- work

View == INSTANCE BatchView WITH Bot <- "bot", MaxRead <- 2

Model == INSTANCE Provider WITH None <- NoValue, MaxChars <- 7

\* Answers of all shapes and texts, errors, batches, environments and messages.
UpTo(n, S) == UNION {[1 .. m -> S] : m \in 0 .. n}
Answers ==
  [role : {NoValue, "assistant"}, content : {NoValue} \cup UpTo(4, {" ", ",", "y", "n"}),
   tool_calls : {NoValue}, reasoning_content : {NoValue, "r"}]
    \cup [role : {NoValue}, content : {NoValue, <<"n">>}, reasoning_content : {NoValue, "r"},
          tool_calls : {NoValue, <<>>, <<"send_group">>, <<"other">>, <<"other", "finish_turn">>}]
Outcomes ==
  [kind : {"answer"}, answer : Answers]
    \cup [kind : {"status"}, status : {302, 400, 401, 403, 404, 429, 500, 503},
          body : Model!Bodies, retry_after : {NoValue, "seconds", "date"}]
    \cup [kind : {"raised"}, error : {"CancelledError", "TimeoutException", "TransportError", "other"}]
Environment ==
  {"ATTENTION_PROBE_API_KEY", "LLM_API_KEY", "OPENAI_API_KEY", "ATTENTION_PROBE_BASE_URL",
   "LLM_BASE_URL", "OPENAI_BASE_URL", "ATTENTION_PROBE_HTTPS_PROXY", "OPENAI_HTTPS_PROXY"}
Written ==
  [role : {"user", "tool"}, content : {"c"}, parts : {<<>>, <<"img">>}, name : {NoValue, "n"},
   tool_call_id : {NoValue, "i"}, tool_calls : {NoValue}, reasoning_content : {NoValue}]
Messages == [named : BOOLEAN, quotes : BOOLEAN, ats : UpTo(3, {"ann", "ben", "bot", "all"}), sources : {<<>>, <<"bot">>, <<"ann">>}]
Picks ==
  [ids : UpTo(2, {"m", "n", "o"}), lines : UpTo(2, {0, 1, 2, 4}), ranged : BOOLEAN, first : {0, 2}, last : {1, 3, 5}]
NoExchange == [of |-> "batch", lengths |-> <<>>]
Exchanges ==
  [of : {"outcome"}, outcome : Outcomes, texts : {<<>>, << <<" ">> >>, << <<" ">>, <<"y">> >>}]
    \cup [of : {"batch"}, lengths : UpTo(3, {0, 2, 3, 9})]
    \cup [of : {"environment"},
          env : {[n \in Environment |-> IF n \in set THEN n ELSE NoValue] : set \in SUBSET Environment}]
    \cup [of : {"message"}, message : Messages]
    \cup [of : {"pick"}, args : Picks, ids : {<<>>, <<"m">>, <<"m", "n", "m">>, <<"n", "m", "o">>}]
    \cup [of : {"request"}, messages : UpTo(2, Written), tools : {<<>>, <<"tool">>}]

Init ==
  /\ part \in Parts
  /\ exchange \in IF part = "provider" THEN Exchanges ELSE {NoExchange}
  /\ Loop!Init /\ (part # "loop" => messages = <<Said("user", 9)>>)
  /\ Memory!Init
  /\ Downloads!Init /\ (part # "images" => url = [t \in Askers |-> CHOOSE u \in Urls : TRUE])
  /\ Album!Init /\ (part # "stickers" => \A t \in Savers : picture[t] = CHOOSE p \in Pictures : TRUE)
  /\ Notes!Init
  /\ Hearing!Init /\ (part # "attention" => now = 0)
  /\ Actions!Init /\ (part # "actions" => ~grouped)
  /\ Days!Init
  /\ IF part = "bot" THEN \E start \in Begun : Adapter!InitAfter(start[1], start[2]) ELSE Adapter!Init
  /\ Process!Init /\ (part # "life" => \A f \in Files : disk[f].ok)

Next ==
  \/ part = "loop" /\ Loop!Next
     /\ UNCHANGED <<part, memory, images, stickers, profiles, attention, actions, days, adapter, process, exchange>>
  \/ part = "memory" /\ Memory!Next
     /\ UNCHANGED <<part, loop, images, stickers, profiles, attention, actions, days, adapter, process, exchange>>
  \/ part = "images" /\ Downloads!Next
     /\ UNCHANGED <<part, loop, memory, stickers, profiles, attention, actions, days, adapter, process, exchange>>
  \/ part = "stickers" /\ Album!Next
     /\ UNCHANGED <<part, loop, memory, images, profiles, attention, actions, days, adapter, process, exchange>>
  \/ part = "profiles" /\ Notes!Next
     /\ UNCHANGED <<part, loop, memory, images, stickers, attention, actions, days, adapter, process, exchange>>
  \/ part = "attention" /\ Hearing!Next
     /\ UNCHANGED <<part, loop, memory, images, stickers, profiles, actions, days, adapter, process, exchange>>
  \/ part = "actions" /\ Actions!Next
     /\ UNCHANGED <<part, loop, memory, images, stickers, profiles, attention, days, adapter, process, exchange>>
  \/ part = "days" /\ Days!Next
     /\ UNCHANGED <<part, loop, memory, images, stickers, profiles, attention, actions, adapter, process, exchange>>
  \/ part = "bot" /\ Adapter!Next
     /\ UNCHANGED <<part, loop, memory, images, stickers, profiles, attention, actions, days, process, exchange>>
  \/ part = "life" /\ Process!Next
     /\ UNCHANGED <<part, loop, memory, images, stickers, profiles, attention, actions, days, adapter, exchange>>

\* The fairness of the part that moves.
Spec ==
  /\ Init /\ [][Next]_vars
  /\ WF_loop(part = "loop" /\ Loop!Next)
  /\ WF_images(part = "images" /\ Downloads!Ending)
  /\ WF_profiles(part = "profiles" /\ Notes!Working)
  /\ WF_adapter(part = "bot" /\ \E c \in Callers : Adapter!Work(c))
  /\ WF_process(part = "life" /\ Process!Stopping)

--------------------------------------------------------------------------------

\* AgentLoop: a turn that returns tells what was said in it.
SentIsReported == Loop!SentIsReported

\* Images and Stickers: one download of a picture at a time; what is listed can be
\* sent, unless two saves of one picture fail apart.
PicturesAreKept ==
  /\ Downloads!TypeOK /\ Downloads!OneDownload
  /\ Album!TypeOK /\ Album!RowHasFileAlone

\* Profiles and Attention: nothing one conversation wrote of a user is forgotten,
\* and who was answered is heard for the window and no longer.  DailySummary: a group's
\* summary loses none of its questions and is made once a day.
UsersAreKnown ==
  /\ Notes!TypeOK /\ Notes!OwnFactsStay
  /\ Hearing!TypeOK /\ Hearing!WindowIsTrue
  /\ Days!TypeOK /\ Days!MarkedIsFolded /\ Days!OncePerDay /\ Days!NothingIsLost

\* OneBot: every event reaches the subscribers once and in the order it was read,
\* and none is at work after stop().
BotIsOrderly == Adapter!TypeOK /\ Adapter!InOrder /\ Adapter!StopIsQuiet

\* Lifecycle: a command runs what it matched, however often rules are swapped, and
\* the store is closed after the last event and timer has ended.
LifeIsOrderly == Process!TypeOK /\ Process!RunsWhatItMatched /\ Process!CloseIsLast

\* Lifecycle: every dispatcher has the side channels of the first.
KeysSurvive == Process!KeysSurvive

\* A turn ends, nobody waits for a picture for ever, the profile loops end, each
\* without the help of a timeout around it; a call of the adapter ends, and stop().
PartsEnd ==
  []<>(/\ part = "loop" => Loop!AtRest
       /\ Downloads!AtRest
       /\ part = "profiles" => Notes!AtRest
       /\ Adapter!AtRest /\ Process!AtRest)
================================================================================
