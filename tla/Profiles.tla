------------------------------ MODULE Profiles ------------------------------
(* What the bot remembers of users (profile.py). Every conversation's turns read    *)
(* and rewrite the profile of any user by two tools; before a conversation is       *)
(* compacted a loop of its own does the same (ProfileUpdater.run), in a bounded     *)
(* number of rounds and of time. The model that calls them is taken to do as it is  *)
(* told: it reads a profile before it rewrites it, and a rewrite is what it read    *)
(* last and what it has learned since. A step is an await.                          *)
EXTENDS Integers, FiniteSets

CONSTANTS
  Learners,        \* conversations whose turn uses the tools
  Updaters,     \* conversations about to be compacted
  Users,
  Facts,        \* what there is to learn
  MaxFacts,     \* PROFILE_MAX_CHARS
  MaxRounds     \* PROFILE_UPDATE_MAX_ROUNDS

Writers == Learners \cup Updaters

VARIABLES
  profile,   \* of each user, a set of facts
  pc,        \* "asking", "reading", "writing", "done"
  user,      \* whose profile the call is about
  seen,      \* what each writer read last, of each user
  read,      \* the users each writer has read
  rounds,
  authors,   \* history: who has written each profile
  clamped,   \* history: the users of whom a rewrite was cut
  known      \* history: what was ever written, of each user

vars == <<profile, pc, user, seen, read, rounds, authors, clamped, known>>

Init ==
  /\ profile = [u \in Users |-> {}] /\ known = [u \in Users |-> {}]
  /\ pc = [w \in Writers |-> "asking"] /\ user \in [Writers -> Users]
  /\ seen = [w \in Writers |-> [u \in Users |-> {}]]
  /\ rounds = [w \in Writers |-> 0]
  /\ read = [w \in Writers |-> {}]
  /\ authors = [u \in Users |-> {}] /\ clamped = {}

Goto(w, place) == pc' = [pc EXCEPT ![w] = place]

--------------------------------------------------------------------------------
\* Bug: rounds are not counted.
RoundsAgain(w) == rounds[w]

NextRound(w) == rounds[w] + 1

\* The provider answers: calls one of the tools, or no tool at all; after the last
\* round it is not asked again.
Ask(w) ==
  /\ pc[w] = "asking"
  /\ \/ /\ rounds[w] < MaxRounds /\ rounds' = [rounds EXCEPT ![w] = NextRound(w)]
        /\ \E u \in Users :
             /\ user' = [user EXCEPT ![w] = u]
             /\ Goto(w, "reading") \/ (u \in read[w] /\ Goto(w, "writing"))
     \/ Goto(w, "done") /\ UNCHANGED <<user, rounds>>
  /\ UNCHANGED <<profile, seen, read, authors, clamped, known>>

\* read_user_profile, or a failure it turns into a text.
Read(w) ==
  /\ pc[w] = "reading" /\ Goto(w, "asking")
  /\ \/ /\ seen' = [seen EXCEPT ![w][user[w]] = profile[user[w]]]
        /\ read' = [read EXCEPT ![w] = @ \cup {user[w]}]
     \/ UNCHANGED <<seen, read>>
  /\ UNCHANGED <<profile, user, rounds, authors, clamped, known>>

Rewrite(w, new) == seen[w][user[w]] \cup new

\* write_user_profile: the profile is replaced; or the write fails and is left.
Write(w) ==
  /\ pc[w] = "writing" /\ Goto(w, "asking")
  /\ \/ \E new \in SUBSET Facts : \E kept \in SUBSET Rewrite(w, new) :
          /\ IF Cardinality(Rewrite(w, new)) <= MaxFacts
             THEN kept = Rewrite(w, new) ELSE Cardinality(kept) = MaxFacts
          /\ profile' = [profile EXCEPT ![user[w]] = kept]
          /\ seen' = [seen EXCEPT ![w][user[w]] = kept]
          /\ clamped' = IF kept = Rewrite(w, new) THEN clamped ELSE clamped \cup {user[w]}
          /\ authors' = [authors EXCEPT ![user[w]] = @ \cup {w}]
          /\ known' = [known EXCEPT ![user[w]] = @ \cup kept]
     \/ UNCHANGED <<profile, seen, authors, clamped, known>>
  /\ UNCHANGED <<user, read, rounds>>

\* wait_for of the updater, at any await; what it has written stays.
Timeout(w) ==
  /\ pc[w] \in {"asking", "reading", "writing"} /\ Goto(w, "done")
  /\ UNCHANGED <<profile, user, seen, read, rounds, authors, clamped, known>>

Working == \E w \in Writers : Ask(w) \/ Read(w) \/ Write(w)

Next ==
  \/ Working
  \/ \E w \in Updaters : Timeout(w)

\* A provider answers or fails; a store operation ends.
Fairness == WF_vars(Working)

Spec == Init /\ [][Next]_vars /\ Fairness

--------------------------------------------------------------------------------
\* The type invariant.
TypeOK ==
  /\ \A u \in Users : Cardinality(profile[u]) <= MaxFacts
  /\ \A w \in Writers : rounds[w] \in 0..MaxRounds

Forgotten(u) == u \notin clamped /\ profile[u] # known[u]

\* Nothing written of a user is forgotten, but by the clamp, while one conversation
\* writes of them, whichever of its reads and writes fail or are cut short.
OwnFactsStay == \A u \in Users : Forgotten(u) => Cardinality(authors[u]) > 1

\* Nothing at all is. Conversations are locked one by one, users are not.
NothingForgotten == \A u \in Users : ~Forgotten(u)

\* Every loop ends, without the help of the timeout.
AtRest == \A w \in Writers : pc[w] = "done"

LoopsEnd == <>AtRest
================================================================================
