---------------------------- MODULE WebUIProofs ----------------------------
(* What the parts of MCWebUI promise for any tabs, turns, tokens, bots, events,     *)
(* hits, keys, agents and visits. Each has an inductive invariant of its own; the   *)
(* parts share no variable, so the conjunction of the invariants is one of the      *)
(* whole. That the pages' turns end is only model-checked.                          *)
EXTENDS MCWebUI, Maxima, SequenceTheorems, TLAPS

\* In a step one part moves, or none does.
LEMMA StepOfOne ==
  ASSUME [Next]_vars
  PROVE  /\ Chat!Next \/ UNCHANGED chat
         /\ Events!Next \/ UNCHANGED feed
         /\ Auth!Next \/ UNCHANGED auth
         /\ Audit!Next \/ UNCHANGED hits
         /\ Store!Next \/ UNCHANGED keys
         /\ Panel!Next \/ UNCHANGED panel
         /\ Layers!Next \/ UNCHANGED layers
<1>1. CASE UNCHANGED vars
  BY <1>1 DEF vars
<1>2. CASE Next
  BY <1>2 DEF Next
<1> QED
  BY <1>1, <1>2

--------------------------------------------------------------------------------
(* Sequences: what is in one, and what is left of it. *)

Has(s, e) == \E i \in 1..Len(s) : s[i] = e

\* What is in a sequence when its head goes.
LEMMA Handed ==
  ASSUME NEW E, NEW s \in Seq(E), s # <<>>
  PROVE  /\ Head(s) \in E /\ Tail(s) \in Seq(E)
         /\ \A e : Has(s, e) => e = Head(s) \/ Has(Tail(s), e)
<1>1. Len(s) \in Nat
  BY LenProperties
<1>2. /\ Tail(s) \in Seq(E) /\ Len(Tail(s)) = Len(s) - 1 /\ Head(s) = s[1] /\ Head(s) \in E
      /\ \A i \in 1..Len(Tail(s)) : Tail(s)[i] = s[i + 1]
  BY HeadTailProperties
<1>3. ASSUME NEW e, Has(s, e)
      PROVE  e = Head(s) \/ Has(Tail(s), e)
  <2>1. PICK i \in 1..Len(s) : s[i] = e
    BY <1>3 DEF Has
  <2>2. CASE i = 1
    BY <1>2, <2>1, <2>2
  <2>3. CASE i # 1
    <3>1. i - 1 \in 1..Len(Tail(s)) /\ i - 1 + 1 = i
      BY <1>1, <1>2, <2>3
    <3>2. Tail(s)[i - 1] = e
      BY <1>2, <2>1, <3>1
    <3> QED
      BY <3>1, <3>2 DEF Has
  <2> QED
    BY <2>2, <2>3
<1> QED
  BY <1>2, <1>3

\* What is in a sequence when an element joins it.
LEMMA JoinedBy ==
  ASSUME NEW E, NEW s \in Seq(E), NEW x \in E
  PROVE  Append(s, x) \in Seq(E) /\ Has(Append(s, x), x) /\ \A e : Has(s, e) => Has(Append(s, x), e)
<1> DEFINE t == Append(s, x)
<1>1. Len(s) \in Nat /\ t \in Seq(E) /\ Len(t) = Len(s) + 1 /\ t[Len(s) + 1] = x /\ \A i \in 1..Len(s) : t[i] = s[i]
  BY LenProperties, AppendProperties
<1> HIDE DEF t
<1>2. Len(s) + 1 \in 1..Len(t)
  BY <1>1
<1>3. Has(t, x)
  BY <1>1, <1>2 DEF Has
<1>4. ASSUME NEW e, Has(s, e)
      PROVE  Has(t, e)
  <2>1. PICK i \in 1..Len(s) : s[i] = e
    BY <1>4 DEF Has
  <2>2. i \in 1..Len(t) /\ t[i] = e
    BY <1>1, <2>1
  <2> QED
    BY <2>2 DEF Has
<1> QED
  BY <1>1, <1>3, <1>4 DEF t

Distinct(s) == \A i, j \in 1..Len(s) : s[i] = s[j] => i = j

\* What is left of a sequence when one of its elements is taken out.
LEMMA WithoutOne ==
  ASSUME NEW E, NEW s \in Seq(E), NEW i \in 1..Len(s),
         NEW t, t = SubSeq(s, 1, i - 1) \o SubSeq(s, i + 1, Len(s))
  PROVE  /\ t \in Seq(E) /\ Len(t) = Len(s) - 1
         /\ \A j \in 1..Len(s) - 1 : t[j] = IF j < i THEN s[j] ELSE s[j + 1]
<1> DEFINE a == SubSeq(s, 1, i - 1)
           b == SubSeq(s, i + 1, Len(s))
<1>1. Len(s) \in Nat /\ i \in Nat /\ 1 <= i /\ i <= Len(s) /\ \A j \in 1..Len(s) : s[j] \in E
  BY ElementOfSeq, LenProperties
<1>2. a \in Seq(E) /\ Len(a) = i - 1 /\ \A j \in 1..i - 1 : a[j] = s[j]
  <2>1. \A j \in 1..i - 1 : s[j] \in E
    BY <1>1
  <2>2. /\ a \in Seq(E) /\ Len(a) = IF 1 <= i - 1 THEN i - 1 - 1 + 1 ELSE 0
        /\ \A j \in 1..i - 1 - 1 + 1 : a[j] = s[1 + j - 1]
    BY <1>1, <2>1, SubSeqProperties
  <2> QED
    BY <1>1, <2>2
<1>3. b \in Seq(E) /\ Len(b) = Len(s) - i /\ \A j \in 1..Len(s) - i : b[j] = s[i + j]
  <2>1. \A j \in i + 1..Len(s) : s[j] \in E
    BY <1>1
  <2>2. /\ b \in Seq(E) /\ Len(b) = IF i + 1 <= Len(s) THEN Len(s) - (i + 1) + 1 ELSE 0
        /\ \A j \in 1..Len(s) - (i + 1) + 1 : b[j] = s[i + 1 + j - 1]
    BY <1>1, <2>1, SubSeqProperties
  <2> QED
    BY <1>1, <2>2
<1> HIDE DEF a, b
<1>4. /\ a \o b \in Seq(E) /\ Len(a \o b) = Len(a) + Len(b)
      /\ \A j \in 1..Len(a) + Len(b) : (a \o b)[j] = IF j <= Len(a) THEN a[j] ELSE b[j - Len(a)]
  BY <1>2, <1>3, ConcatProperties
<1>5. t = a \o b
  BY DEF a, b
<1>6. Len(a \o b) = Len(s) - 1
  BY <1>1, <1>2, <1>3, <1>4
<1>7. ASSUME NEW j \in 1..Len(s) - 1
      PROVE  (a \o b)[j] = IF j < i THEN s[j] ELSE s[j + 1]
  <2>1. j \in Nat /\ (a \o b)[j] = IF j <= Len(a) THEN a[j] ELSE b[j - Len(a)]
    BY <1>1, <1>2, <1>3, <1>4
  <2>2. CASE j < i
    BY <1>1, <1>2, <2>1, <2>2
  <2>3. CASE i <= j
    <3>1. j - Len(a) = j + 1 - i /\ j + 1 - i \in 1..Len(s) - i /\ i + (j + 1 - i) = j + 1
      BY <1>1, <1>2, <2>1, <2>3
    <3> QED
      BY <1>1, <1>2, <1>3, <2>1, <2>3, <3>1
  <2> QED
    BY <1>1, <2>1, <2>2, <2>3
<1>8. t \in Seq(E) /\ Len(t) = Len(s) - 1
  BY <1>4, <1>5, <1>6
<1>9. \A j \in 1..Len(s) - 1 : t[j] = IF j < i THEN s[j] ELSE s[j + 1]
  BY <1>5, <1>7
<1> QED
  BY <1>8, <1>9

--------------------------------------------------------------------------------
(* WebAuth. *)

\* What ends a token besides the refresh of a tab.
Reasons == {"no", "lost", "logout", "reset"}

\* WindowAssumption, as the proofs use it.
Parameters == Windows \cap Reasons = {} /\ MaxTokens \in Nat

LEMMA Granted == Parameters
  BY WindowAssumption DEF Parameters, Reasons

Memory == [refresh : Nat, fresh : BOOLEAN, asks : Nat, answer : Nat]

Shape ==
  /\ issued \in 0..MaxTokens /\ store \in 0..issued
  /\ ended \in [Auth!Tokens -> Windows \cup Reasons]
  /\ tokens \in [Windows -> Memory]
  /\ req \in [Windows -> [Calls -> {"idle", "waiting"}]]
  /\ bounced \in [Windows -> 0..MaxTokens]

\* Whoever holds a token holds one that was issued.
Known ==
  \A t \in Windows : /\ tokens[t].refresh <= issued /\ tokens[t].asks <= issued /\ bounced[t] <= issued
                     /\ tokens[t].answer <= issued \/ tokens[t].answer = MaxTokens + 1

\* A token not issued yet has not been revoked.
Unissued == \A n \in Auth!Tokens : n > issued => ended[n] = "no"

Waits == \A t \in Windows, r \in Calls : req[t][r] = "waiting" => tokens[t].asks # Auth!None

\* An answer on its way carries a token nobody holds, asks with or has rotated.
Private ==
  \A t \in Windows : tokens[t].answer \in Auth!Tokens =>
    /\ store # tokens[t].answer
    /\ ended[tokens[t].answer] \notin Windows
    /\ \A u \in Windows : /\ tokens[u].refresh # tokens[t].answer /\ tokens[u].asks # tokens[t].answer
                          /\ tokens[u].answer = tokens[t].answer => u = t

\* A token that t has rotated: its successor is on the way to t, or t is past it.
Past ==
  \A t \in Windows, n \in Auth!Tokens : ended[n] = t =>
    IF tokens[t].asks = n THEN tokens[t].answer \in Auth!Tokens
                       ELSE tokens[t].refresh # n /\ store # n

\* A refusal on its way to t is about a token that something else had ended.
Refusal ==
  \A t \in Windows : tokens[t].answer = MaxTokens + 1 /\ tokens[t].asks # Auth!None
                    => ended[tokens[t].asks] \notin {"no", t}

\* The token t was sent away for is ended, and not by t.
Bounce == \A t \in Windows : bounced[t] # Auth!None => ended[bounced[t]] \notin {"no", t}

AuthInv == Shape /\ Known /\ Unissued /\ Waits /\ Private /\ Past /\ Refusal /\ Bounce

--------------------------------------------------------------------------------
\* What the updates of a tab's memory leave of it, field by field.
LEMMA WithFresh ==
  ASSUME NEW x \in Memory, NEW b \in BOOLEAN
  PROVE  [x EXCEPT !.fresh = b] = [refresh |-> x.refresh, fresh |-> b, asks |-> x.asks, answer |-> x.answer]
  BY DEF Memory

LEMMA WithAnswer ==
  ASSUME NEW x \in Memory, NEW k \in Nat
  PROVE  [x EXCEPT !.answer = k] = [refresh |-> x.refresh, fresh |-> x.fresh, asks |-> x.asks, answer |-> k]
  BY DEF Memory

LEMMA WithRefresh ==
  ASSUME NEW x \in Memory, NEW k \in Nat
  PROVE  [x EXCEPT !.refresh = k] = [refresh |-> k, fresh |-> x.fresh, asks |-> x.asks, answer |-> x.answer]
  BY DEF Memory

LEMMA Held ==
  ASSUME NEW x \in Memory, NEW k \in Nat, NEW b \in BOOLEAN
  PROVE  [x EXCEPT !.refresh = k, !.fresh = b] = [refresh |-> k, fresh |-> b, asks |-> x.asks, answer |-> x.answer]
<1> DEFINE y == [x EXCEPT !.refresh = k]
<1>1. y = [refresh |-> k, fresh |-> x.fresh, asks |-> x.asks, answer |-> x.answer]
  BY WithRefresh
<1>2. y \in Memory
  BY <1>1 DEF Memory
<1>3. y.refresh = k /\ y.asks = x.asks /\ y.answer = x.answer
  BY <1>1
<1>4. [y EXCEPT !.fresh = b] = [refresh |-> y.refresh, fresh |-> b, asks |-> y.asks, answer |-> y.answer]
  BY <1>2, WithFresh
<1>5. [x EXCEPT !.refresh = k, !.fresh = b] = [y EXCEPT !.fresh = b]
  OBVIOUS
<1> HIDE DEF y
<1> QED
  BY <1>3, <1>4, <1>5
LEMMA WithAsks ==
  ASSUME NEW x \in Memory, NEW k \in Nat
  PROVE  [x EXCEPT !.asks = k] = [refresh |-> x.refresh, fresh |-> x.fresh, asks |-> k, answer |-> x.answer]
  BY DEF Memory

LEMMA Asked ==
  ASSUME NEW x \in Memory, NEW k \in Nat, NEW a \in Nat
  PROVE  [x EXCEPT !.asks = k, !.answer = a] = [refresh |-> x.refresh, fresh |-> x.fresh, asks |-> k, answer |-> a]
<1> DEFINE y == [x EXCEPT !.asks = k]
<1>1. y = [refresh |-> x.refresh, fresh |-> x.fresh, asks |-> k, answer |-> x.answer]
  BY WithAsks
<1>2. y \in Memory
  BY <1>1 DEF Memory
<1>3. y.refresh = x.refresh /\ y.fresh = x.fresh /\ y.asks = k
  BY <1>1
<1>4. [y EXCEPT !.answer = a] = [refresh |-> y.refresh, fresh |-> y.fresh, asks |-> y.asks, answer |-> a]
  BY <1>2, WithAnswer
<1>5. [x EXCEPT !.asks = k, !.answer = a] = [y EXCEPT !.answer = a]
  OBVIOUS
<1> HIDE DEF y
<1> QED
  BY <1>3, <1>4, <1>5

LEMMA SignedOutMemory ==
  /\ Auth!SignedOut \in Memory
  /\ Auth!SignedOut = [refresh |-> Auth!None, fresh |-> FALSE, asks |-> Auth!None, answer |-> Auth!None]
  /\ \A k \in Nat : [Auth!SignedOut EXCEPT !.refresh = k] = [refresh |-> k, fresh |-> FALSE, asks |-> Auth!None, answer |-> Auth!None]
<1>1. Auth!SignedOut \in Memory /\ Auth!SignedOut = [refresh |-> Auth!None, fresh |-> FALSE, asks |-> Auth!None, answer |-> Auth!None]
  BY DEF Auth!SignedOut, Memory, Auth!None
<1>2. Auth!SignedOut.fresh = FALSE /\ Auth!SignedOut.asks = Auth!None /\ Auth!SignedOut.answer = Auth!None
  BY DEF Auth!SignedOut
<1>3. ASSUME NEW k \in Nat
      PROVE  [Auth!SignedOut EXCEPT !.refresh = k] = [refresh |-> k, fresh |-> FALSE, asks |-> Auth!None, answer |-> Auth!None]
  <2>1. [Auth!SignedOut EXCEPT !.refresh = k] = [refresh |-> k, fresh |-> Auth!SignedOut.fresh,
                                                asks |-> Auth!SignedOut.asks, answer |-> Auth!SignedOut.answer]
    BY <1>1, WithRefresh
  <2> QED
    BY <2>1, <1>2
<1> QED
  BY <1>1, <1>3

\* Only the memory of one tab changes.
LEMMA Becomes ==
  ASSUME tokens \in [Windows -> Memory], NEW t \in Windows, NEW new \in Memory, tokens' = [tokens EXCEPT ![t] = new]
  PROVE  tokens' \in [Windows -> Memory] /\ tokens'[t] = new /\ \A u \in Windows : u # t => tokens'[u] = tokens[u]
  OBVIOUS

\* A refresh that will not be heard ends at most its own token, and not in the
\* name of the tab.
LEMMA UnheardEnds ==
  ASSUME Parameters, AuthInv, NEW t \in Windows, Auth!Unheard(t)
  PROVE  /\ ended' \in [Auth!Tokens -> Windows \cup Reasons]
         /\ \A n \in Auth!Tokens : ended'[n] = ended[n] \/ (ended'[n] = "lost" /\ ended[n] \in {"no", t} /\ tokens[t].asks = n)
         /\ \A n \in Auth!Tokens : tokens[t].asks = n => ended'[n] # t
<1> DEFINE m == tokens[t].asks
<1>1. m = Auth!None \/ m \in Auth!Tokens
  BY DEF AuthInv, Shape, Known, Memory, Auth!Tokens, Auth!None, Parameters
<1>2. ended \in [Auth!Tokens -> Windows \cup Reasons] /\ t \notin Reasons /\ Auth!None \notin Auth!Tokens
  BY DEF AuthInv, Shape, Parameters, Auth!None, Auth!Tokens
<1>3. \/ m \in Auth!Tokens /\ ended[m] \in {"no", t} /\ ended' = [ended EXCEPT ![m] = "lost"]
      \/ (m \in Auth!Tokens => ended[m] # t) /\ ended' = ended
  BY <1>1, <1>2 DEF Auth!Unheard, Reasons
<1> HIDE DEF m
<1>4. CASE m \in Auth!Tokens /\ ended[m] \in {"no", t} /\ ended' = [ended EXCEPT ![m] = "lost"]
  <2>1. \A n \in Auth!Tokens : ended'[n] = IF n = m THEN "lost" ELSE ended[n]
    BY <1>4, <1>2
  <2>2. ended' \in [Auth!Tokens -> Windows \cup Reasons]
    BY <1>4, <1>2 DEF Reasons
  <2> QED
    BY <1>4, <1>2, <2>1, <2>2 DEF Reasons, m
<1>5. CASE (m \in Auth!Tokens => ended[m] # t) /\ ended' = ended
  BY <1>5, <1>2 DEF m
<1> QED
  BY <1>3, <1>4, <1>5

\* Every action keeps the invariant.
LEMMA LoginKeeps ==
  ASSUME Parameters, AuthInv, NEW t \in Windows, Auth!Login(t)
  PROVE  AuthInv'
<1> DEFINE new == Auth!Holds(t, issued + 1)
<1>1. /\ tokens \in [Windows -> Memory] /\ tokens[t] \in Memory
      /\ issued \in Nat /\ store \in Nat /\ issued + 1 \in Nat /\ Auth!None \in Nat
  BY DEF AuthInv, Shape, Parameters, Auth!None
<1>2. new = [refresh |-> issued + 1, fresh |-> issued + 1 # Auth!None, asks |-> tokens[t].asks, answer |-> tokens[t].answer]
  BY <1>1, Held DEF Auth!Holds
<1>3. tokens' = [tokens EXCEPT ![t] = new]
  BY <1>1 DEF Auth!Login
<1> HIDE DEF new
<1>4. new \in Memory
  BY <1>1, <1>2 DEF Memory
<1>5. tokens' \in [Windows -> Memory] /\ tokens'[t] = new /\ \A u \in Windows : u # t => tokens'[u] = tokens[u]
  BY <1>1, <1>3, <1>4, Becomes
<1> USE DEF Parameters, Reasons, Auth!None, Auth!Tokens
<1>6. Shape'
  BY <1>2, <1>5, <1>4 DEF AuthInv, Shape, Known, Auth!Login
<1>7. Known'
  BY <1>2, <1>5, <1>4 DEF AuthInv, Known, Shape, Memory, Auth!Login
<1>8. Unissued'
  BY <1>2, <1>5 DEF AuthInv, Unissued, Shape, Known, Memory, Auth!Login
<1>9. Waits'
  BY <1>2, <1>5 DEF AuthInv, Waits, Shape, Memory, Auth!Login
<1>10. Private'
  <2> SUFFICES ASSUME NEW v \in Windows, tokens'[v].answer \in Auth!Tokens
               PROVE  /\ store' # tokens'[v].answer
                      /\ ended'[tokens'[v].answer] \notin Windows
                      /\ \A u \in Windows : /\ tokens'[u].refresh # tokens'[v].answer /\ tokens'[u].asks # tokens'[v].answer
                                            /\ tokens'[u].answer = tokens'[v].answer => u = v
    BY DEF Private
  <2>1. /\ tokens'[v].answer = tokens[v].answer /\ tokens[v].answer <= issued /\ store' = issued + 1 /\ ended' = ended
        /\ \A u \in Windows : tokens'[u].asks = tokens[u].asks /\ tokens'[u].answer = tokens[u].answer
    <3>1. \A u \in Windows : tokens'[u].asks = tokens[u].asks /\ tokens'[u].answer = tokens[u].answer
      BY <1>2, <1>5
    <3> QED
      BY <3>1 DEF AuthInv, Known, Auth!Login
  <2>2. \A u \in Windows : tokens'[u].refresh = tokens[u].refresh \/ tokens'[u].refresh = issued + 1
    BY <1>2, <1>5
  <2> QED
    BY <1>1, <2>1, <2>2 DEF AuthInv, Private
<1>11. Past'
  BY <1>2, <1>5 DEF AuthInv, Past, Shape, Known, Private, Unissued, Memory, Auth!Login
<1>12. Refusal'
  BY <1>2, <1>5 DEF AuthInv, Refusal, Shape, Known, Memory, Auth!Login
<1>13. Bounce'
  BY <1>2, <1>5 DEF AuthInv, Bounce, Shape, Known, Memory, Auth!Login
<1> QED
  BY <1>6, <1>7, <1>8, <1>9, <1>10, <1>11, <1>12, <1>13 DEF AuthInv

LEMMA ReloadKeeps ==
  ASSUME Parameters, AuthInv, NEW t \in Windows, Auth!Reload(t)
  PROVE  AuthInv'
<1> DEFINE new == [Auth!SignedOut EXCEPT !.refresh = store]
<1>1. /\ tokens \in [Windows -> Memory] /\ tokens[t] \in Memory
      /\ issued \in Nat /\ store \in Nat /\ issued + 1 \in Nat /\ Auth!None \in Nat
  BY DEF AuthInv, Shape, Parameters, Auth!None
<1>2. new = [refresh |-> store, fresh |-> FALSE, asks |-> Auth!None, answer |-> Auth!None]
  BY <1>1, SignedOutMemory
<1>3. tokens' = [tokens EXCEPT ![t] = new]
  BY <1>1 DEF Auth!Reload
<1> HIDE DEF new
<1>4. new \in Memory
  BY <1>1, <1>2 DEF Memory
<1>5. tokens' \in [Windows -> Memory] /\ tokens'[t] = new /\ \A u \in Windows : u # t => tokens'[u] = tokens[u]
  BY <1>1, <1>3, <1>4, Becomes
<1> USE DEF Parameters, Reasons, Auth!None, Auth!Tokens
<1>6. Auth!Unheard(t)
  BY DEF Auth!Reload
<1>7. Shape'
  BY <1>2, <1>5, <1>6, UnheardEnds, <1>4 DEF AuthInv, Shape, Known, Auth!Reload
<1>8. Known'
  <2> SUFFICES ASSUME NEW u \in Windows
               PROVE  /\ tokens'[u].refresh <= issued' /\ tokens'[u].asks <= issued' /\ bounced'[u] <= issued'
                      /\ tokens'[u].answer <= issued' \/ tokens'[u].answer = MaxTokens + 1
    BY DEF Known
  <2>1. issued' = issued /\ bounced' = bounced /\ bounced[u] <= issued /\ store <= issued /\ 0 <= issued
    BY DEF AuthInv, Shape, Known, Auth!Reload
  <2>2. CASE u = t
    BY <1>2, <1>5, <2>1, <2>2
  <2>3. CASE u # t
    BY <1>5, <2>1, <2>3 DEF AuthInv, Known
  <2> QED
    BY <2>2, <2>3
<1>9. Unissued'
  BY <1>2, <1>5, <1>6, UnheardEnds DEF AuthInv, Unissued, Shape, Known, Memory, Auth!Reload
<1>10. Waits'
  BY <1>2, <1>5, <1>6, UnheardEnds DEF AuthInv, Waits, Shape, Memory, Auth!Reload
<1>11. Private'
  <2> SUFFICES ASSUME NEW v \in Windows, tokens'[v].answer \in Auth!Tokens
               PROVE  /\ store' # tokens'[v].answer
                      /\ ended'[tokens'[v].answer] \notin Windows
                      /\ \A u \in Windows : /\ tokens'[u].refresh # tokens'[v].answer /\ tokens'[u].asks # tokens'[v].answer
                                            /\ tokens'[u].answer = tokens'[v].answer => u = v
    BY DEF Private
  <2>1. v # t /\ tokens'[v] = tokens[v] /\ store' = store
    BY <1>2, <1>5 DEF Auth!Reload
  <2>2. /\ tokens[v].answer \in Auth!Tokens /\ store # tokens[v].answer /\ ended[tokens[v].answer] \notin Windows
        /\ \A u \in Windows : /\ tokens[u].refresh # tokens[v].answer /\ tokens[u].asks # tokens[v].answer
                              /\ tokens[u].answer = tokens[v].answer => u = v
    BY <2>1 DEF AuthInv, Private
  <2>3. ended'[tokens[v].answer] \notin Windows
    BY <1>6, <2>2, UnheardEnds
  <2>4. \A u \in Windows : /\ tokens'[u].refresh # tokens[v].answer /\ tokens'[u].asks # tokens[v].answer
                           /\ tokens'[u].answer = tokens[v].answer => u = v
    BY <1>2, <1>5, <2>2
  <2> QED
    BY <2>1, <2>2, <2>3, <2>4
<1>12. Past'
  <2> SUFFICES ASSUME NEW v \in Windows, NEW n \in Auth!Tokens, ended'[n] = v
               PROVE  IF tokens'[v].asks = n THEN tokens'[v].answer \in Auth!Tokens
                                          ELSE tokens'[v].refresh # n /\ store' # n
    BY DEF Past
  <2>1. store' = store /\ v \notin Reasons /\ Auth!None \notin Auth!Tokens
    BY DEF Auth!Reload
  <2>2. ended[n] = v
    BY <1>6, <2>1, UnheardEnds
  <2>3. CASE v = t
    <3>1. tokens[t].asks # n
      BY <1>6, <2>3, UnheardEnds
    <3> QED
      BY <1>2, <1>5, <2>1, <2>2, <2>3, <3>1 DEF AuthInv, Past
  <2>4. CASE v # t
    BY <1>5, <2>1, <2>2, <2>4 DEF AuthInv, Past
  <2> QED
    BY <2>3, <2>4
<1>13. Refusal'
  BY <1>2, <1>5, <1>6, UnheardEnds DEF AuthInv, Refusal, Shape, Known, Memory, Auth!Reload
<1>14. Bounce'
  <2> SUFFICES ASSUME NEW u \in Windows, bounced'[u] # Auth!None
               PROVE  ended'[bounced'[u]] \notin {"no", u}
    BY DEF Bounce
  <2>1. bounced' = bounced /\ bounced[u] \in Auth!Tokens /\ ended[bounced[u]] \notin {"no", u}
    BY DEF AuthInv, Shape, Bounce, Auth!Reload
  <2> QED
    BY <1>6, <2>1, UnheardEnds
<1> QED
  BY <1>7, <1>8, <1>9, <1>10, <1>11, <1>12, <1>13, <1>14 DEF AuthInv

LEMMA ExpireKeeps ==
  ASSUME Parameters, AuthInv, NEW t \in Windows, Auth!Expire(t)
  PROVE  AuthInv'
<1> DEFINE new == [tokens[t] EXCEPT !.fresh = FALSE]
<1>1. /\ tokens \in [Windows -> Memory] /\ tokens[t] \in Memory
      /\ issued \in Nat /\ store \in Nat /\ issued + 1 \in Nat /\ Auth!None \in Nat
  BY DEF AuthInv, Shape, Parameters, Auth!None
<1>2. new = [refresh |-> tokens[t].refresh, fresh |-> FALSE, asks |-> tokens[t].asks, answer |-> tokens[t].answer]
  BY <1>1, WithFresh
<1>3. tokens' = [tokens EXCEPT ![t] = new]
  BY <1>1 DEF Auth!Expire
<1> HIDE DEF new
<1>4. new \in Memory
  BY <1>1, <1>2 DEF Memory
<1>5. tokens' \in [Windows -> Memory] /\ tokens'[t] = new /\ \A u \in Windows : u # t => tokens'[u] = tokens[u]
  BY <1>1, <1>3, <1>4, Becomes
<1> USE DEF Parameters, Reasons, Auth!None, Auth!Tokens
<1>6. Shape'
  BY <1>2, <1>5, <1>4 DEF AuthInv, Shape, Known, Auth!Expire
<1>7. Known'
  BY <1>2, <1>5, <1>4 DEF AuthInv, Known, Shape, Memory, Auth!Expire
<1>8. Unissued'
  BY <1>2, <1>5 DEF AuthInv, Unissued, Shape, Known, Memory, Auth!Expire
<1>9. Waits'
  BY <1>2, <1>5 DEF AuthInv, Waits, Shape, Memory, Auth!Expire
<1>10. Private'
  <2>1. \A u \in Windows : /\ tokens'[u].refresh = tokens[u].refresh /\ tokens'[u].asks = tokens[u].asks
                          /\ tokens'[u].answer = tokens[u].answer
    BY <1>2, <1>5
  <2>2. store' = store /\ ended' = ended
    BY DEF Auth!Expire
  <2> QED
    BY <2>1, <2>2 DEF AuthInv, Private
<1>11. Past'
  BY <1>2, <1>5 DEF AuthInv, Past, Shape, Known, Private, Unissued, Memory, Auth!Expire
<1>12. Refusal'
  BY <1>2, <1>5 DEF AuthInv, Refusal, Shape, Known, Memory, Auth!Expire
<1>13. Bounce'
  BY <1>2, <1>5 DEF AuthInv, Bounce, Shape, Known, Memory, Auth!Expire
<1> QED
  BY <1>6, <1>7, <1>8, <1>9, <1>10, <1>11, <1>12, <1>13 DEF AuthInv

LEMMA FailedKeeps ==
  ASSUME Parameters, AuthInv, NEW t \in Windows, Auth!Failed(t)
  PROVE  AuthInv'
<1> DEFINE new == Auth!SignedOut
<1>1. /\ tokens \in [Windows -> Memory] /\ tokens[t] \in Memory
      /\ issued \in Nat /\ store \in Nat /\ issued + 1 \in Nat /\ Auth!None \in Nat
  BY DEF AuthInv, Shape, Parameters, Auth!None
<1>2. new = [refresh |-> Auth!None, fresh |-> FALSE, asks |-> Auth!None, answer |-> Auth!None]
  BY <1>1, SignedOutMemory
<1>3. tokens' = [tokens EXCEPT ![t] = new]
  BY <1>1 DEF Auth!Failed
<1> HIDE DEF new
<1>4. new \in Memory
  BY <1>1, <1>2 DEF Memory
<1>5. tokens' \in [Windows -> Memory] /\ tokens'[t] = new /\ \A u \in Windows : u # t => tokens'[u] = tokens[u]
  BY <1>1, <1>3, <1>4, Becomes
<1> USE DEF Parameters, Reasons, Auth!None, Auth!Tokens
<1>6. Auth!Unheard(t)
  BY DEF Auth!Failed
<1>7. Shape'
  BY <1>2, <1>5, <1>6, UnheardEnds, <1>4 DEF AuthInv, Shape, Known, Auth!Failed
<1>8. Known'
  BY <1>2, <1>5, <1>6, UnheardEnds, <1>4 DEF AuthInv, Known, Shape, Memory, Auth!Failed
<1>9. Unissued'
  BY <1>2, <1>5, <1>6, UnheardEnds DEF AuthInv, Unissued, Shape, Known, Memory, Auth!Failed
<1>10. Waits'
  BY <1>2, <1>5, <1>6, UnheardEnds DEF AuthInv, Waits, Shape, Memory, Auth!Failed
<1>11. Private'
  <2> SUFFICES ASSUME NEW v \in Windows, tokens'[v].answer \in Auth!Tokens
               PROVE  /\ store' # tokens'[v].answer
                      /\ ended'[tokens'[v].answer] \notin Windows
                      /\ \A u \in Windows : /\ tokens'[u].refresh # tokens'[v].answer /\ tokens'[u].asks # tokens'[v].answer
                                            /\ tokens'[u].answer = tokens'[v].answer => u = v
    BY DEF Private
  <2>1. v # t /\ tokens'[v] = tokens[v] /\ store' = Auth!None
    BY <1>2, <1>5 DEF Auth!Failed
  <2>2. /\ tokens[v].answer \in Auth!Tokens /\ ended[tokens[v].answer] \notin Windows
        /\ \A u \in Windows : /\ tokens[u].refresh # tokens[v].answer /\ tokens[u].asks # tokens[v].answer
                              /\ tokens[u].answer = tokens[v].answer => u = v
    BY <2>1 DEF AuthInv, Private
  <2>3. ended'[tokens[v].answer] \notin Windows
    BY <1>6, <2>2, UnheardEnds
  <2>4. \A u \in Windows : /\ tokens'[u].refresh # tokens[v].answer /\ tokens'[u].asks # tokens[v].answer
                           /\ tokens'[u].answer = tokens[v].answer => u = v
    BY <1>2, <1>5, <2>2
  <2> QED
    BY <2>1, <2>2, <2>3, <2>4
<1>12. Past'
  <2> SUFFICES ASSUME NEW v \in Windows, NEW n \in Auth!Tokens, ended'[n] = v
               PROVE  IF tokens'[v].asks = n THEN tokens'[v].answer \in Auth!Tokens
                                          ELSE tokens'[v].refresh # n /\ store' # n
    BY DEF Past
  <2>1. store' = Auth!None /\ v \notin Reasons /\ Auth!None \notin Auth!Tokens
    BY DEF Auth!Failed
  <2>2. ended[n] = v
    BY <1>6, <2>1, UnheardEnds
  <2>3. CASE v = t
    BY <1>2, <1>5, <2>1, <2>3
  <2>4. CASE v # t
    BY <1>5, <2>1, <2>2, <2>4 DEF AuthInv, Past
  <2> QED
    BY <2>3, <2>4
<1>13. Refusal'
  BY <1>2, <1>5, <1>6, UnheardEnds DEF AuthInv, Refusal, Shape, Known, Memory, Auth!Failed
<1>14. Bounce'
  <2> SUFFICES ASSUME NEW u \in Windows, bounced'[u] # Auth!None
               PROVE  ended'[bounced'[u]] \notin {"no", u}
    BY DEF Bounce
  <2>1. bounced' = bounced /\ bounced[u] \in Auth!Tokens /\ ended[bounced[u]] \notin {"no", u}
    BY DEF AuthInv, Shape, Bounce, Auth!Failed
  <2> QED
    BY <1>6, <2>1, UnheardEnds
<1> QED
  BY <1>7, <1>8, <1>9, <1>10, <1>11, <1>12, <1>13, <1>14 DEF AuthInv

LEMMA LogoutKeeps ==
  ASSUME Parameters, AuthInv, NEW t \in Windows, Auth!Logout(t)
  PROVE  AuthInv'
<1> DEFINE new == [tokens[t] EXCEPT !.refresh = Auth!None, !.fresh = FALSE]
<1>1. /\ tokens \in [Windows -> Memory] /\ tokens[t] \in Memory
      /\ issued \in Nat /\ store \in Nat /\ issued + 1 \in Nat /\ Auth!None \in Nat
  BY DEF AuthInv, Shape, Parameters, Auth!None
<1>2. new = [refresh |-> Auth!None, fresh |-> FALSE, asks |-> tokens[t].asks, answer |-> tokens[t].answer]
  BY <1>1, Held
<1>3. tokens' = [tokens EXCEPT ![t] = new]
  BY <1>1 DEF Auth!Logout
<1> HIDE DEF new
<1>4. new \in Memory
  BY <1>1, <1>2 DEF Memory
<1>5. tokens' \in [Windows -> Memory] /\ tokens'[t] = new /\ \A u \in Windows : u # t => tokens'[u] = tokens[u]
  BY <1>1, <1>3, <1>4, Becomes
<1> USE DEF Parameters, Reasons, Auth!None, Auth!Tokens
<1>6. Shape'
  <2>1. ended' \in [Auth!Tokens -> Windows \cup Reasons]
    BY DEF AuthInv, Shape, Auth!Logout
  <2> QED
    BY <1>5, <2>1 DEF AuthInv, Shape, Auth!Logout
<1>7. Known'
  BY <1>2, <1>5, <1>4 DEF AuthInv, Known, Shape, Memory, Auth!Logout
<1>8. Unissued'
  BY <1>2, <1>5 DEF AuthInv, Unissued, Shape, Known, Memory, Auth!Logout
<1>9. Waits'
  BY <1>2, <1>5 DEF AuthInv, Waits, Shape, Memory, Auth!Logout
<1>10. Private'
  <2>1. \A u \in Windows : /\ tokens'[u].refresh = tokens[u].refresh \/ tokens'[u].refresh = Auth!None
                          /\ tokens'[u].asks = tokens[u].asks /\ tokens'[u].answer = tokens[u].answer
    BY <1>2, <1>5
  <2>2. store' = store \/ store' = Auth!None
    BY DEF Auth!Logout
  <2>3. \A n \in Auth!Tokens : n # Auth!None /\ (ended[n] \notin Windows => ended'[n] \notin Windows)
    BY DEF AuthInv, Shape, Auth!Logout
  <2> QED
    BY <2>1, <2>2, <2>3 DEF AuthInv, Private
<1>11. Past'
  BY <1>2, <1>5 DEF AuthInv, Past, Shape, Known, Private, Unissued, Memory, Auth!Logout
<1>12. Refusal'
  BY <1>2, <1>5 DEF AuthInv, Refusal, Shape, Known, Memory, Auth!Logout
<1>13. Bounce'
  BY <1>2, <1>5 DEF AuthInv, Bounce, Shape, Known, Memory, Auth!Logout
<1> QED
  BY <1>6, <1>7, <1>8, <1>9, <1>10, <1>11, <1>12, <1>13 DEF AuthInv

LEMMA ResetKeeps ==
  ASSUME Parameters, AuthInv, Auth!Reset
  PROVE  AuthInv'
<1> USE DEF Parameters, Reasons, Auth!None, Auth!Tokens
<1>1. \A n \in Auth!Tokens : ended'[n] = IF n <= issued /\ ended[n] = "no" THEN "reset" ELSE ended[n]
  BY DEF Auth!Reset
<1>2. ended' \in [Auth!Tokens -> Windows \cup Reasons]
  BY DEF AuthInv, Shape, Auth!Reset
<1>3. Shape' /\ Known' /\ Unissued' /\ Waits'
  BY <1>1, <1>2 DEF AuthInv, Shape, Known, Unissued, Waits, Auth!Reset
<1>4. Private' /\ Past'
  BY <1>1 DEF AuthInv, Shape, Private, Past, Auth!Reset
<1>5. Refusal' /\ Bounce'
  BY <1>1 DEF AuthInv, Shape, Known, Memory, Refusal, Bounce, Auth!Reset
<1> QED
  BY <1>3, <1>4, <1>5 DEF AuthInv

LEMMA RefusedKeeps ==
  ASSUME Parameters, AuthInv, NEW t \in Windows, NEW r \in Calls, Auth!Refused(t, r)
  PROVE  AuthInv'
<1>1. /\ tokens \in [Windows -> Memory] /\ tokens[t] \in Memory /\ tokens[t].refresh \in Nat /\ Auth!None \in Nat
      /\ req \in [Windows -> [Calls -> {"idle", "waiting"}]]
  BY DEF AuthInv, Shape, Memory, Auth!None
<1>2. req' = [req EXCEPT ![t][r] = "waiting"] /\ tokens[t].refresh # Auth!None
  BY DEF Auth!Refused
<1>3. req' \in [Windows -> [Calls -> {"idle", "waiting"}]] /\ \A u \in Windows : u # t => req'[u] = req[u]
  BY <1>1, <1>2
<1>4. UNCHANGED <<issued, ended, store, bounced>>
  BY DEF Auth!Refused
<1>5. CASE Auth!Joins(t)
  <2>1. tokens' = tokens /\ tokens[t].asks # Auth!None
    BY <1>5 DEF Auth!Refused, Auth!Joins
  <2>2. Shape' /\ Known' /\ Unissued'
    BY <1>3, <1>4, <2>1 DEF AuthInv, Shape, Known, Unissued
  <2>3. Waits'
    BY <1>3, <2>1 DEF AuthInv, Waits
  <2>4. Private' /\ Past' /\ Refusal' /\ Bounce'
    BY <1>4, <2>1 DEF AuthInv, Private, Past, Refusal, Bounce
  <2> QED
    BY <2>2, <2>3, <2>4 DEF AuthInv
<1>6. CASE ~Auth!Joins(t)
  <2> DEFINE new == [tokens[t] EXCEPT !.asks = tokens[t].refresh, !.answer = Auth!None]
  <2>1. new = [refresh |-> tokens[t].refresh, fresh |-> tokens[t].fresh, asks |-> tokens[t].refresh, answer |-> Auth!None]
    BY <1>1, Asked
  <2>2. tokens[t].asks = Auth!None
    BY <1>6 DEF Auth!Joins
  <2>3. tokens' = [tokens EXCEPT ![t].asks = tokens[t].refresh, ![t].answer = Auth!None]
    BY <1>6 DEF Auth!Refused
  <2>4. tokens' = [tokens EXCEPT ![t] = new]
    BY <1>1, <2>3
  <2> HIDE DEF new
  <2>5. new \in Memory
    BY <1>1, <2>1 DEF Memory
  <2>6. tokens' \in [Windows -> Memory] /\ tokens'[t] = new /\ \A u \in Windows : u # t => tokens'[u] = tokens[u]
    BY <1>1, <2>4, <2>5, Becomes
  <2> USE DEF Parameters, Reasons, Auth!None, Auth!Tokens
  <2>7. Shape' /\ Unissued'
    BY <1>3, <1>4, <2>6 DEF AuthInv, Shape, Unissued
  <2>8. Known'
    BY <1>4, <2>1, <2>6 DEF AuthInv, Shape, Known
  <2>9. Waits'
    BY <1>2, <1>3, <2>1, <2>6 DEF AuthInv, Waits
  <2>10. Private'
    BY <1>4, <2>1, <2>6 DEF AuthInv, Private
  <2>11. Past'
    BY <1>4, <2>1, <2>2, <2>6 DEF AuthInv, Past
  <2>12. Refusal' /\ Bounce'
    BY <1>4, <2>1, <2>6 DEF AuthInv, Refusal, Bounce
  <2> QED
    BY <2>7, <2>8, <2>9, <2>10, <2>11, <2>12 DEF AuthInv
<1> QED
  BY <1>5, <1>6

LEMMA RefreshKeeps ==
  ASSUME Parameters, AuthInv, NEW t \in Windows, Auth!Refresh(t)
  PROVE  AuthInv'
<1> USE DEF Parameters, Reasons, Auth!None, Auth!Tokens
<1> DEFINE n == tokens[t].asks
<1>1. /\ tokens \in [Windows -> Memory] /\ tokens[t] \in Memory
      /\ issued \in Nat /\ issued <= MaxTokens /\ issued + 1 \in Nat /\ MaxTokens + 1 \in Nat
      /\ ended \in [Auth!Tokens -> Windows \cup Reasons]
  BY DEF AuthInv, Shape
<1>2. n \in Auth!Tokens /\ n <= issued /\ tokens[t].answer = Auth!None /\ UNCHANGED <<req, store, bounced>>
  BY <1>1 DEF Auth!Refresh, AuthInv, Known, Memory
<1>3. CASE ended[n] = "no"
  <2> DEFINE new == [tokens[t] EXCEPT !.answer = issued + 1]
  <2>1. new = [refresh |-> tokens[t].refresh, fresh |-> tokens[t].fresh, asks |-> n, answer |-> issued + 1]
    BY <1>1, WithAnswer
  <2>2. issued < MaxTokens /\ issued' = issued + 1 /\ ended' = [ended EXCEPT ![n] = t]
    BY <1>3 DEF Auth!Refresh, Auth!Rotated
  <2>3. tokens' = [tokens EXCEPT ![t].answer = issued + 1]
    BY <1>3 DEF Auth!Refresh
  <2>4. tokens' = [tokens EXCEPT ![t] = new]
    BY <1>1, <2>3
  <2> HIDE DEF new
  <2>5. new \in Memory
    BY <1>1, <2>1 DEF Memory
  <2>6. tokens' \in [Windows -> Memory] /\ tokens'[t] = new /\ \A u \in Windows : u # t => tokens'[u] = tokens[u]
    BY <1>1, <2>4, <2>5, Becomes
  <2>7. /\ ended' \in [Auth!Tokens -> Windows \cup Reasons]
        /\ \A m \in Auth!Tokens : ended'[m] = IF m = n THEN t ELSE ended[m]
    BY <1>1, <1>2, <2>2
  <2> HIDE DEF n
  <2>8. Shape'
    BY <1>2, <2>2, <2>6, <2>7 DEF AuthInv, Shape
  <2>9. Known' /\ Unissued'
    <3>1. \A u \in Windows : tokens[u] \in Memory /\ bounced[u] \in Nat
      BY <1>1 DEF AuthInv, Shape
    <3>2. Known'
      <4> SUFFICES ASSUME NEW u \in Windows
                   PROVE  /\ tokens'[u].refresh <= issued' /\ tokens'[u].asks <= issued' /\ bounced'[u] <= issued'
                          /\ tokens'[u].answer <= issued' \/ tokens'[u].answer = MaxTokens + 1
        BY DEF Known
      <4>1. /\ tokens[u].refresh <= issued + 1 /\ tokens[u].asks <= issued + 1 /\ bounced[u] <= issued + 1
            /\ tokens[u].answer <= issued + 1 \/ tokens[u].answer = MaxTokens + 1
        BY <1>1, <3>1 DEF AuthInv, Known, Memory
      <4>2. CASE u = t
        BY <1>1, <1>2, <2>1, <2>2, <2>6, <4>1, <4>2 DEF n
      <4>3. CASE u # t
        BY <1>2, <2>2, <2>6, <4>1, <4>3
      <4> QED
        BY <4>2, <4>3
    <3>3. Unissued'
      BY <1>1, <1>2, <2>2, <2>7 DEF AuthInv, Unissued
    <3> QED
      BY <3>2, <3>3
  <2>10. Waits'
    BY <1>2, <2>1, <2>6, <2>7 DEF AuthInv, Waits, n
  <2>11. Private'
    <3>0. issued + 1 \in Auth!Tokens /\ ended[issued + 1] = "no" /\ issued + 1 # n /\ store # issued + 1
      BY <1>1, <1>2, <2>2 DEF AuthInv, Shape, Unissued
    <3>1. \A u \in Windows : tokens[u].refresh # issued + 1 /\ tokens[u].asks # issued + 1 /\ tokens[u].answer # issued + 1
      <4> SUFFICES ASSUME NEW u \in Windows
                   PROVE  tokens[u].refresh # issued + 1 /\ tokens[u].asks # issued + 1 /\ tokens[u].answer # issued + 1
        OBVIOUS
      <4>1. tokens[u] \in Memory
        BY <1>1
      <4> QED
        BY <1>1, <2>2, <4>1 DEF AuthInv, Known, Memory
    <3>2. \A u \in Windows : tokens[u].answer # n \/ tokens[u].answer \notin Auth!Tokens
      BY DEF AuthInv, Private, n
    <3>3. /\ \A u \in Windows : tokens'[u].refresh = tokens[u].refresh /\ tokens'[u].asks = tokens[u].asks
          /\ \A u \in Windows : tokens'[u].answer = IF u = t THEN issued + 1 ELSE tokens[u].answer
      BY <2>1, <2>6 DEF n
    <3> QED
      BY <1>2, <2>2, <2>7, <3>0, <3>1, <3>2, <3>3 DEF AuthInv, Private
  <2>12. Past'
    <3>1. ended[n] \notin Windows
      BY <1>3
    <3> QED
      BY <1>1, <1>2, <2>1, <2>2, <2>6, <2>7, <3>1 DEF AuthInv, Past, n
  <2>13. Refusal'
    <3> SUFFICES ASSUME NEW u \in Windows, tokens'[u].answer = MaxTokens + 1, tokens'[u].asks # Auth!None
                 PROVE  ended'[tokens'[u].asks] \notin {"no", u}
      BY DEF Refusal
    <3>1. u # t /\ tokens'[u] = tokens[u]
      BY <1>1, <2>1, <2>2, <2>6
    <3>2. tokens[u].asks \in Auth!Tokens /\ ended[tokens[u].asks] \notin {"no", u}
      BY <1>1, <3>1 DEF AuthInv, Refusal, Known, Memory
    <3> QED
      BY <1>3, <2>7, <3>1, <3>2
  <2>14. Bounce'
    BY <1>2, <1>3, <2>7 DEF AuthInv, Shape, Bounce
  <2> QED
    BY <2>8, <2>9, <2>10, <2>11, <2>12, <2>13, <2>14 DEF AuthInv
<1>4. CASE ended[n] # "no"
  <2> DEFINE new == [tokens[t] EXCEPT !.answer = MaxTokens + 1]
  <2>1. new = [refresh |-> tokens[t].refresh, fresh |-> tokens[t].fresh, asks |-> n, answer |-> MaxTokens + 1]
    BY <1>1, WithAnswer
  <2>2. UNCHANGED <<issued, ended>>
    BY <1>4 DEF Auth!Refresh
  <2>3. tokens' = [tokens EXCEPT ![t].answer = MaxTokens + 1]
    BY <1>4 DEF Auth!Refresh
  <2>4. tokens' = [tokens EXCEPT ![t] = new]
    BY <1>1, <2>3
  <2> HIDE DEF new
  <2>5. new \in Memory
    BY <1>1, <2>1 DEF Memory
  <2>6. tokens' \in [Windows -> Memory] /\ tokens'[t] = new /\ \A u \in Windows : u # t => tokens'[u] = tokens[u]
    BY <1>1, <2>4, <2>5, Becomes
  <2>7. ended[n] # t
    BY <1>2 DEF AuthInv, Past
  <2> HIDE DEF n
  <2>8. Shape' /\ Known' /\ Unissued'
    <3>1. Shape' /\ Unissued'
      BY <1>2, <2>2, <2>6 DEF AuthInv, Shape, Unissued
    <3>2. Known'
      BY <1>2, <2>1, <2>2, <2>6 DEF AuthInv, Known, n
    <3> QED
      BY <3>1, <3>2
  <2>9. Waits' /\ Private'
    BY <1>2, <2>1, <2>2, <2>6 DEF AuthInv, Waits, Private, n
  <2>10. Past'
    BY <1>2, <2>1, <2>2, <2>6, <2>7 DEF AuthInv, Past, n
  <2>11. Refusal' /\ Bounce'
    BY <1>2, <1>4, <2>1, <2>2, <2>6, <2>7 DEF AuthInv, Refusal, Bounce
  <2> QED
    BY <2>8, <2>9, <2>10, <2>11 DEF AuthInv
<1> QED
  BY <1>3, <1>4

LEMMA AnsweredKeeps ==
  ASSUME Parameters, AuthInv, NEW t \in Windows, Auth!Answered(t)
  PROVE  AuthInv'
<1> USE DEF Parameters, Reasons, Auth!None, Auth!Tokens
<1> DEFINE n == tokens[t].answer
           k == IF n \in Auth!Tokens THEN n ELSE Auth!None
           holding == Auth!Holds(t, k)
           new == [holding EXCEPT !.asks = Auth!None, !.answer = Auth!None]
<1>1. /\ tokens \in [Windows -> Memory] /\ tokens[t] \in Memory /\ issued \in Nat /\ issued <= MaxTokens
      /\ req \in [Windows -> [Calls -> {"idle", "waiting"}]]
  BY DEF AuthInv, Shape
<1>2. n # Auth!None /\ UNCHANGED <<issued, ended>>
  BY DEF Auth!Answered
<1>3. k \in Nat /\ k <= issued
  BY <1>1 DEF AuthInv, Known, Memory
<1>4. store' = k /\ bounced' = IF n \in Auth!Tokens THEN bounced ELSE [bounced EXCEPT ![t] = tokens[t].asks]
  BY DEF Auth!Answered
<1>5. req' = [req EXCEPT ![t] = [r \in Calls |-> "idle"]]
  BY DEF Auth!Answered
<1>6. tokens' = [tokens EXCEPT ![t] = new]
  BY DEF Auth!Answered
<1> HIDE DEF k
<1>7. holding = [refresh |-> k, fresh |-> k # Auth!None, asks |-> tokens[t].asks, answer |-> tokens[t].answer]
  BY <1>1, <1>3, Held DEF Auth!Holds
<1> HIDE DEF holding
<1>8. holding \in Memory /\ holding.refresh = k
  BY <1>1, <1>3, <1>7 DEF Memory
<1>9. new = [refresh |-> holding.refresh, fresh |-> holding.fresh, asks |-> Auth!None, answer |-> Auth!None]
  BY <1>8, Asked
<1> HIDE DEF new
<1>10. new \in Memory /\ new.refresh = k /\ new.asks = Auth!None /\ new.answer = Auth!None
  BY <1>8, <1>9 DEF Memory
<1>11. tokens' \in [Windows -> Memory] /\ tokens'[t] = new /\ \A u \in Windows : u # t => tokens'[u] = tokens[u]
  BY <1>1, <1>6, <1>10, Becomes
<1>12. bounced' \in [Windows -> 0..MaxTokens] /\ \A u \in Windows : bounced'[u] <= issued
  BY <1>1, <1>4 DEF AuthInv, Shape, Known, Memory
<1>13. Shape'
  <2>1. req' \in [Windows -> [Calls -> {"idle", "waiting"}]]
    BY <1>1, <1>5
  <2>2. issued' \in 0..MaxTokens /\ store' \in 0..issued' /\ ended' \in [Auth!Tokens -> Windows \cup Reasons]
    BY <1>2, <1>3, <1>4 DEF AuthInv, Shape
  <2> QED
    BY <1>11, <1>12, <2>1, <2>2 DEF Shape
<1>14. Known' /\ Unissued'
  BY <1>1, <1>2, <1>3, <1>10, <1>11, <1>12 DEF AuthInv, Known, Unissued
<1>15. Waits'
  BY <1>1, <1>5, <1>11 DEF AuthInv, Waits
<1>16. Private'
  BY <1>2, <1>4, <1>10, <1>11 DEF AuthInv, Private, k
<1>17. Past'
  BY <1>2, <1>4, <1>10, <1>11 DEF AuthInv, Past, Private, k
<1>18. Refusal'
  BY <1>2, <1>10, <1>11 DEF AuthInv, Refusal
<1>19. Bounce'
  <2>1. n \notin Auth!Tokens => n = MaxTokens + 1
    BY <1>1, <1>2 DEF AuthInv, Known, Memory
  <2>2. bounced'[t] # bounced[t] => bounced'[t] = tokens[t].asks /\ n = MaxTokens + 1
    BY <1>4, <2>1 DEF AuthInv, Shape
  <2>3. \A u \in Windows : u # t => bounced'[u] = bounced[u]
    BY <1>4 DEF AuthInv, Shape
  <2> QED
    BY <1>2, <2>2, <2>3 DEF AuthInv, Bounce, Refusal
<1> QED
  BY <1>13, <1>14, <1>15, <1>16, <1>17, <1>18, <1>19 DEF AuthInv

--------------------------------------------------------------------------------
LEMMA AuthBegins ==
  ASSUME Parameters, Auth!Init
  PROVE  AuthInv
<1> USE DEF Parameters, Reasons, Auth!None, Auth!Tokens
<1>1. Auth!SignedOut \in Memory /\ \A t \in Windows : tokens[t] = Auth!SignedOut
  BY SignedOutMemory DEF Auth!Init
<1>2. \A t \in Windows : tokens[t].refresh = 0 /\ tokens[t].asks = 0 /\ tokens[t].answer = 0
  BY <1>1 DEF Auth!SignedOut
<1>3. Shape /\ Unissued
  BY <1>1 DEF Auth!Init, Shape, Unissued
<1>4. Known /\ Waits /\ Private /\ Past /\ Refusal /\ Bounce
  BY <1>2 DEF Auth!Init, Known, Waits, Private, Past, Refusal, Bounce
<1> QED
  BY <1>3, <1>4 DEF AuthInv

LEMMA AuthKeeps ==
  ASSUME AuthInv, Auth!Next \/ UNCHANGED auth
  PROVE  AuthInv'
<1>1. CASE UNCHANGED auth
  BY <1>1 DEF auth, AuthInv, Shape, Known, Unissued, Waits, Private, Past, Refusal, Bounce
<1>2. CASE Auth!Next
  BY <1>2, Granted, LoginKeeps, ReloadKeeps, ExpireKeeps, RefreshKeeps, AnsweredKeeps, FailedKeeps,
     LogoutKeeps, RefusedKeeps, ResetKeeps DEF Auth!Next
<1> QED
  BY <1>1, <1>2

LEMMA AuthHolds ==
  ASSUME AuthInv
  PROVE  NotByItself
<1>1. Auth!TypeOK
  BY Granted DEF Parameters, AuthInv, Shape, Known, Waits, Memory, Auth!TypeOK
<1>2. Auth!NotByItself
  BY DEF AuthInv, Bounce, Auth!NotByItself
<1> QED
  BY <1>1, <1>2 DEF NotByItself

--------------------------------------------------------------------------------
(* WebPanel. *)

Loads == [token : Nat, agent : Agents]

\* The latest load is one for the agent chosen, an answer that has come is too, and
\* whatever guards the panel holds it back.
PanelInv ==
  /\ agent \in Agents \cup {NoAgent} /\ held \in Agents \cup {NoAgent}
  /\ token \in Nat /\ loads \subseteq Loads
  /\ streaming \in BOOLEAN /\ composing \in BOOLEAN /\ suppressed \in BOOLEAN /\ query \in BOOLEAN
  /\ light \in -1..(Panel!Results - 1)
  /\ \A l \in loads : l.token <= token /\ (l.token = token => l.agent = agent)
  /\ (\A l \in loads : l.token # token) => held \in {agent, NoAgent}
  /\ Panel!Guarded => suppressed

LEMMA PanelBegins ==
  ASSUME Panel!Init
  PROVE  PanelInv
<1>1. Panel!Results = 0 /\ Panel!Guarded
  BY DEF Panel!Init, Panel!Results, Panel!Guarded
<1>2. light = -1 /\ -1 \in -1..(0 - 1)
  BY DEF Panel!Init
<1>3. light \in -1..(Panel!Results - 1)
  BY <1>1, <1>2
<1> QED
  BY <1>1, <1>3 DEF Panel!Init, PanelInv, Loads

\* What both watchers leave: the highlight is a row, and a guarded panel is held back.
LEMMA WatchedKeeps ==
  ASSUME PanelInv, NEW closing \in BOOLEAN, Panel!Guarded => closing,
         Panel!Watched(closing), Panel!Guarded' \in BOOLEAN,
         held' \in Agents \cup {NoAgent}, query' \in BOOLEAN
  PROVE  /\ suppressed' \in BOOLEAN /\ (Panel!Guarded' => suppressed')
         /\ light' \in -1..(Panel!Results' - 1)
<1>1. Panel!Guarded \in BOOLEAN
  BY DEF PanelInv, Panel!Guarded
<1>2. suppressed' \in BOOLEAN /\ (Panel!Guarded' => suppressed')
  BY <1>1 DEF PanelInv, Panel!Watched
<1>3. Panel!Results' \in Nat
  BY AgentAssumption DEF Panel!Results
<1>4. light' = -1 \/ (light' = light /\ held' = held /\ query' = query)
  BY DEF Panel!Watched
<1>5. held' = held /\ query' = query => Panel!Results' = Panel!Results
  BY DEF Panel!Results
<1>6. light' \in -1..(Panel!Results' - 1)
  <2>1. CASE light' = -1
    <3>1. \A n \in Nat : -1 \in -1..(n - 1)
      OBVIOUS
    <3> QED
      BY <1>3, <2>1, <3>1
  <2>2. CASE light' = light /\ held' = held /\ query' = query
    BY <1>5, <2>2 DEF PanelInv
  <2> QED
    BY <1>4, <2>1, <2>2
<1> QED
  BY <1>2, <1>6

\* What a step that the watchers follow does to the loads and the list held.
PanelRest ==
  /\ agent \in Agents \cup {NoAgent} /\ held \in Agents \cup {NoAgent}
  /\ token \in Nat /\ loads \subseteq Loads
  /\ streaming \in BOOLEAN /\ composing \in BOOLEAN /\ query \in BOOLEAN
  /\ \A l \in loads : l.token <= token /\ (l.token = token => l.agent = agent)
  /\ (\A l \in loads : l.token # token) => held \in {agent, NoAgent}

LEMMA FollowedKeeps ==
  ASSUME PanelInv, PanelRest', NEW closing \in BOOLEAN, Panel!Guarded => closing, Panel!Watched(closing)
  PROVE  PanelInv'
<1>1. Panel!Guarded' \in BOOLEAN
  BY DEF PanelRest, Panel!Guarded
<1>2. held' \in Agents \cup {NoAgent} /\ query' \in BOOLEAN
  BY DEF PanelRest
<1>3. /\ suppressed' \in BOOLEAN /\ (Panel!Guarded' => suppressed')
      /\ light' \in -1..(Panel!Results' - 1)
  BY <1>1, <1>2, WatchedKeeps
<1> QED
  BY <1>3 DEF PanelRest, PanelInv

LEMMA ChooseKeeps ==
  ASSUME PanelInv, NEW a \in Agents \cup {NoAgent}, Panel!Choose(a)
  PROVE  PanelInv'
<1>1. CASE a = NoAgent
  <2>1. \A l \in loads : l.token # token + 1 /\ l.token <= token + 1
    BY DEF PanelInv, Loads
  <2>2. PanelRest'
    <3>1. /\ agent' = NoAgent /\ token' = token + 1 /\ loads' = loads /\ held' = NoAgent /\ query' = FALSE
          /\ streaming' = streaming /\ composing' = composing
      BY <1>1 DEF Panel!Choose
    <3>2. \A l \in loads' : l.token <= token' /\ (l.token = token' => l.agent = agent')
      BY <2>1, <3>1
    <3>3. token' \in Nat /\ loads' \subseteq Loads
      BY <3>1 DEF PanelInv
    <3>4. streaming' \in BOOLEAN /\ composing' \in BOOLEAN /\ query' \in BOOLEAN
      BY <3>1 DEF PanelInv
    <3> QED
      BY <3>1, <3>2, <3>3, <3>4 DEF PanelRest
  <2> QED
    BY <1>1, <2>2, FollowedKeeps DEF Panel!Choose, PanelInv
<1>2. CASE a \in Agents /\ a # NoAgent
  <2> DEFINE new == [token |-> token + 1, agent |-> a]
  <2>1. new \in Loads /\ new.token = token + 1 /\ new.agent = a
    BY <1>2 DEF PanelInv, Loads
  <2>2. /\ agent' = a /\ token' = token + 1 /\ loads' = loads \cup {new} /\ held' = held /\ query' = query
        /\ streaming' = streaming /\ composing' = composing /\ Panel!Watched(suppressed)
    BY <1>2 DEF Panel!Choose
  <2> HIDE DEF new
  <2>3. \A l \in loads : l \in Loads /\ l.token \in Nat /\ l.token <= token
    BY DEF PanelInv, Loads
  <2>4. token \in Nat /\ \A l \in loads : l.token < token + 1 /\ l.token # token + 1
    BY <2>3 DEF PanelInv
  <2>5. \A l \in loads' : l.token <= token' /\ (l.token = token' => l.agent = agent')
    BY <2>1, <2>2, <2>3, <2>4
  <2>6. ~\A l \in loads' : l.token # token'
    BY <2>1, <2>2
  <2>7. loads' \subseteq Loads /\ token' \in Nat
    BY <2>1, <2>2, <2>4 DEF PanelInv
  <2>8. PanelRest'
    BY <1>2, <2>2, <2>5, <2>6, <2>7 DEF PanelInv, PanelRest
  <2> QED
    BY <2>2, <2>8, FollowedKeeps DEF PanelInv
<1> QED
  BY <1>1, <1>2

LEMMA LoadedKeeps ==
  ASSUME PanelInv, NEW l \in loads, NEW ok \in BOOLEAN, Panel!Answer(l, ok)
  PROVE  PanelInv'
<1>1. l \in Loads /\ l.agent \in Agents /\ (l.token = token => l.agent = agent)
  BY DEF PanelInv, Loads
<1>2. /\ loads' = loads \ {l} /\ agent' = agent /\ token' = token
      /\ streaming' = streaming /\ composing' = composing /\ query' = query /\ Panel!Watched(suppressed)
      /\ IF l.token = token THEN held' = (IF ok THEN l.agent ELSE NoAgent) ELSE held' = held
  BY DEF Panel!Answer, Panel!Latest
<1>3. PanelRest'
  BY <1>1, <1>2 DEF PanelInv, PanelRest
<1> QED
  BY <1>2, <1>3, FollowedKeeps DEF PanelInv

LEMMA TypingKeeps ==
  ASSUME PanelInv, NEW text \in BOOLEAN, NEW on \in BOOLEAN,
         \/ Panel!Input(text) \/ Panel!Focus(text) \/ Panel!Compose(on, text)
         \/ Panel!Stream(on) \/ Panel!Close \/ Panel!Pick
  PROVE  PanelInv'
<1>1. Panel!Guarded \in BOOLEAN
  BY DEF PanelInv, Panel!Guarded
<1>2. PanelRest'
  <2>1. UNCHANGED <<agent, token, loads, held>>
    BY DEF Panel!Input, Panel!Focus, Panel!Compose, Panel!Stream, Panel!Close, Panel!Pick
  <2>2. streaming' \in BOOLEAN /\ composing' \in BOOLEAN /\ query' \in BOOLEAN
    BY DEF PanelInv, Panel!Input, Panel!Focus, Panel!Compose, Panel!Stream, Panel!Close, Panel!Pick
  <2> QED
    BY <2>1, <2>2 DEF PanelInv, PanelRest
<1>3. \E closing \in BOOLEAN : (Panel!Guarded => closing) /\ Panel!Watched(closing)
  <2>1. CASE Panel!Input(text)
    <3>1. (suppressed /\ Panel!Guarded) \in BOOLEAN /\ (Panel!Guarded => (suppressed /\ Panel!Guarded))
      BY DEF PanelInv
    <3> QED
      BY <2>1, <3>1 DEF Panel!Input
  <2>2. CASE Panel!Focus(text)
    BY <1>1, <2>2 DEF Panel!Focus, Panel!Reopened
  <2>3. CASE Panel!Compose(on, text) \/ Panel!Stream(on) \/ Panel!Pick
    BY <2>3 DEF PanelInv, Panel!Compose, Panel!Stream, Panel!Pick
  <2>4. CASE Panel!Close
    BY <2>4 DEF Panel!Close
  <2> QED
    BY <2>1, <2>2, <2>3, <2>4
<1> QED
  BY <1>2, <1>3, FollowedKeeps

LEMMA MoveKeeps ==
  ASSUME PanelInv, NEW delta \in {1, -1}, Panel!Move(delta)
  PROVE  PanelInv'
<1>1. UNCHANGED <<agent, token, loads, held, streaming, composing, suppressed, query>>
  BY DEF Panel!Move
<1>2. Panel!Results' = Panel!Results /\ Panel!Guarded' = Panel!Guarded
  BY <1>1 DEF Panel!Results, Panel!Guarded
<1>3. Panel!Results \in Nat /\ Panel!Results > 0 /\ light \in Int
  BY AgentAssumption DEF Panel!Move, Panel!Visible, Panel!Results, PanelInv
<1>4. light' = (IF light = -1 THEN IF delta > 0 THEN 0 ELSE Panel!Results - 1
                ELSE (light + delta + Panel!Results) % Panel!Results)
  BY DEF Panel!Move
<1>5. light' \in -1..(Panel!Results - 1)
  <2> DEFINE n == Panel!Results
  <2>1. n \in Nat /\ n > 0
    BY <1>3
  <2> HIDE DEF n
  <2>2. (light + delta + n) % n \in 0..n - 1
    BY <1>3, <2>1
  <2> QED
    BY <1>3, <1>4, <2>1, <2>2 DEF n
<1> QED
  BY <1>1, <1>2, <1>5 DEF PanelInv

LEMMA PanelKeeps ==
  ASSUME PanelInv, Panel!Next \/ UNCHANGED panel
  PROVE  PanelInv'
<1>1. CASE UNCHANGED panel
  BY <1>1 DEF panel, PanelInv, Panel!Results, Panel!Guarded
<1>2. CASE Panel!Next
  BY <1>2, ChooseKeeps, LoadedKeeps, TypingKeeps, MoveKeeps DEF Panel!Next
<1> QED
  BY <1>1, <1>2

LEMMA PanelHolds ==
  ASSUME PanelInv
  PROVE  Panel!TypeOK /\ Panel!PanelIsTrue
  BY DEF PanelInv, Panel!TypeOK, Panel!PanelIsTrue, Panel!Visible

--------------------------------------------------------------------------------
(* WebEvents. *)

Evts == Bots \X (0..MaxEvents)
Frames == Evts \cup {<<"ack", 0>>}

Handler ==
  [net : {"new", "up", "cut"}, handler : {"none", "hello", "on", "gone"}, subscribed : BOOLEAN,
   wants : Seq(0..MaxEvents), due : Seq(Evts), since : 0..MaxEvents, todo : SUBSET Bots,
   replay : Seq(Evts), acking : BOOLEAN, out : Seq(Frames), base : [Bots -> 0..MaxEvents],
   got : SUBSET Evts, acked : BOOLEAN]
Socket ==
  [sock : {"off", "connecting", "open", "closing", "retry"}, conn : 0..MaxBreaks + 1,
   lastSeq : 0..MaxEvents, stopped : BOOLEAN]

\* An event that the connection has brought, still carries or has given up.
Somewhere(h, lost, e) == e \in h.got \/ Has(h.due, e) \/ Has(h.replay, e) \/ Has(h.out, e) \/ e \in lost

\* The heart of NoGap, for one connection.
Covered(h, lost, now) ==
  h.subscribed /\ h.net = "up" =>
    \A b \in Bots, s \in 0..MaxEvents : h.base[b] < s /\ s <= now[b] => Somewhere(h, lost, <<b, s>>)

\* No handler has begun on a connection that has yet to open.
Untouched(p, handlers) ==
  \A d \in Events!Conns : d > p.conn \/ (d = p.conn /\ p.sock = "connecting") => handlers[d].handler = "none"

EventsInv ==
  /\ latest \in [Bots -> 0..MaxEvents] /\ page \in Socket /\ server \in [Events!Conns -> Handler]
  /\ page.sock # "off" => page.conn \in Events!Conns
  /\ \A c \in Events!Conns : server[c].subscribed <=> server[c].handler = "on"
  /\ Untouched(page, server)
  /\ \A c \in Events!Conns : Covered(server[c], late, latest)

\* A frame is written, or lost with the connection.
LEMMA PutKeeps ==
  ASSUME NEW h \in Handler, NEW frame \in Frames
  PROVE  /\ Events!Put(h, frame) \in Seq(Frames)
         /\ h.net = "up" => /\ Has(Events!Put(h, frame), frame)
                            /\ \A e : Has(h.out, e) => Has(Events!Put(h, frame), e)
<1>1. h.out \in Seq(Frames)
  BY DEF Handler
<1>2. CASE h.net = "up"
  BY <1>1, <1>2, JoinedBy DEF Events!Put
<1>3. CASE h.net # "up"
  BY <1>1, <1>3 DEF Events!Put
<1> QED
  BY <1>2, <1>3

LEMMA IdleHandler ==
  Events!Idle \in Handler /\ Events!Idle.subscribed = FALSE /\ Events!Idle.handler = "none"
<1>1. 0 \in 0..MaxEvents
  BY FeedAssumption
<1>2. <<>> \in Seq(Frames) /\ <<>> \in Seq(Evts) /\ <<>> \in Seq(0..MaxEvents)
  BY EmptySeq
<1> QED
  BY <1>1, <1>2 DEF Events!Idle, Handler

LEMMA EventsBegin ==
  ASSUME Events!Init
  PROVE  EventsInv
<1>1. 0 \in 0..MaxEvents /\ 0 \in 0..MaxBreaks + 1
  BY FeedAssumption
<1>2. page \in Socket /\ page.sock = "off" /\ page.conn = 0
  BY <1>1 DEF Events!Init, Socket
<1>3. Events!Idle \in Handler /\ Events!Idle.subscribed = FALSE /\ Events!Idle.handler = "none"
  BY IdleHandler
<1>4. server \in [Events!Conns -> Handler] /\ \A c \in Events!Conns : server[c] = Events!Idle
  BY <1>3 DEF Events!Init
<1> QED
  BY <1>1, <1>2, <1>3, <1>4 DEF Events!Init, EventsInv, Covered, Untouched

\* A step of one handler, or of the page with its handler.
LEMMA OneMoves ==
  ASSUME EventsInv, NEW c \in Events!Conns, NEW new \in Handler,
         server' = [d \in Events!Conns |-> IF d = c THEN new ELSE server[d]], latest' = latest,
         late \subseteq late', page' \in Socket, page'.sock # "off" => page'.conn \in Events!Conns,
         Untouched(page', server'), new.subscribed <=> new.handler = "on", Covered(new, late', latest)
  PROVE  EventsInv'
<1>1. server' \in [Events!Conns -> Handler] /\ server'[c] = new /\ \A d \in Events!Conns : d # c => server'[d] = server[d]
  BY DEF EventsInv
<1>2. \A d \in Events!Conns : server'[d].subscribed <=> server'[d].handler = "on"
  BY <1>1 DEF EventsInv
<1>3. ASSUME NEW d \in Events!Conns
      PROVE  Covered(server'[d], late', latest')
  <2>1. CASE d = c
    BY <1>1, <2>1
  <2>2. CASE d # c
    BY <1>1, <2>2 DEF EventsInv, Covered, Somewhere
  <2> QED
    BY <2>1, <2>2
<1> QED
  BY <1>1, <1>2, <1>3 DEF EventsInv

\* A step of a handler alone, which does not bring one back to its beginning.
LEMMA HandlerMoves ==
  ASSUME EventsInv, NEW c \in Events!Conns, NEW new \in Handler,
         server' = [d \in Events!Conns |-> IF d = c THEN new ELSE server[d]], latest' = latest,
         late \subseteq late', page' = page, server[c].handler = "none" => new.handler = "none",
         new.subscribed <=> new.handler = "on", Covered(new, late', latest)
  PROVE  EventsInv'
<1>1. Untouched(page', server')
  BY DEF EventsInv, Untouched
<1> QED
  BY <1>1, OneMoves DEF EventsInv

LEMMA PublishKeeps ==
  ASSUME EventsInv, NEW b \in Bots, Events!Publish(b)
  PROVE  EventsInv'
<1> DEFINE e == <<b, latest[b] + 1>>
           new(c) == [server[c] EXCEPT !.due = Append(server[c].due, e)]
<1>1. /\ latest[b] < MaxEvents /\ latest' = [latest EXCEPT ![b] = latest[b] + 1]
      /\ server' = [c \in Events!Conns |-> IF server[c].subscribed THEN new(c) ELSE server[c]]
      /\ page' = page /\ late' = late
  BY DEF Events!Publish
<1>2. latest[b] + 1 \in 0..MaxEvents /\ latest[b] \in 0..MaxEvents
  BY <1>1, FeedAssumption DEF EventsInv
<1>3. latest' \in [Bots -> 0..MaxEvents] /\ latest'[b] = latest[b] + 1 /\ \A a \in Bots : a # b => latest'[a] = latest[a]
  BY <1>1, <1>2 DEF EventsInv
<1>4. e \in Evts
  BY <1>2 DEF Evts
<1>5. ASSUME NEW c \in Events!Conns
      PROVE  /\ new(c) \in Handler /\ new(c).due = Append(server[c].due, e)
             /\ new(c).subscribed = server[c].subscribed /\ new(c).handler = server[c].handler
             /\ new(c).net = server[c].net /\ new(c).base = server[c].base /\ new(c).got = server[c].got
             /\ new(c).replay = server[c].replay /\ new(c).out = server[c].out
             /\ server[c].due \in Seq(Evts)
  <2>1. server[c] \in Handler
    BY DEF EventsInv
  <2>2. server[c].due \in Seq(Evts)
    BY <2>1 DEF Handler
  <2>3. Append(server[c].due, e) \in Seq(Evts)
    BY <1>4, <2>2, AppendProperties
  <2> HIDE DEF e
  <2>4. new(c) \in Handler
    BY <2>1, <2>3 DEF Handler
  <2>5. /\ new(c).due = Append(server[c].due, e)
        /\ new(c).subscribed = server[c].subscribed /\ new(c).handler = server[c].handler
        /\ new(c).net = server[c].net /\ new(c).base = server[c].base /\ new(c).got = server[c].got
        /\ new(c).replay = server[c].replay /\ new(c).out = server[c].out
    BY <2>1 DEF Handler
  <2> QED
    BY <2>2, <2>4, <2>5
<1> HIDE DEF new, e
<1>6. /\ server' \in [Events!Conns -> Handler]
      /\ \A c \in Events!Conns : server'[c] = IF server[c].subscribed THEN new(c) ELSE server[c]
  BY <1>1, <1>5 DEF EventsInv
<1>7. \A c \in Events!Conns : server'[c].handler = server[c].handler /\ server'[c].subscribed = server[c].subscribed
  BY <1>5, <1>6
<1>8. Untouched(page', server')
  BY <1>1, <1>7 DEF EventsInv, Untouched
<1>9. ASSUME NEW c \in Events!Conns
      PROVE  Covered(server'[c], late', latest')
  <2> SUFFICES ASSUME server'[c].subscribed, server'[c].net = "up",
                      NEW a \in Bots, NEW s \in 0..MaxEvents, server'[c].base[a] < s, s <= latest'[a]
               PROVE  Somewhere(server'[c], late', <<a, s>>)
    BY DEF Covered
  <2>1. server'[c] = new(c) /\ server[c].subscribed
    BY <1>6, <1>7
  <2>2. Has(new(c).due, e) /\ \A f : Has(server[c].due, f) => Has(new(c).due, f)
    <3>1. server[c].due \in Seq(Evts) /\ new(c).due = Append(server[c].due, e)
      BY <1>5
    <3>2. Has(Append(server[c].due, e), e) /\ \A f : Has(server[c].due, f) => Has(Append(server[c].due, e), f)
      BY <1>4, <3>1, JoinedBy
    <3> QED
      BY <3>1, <3>2
  <2>3. CASE a = b /\ s = latest[b] + 1
    BY <2>1, <2>2, <2>3 DEF Somewhere, e
  <2>4. CASE ~(a = b /\ s = latest[b] + 1)
    <3>1. s <= latest[a]
      BY <1>2, <1>3, <2>4
    <3>2. Somewhere(server[c], late, <<a, s>>)
      BY <1>5, <2>1, <3>1 DEF EventsInv, Covered
    <3> QED
      BY <1>1, <1>5, <2>1, <2>2, <3>2 DEF Somewhere
  <2> QED
    BY <2>3, <2>4
<1> QED
  BY <1>1, <1>3, <1>6, <1>7, <1>8, <1>9 DEF EventsInv

LEMMA DeliverKeeps ==
  ASSUME EventsInv, NEW c \in Events!Conns, Events!Deliver(c)
  PROVE  EventsInv'
<1> DEFINE h == server[c]
           put == Events!Put(h, Head(h.due))
           new == [h EXCEPT !.due = Tail(h.due), !.out = put]
<1>1. /\ h.due # <<>> /\ server' = [d \in Events!Conns |-> IF d = c THEN new ELSE server[d]]
      /\ latest' = latest /\ page' = page /\ late' = late
  BY DEF Events!Deliver, EventsInv
<1>2. h \in Handler /\ h.due \in Seq(Evts) /\ Covered(h, late, latest) /\ (h.subscribed <=> h.handler = "on")
  BY DEF EventsInv, Handler
<1>3. Head(h.due) \in Evts /\ Tail(h.due) \in Seq(Evts) /\ \A e : Has(h.due, e) => e = Head(h.due) \/ Has(Tail(h.due), e)
  BY <1>1, <1>2, Handed
<1>4. /\ put \in Seq(Frames)
      /\ h.net = "up" => Has(put, Head(h.due)) /\ \A e : Has(h.out, e) => Has(put, e)
  BY <1>2, <1>3, PutKeeps DEF Frames
<1> HIDE DEF put, h
<1>5. /\ new \in Handler /\ new.due = Tail(h.due) /\ new.out = put /\ new.net = h.net /\ new.handler = h.handler
      /\ new.subscribed = h.subscribed /\ new.base = h.base /\ new.got = h.got /\ new.replay = h.replay
  <2>1. new \in Handler
    BY <1>2, <1>3, <1>4 DEF Handler
  <2>2. /\ new.due = Tail(h.due) /\ new.out = put /\ new.net = h.net /\ new.handler = h.handler
        /\ new.subscribed = h.subscribed /\ new.base = h.base /\ new.got = h.got /\ new.replay = h.replay
    BY <1>2 DEF Handler
  <2> QED
    BY <2>1, <2>2
<1> HIDE DEF new
<1>6. Covered(new, late', latest)
  BY <1>1, <1>2, <1>3, <1>4, <1>5 DEF Covered, Somewhere
<1> QED
  BY <1>1, <1>2, <1>5, <1>6, HandlerMoves DEF h

LEMMA LateKeeps ==
  ASSUME EventsInv, NEW c \in Events!Conns, Events!Late(c)
  PROVE  EventsInv'
<1> DEFINE h == server[c]
           new == [h EXCEPT !.due = Tail(h.due)]
<1>1. /\ h.due # <<>> /\ server' = [d \in Events!Conns |-> IF d = c THEN new ELSE server[d]]
      /\ latest' = latest /\ page' = page /\ late' = late \cup {Head(h.due)}
  BY DEF Events!Late, EventsInv
<1>2. h \in Handler /\ h.due \in Seq(Evts) /\ Covered(h, late, latest) /\ (h.subscribed <=> h.handler = "on")
  BY DEF EventsInv, Handler
<1>3. Tail(h.due) \in Seq(Evts) /\ \A e : Has(h.due, e) => e = Head(h.due) \/ Has(Tail(h.due), e)
  BY <1>1, <1>2, Handed
<1> HIDE DEF h
<1>4. /\ new \in Handler /\ new.due = Tail(h.due) /\ new.out = h.out /\ new.net = h.net /\ new.handler = h.handler
      /\ new.subscribed = h.subscribed /\ new.base = h.base /\ new.got = h.got /\ new.replay = h.replay
  <2>1. new \in Handler
    BY <1>2, <1>3 DEF Handler
  <2>2. /\ new.due = Tail(h.due) /\ new.out = h.out /\ new.net = h.net /\ new.handler = h.handler
        /\ new.subscribed = h.subscribed /\ new.base = h.base /\ new.got = h.got /\ new.replay = h.replay
    BY <1>2 DEF Handler
  <2> QED
    BY <2>1, <2>2
<1> HIDE DEF new
<1>5. Covered(new, late', latest)
  BY <1>1, <1>2, <1>3, <1>4 DEF Covered, Somewhere
<1> QED
  BY <1>1, <1>2, <1>4, <1>5, HandlerMoves DEF h

LEMMA SubscribeKeeps ==
  ASSUME EventsInv, NEW c \in Events!Conns, Events!Subscribe(c)
  PROVE  EventsInv'
<1> DEFINE h == server[c]
           new == [h EXCEPT !.handler = "on", !.subscribed = TRUE, !.base = latest]
<1>1. /\ h.handler = "hello" /\ server' = [d \in Events!Conns |-> IF d = c THEN new ELSE server[d]]
      /\ latest' = latest /\ page' = page /\ late' = late
  BY DEF Events!Subscribe, EventsInv
<1>2. h \in Handler /\ latest \in [Bots -> 0..MaxEvents]
  BY DEF EventsInv
<1> HIDE DEF h
<1>3. new \in Handler /\ new.base = latest /\ new.subscribed = TRUE /\ new.handler = "on"
  <2>1. new \in Handler
    BY <1>2 DEF Handler
  <2>2. new.base = latest /\ new.subscribed = TRUE /\ new.handler = "on"
    BY <1>2 DEF Handler
  <2> QED
    BY <2>1, <2>2
<1> HIDE DEF new
<1>4. \A n, s \in 0..MaxEvents : ~(n < s /\ s <= n)
  OBVIOUS
<1>5. Covered(new, late', latest)
  BY <1>2, <1>3, <1>4 DEF Covered
<1>6. h.handler # "none"
  BY <1>1
<1> QED
  BY <1>1, <1>3, <1>5, <1>6, HandlerMoves DEF h

LEMMA FilterKeeps ==
  ASSUME EventsInv, NEW c \in Events!Conns, Events!Filter(c)
  PROVE  EventsInv'
<1> DEFINE h == server[c]
           new == [h EXCEPT !.wants = Tail(h.wants), !.acking = TRUE, !.since = Head(h.wants), !.todo = Bots]
<1>1. /\ h.wants # <<>> /\ server' = [d \in Events!Conns |-> IF d = c THEN new ELSE server[d]]
      /\ latest' = latest /\ page' = page /\ late' = late
  BY DEF Events!Filter, EventsInv
<1>2. h \in Handler /\ h.wants \in Seq(0..MaxEvents) /\ Covered(h, late, latest) /\ (h.subscribed <=> h.handler = "on")
  BY DEF EventsInv, Handler
<1>3. Tail(h.wants) \in Seq(0..MaxEvents) /\ Head(h.wants) \in 0..MaxEvents
  BY <1>1, <1>2, Handed
<1> HIDE DEF h
<1>4. /\ new \in Handler /\ new.due = h.due /\ new.out = h.out /\ new.net = h.net /\ new.handler = h.handler
      /\ new.subscribed = h.subscribed /\ new.base = h.base /\ new.got = h.got /\ new.replay = h.replay
  <2>1. new \in Handler
    BY <1>2, <1>3 DEF Handler
  <2>2. /\ new.due = h.due /\ new.out = h.out /\ new.net = h.net /\ new.handler = h.handler
        /\ new.subscribed = h.subscribed /\ new.base = h.base /\ new.got = h.got /\ new.replay = h.replay
    BY <1>2 DEF Handler
  <2> QED
    BY <2>1, <2>2
<1> HIDE DEF new
<1>5. Covered(new, late', latest)
  BY <1>1, <1>2, <1>4 DEF Covered, Somewhere
<1> QED
  BY <1>1, <1>2, <1>4, <1>5, HandlerMoves DEF h

\* A tail holds every event after the last one it leaves out.
LEMMA TailHolds ==
  ASSUME EventsInv, NEW b \in Bots, NEW since \in 0..MaxEvents
  PROVE  /\ Events!Before(b, since) \in 0..MaxEvents
         /\ Events!Tail_(b, since) \in Seq(Evts)
         /\ \A s \in 0..MaxEvents : Events!Before(b, since) < s /\ s <= latest[b] => Has(Events!Tail_(b, since), <<b, s>>)
<1> DEFINE from == Events!Before(b, since)
           n == latest[b] - from
           t == [k \in 1..n |-> <<b, from + k>>]
<1>1. latest[b] \in 0..MaxEvents /\ Capacity \in Nat /\ MaxEvents \in Nat /\ since \in Nat
  BY FeedAssumption DEF EventsInv
<1>2. from \in 0..latest[b]
  BY <1>1 DEF Events!Before
<1>3. Events!Tail_(b, since) = t
  BY DEF Events!Tail_
<1> HIDE DEF from
<1>4. n \in Nat /\ \A k \in 1..n : from + k \in 0..MaxEvents
  BY <1>1, <1>2
<1>5. \A k \in 1..n : <<b, from + k>> \in Evts
  BY <1>4 DEF Evts
<1>6. t \in Seq(Evts) /\ Len(t) = n /\ \A k \in 1..n : t[k] = <<b, from + k>>
  <2> HIDE DEF n
  <2>1. t \in [1..n -> Evts]
    BY <1>5
  <2> QED
    BY <1>4, <2>1
<1>7. ASSUME NEW s \in 0..MaxEvents, from < s, s <= latest[b]
      PROVE  Has(t, <<b, s>>)
  <2>1. s - from \in 1..n /\ from + (s - from) = s
    BY <1>1, <1>2, <1>7
  <2> HIDE DEF t, n
  <2>2. t[s - from] = <<b, s>>
    BY <1>6, <2>1
  <2> QED
    BY <1>6, <2>1, <2>2 DEF Has
<1>8. from \in 0..MaxEvents
  BY <1>1, <1>2
<1> QED
  BY <1>3, <1>6, <1>7, <1>8 DEF from

LEMMA ReadTailKeeps ==
  ASSUME EventsInv, NEW c \in Events!Conns, NEW b \in Bots, Events!ReadTail(c, b)
  PROVE  EventsInv'
<1> DEFINE h == server[c]
           from == Events!Before(b, h.since)
           t == Events!Tail_(b, h.since)
           base == [h.base EXCEPT ![b] = IF from < h.base[b] THEN from ELSE h.base[b]]
           new == [h EXCEPT !.todo = h.todo \ {b}, !.replay = t, !.base = base]
<1>1. /\ h.replay = <<>> /\ server' = [d \in Events!Conns |-> IF d = c THEN new ELSE server[d]]
      /\ latest' = latest /\ page' = page /\ late' = late
  <2>1. server' = [server EXCEPT ![c].todo = h.todo \ {b}, ![c].replay = t, ![c].base = base]
    BY DEF Events!ReadTail
  <2> HIDE DEF base, t
  <2>2. server' = [d \in Events!Conns |-> IF d = c THEN new ELSE server[d]]
    BY <2>1 DEF EventsInv
  <2> QED
    BY <2>2 DEF Events!ReadTail
<1>2. /\ h \in Handler /\ h.since \in 0..MaxEvents /\ h.base \in [Bots -> 0..MaxEvents] /\ h.todo \in SUBSET Bots
      /\ Covered(h, late, latest) /\ (h.subscribed <=> h.handler = "on")
  BY DEF EventsInv, Handler
<1>3. /\ from \in 0..MaxEvents /\ t \in Seq(Evts)
      /\ \A s \in 0..MaxEvents : from < s /\ s <= latest[b] => Has(t, <<b, s>>)
  BY <1>2, TailHolds
<1> HIDE DEF h, from, t
<1>4. /\ base \in [Bots -> 0..MaxEvents] /\ base[b] = (IF from < h.base[b] THEN from ELSE h.base[b])
      /\ \A a \in Bots : a # b => base[a] = h.base[a]
  BY <1>2, <1>3
<1> HIDE DEF base
<1>5. /\ new \in Handler /\ new.due = h.due /\ new.out = h.out /\ new.net = h.net /\ new.handler = h.handler
      /\ new.subscribed = h.subscribed /\ new.base = base /\ new.got = h.got /\ new.replay = t
  <2>1. h.todo \ {b} \in SUBSET Bots
    BY <1>2
  <2>2. new \in Handler
    BY <1>2, <1>3, <1>4, <2>1 DEF Handler
  <2>3. /\ new.due = h.due /\ new.out = h.out /\ new.net = h.net /\ new.handler = h.handler
        /\ new.subscribed = h.subscribed /\ new.base = base /\ new.got = h.got /\ new.replay = t
    BY <1>2 DEF Handler
  <2> QED
    BY <2>2, <2>3
<1> HIDE DEF new
<1>6. \A e : ~Has(h.replay, e)
  BY <1>1 DEF Has
<1>7. Covered(new, late', latest)
  <2> SUFFICES ASSUME new.subscribed, new.net = "up", NEW a \in Bots, NEW s \in 0..MaxEvents, new.base[a] < s, s <= latest[a]
               PROVE  Somewhere(new, late', <<a, s>>)
    BY DEF Covered
  <2>1. CASE h.base[a] < s
    <3>1. Somewhere(h, late, <<a, s>>)
      BY <1>2, <1>5, <2>1 DEF Covered
    <3> QED
      BY <1>1, <1>5, <1>6, <3>1 DEF Somewhere
  <2>2. CASE ~(h.base[a] < s)
    <3>1. a = b
      BY <1>4, <1>5, <2>2
    <3>2. from < s
      BY <1>4, <1>5, <2>2, <3>1
    <3>3. Has(t, <<a, s>>)
      BY <1>3, <3>1, <3>2
    <3> QED
      BY <1>5, <3>3 DEF Somewhere
  <2> QED
    BY <2>1, <2>2
<1> QED
  BY <1>1, <1>2, <1>5, <1>7, HandlerMoves DEF h

LEMMA ReplayKeeps ==
  ASSUME EventsInv, NEW c \in Events!Conns, Events!Replay(c)
  PROVE  EventsInv'
<1> DEFINE h == server[c]
<1>1. latest' = latest /\ page' = page /\ late' = late
  BY DEF Events!Replay
<1>2. h \in Handler /\ h.replay \in Seq(Evts) /\ Covered(h, late, latest) /\ (h.subscribed <=> h.handler = "on")
  BY DEF EventsInv, Handler
<1>3. CASE h.replay # <<>>
  <2> DEFINE put == Events!Put(h, Head(h.replay))
             new == [h EXCEPT !.replay = Tail(h.replay), !.out = put]
  <2>1. server' = [d \in Events!Conns |-> IF d = c THEN new ELSE server[d]]
    BY <1>3 DEF Events!Replay, EventsInv
  <2>2. Head(h.replay) \in Evts /\ Tail(h.replay) \in Seq(Evts)
        /\ \A e : Has(h.replay, e) => e = Head(h.replay) \/ Has(Tail(h.replay), e)
    BY <1>2, <1>3, Handed
  <2>3. /\ put \in Seq(Frames)
        /\ h.net = "up" => Has(put, Head(h.replay)) /\ \A e : Has(h.out, e) => Has(put, e)
    BY <1>2, <2>2, PutKeeps DEF Frames
  <2> HIDE DEF put, h
  <2>4. /\ new \in Handler /\ new.due = h.due /\ new.out = put /\ new.net = h.net /\ new.handler = h.handler
        /\ new.subscribed = h.subscribed /\ new.base = h.base /\ new.got = h.got /\ new.replay = Tail(h.replay)
    <3>1. new \in Handler
      BY <1>2, <2>2, <2>3 DEF Handler
    <3>2. /\ new.due = h.due /\ new.out = put /\ new.net = h.net /\ new.handler = h.handler
          /\ new.subscribed = h.subscribed /\ new.base = h.base /\ new.got = h.got /\ new.replay = Tail(h.replay)
      BY <1>2 DEF Handler
    <3> QED
      BY <3>1, <3>2
  <2> HIDE DEF new
  <2>5. Covered(new, late', latest)
    BY <1>1, <1>2, <2>2, <2>3, <2>4 DEF Covered, Somewhere
  <2> QED
    BY <1>1, <1>2, <2>1, <2>4, <2>5, HandlerMoves DEF h
<1>4. CASE h.replay = <<>>
  <2> DEFINE put == Events!Put(h, <<"ack", 0>>)
             new == [h EXCEPT !.acking = FALSE, !.out = put]
  <2>1. server' = [d \in Events!Conns |-> IF d = c THEN new ELSE server[d]]
    BY <1>4 DEF Events!Replay, EventsInv
  <2>2. <<"ack", 0>> \in Frames
    BY DEF Frames
  <2>3. /\ put \in Seq(Frames)
        /\ h.net = "up" => \A e : Has(h.out, e) => Has(put, e)
    BY <1>2, <2>2, PutKeeps
  <2> HIDE DEF put, h
  <2>4. /\ new \in Handler /\ new.due = h.due /\ new.out = put /\ new.net = h.net /\ new.handler = h.handler
        /\ new.subscribed = h.subscribed /\ new.base = h.base /\ new.got = h.got /\ new.replay = h.replay
    <3>1. new \in Handler
      BY <1>2, <2>3 DEF Handler
    <3>2. /\ new.due = h.due /\ new.out = put /\ new.net = h.net /\ new.handler = h.handler
          /\ new.subscribed = h.subscribed /\ new.base = h.base /\ new.got = h.got /\ new.replay = h.replay
      BY <1>2 DEF Handler
    <3> QED
      BY <3>1, <3>2
  <2> HIDE DEF new
  <2>5. Covered(new, late', latest)
    BY <1>1, <1>2, <2>3, <2>4 DEF Covered, Somewhere
  <2> QED
    BY <1>1, <1>2, <2>1, <2>4, <2>5, HandlerMoves DEF h
<1> QED
  BY <1>3, <1>4

LEMMA NoticeKeeps ==
  ASSUME EventsInv, NEW c \in Events!Conns, Events!Notice(c)
  PROVE  EventsInv'
<1> DEFINE new == [Events!Idle EXCEPT !.net = "cut", !.handler = "gone"]
<1>1. /\ server[c].handler = "on" /\ server' = [d \in Events!Conns |-> IF d = c THEN new ELSE server[d]]
      /\ latest' = latest /\ page' = page /\ late' = late
  BY DEF Events!Notice, EventsInv
<1>2. new \in Handler /\ new.handler = "gone" /\ new.subscribed = FALSE
  <2>1. Events!Idle \in Handler /\ Events!Idle.subscribed = FALSE
    BY IdleHandler
  <2> HIDE DEF new
  <2> DEFINE i == Events!Idle
  <2> HIDE DEF i
  <2>2. new = [i EXCEPT !.net = "cut", !.handler = "gone"] /\ i \in Handler /\ i.subscribed = FALSE
    BY <2>1 DEF i, new
  <2>3. [i EXCEPT !.net = "cut", !.handler = "gone"] \in Handler
    BY <2>2 DEF Handler
  <2>4. [i EXCEPT !.net = "cut", !.handler = "gone"].handler = "gone" /\ [i EXCEPT !.net = "cut", !.handler = "gone"].subscribed = i.subscribed
    BY <2>2 DEF Handler
  <2> QED
    BY <2>2, <2>3, <2>4
<1> HIDE DEF new
<1>3. Covered(new, late', latest)
  BY <1>2 DEF Covered
<1> QED
  BY <1>1, <1>2, <1>3, HandlerMoves


\* What the page's own steps do to its socket.
LEMMA PageMoves ==
  ASSUME EventsInv, page' \in Socket, page'.sock # "off" => page'.conn \in Events!Conns,
         Untouched(page', server), latest' = latest, server' = server, late' = late
  PROVE  EventsInv'
  BY DEF EventsInv

LEMMA ConnectKeeps ==
  ASSUME EventsInv, Events!Connect
  PROVE  EventsInv'
<1> DEFINE p == [page EXCEPT !.sock = "connecting", !.conn = page.conn + 1]
<1>1. page.conn \in 0..MaxBreaks /\ page' = p /\ latest' = latest /\ server' = server /\ late' = late
  BY DEF Events!Connect
<1>2. MaxBreaks \in Nat /\ page \in Socket
  BY FeedAssumption DEF EventsInv
<1>3. page.conn + 1 \in 0..MaxBreaks + 1 /\ page.conn + 1 \in Events!Conns
  BY <1>1, <1>2 DEF Events!Conns
<1>4. p \in Socket
  BY <1>2, <1>3 DEF Socket
<1>5. p.conn = page.conn + 1 /\ p.sock = "connecting"
  BY <1>2 DEF Socket
<1> HIDE DEF p
<1>6. \A d \in Events!Conns : d > p.conn \/ d = p.conn => d > page.conn
  BY <1>1, <1>2, <1>5 DEF Events!Conns
<1>7. Untouched(p, server)
  BY <1>6 DEF EventsInv, Untouched
<1> QED
  BY <1>1, <1>3, <1>4, <1>5, <1>7, PageMoves

LEMMA ClosedKeeps ==
  ASSUME EventsInv, Events!Closed
  PROVE  EventsInv'
<1> DEFINE p == [page EXCEPT !.sock = "retry"]
<1>1. page.sock = "closing" /\ page' = p /\ latest' = latest /\ server' = server /\ late' = late
  BY DEF Events!Closed
<1>2. page \in Socket
  BY DEF EventsInv
<1>3. p \in Socket
  BY <1>2 DEF Socket
<1>4. p.conn = page.conn /\ p.sock = "retry"
  BY <1>2 DEF Socket
<1> HIDE DEF p
<1>5. page.conn \in Events!Conns
  BY <1>1 DEF EventsInv
<1>6. Untouched(p, server)
  BY <1>4 DEF EventsInv, Untouched
<1> QED
  BY <1>1, <1>3, <1>4, <1>5, <1>6, PageMoves

\* A connection that has been cut owes nothing.
LEMMA CutKeeps ==
  ASSUME EventsInv, NEW p \in Socket, page.sock # "off", p.sock \in {"retry", "closing"}, p.conn = page.conn,
         page' = p, server' = Events!Cut(page.conn), latest' = latest, late' = late
  PROVE  EventsInv'
<1> DEFINE c == page.conn
           h == server[c]
           new == [h EXCEPT !.net = "cut", !.out = <<>>]
<1>1. c \in Events!Conns /\ h \in Handler /\ (h.subscribed <=> h.handler = "on")
  BY DEF EventsInv
<1>2. server' = [d \in Events!Conns |-> IF d = c THEN new ELSE server[d]]
  BY <1>1 DEF EventsInv, Events!Cut
<1> HIDE DEF h
<1>3. <<>> \in Seq(Frames)
  BY EmptySeq
<1>4. new \in Handler
  BY <1>1, <1>3 DEF Handler
<1>5. new.net = "cut" /\ new.handler = h.handler /\ new.subscribed = h.subscribed
  BY <1>1 DEF Handler
<1> HIDE DEF new
<1>6. Covered(new, late', latest)
  BY <1>5 DEF Covered
<1>7. \A d \in Events!Conns : server'[d].handler = server[d].handler
  BY <1>2, <1>5 DEF h
<1>8. Untouched(page', server')
  BY <1>7 DEF EventsInv, Untouched
<1> QED
  BY <1>1, <1>2, <1>4, <1>5, <1>6, <1>8, OneMoves

LEMMA DropKeeps ==
  ASSUME EventsInv, Events!Drop
  PROVE  EventsInv'
<1> DEFINE p == [page EXCEPT !.sock = "retry"]
<1>1. page.sock # "off" /\ page' = p /\ server' = Events!Cut(page.conn) /\ latest' = latest /\ late' = late
  BY DEF Events!Drop
<1>2. page \in Socket
  BY DEF EventsInv
<1>3. p \in Socket
  BY <1>2 DEF Socket
<1>4. p.conn = page.conn /\ p.sock = "retry"
  BY <1>2 DEF Socket
<1> HIDE DEF p
<1> QED
  BY <1>1, <1>3, <1>4, CutKeeps

LEMMA StopKeeps ==
  ASSUME EventsInv, Events!Stop
  PROVE  EventsInv'
<1> DEFINE p == [page EXCEPT !.sock = "closing", !.stopped = TRUE]
<1>1. page.sock # "off" /\ page' = p /\ server' = Events!Cut(page.conn) /\ latest' = latest /\ late' = late
  BY DEF Events!Stop
<1>2. page \in Socket
  BY DEF EventsInv
<1>3. p \in Socket
  BY <1>2 DEF Socket
<1>4. p.conn = page.conn /\ p.sock = "closing"
  BY <1>2 DEF Socket
<1> HIDE DEF p
<1> QED
  BY <1>1, <1>3, <1>4, CutKeeps

LEMMA OpenKeeps ==
  ASSUME EventsInv, Events!Open
  PROVE  EventsInv'
<1> DEFINE c == page.conn
           h == server[c]
           asks == IF page.lastSeq # 0 THEN <<page.lastSeq>> ELSE <<>>
           p == [page EXCEPT !.sock = "open"]
           new == [h EXCEPT !.net = "up", !.handler = "hello", !.wants = asks]
<1>1. page.sock = "connecting" /\ page' = p /\ latest' = latest /\ late' = late
  BY DEF Events!Open
<1>2. /\ c \in Events!Conns /\ h \in Handler /\ h.handler = "none" /\ (h.subscribed <=> h.handler = "on")
      /\ page \in Socket
  BY <1>1 DEF EventsInv, Untouched
<1>3. server' = [d \in Events!Conns |-> IF d = c THEN new ELSE server[d]]
  <2>1. server' = [server EXCEPT ![c].net = "up", ![c].handler = "hello", ![c].wants = asks]
    BY DEF Events!Open
  <2> HIDE DEF asks
  <2> QED
    BY <1>2, <2>1 DEF EventsInv
<1>4. asks \in Seq(0..MaxEvents)
  <2>1. page.lastSeq \in 0..MaxEvents
    BY <1>2 DEF Socket
  <2>2. <<page.lastSeq>> \in Seq(0..MaxEvents)
    BY <2>1
  <2>3. <<>> \in Seq(0..MaxEvents)
    BY EmptySeq
  <2> QED
    BY <2>2, <2>3
<1> HIDE DEF h, asks
<1>5. new \in Handler
  BY <1>2, <1>4 DEF Handler
<1>6. new.handler = "hello" /\ new.subscribed = h.subscribed
  BY <1>2 DEF Handler
<1> HIDE DEF new
<1>7. p \in Socket
  BY <1>2 DEF Socket
<1>8. p.conn = c /\ p.sock = "open"
  BY <1>2 DEF Socket
<1> HIDE DEF p
<1>9. Covered(new, late', latest)
  BY <1>2, <1>6 DEF Covered
<1>10. \A d \in Events!Conns : d > c => d # c /\ server'[d] = server[d]
  <2>1. \A d \in Events!Conns : d > c => d # c
    BY <1>2 DEF Events!Conns
  <2> QED
    BY <1>3, <2>1
<1>11. Untouched(page', server')
  BY <1>1, <1>8, <1>10 DEF EventsInv, Untouched
<1>12. new.subscribed <=> new.handler = "on"
  BY <1>2, <1>6
<1>13. page' \in Socket /\ page'.conn \in Events!Conns /\ late \subseteq late'
  BY <1>1, <1>2, <1>7, <1>8
<1>14. c \in Events!Conns /\ latest' = latest
  BY <1>1, <1>2
<1> QED
  BY <1>3, <1>5, <1>9, <1>11, <1>12, <1>13, <1>14, OneMoves

LEMMA ReceiveKeeps ==
  ASSUME EventsInv, Events!Receive
  PROVE  EventsInv'
<1> DEFINE c == page.conn
           h == server[c]
           e == Head(h.out)
<1>1. page.sock = "open" /\ h.out # <<>> /\ latest' = latest /\ late' = late
  BY DEF Events!Receive
<1>2. /\ c \in Events!Conns /\ h \in Handler /\ h.out \in Seq(Frames) /\ h.got \in SUBSET Evts
      /\ (h.subscribed <=> h.handler = "on") /\ Covered(h, late, latest) /\ page \in Socket
  <2>1. c \in Events!Conns /\ h \in Handler
    BY <1>1 DEF EventsInv
  <2>2. h.out \in Seq(Frames) /\ h.got \in SUBSET Evts
    BY <2>1 DEF Handler
  <2> QED
    BY <2>1, <2>2 DEF EventsInv
<1>3. e \in Frames /\ Tail(h.out) \in Seq(Frames) /\ \A f : Has(h.out, f) => f = e \/ Has(Tail(h.out), f)
  BY <1>1, <1>2, Handed
<1>4. CASE e[1] = "ack"
  <2> DEFINE new == [h EXCEPT !.out = Tail(h.out), !.acked = TRUE]
  <2>1. page' = page /\ server' = [d \in Events!Conns |-> IF d = c THEN new ELSE server[d]]
    BY <1>2, <1>4 DEF Events!Receive, EventsInv
  <2>2. e \notin Evts /\ \A b \in Bots, s \in 0..MaxEvents : <<b, s>> # e
    BY <1>4, FeedAssumption DEF Evts
  <2> HIDE DEF h, e
  <2>3. new \in Handler
    BY <1>2, <1>3 DEF Handler
  <2>4. /\ new.due = h.due /\ new.out = Tail(h.out) /\ new.net = h.net /\ new.handler = h.handler
        /\ new.subscribed = h.subscribed /\ new.base = h.base /\ new.got = h.got /\ new.replay = h.replay
    BY <1>2 DEF Handler
  <2> HIDE DEF new
  <2>5. Covered(new, late', latest)
    BY <1>1, <1>2, <1>3, <2>2, <2>4 DEF Covered, Somewhere
  <2> QED
    BY <1>1, <1>2, <2>1, <2>3, <2>4, <2>5, HandlerMoves DEF h
<1>5. CASE e[1] # "ack"
  <2> DEFINE new == [h EXCEPT !.out = Tail(h.out), !.got = h.got \cup {e}]
             p == [page EXCEPT !.lastSeq = e[2]]
  <2>1. page' = p /\ server' = [d \in Events!Conns |-> IF d = c THEN new ELSE server[d]]
    BY <1>2, <1>5 DEF Events!Receive, EventsInv
  <2>2. e \in Evts /\ e[2] \in 0..MaxEvents
    BY <1>3, <1>5 DEF Frames, Evts
  <2> HIDE DEF h, e
  <2>3. h.got \cup {e} \in SUBSET Evts
    BY <1>2, <2>2
  <2>4. new \in Handler
    BY <1>2, <1>3, <2>3 DEF Handler
  <2>5. /\ new.due = h.due /\ new.out = Tail(h.out) /\ new.net = h.net /\ new.handler = h.handler
        /\ new.subscribed = h.subscribed /\ new.base = h.base /\ new.got = h.got \cup {e} /\ new.replay = h.replay
    BY <1>2 DEF Handler
  <2> HIDE DEF new
  <2>6. Covered(new, late', latest)
    BY <1>1, <1>2, <1>3, <2>5 DEF Covered, Somewhere
  <2>7. p \in Socket
    BY <1>2, <2>2 DEF Socket
  <2>8. p.conn = c /\ p.sock = page.sock
    BY <1>2 DEF Socket
  <2> HIDE DEF p
  <2>9. \A d \in Events!Conns : server'[d].handler = server[d].handler
    BY <2>1, <2>5 DEF h
  <2>10. Untouched(page', server')
    BY <2>1, <2>8, <2>9 DEF EventsInv, Untouched
  <2> QED
    BY <1>1, <1>2, <2>1, <2>4, <2>5, <2>6, <2>7, <2>8, <2>10, OneMoves
<1> QED
  BY <1>4, <1>5

LEMMA EventsKeep ==
  ASSUME EventsInv, Events!Next \/ UNCHANGED feed
  PROVE  EventsInv'
<1>1. CASE UNCHANGED feed
  BY <1>1 DEF feed, EventsInv
<1>2. CASE Events!Next
  BY <1>2, ConnectKeeps, OpenKeeps, ReceiveKeeps, DropKeeps, StopKeeps, ClosedKeeps, PublishKeeps, DeliverKeeps,
     LateKeeps, SubscribeKeeps, FilterKeeps, ReadTailKeeps, ReplayKeeps, NoticeKeeps DEF Events!Next
<1> QED
  BY <1>1, <1>2

LEMMA EventsHold ==
  ASSUME EventsInv
  PROVE  Events!TypeOK /\ Events!NoGap
<1>1. Events!TypeOK
  <2>1. page.lastSeq \in 0..MaxEvents
    BY DEF EventsInv, Socket
  <2> QED
    BY <2>1 DEF EventsInv, Events!TypeOK
<1>2. ASSUME NEW c \in Events!Conns, server[c].subscribed, server[c].net = "up",
             NEW b \in Bots, NEW s \in server[c].base[b] + 1..latest[b]
      PROVE  <<b, s>> \in server[c].got \cup Events!InFlight(server[c]) \cup late
  <2> DEFINE h == server[c]
  <2>1. h \in Handler /\ Covered(h, late, latest) /\ latest[b] \in 0..MaxEvents
    BY DEF EventsInv
  <2>2. h.base[b] \in 0..MaxEvents /\ h.due \in Seq(Evts) /\ h.replay \in Seq(Evts) /\ h.out \in Seq(Frames)
    BY <2>1 DEF Handler
  <2>3. s \in 0..MaxEvents /\ h.base[b] < s /\ s <= latest[b]
    BY <1>2, <2>1, <2>2, FeedAssumption
  <2>4. Somewhere(h, late, <<b, s>>)
    BY <1>2, <2>1, <2>3 DEF Covered
  <2> HIDE DEF h
  <2>5. ASSUME NEW E, NEW q \in Seq(E), NEW e, Has(q, e)
        PROVE  e \in Events!Range(q)
    <3>1. DOMAIN q = 1..Len(q)
      BY <2>5, LenProperties
    <3> QED
      BY <2>5, <3>1 DEF Has, Events!Range
  <2> QED
    BY <2>2, <2>4, <2>5 DEF h, Somewhere, Events!InFlight
<1>3. Events!NoGap
  BY <1>2 DEF Events!NoGap
<1> QED
  BY <1>1, <1>3

--------------------------------------------------------------------------------
(* WebAudit. *)

\* A piece of the feed holds hits, in their order; and one piece is before another.
AreHits(s, all) == \A i \in 1..Len(s) : s[i].hit /\ s[i].id \in 1..Len(all) /\ all[s[i].id] = s[i]
Ascending(s) == \A i, j \in 1..Len(s) : i < j => s[i].id < s[j].id
Below(s, t) == \A i \in 1..Len(s), j \in 1..Len(t) : s[i].id < t[j].id
LatestHit(k, all) == all[k].hit /\ \A j \in 1..Len(all) : all[j].hit => j <= k

AuditInv ==
  /\ rows \in Seq(Audit!Row) /\ \A k \in 1..Len(rows) : rows[k].id = k
  /\ sent \in Seq(Audit!Row) /\ sending \in Seq(Audit!Row) /\ queue \in Seq(Audit!Row)
  /\ Len(sending) <= 1 /\ Len(queue) <= QueueSize
  /\ AreHits(sent, rows) /\ AreHits(sending, rows) /\ AreHits(queue, rows)
  /\ Ascending(sent) /\ Ascending(sending) /\ Ascending(queue)
  /\ Below(sent, sending) /\ Below(sent, queue) /\ Below(sending, queue)
  /\ open => \A k \in 1..Len(rows) : LatestHit(k, rows) =>
               Has(sent, rows[k]) \/ Has(sending, rows[k]) \/ Has(queue, rows[k])

LEMMA AuditBegins ==
  ASSUME Audit!Init
  PROVE  AuditInv
<1>1. rows = <<>> /\ queue = <<>> /\ sending = <<>> /\ sent = <<>> /\ <<>> \in Seq(Audit!Row)
  BY EmptySeq DEF Audit!Init
<1>2. Len(<<>>) = 0 /\ \A i \in 1..Len(<<>>) : FALSE
  OBVIOUS
<1> QED
  BY <1>1, <1>2, FeedAssumption DEF AuditInv, AreHits, Ascending, Below

\* What the end of a sequence is made of.
LEMMA Longer ==
  ASSUME NEW s \in Seq(Audit!Row), NEW row \in Audit!Row
  PROVE  /\ Append(s, row) \in Seq(Audit!Row) /\ Len(Append(s, row)) = Len(s) + 1
         /\ \A i \in 1..Len(s) : Append(s, row)[i] = s[i]
         /\ Append(s, row)[Len(s) + 1] = row
         /\ \A i \in 1..Len(s) + 1 : i \in 1..Len(s) \/ i = Len(s) + 1
         /\ \A i \in 1..Len(s) : i \in 1..Len(s) + 1
         /\ Len(s) \in Nat /\ Len(s) + 1 \in 1..Len(s) + 1
<1>1. Len(s) \in Nat
  BY LenProperties
<1> QED
  BY <1>1, AppendProperties

\* A queue without its head.
LEMMA Shorter ==
  ASSUME NEW s \in Seq(Audit!Row), s # <<>>
  PROVE  /\ Tail(s) \in Seq(Audit!Row) /\ Len(Tail(s)) = Len(s) - 1 /\ Head(s) = s[1] /\ Head(s) \in Audit!Row
         /\ \A i \in 1..Len(Tail(s)) : i + 1 \in 1..Len(s) /\ Tail(s)[i] = s[i + 1]
         /\ \A i \in 1..Len(s) : i # 1 => i - 1 \in 1..Len(Tail(s)) /\ Tail(s)[i - 1] = s[i]
         /\ 1 \in 1..Len(s) /\ Len(s) \in Nat
<1>1. Len(s) \in Nat
  BY LenProperties
<1>2. /\ Tail(s) \in Seq(Audit!Row) /\ Len(Tail(s)) = Len(s) - 1 /\ Head(s) = s[1] /\ Head(s) \in Audit!Row
      /\ \A i \in 1..Len(Tail(s)) : Tail(s)[i] = s[i + 1]
  BY HeadTailProperties
<1>3. Len(s) # 0
  BY EmptySeq
<1> QED
  BY <1>1, <1>2, <1>3

\* What is kept of the queue when a row is to join it.
LEMMA Room ==
  ASSUME AuditInv
  PROVE  \E s \in Seq(Audit!Row) :
           /\ s = (IF Len(queue) < QueueSize THEN queue ELSE Tail(queue))
           /\ Len(s) < QueueSize /\ AreHits(s, rows) /\ Ascending(s)
           /\ \A i \in 1..Len(s) : Has(queue, s[i])
<1>1. QueueSize \in Nat /\ QueueSize > 0 /\ queue \in Seq(Audit!Row) /\ Len(queue) \in Nat
  BY FeedAssumption, LenProperties DEF AuditInv
<1>2. CASE Len(queue) < QueueSize
  BY <1>1, <1>2 DEF AuditInv, Has
<1>3. CASE ~(Len(queue) < QueueSize)
  <2>1. queue # <<>> /\ Len(queue) = QueueSize
    BY <1>1, <1>3 DEF AuditInv
  <2>2. /\ Tail(queue) \in Seq(Audit!Row) /\ Len(Tail(queue)) = Len(queue) - 1
        /\ \A i \in 1..Len(Tail(queue)) : i + 1 \in 1..Len(queue) /\ Tail(queue)[i] = queue[i + 1]
    BY <1>1, <2>1, Shorter
  <2> DEFINE s == Tail(queue)
  <2> HIDE DEF s
  <2>3. s \in Seq(Audit!Row) /\ Len(s) = Len(queue) - 1 /\ \A i \in 1..Len(s) : i + 1 \in 1..Len(queue) /\ s[i] = queue[i + 1]
    BY <2>2 DEF s
  <2>4. AreHits(s, rows)
    BY <2>3 DEF AuditInv, AreHits
  <2>5. ASSUME NEW i \in 1..Len(s), NEW j \in 1..Len(s), i < j
        PROVE  s[i].id < s[j].id
    <3>1. s[i] = queue[i + 1] /\ s[j] = queue[j + 1] /\ i + 1 < j + 1
      BY <2>3, <2>5
    <3>2. i + 1 \in 1..Len(queue) /\ j + 1 \in 1..Len(queue)
      BY <2>3
    <3> QED
      BY <3>1, <3>2 DEF AuditInv, Ascending
  <2>6. \A i \in 1..Len(s) : Has(queue, s[i])
    BY <2>3 DEF Has
  <2>7. s = (IF Len(queue) < QueueSize THEN queue ELSE Tail(queue))
    BY <1>3 DEF s
  <2>8. Ascending(s)
    BY <2>5 DEF Ascending
  <2>9. Len(s) < QueueSize
    BY <1>1, <2>1, <2>3
  <2> QED
    BY <2>3, <2>4, <2>6, <2>7, <2>8, <2>9
<1> QED
  BY <1>2, <1>3

LEMMA WriteKeeps ==
  ASSUME AuditInv, NEW row \in Audit!Row, Audit!Write(row)
  PROVE  AuditInv'
<1> DEFINE n == Len(rows)
           all == Append(rows, row)
<1>1. /\ row.id = n + 1 /\ rows' = all /\ sending' = sending /\ sent' = sent /\ open' = open
      /\ queue' = IF open /\ row.hit THEN Audit!Enqueued(row) ELSE queue
  BY DEF Audit!Write
<1>2. /\ all \in Seq(Audit!Row) /\ Len(all) = n + 1 /\ n \in Nat
      /\ \A i \in 1..n : all[i] = rows[i]
      /\ all[n + 1] = row
      /\ \A i \in 1..n + 1 : i \in 1..n \/ i = n + 1
      /\ \A i \in 1..n : i \in 1..n + 1
      /\ n + 1 \in 1..n + 1
  BY Longer DEF AuditInv
<1>3. \A i \in 1..n : i < n + 1
  BY <1>2
<1>4. \A k \in 1..n : rows[k].id = k
  BY DEF AuditInv
<1> HIDE DEF all
<1>5. \A k \in 1..Len(all) : all[k].id = k
  BY <1>1, <1>2, <1>4
<1>6. ASSUME NEW s, AreHits(s, rows) PROVE AreHits(s, all) /\ \A i \in 1..Len(s) : s[i].id < n + 1
  BY <1>2, <1>3, <1>6 DEF AreHits
<1>7. AreHits(sent, all) /\ AreHits(sending, all) /\ AreHits(queue, all)
  BY <1>6 DEF AuditInv
<1>8. CASE ~(open /\ row.hit)
  <2>1. queue' = queue
    BY <1>1, <1>8
  <2>2. ASSUME open, NEW k \in 1..Len(all), LatestHit(k, all)
        PROVE  Has(sent, all[k]) \/ Has(sending, all[k]) \/ Has(queue, all[k])
    <3>1. k \in 1..n /\ all[k] = rows[k]
      BY <1>2, <1>8, <2>2 DEF LatestHit
    <3>2. LatestHit(k, rows)
      BY <1>2, <2>2, <3>1 DEF LatestHit
    <3> QED
      BY <2>2, <3>1, <3>2 DEF AuditInv
  <2> QED
    BY <1>1, <1>2, <1>5, <1>7, <2>1, <2>2 DEF AuditInv
<1>9. CASE open /\ row.hit
  <2>1. PICK s \in Seq(Audit!Row) :
           /\ s = (IF Len(queue) < QueueSize THEN queue ELSE Tail(queue))
           /\ Len(s) < QueueSize /\ AreHits(s, rows) /\ Ascending(s)
           /\ \A i \in 1..Len(s) : Has(queue, s[i])
    BY Room
  <2> DEFINE q == Append(s, row)
  <2>2. queue' = q
    BY <1>1, <1>9, <2>1 DEF Audit!Enqueued
  <2>3. /\ q \in Seq(Audit!Row) /\ Len(q) = Len(s) + 1
        /\ \A i \in 1..Len(s) : q[i] = s[i]
        /\ q[Len(s) + 1] = row
        /\ \A i \in 1..Len(s) + 1 : i \in 1..Len(s) \/ i = Len(s) + 1
        /\ Len(s) \in Nat /\ Len(s) + 1 \in 1..Len(s) + 1
    BY Longer
  <2> HIDE DEF q
  <2>4. AreHits(s, all) /\ \A i \in 1..Len(s) : s[i].id < n + 1
    BY <1>6, <2>1
  <2>5. AreHits(q, all)
    BY <1>1, <1>2, <1>9, <2>3, <2>4 DEF AreHits
  <2>6. Ascending(q)
    <3> SUFFICES ASSUME NEW i \in 1..Len(q), NEW j \in 1..Len(q), i < j
                 PROVE  q[i].id < q[j].id
      BY DEF Ascending
    <3>1. i \in 1..Len(s)
      BY <2>3
    <3>2. CASE j \in 1..Len(s)
      BY <2>1, <2>3, <3>1, <3>2 DEF Ascending
    <3>3. CASE j = Len(s) + 1
      BY <1>1, <2>3, <2>4, <3>1, <3>3
    <3> QED
      BY <2>3, <3>2, <3>3
  <2>7. ASSUME NEW t, AreHits(t, rows), Below(t, queue)
        PROVE  Below(t, q)
    <3> SUFFICES ASSUME NEW i \in 1..Len(t), NEW j \in 1..Len(q)
                 PROVE  t[i].id < q[j].id
      BY DEF Below
    <3>1. CASE j \in 1..Len(s)
      BY <2>1, <2>3, <2>7, <3>1 DEF Below, Has
    <3>2. CASE j = Len(s) + 1
      BY <1>1, <1>6, <2>3, <2>7, <3>2
    <3> QED
      BY <2>3, <3>1, <3>2
  <2>8. Below(sent, q) /\ Below(sending, q)
    BY <2>7 DEF AuditInv
  <2>9. Len(q) <= QueueSize
    BY <2>1, <2>3, FeedAssumption
  <2>10. ASSUME NEW k \in 1..Len(all), LatestHit(k, all)
         PROVE  Has(q, all[k])
    <3>1. k = n + 1
      BY <1>2, <1>3, <1>9, <2>10 DEF LatestHit
    <3> QED
      BY <1>2, <2>3, <3>1 DEF Has
  <2> QED
    BY <1>1, <1>2, <1>5, <1>7, <2>2, <2>3, <2>5, <2>6, <2>8, <2>9, <2>10 DEF AuditInv
<1> QED
  BY <1>8, <1>9

LEMMA TakeKeeps ==
  ASSUME AuditInv, Audit!Take
  PROVE  AuditInv'
<1>1. /\ sending = <<>> /\ queue # <<>> /\ sending' = <<Head(queue)>> /\ queue' = Tail(queue)
      /\ rows' = rows /\ sent' = sent /\ open' = open
  BY DEF Audit!Take
<1> DEFINE q == Tail(queue)
           one == <<Head(queue)>>
<1>2. /\ q \in Seq(Audit!Row) /\ Len(q) = Len(queue) - 1 /\ Head(queue) = queue[1] /\ Head(queue) \in Audit!Row
      /\ \A i \in 1..Len(q) : i + 1 \in 1..Len(queue) /\ q[i] = queue[i + 1]
      /\ \A i \in 1..Len(queue) : i # 1 => i - 1 \in 1..Len(q) /\ q[i - 1] = queue[i]
      /\ 1 \in 1..Len(queue) /\ Len(queue) \in Nat
  BY <1>1, Shorter DEF AuditInv
<1>3. one \in Seq(Audit!Row) /\ Len(one) = 1 /\ one[1] = queue[1] /\ \A i \in 1..Len(one) : i = 1
  BY <1>2
<1> HIDE DEF q, one
<1>4. AreHits(q, rows) /\ AreHits(one, rows)
  BY <1>2, <1>3 DEF AuditInv, AreHits
<1>5. Ascending(one) /\ Ascending(q)
  BY <1>2, <1>3 DEF AuditInv, Ascending
<1>6. Below(one, q)
  BY <1>2, <1>3 DEF AuditInv, Ascending, Below
<1>7. Below(sent, one) /\ Below(sent, q)
  BY <1>2, <1>3 DEF AuditInv, Below
<1>8. ASSUME NEW row, Has(sending, row) \/ Has(queue, row)
      PROVE  Has(one, row) \/ Has(q, row)
  <2>1. ~Has(sending, row)
    BY <1>1 DEF Has
  <2>2. PICK i \in 1..Len(queue) : queue[i] = row
    BY <1>8, <2>1 DEF Has
  <2>3. CASE i = 1
    BY <1>3, <2>2, <2>3 DEF Has
  <2>4. CASE i # 1
    BY <1>2, <2>2, <2>4 DEF Has
  <2> QED
    BY <2>3, <2>4
<1>9. Len(one) <= 1 /\ Len(q) <= QueueSize
  BY <1>2, <1>3, FeedAssumption DEF AuditInv
<1>10. sending' = one /\ queue' = q
  BY <1>1 DEF one, q
<1> QED
  BY <1>1, <1>2, <1>3, <1>4, <1>5, <1>6, <1>7, <1>8, <1>9, <1>10 DEF AuditInv

\* One piece after another.
LEMMA Joined ==
  ASSUME NEW s \in Seq(Audit!Row), NEW t \in Seq(Audit!Row)
  PROVE  /\ s \o t \in Seq(Audit!Row) /\ Len(s \o t) = Len(s) + Len(t)
         /\ \A i \in 1..Len(s \o t) : \/ i \in 1..Len(s) /\ (s \o t)[i] = s[i]
                                      \/ i - Len(s) \in 1..Len(t) /\ (s \o t)[i] = t[i - Len(s)]
         /\ AreHits(s, rows) /\ AreHits(t, rows) => AreHits(s \o t, rows)
         /\ Ascending(s) /\ Ascending(t) /\ Below(s, t) => Ascending(s \o t)
         /\ \A r \in Seq(Audit!Row) : /\ Below(s, r) /\ Below(t, r) => Below(s \o t, r)
                                      /\ Below(r, s) /\ Below(r, t) => Below(r, s \o t)
         /\ \A row : Has(s, row) \/ Has(t, row) => Has(s \o t, row)
<1> DEFINE f == s \o t
<1>1. Len(s) \in Nat /\ Len(t) \in Nat
  BY LenProperties
<1>2. /\ f \in Seq(Audit!Row) /\ Len(f) = Len(s) + Len(t)
      /\ \A i \in 1..Len(s) + Len(t) : f[i] = IF i <= Len(s) THEN s[i] ELSE t[i - Len(s)]
  BY ConcatProperties
<1> HIDE DEF f
<1>3. \A i \in 1..Len(f) : \/ i \in 1..Len(s) /\ f[i] = s[i]
                           \/ i - Len(s) \in 1..Len(t) /\ f[i] = t[i - Len(s)] /\ i \notin 1..Len(s)
  BY <1>1, <1>2
<1>4. ASSUME AreHits(s, rows), AreHits(t, rows)
      PROVE  AreHits(f, rows)
  <2> SUFFICES ASSUME NEW i \in 1..Len(f)
               PROVE  f[i].hit /\ f[i].id \in 1..Len(rows) /\ rows[f[i].id] = f[i]
    BY DEF AreHits
  <2>1. CASE i \in 1..Len(s) /\ f[i] = s[i]
    BY <1>4, <2>1 DEF AreHits
  <2>2. CASE i - Len(s) \in 1..Len(t) /\ f[i] = t[i - Len(s)]
    BY <1>4, <2>2 DEF AreHits
  <2> QED
    BY <1>3, <2>1, <2>2
<1>5. ASSUME Ascending(s), Ascending(t), Below(s, t), NEW i \in 1..Len(f), NEW j \in 1..Len(f), i < j
      PROVE  f[i].id < f[j].id
  <2>1. CASE i \in 1..Len(s) /\ j \in 1..Len(s)
    BY <1>1, <1>3, <1>5, <2>1 DEF Ascending
  <2>2. CASE i \in 1..Len(s) /\ j \notin 1..Len(s)
    BY <1>3, <1>5, <2>2 DEF Below
  <2>3. CASE i \notin 1..Len(s)
    <3>1. j \notin 1..Len(s)
      BY <1>1, <1>2, <1>5, <2>3
    <3>2. /\ i - Len(s) \in 1..Len(t) /\ f[i] = t[i - Len(s)] /\ j - Len(s) \in 1..Len(t) /\ f[j] = t[j - Len(s)]
          /\ i - Len(s) < j - Len(s)
      BY <1>1, <1>3, <1>5, <2>3, <3>1
    <3> QED
      BY <1>5, <3>2 DEF Ascending
  <2> QED
    BY <2>1, <2>2, <2>3
<1>6. ASSUME NEW r \in Seq(Audit!Row)
      PROVE  /\ Below(s, r) /\ Below(t, r) => Below(f, r)
             /\ Below(r, s) /\ Below(r, t) => Below(r, f)
  BY <1>3 DEF Below
<1>7. ASSUME NEW row, Has(s, row) \/ Has(t, row)
      PROVE  Has(f, row)
  <2>1. CASE Has(s, row)
    <3>1. PICK i \in 1..Len(s) : s[i] = row
      BY <2>1 DEF Has
    <3>2. i \in 1..Len(f) /\ f[i] = row
      BY <1>1, <1>2, <3>1
    <3> QED
      BY <3>2 DEF Has
  <2>2. CASE Has(t, row)
    <3>1. PICK i \in 1..Len(t) : t[i] = row
      BY <2>2 DEF Has
    <3>2. i + Len(s) \in 1..Len(f) /\ ~(i + Len(s) <= Len(s)) /\ i + Len(s) - Len(s) = i
      BY <1>1, <1>2, <3>1
    <3>3. f[i + Len(s)] = row
      BY <1>2, <3>1, <3>2
    <3> QED
      BY <3>2, <3>3 DEF Has
  <2> QED
    BY <1>7, <2>1, <2>2
<1>8. Ascending(s) /\ Ascending(t) /\ Below(s, t) => Ascending(f)
  BY <1>5 DEF Ascending
<1> QED
  BY <1>2, <1>3, <1>4, <1>6, <1>7, <1>8 DEF f

LEMMA WrittenKeeps ==
  ASSUME AuditInv, Audit!Written
  PROVE  AuditInv'
<1> DEFINE f == sent \o sending
<1>1. /\ sent' = f /\ sending' = <<>> /\ rows' = rows /\ queue' = queue /\ open' = open
  BY DEF Audit!Written
<1>2. /\ f \in Seq(Audit!Row) /\ AreHits(f, rows) /\ Ascending(f) /\ Below(f, queue)
      /\ \A row : Has(sent, row) \/ Has(sending, row) => Has(f, row)
  BY Joined DEF AuditInv
<1> HIDE DEF f
<1>3. /\ <<>> \in Seq(Audit!Row) /\ Len(<<>>) = 0 /\ AreHits(<<>>, rows) /\ Ascending(<<>>)
      /\ Below(f, <<>>) /\ Below(<<>>, queue)
  BY EmptySeq DEF AreHits, Ascending, Below
<1> QED
  BY <1>1, <1>2, <1>3 DEF AuditInv

LEMMA GoneKeeps ==
  ASSUME AuditInv, Audit!Gone
  PROVE  AuditInv'
<1>1. /\ open' = FALSE /\ sending' = <<>> /\ rows' = rows /\ queue' = queue /\ sent' = sent
  BY DEF Audit!Gone
<1>2. /\ <<>> \in Seq(Audit!Row) /\ Len(<<>>) = 0 /\ AreHits(<<>>, rows) /\ Ascending(<<>>)
      /\ Below(sent, <<>>) /\ Below(<<>>, queue)
  BY EmptySeq DEF AreHits, Ascending, Below
<1> QED
  BY <1>1, <1>2 DEF AuditInv

LEMMA AuditKeeps ==
  ASSUME AuditInv, Audit!Next \/ UNCHANGED hits
  PROVE  AuditInv'
<1>1. CASE UNCHANGED hits
  BY <1>1 DEF hits, AuditInv
<1>2. CASE Audit!Next
  BY <1>2, WriteKeeps, TakeKeeps, WrittenKeeps, GoneKeeps DEF Audit!Next
<1> QED
  BY <1>1, <1>2

LEMMA AuditHolds ==
  ASSUME AuditInv
  PROVE  Audit!TypeOK /\ Audit!HitsAreRecent
<1>1. DOMAIN rows = 1..Len(rows) /\ Len(rows) \in Nat /\ \A k \in 1..Len(rows) : rows[k] \in Audit!Row
  BY LenProperties, ElementOfSeq DEF AuditInv
<1>2. Audit!TypeOK
  BY <1>1 DEF AuditInv, Audit!TypeOK
<1> DEFINE both == sent \o sending
           all == both \o queue
<1>3. /\ both \in Seq(Audit!Row) /\ AreHits(both, rows) /\ Ascending(both) /\ Below(both, queue)
      /\ \A row : Has(sent, row) \/ Has(sending, row) => Has(both, row)
  BY Joined DEF AuditInv
<1> HIDE DEF both
<1>4. /\ all \in Seq(Audit!Row) /\ AreHits(all, rows) /\ Ascending(all)
      /\ \A row : Has(both, row) \/ Has(queue, row) => Has(all, row)
  BY <1>3, Joined DEF AuditInv
<1> HIDE DEF all
<1>5. DOMAIN all = 1..Len(all) /\ Len(all) \in Nat
  BY <1>4, LenProperties
<1>6. ASSUME open, NEW k \in 1..Len(rows), LatestHit(k, rows)
      PROVE  all # <<>> /\ all[Len(all)] = rows[k]
  <2>1. Has(all, rows[k])
    BY <1>3, <1>4, <1>6 DEF AuditInv
  <2>2. PICK i \in 1..Len(all) : all[i] = rows[k]
    BY <2>1 DEF Has
  <2>3. Len(all) \in 1..Len(all)
    BY <1>5, <2>2
  <2> DEFINE last == all[Len(all)]
  <2>4. last.hit /\ last.id \in 1..Len(rows) /\ rows[last.id] = last
    BY <1>4, <2>3 DEF AreHits
  <2>5. last.id <= k
    BY <1>6, <2>4 DEF LatestHit
  <2>6. rows[k].id = k
    BY DEF AuditInv
  <2>7. i = Len(all)
    <3>1. i < Len(all) => all[i].id < last.id
      BY <1>4, <2>3 DEF Ascending
    <3>2. all[i].id = k
      BY <2>2, <2>6
    <3>3. ~(k < last.id)
      BY <1>1, <2>4, <2>5
    <3>4. ~(i < Len(all))
      BY <3>1, <3>2, <3>3
    <3> QED
      BY <1>5, <2>2, <2>3, <3>4
  <2>8. all # <<>>
    BY <1>5, <2>2
  <2> QED
    BY <2>2, <2>7, <2>8
<1>7. \A i, j \in DOMAIN all : i < j => all[i].id < all[j].id
  BY <1>4, <1>5 DEF Ascending
<1>8. all = (sent \o sending) \o queue
  BY DEF all, both
<1>9. Audit!HitsAreRecent
  BY <1>1, <1>6, <1>7, <1>8 DEF Audit!HitsAreRecent, LatestHit
<1> QED
  BY <1>2, <1>9

--------------------------------------------------------------------------------
(* WebStore. *)

StoreTypes ==
  /\ value \in [Keys -> Nat] /\ cursor \in Nat /\ slice \subseteq Keys /\ at \subseteq slice
  /\ read \in Seq(Keys) /\ got \in Seq(Keys) /\ steady \subseteq Store!Present

\* The page being read lies after the cursor, and its keys are read in their order.
PageInv ==
  /\ at = {} <=> slice = {}
  /\ Cardinality(slice) <= Limit
  /\ cursor = Store!Done \/ cursor < Store!Done
  /\ \A k \in slice : cursor < k
  /\ \A j \in slice \ at, k \in at : j < k
  /\ \A i \in 1..Len(read) : read[i] \in slice \ at
  /\ Distinct(read)

\* What was there all the time and is up to the cursor has come, what is in the page
\* has been read or will be, and what is after it is left to a full page.
ListInv ==
  /\ Distinct(got)
  /\ cursor # Store!Done => \A i \in 1..Len(got) : got[i] <= cursor
  /\ \A k \in steady : k <= cursor => Has(got, k)
  /\ \A k \in steady : k \in slice \ at => Has(read, k)
  /\ \A k \in steady : slice # {} /\ cursor < k /\ k \notin slice =>
       Cardinality(slice) = Limit /\ \A j \in slice : j < k

StoreInv == StoreTypes /\ PageInv /\ ListInv

\* The number after the last key.
LEMMA DoneIsLast ==
  /\ Keys \subseteq Nat /\ 0 \notin Keys /\ IsFiniteSet(Keys) /\ Limit \in Nat /\ Limit > 0
  /\ Store!Done \in Nat /\ Store!Done > 1 /\ \A k \in Keys : k < Store!Done
<1>1. Keys \in SUBSET Nat /\ 0 \notin Keys /\ IsFiniteSet(Keys) /\ Keys # {} /\ Limit \in Nat /\ Limit > 0
  BY KeyAssumption
<1>2. Max(Keys) \in Keys /\ \A k \in Keys : k <= Max(Keys)
  BY <1>1, MaxOfFinite
<1> DEFINE m == CHOOSE n \in Keys : \A k \in Keys : k <= n
<1>3. m \in Keys /\ \A k \in Keys : k <= m
  BY <1>2
<1>4. Store!Done = 1 + m
  BY DEF Store!Done
<1> HIDE DEF m
<1>5. m \in Nat /\ m > 0
  BY <1>1, <1>3
<1>6. \A k \in Keys : k \in Nat
  BY <1>1
<1> QED
  BY <1>1, <1>3, <1>4, <1>5, <1>6

LEMMA SameCardinality == \A S : Store!Cardinality(S) = Cardinality(S)
  BY DEF Cardinality, Store!Cardinality

\* A page holds the first keys after the cursor, and all of them unless it is full.
LEMMA PageIsFirst ==
  ASSUME StoreTypes, NEW from \in Nat
  PROVE  LET page_ == Store!Page(from) IN
         /\ page_ \subseteq Store!Present /\ page_ \subseteq Keys /\ \A k \in page_ : from < k
         /\ Cardinality(page_) <= Limit
         /\ \A k \in Store!Present : from < k /\ k \notin page_ =>
              Cardinality(page_) = Limit /\ \A j \in page_ : j < k
<1> DEFINE P == Store!Page(from)
           Upto(k) == {j \in Store!Present : from < j /\ j <= k}
<1>1. Store!Present \subseteq Keys /\ Store!Present \subseteq Nat /\ IsFiniteSet(Store!Present)
  <2>1. Store!Present \in SUBSET Keys
    BY DEF Store!Present
  <2> QED
    BY <2>1, DoneIsLast, FS_Subset
<1>2. P = {k \in Store!Present : from < k /\ Cardinality(Upto(k)) <= Limit}
  BY SameCardinality DEF Store!Page
<1> HIDE DEF P
<1>3. \A k : Upto(k) \in SUBSET Store!Present
  OBVIOUS
<1>4. \A k : IsFiniteSet(Upto(k)) /\ Cardinality(Upto(k)) \in Nat
  BY <1>1, <1>3, FS_Subset, FS_CardinalityType
<1>5. ASSUME NEW j \in Nat, NEW k \in Nat, j <= k
      PROVE  Upto(j) \subseteq Upto(k) /\ Cardinality(Upto(j)) <= Cardinality(Upto(k))
  <2>1. Upto(j) \in SUBSET Upto(k)
    <3> SUFFICES ASSUME NEW i \in Upto(j)
                 PROVE  i \in Upto(k)
      OBVIOUS
    <3>1. i \in Nat /\ i <= j
      BY <1>1
    <3> QED
      BY <1>5, <3>1
  <2> HIDE DEF Upto
  <2> QED
    BY <1>4, <2>1, FS_Subset
<1> HIDE DEF Upto
<1>6. IsFiniteSet(P) /\ Cardinality(P) \in Nat /\ Limit \in Nat /\ Limit > 0
  <2>1. P \in SUBSET Store!Present
    BY <1>2
  <2> QED
    BY <1>1, <2>1, FS_Subset, FS_CardinalityType, DoneIsLast
<1>7. Cardinality(P) <= Limit
  <2>1. CASE P = {}
    BY <1>6, <2>1, FS_EmptySet
  <2>2. CASE P # {}
    <3>1. P \in SUBSET Nat
      BY <1>1, <1>2
    <3>2. Max(P) \in P /\ \A i \in P : i <= Max(P)
      BY <1>6, <2>2, <3>1, MaxOfFinite
    <3>3. P \in SUBSET Upto(Max(P))
      BY <1>2, <3>2 DEF Upto
    <3>4. Cardinality(P) <= Cardinality(Upto(Max(P)))
      BY <1>4, <3>3, FS_Subset
    <3>5. Cardinality(Upto(Max(P))) <= Limit
      BY <1>2, <3>2
    <3> QED
      BY <1>4, <1>6, <3>4, <3>5
  <2> QED
    BY <2>1, <2>2
<1>8. ASSUME NEW k \in Store!Present, from < k, k \notin P
      PROVE  Cardinality(P) = Limit /\ \A j \in P : j < k
  <2>1. ~(Cardinality(Upto(k)) <= Limit)
    BY <1>2, <1>8
  <2>2. \A j \in P : j < k
    <3> SUFFICES ASSUME NEW j \in P, ~(j < k)
                 PROVE  FALSE
      OBVIOUS
    <3>1. k \in Nat /\ j \in Nat /\ k <= j
      BY <1>1, <1>2
    <3>2. Cardinality(Upto(k)) <= Cardinality(Upto(j))
      BY <1>5, <3>1
    <3> QED
      BY <1>2, <1>4, <1>6, <2>1, <3>2
  <2> DEFINE Out == {j \in Store!Present : from < j /\ j \notin P}
  <2>3. Out # {} /\ Out \in SUBSET Nat
    BY <1>1, <1>8
  <2>4. PICK o \in Out : \A j \in Out : o <= j
    BY <2>3, Least
  <2>5. o \in Nat /\ o \in Store!Present /\ from < o /\ o \notin P
    BY <2>3
  <2>6. Upto(o) \in SUBSET (P \cup {o})
    <3> SUFFICES ASSUME NEW j \in Upto(o), j # o
                 PROVE  j \in P
      OBVIOUS
    <3>1. j \in Store!Present /\ from < j /\ j <= o /\ j \in Nat
      BY <1>1 DEF Upto
    <3> QED
      BY <2>4, <2>5, <3>1
  <2>7. ~(Cardinality(Upto(o)) <= Limit)
    BY <1>2, <2>5
  <2>8. IsFiniteSet(P \cup {o}) /\ Cardinality(P \cup {o}) = Cardinality(P) + 1
    BY <1>6, <2>5, FS_AddElement
  <2>9. Cardinality(Upto(o)) <= Cardinality(P \cup {o})
    BY <2>6, <2>8, FS_Subset
  <2>10. Cardinality(P) = Limit
    BY <1>4, <1>6, <1>7, <2>7, <2>8, <2>9
  <2> QED
    BY <2>2, <2>10
<1>9. P \subseteq Store!Present /\ P \subseteq Keys /\ \A k \in P : from < k
  BY <1>1, <1>2
<1> QED
  BY <1>7, <1>8, <1>9 DEF P

LEMMA StoreBegins ==
  ASSUME Store!Init
  PROVE  StoreInv
<1>1. /\ value \in [Keys -> {0, 1}] /\ cursor = 0 /\ slice = {} /\ at = {} /\ read = <<>> /\ got = <<>>
      /\ steady = Store!Present
  BY DEF Store!Init
<1>2. value \in [Keys -> Nat]
  BY <1>1
<1>3. <<>> \in Seq(Keys) /\ Len(<<>>) = 0 /\ Distinct(<<>>)
  BY EmptySeq DEF Distinct
<1>4. StoreTypes
  BY <1>1, <1>2, <1>3 DEF StoreTypes
<1>5. Cardinality({}) = 0 /\ Store!Present \subseteq Keys
  BY FS_EmptySet DEF Store!Present
<1>6. PageInv
  BY <1>1, <1>3, <1>5, DoneIsLast DEF PageInv
<1>7. \A k \in Keys : ~(k <= 0)
  BY DoneIsLast
<1>8. ListInv
  BY <1>1, <1>3, <1>5, <1>7 DEF ListInv
<1> QED
  BY <1>4, <1>6, <1>8 DEF StoreInv

LEMMA ListKeeps ==
  ASSUME StoreInv, Store!List
  PROVE  StoreInv'
<1> DEFINE P == Store!Page(cursor)
<1>1. /\ cursor # Store!Done /\ slice = {} /\ slice' = P /\ at' = P /\ read' = <<>>
      /\ cursor' = (IF P = {} THEN Store!Done ELSE cursor)
      /\ value' = value /\ got' = got /\ steady' = steady
  BY DEF Store!List
<1>2. cursor \in Nat /\ cursor < Store!Done /\ Store!Done \in Nat /\ Limit \in Nat /\ Limit > 0
  BY <1>1, DoneIsLast DEF StoreInv, StoreTypes, PageInv
<1>3. /\ P \subseteq Store!Present /\ P \subseteq Keys /\ \A k \in P : cursor < k
      /\ Cardinality(P) <= Limit
      /\ \A k \in Store!Present : cursor < k /\ k \notin P => Cardinality(P) = Limit /\ \A j \in P : j < k
  BY <1>2, PageIsFirst DEF StoreInv
<1> HIDE DEF P
<1>4. <<>> \in Seq(Keys) /\ Len(<<>>) = 0 /\ Distinct(<<>>)
  BY EmptySeq DEF Distinct
<1>5. Store!Present' = Store!Present /\ Store!Done' = Store!Done
  BY <1>1 DEF Store!Present, Store!Done
<1>6. StoreTypes'
  BY <1>1, <1>2, <1>3, <1>4, <1>5 DEF StoreInv, StoreTypes
<1>7. PageInv'
  BY <1>1, <1>2, <1>3, <1>4, <1>5 DEF StoreInv, PageInv
<1>8. ListInv'
  <2>1. steady \subseteq Store!Present /\ Store!Present \subseteq Nat
    BY DoneIsLast DEF StoreInv, StoreTypes, Store!Present
  <2>2. CASE P = {}
    <3>1. \A k \in steady : ~(cursor < k)
      BY <1>2, <1>3, <2>1, <2>2, FS_EmptySet
    <3>2. \A k \in steady : Has(got, k)
      BY <1>2, <2>1, <3>1 DEF StoreInv, ListInv
    <3> QED
      BY <1>1, <1>5, <2>2, <3>2 DEF StoreInv, ListInv
  <2>3. CASE P # {}
    BY <1>1, <1>3, <1>5, <2>1, <2>3 DEF StoreInv, ListInv
  <2> QED
    BY <2>2, <2>3
<1> QED
  BY <1>6, <1>7, <1>8 DEF StoreInv

\* One row after another, and the rows of a page after those before.
LEMMA RowJoins ==
  ASSUME NEW s \in Seq(Keys), NEW k \in Keys, Distinct(s), \A i \in 1..Len(s) : s[i] # k
  PROVE  /\ Append(s, k) \in Seq(Keys) /\ Distinct(Append(s, k)) /\ Has(Append(s, k), k)
         /\ \A j : Has(s, j) => Has(Append(s, k), j)
         /\ \A i \in 1..Len(Append(s, k)) : Append(s, k)[i] = k \/ (i \in 1..Len(s) /\ Append(s, k)[i] = s[i])
<1> DEFINE t == Append(s, k)
<1>1. Len(s) \in Nat /\ t \in Seq(Keys) /\ Len(t) = Len(s) + 1 /\ t[Len(s) + 1] = k /\ \A i \in 1..Len(s) : t[i] = s[i]
  BY LenProperties, AppendProperties
<1> HIDE DEF t
<1>2. \A i \in 1..Len(t) : (i = Len(s) + 1 /\ t[i] = k) \/ (i \in 1..Len(s) /\ t[i] = s[i])
  BY <1>1
<1>3. Distinct(t)
  <2> SUFFICES ASSUME NEW i \in 1..Len(t), NEW j \in 1..Len(t), t[i] = t[j]
               PROVE  i = j
    BY DEF Distinct
  <2>1. CASE i = Len(s) + 1 \/ j = Len(s) + 1
    BY <1>1, <1>2, <2>1
  <2>2. CASE i \in 1..Len(s) /\ j \in 1..Len(s)
    BY <1>1, <2>2 DEF Distinct
  <2> QED
    BY <1>2, <2>1, <2>2
<1>4. Has(t, k) /\ \A j : Has(s, j) => Has(t, j)
  <2>1. t = Append(s, k)
    BY DEF t
  <2> QED
    BY <2>1, JoinedBy
<1> QED
  BY <1>1, <1>2, <1>3, <1>4 DEF t

LEMMA PagesJoin ==
  ASSUME NEW s \in Seq(Keys), NEW t \in Seq(Keys), Distinct(s), Distinct(t),
         \A i \in 1..Len(s), j \in 1..Len(t) : s[i] # t[j]
  PROVE  /\ s \o t \in Seq(Keys) /\ Distinct(s \o t)
         /\ \A k : Has(s, k) \/ Has(t, k) => Has(s \o t, k)
         /\ \A i \in 1..Len(s \o t) : \/ \E j \in 1..Len(s) : (s \o t)[i] = s[j]
                                      \/ \E j \in 1..Len(t) : (s \o t)[i] = t[j]
<1> DEFINE f == s \o t
<1>1. Len(s) \in Nat /\ Len(t) \in Nat
  BY LenProperties
<1>2. /\ f \in Seq(Keys) /\ Len(f) = Len(s) + Len(t)
      /\ \A i \in 1..Len(s) + Len(t) : f[i] = IF i <= Len(s) THEN s[i] ELSE t[i - Len(s)]
  BY ConcatProperties
<1> HIDE DEF f
<1>3. \A i \in 1..Len(f) : \/ i \in 1..Len(s) /\ f[i] = s[i]
                           \/ i - Len(s) \in 1..Len(t) /\ f[i] = t[i - Len(s)] /\ i \notin 1..Len(s)
  BY <1>1, <1>2
<1>4. ASSUME NEW i \in 1..Len(f), NEW j \in 1..Len(f), f[i] = f[j]
      PROVE  i = j
  <2>1. CASE i \in 1..Len(s) /\ j \in 1..Len(s)
    BY <1>2, <1>3, <1>4, <2>1 DEF Distinct
  <2>2. CASE i \notin 1..Len(s) /\ j \notin 1..Len(s)
    <3>1. i - Len(s) \in 1..Len(t) /\ j - Len(s) \in 1..Len(t) /\ t[i - Len(s)] = t[j - Len(s)]
      BY <1>3, <1>4, <2>2
    <3>2. i - Len(s) = j - Len(s)
      BY <3>1 DEF Distinct
    <3> QED
      BY <1>1, <1>2, <3>2
  <2>3. CASE (i \in 1..Len(s)) # (j \in 1..Len(s))
    BY <1>3, <1>4, <2>3
  <2> QED
    BY <2>1, <2>2, <2>3
<1>5. ASSUME NEW k, Has(s, k) \/ Has(t, k)
      PROVE  Has(f, k)
  <2>1. CASE Has(s, k)
    <3>1. PICK i \in 1..Len(s) : s[i] = k
      BY <2>1 DEF Has
    <3>2. i \in 1..Len(f) /\ f[i] = k
      BY <1>1, <1>2, <3>1
    <3> QED
      BY <3>2 DEF Has
  <2>2. CASE Has(t, k)
    <3>1. PICK i \in 1..Len(t) : t[i] = k
      BY <2>2 DEF Has
    <3>2. i + Len(s) \in 1..Len(f) /\ ~(i + Len(s) <= Len(s)) /\ i + Len(s) - Len(s) = i
      BY <1>1, <1>2, <3>1
    <3>3. f[i + Len(s)] = k
      BY <1>2, <3>1, <3>2
    <3> QED
      BY <3>2, <3>3 DEF Has
  <2> QED
    BY <1>5, <2>1, <2>2
<1>6. Distinct(f)
  BY <1>4 DEF Distinct
<1> QED
  BY <1>2, <1>3, <1>5, <1>6 DEF f

LEMMA ReadRowKeeps ==
  ASSUME StoreInv, NEW k \in Keys, Store!ReadRow(k)
  PROVE  StoreInv'
<1> DEFINE r == IF value[k] # 0 THEN Append(read, k) ELSE read
<1>1. /\ k \in at /\ \A j \in at : k <= j
      /\ value' = value /\ steady' = steady
      /\ IF at # {k} THEN read' = r /\ at' = at \ {k} /\ slice' = slice /\ cursor' = cursor /\ got' = got
         ELSE read' = <<>> /\ at' = {} /\ slice' = {} /\ got' = got \o r /\ cursor' = Store!NextCursor(k)
  BY DEF Store!ReadRow
<1>2. /\ at \subseteq slice /\ slice \subseteq Keys /\ Keys \subseteq Nat /\ k \in slice /\ k \in Nat
      /\ \A j \in slice : cursor < j
      /\ cursor \in Nat /\ \A j \in Keys : j \in Nat /\ j < Store!Done
      /\ Store!Done \in Nat /\ cursor # Store!Done /\ cursor < k
      /\ steady \subseteq Store!Present /\ steady \subseteq Keys
  <2>1. /\ at \subseteq slice /\ slice \subseteq Keys /\ Keys \subseteq Nat /\ k \in slice /\ k \in Nat
        /\ cursor \in Nat /\ \A j \in Keys : j \in Nat /\ j < Store!Done
        /\ Store!Done \in Nat /\ steady \subseteq Store!Present /\ Store!Present \subseteq Keys
    BY <1>1, DoneIsLast DEF StoreInv, StoreTypes, Store!Present
  <2>2. \A j \in slice : cursor < j
    BY DEF StoreInv, PageInv
  <2>3. cursor < k /\ k < Store!Done
    BY <2>1, <2>2
  <2> QED
    BY <2>1, <2>2, <2>3
<1>3. /\ r \in Seq(Keys) /\ Distinct(r) /\ (k \in steady => Has(r, k))
      /\ \A j : Has(read, j) => Has(r, j)
      /\ \A i \in 1..Len(r) : r[i] \in (slice \ at) \cup {k}
  <2>1. read \in Seq(Keys) /\ Distinct(read) /\ \A i \in 1..Len(read) : read[i] \in slice \ at
    BY DEF StoreInv, StoreTypes, PageInv
  <2>2. \A i \in 1..Len(read) : read[i] # k
    BY <1>1, <2>1
  <2>3. CASE value[k] # 0
    <3>1. r = Append(read, k)
      BY <2>3
    <3> HIDE DEF r
    <3>2. /\ r \in Seq(Keys) /\ Distinct(r) /\ Has(r, k)
          /\ \A j : Has(read, j) => Has(r, j)
          /\ \A i \in 1..Len(r) : r[i] = k \/ (i \in 1..Len(read) /\ r[i] = read[i])
      BY <2>1, <2>2, <3>1, RowJoins
    <3> QED
      BY <2>1, <3>2
  <2>4. CASE value[k] = 0
    <3>1. r = read /\ k \notin steady
      BY <1>2, <2>4 DEF Store!Present
    <3> HIDE DEF r
    <3> QED
      BY <2>1, <3>1
  <2> QED
    BY <2>3, <2>4
<1> HIDE DEF r
<1>4. Store!Present' = Store!Present /\ Store!Done' = Store!Done
  BY <1>1 DEF Store!Present, Store!Done
<1>5. \A j \in slice \ at : j < k
  BY <1>1 DEF StoreInv, PageInv
<1>6. CASE at # {k}
  <2>1. read' = r /\ at' = at \ {k} /\ slice' = slice /\ cursor' = cursor /\ got' = got
    BY <1>1, <1>6
  <2>2. StoreTypes'
    BY <1>1, <1>2, <1>3, <1>4, <2>1 DEF StoreInv, StoreTypes
  <2>3. at' # {} /\ slice # {}
    BY <1>1, <1>2, <1>6, <2>1
  <2>4. \A j \in slice \ at', i \in at' : j < i
    <3> SUFFICES ASSUME NEW j \in slice \ at', NEW i \in at'
                 PROVE  j < i
      OBVIOUS
    <3>1. i \in at /\ i # k /\ k <= i /\ i \in Nat
      BY <1>1, <1>2, <2>1
    <3>2. CASE j = k
      BY <1>2, <3>1, <3>2
    <3>3. CASE j # k
      BY <2>1, <3>1, <3>3 DEF StoreInv, PageInv
    <3> QED
      BY <3>2, <3>3
  <2>5. \A i \in 1..Len(r) : r[i] \in slice \ at'
    BY <1>1, <1>2, <1>3, <2>1
  <2>6. PageInv'
    BY <1>2, <1>3, <1>4, <2>1, <2>3, <2>4, <2>5 DEF StoreInv, PageInv
  <2>7. \A j \in steady : j \in slice \ at' => Has(r, j)
    BY <1>3, <2>1 DEF StoreInv, ListInv
  <2>8. ListInv'
    BY <1>1, <1>4, <2>1, <2>7 DEF StoreInv, ListInv
  <2> QED
    BY <2>2, <2>6, <2>8 DEF StoreInv
<1>7. CASE at = {k}
  <2> DEFINE all == got \o r
             next == Store!NextCursor(k)
  <2>1. read' = <<>> /\ at' = {} /\ slice' = {} /\ got' = all /\ cursor' = next
    BY <1>1, <1>7
  <2>2. next = (IF Cardinality(slice) = Limit THEN k ELSE Store!Done)
    BY SameCardinality DEF Store!NextCursor
  <2>3. got \in Seq(Keys) /\ Distinct(got) /\ \A i \in 1..Len(got) : got[i] \in Nat /\ got[i] <= cursor
    <3>1. got \in Seq(Keys) /\ Distinct(got) /\ \A i \in 1..Len(got) : got[i] <= cursor
      BY <1>2 DEF StoreInv, StoreTypes, ListInv
    <3>2. \A i \in 1..Len(got) : got[i] \in Keys
      BY <3>1, ElementOfSeq
    <3> QED
      BY <1>2, <3>1, <3>2
  <2>4. \A i \in 1..Len(r) : r[i] \in Nat /\ r[i] <= k /\ cursor < r[i]
    <3>1. \A j \in (slice \ at) \cup {k} : j \in Nat /\ j <= k /\ cursor < j
      BY <1>2, <1>5
    <3> QED
      BY <1>3, <3>1
  <2>5. \A i \in 1..Len(got), j \in 1..Len(r) : got[i] # r[j]
    BY <1>2, <2>3, <2>4
  <2>6. /\ all \in Seq(Keys) /\ Distinct(all)
        /\ \A j : Has(got, j) \/ Has(r, j) => Has(all, j)
        /\ \A i \in 1..Len(all) : \/ \E j \in 1..Len(got) : all[i] = got[j]
                                  \/ \E j \in 1..Len(r) : all[i] = r[j]
    BY <1>3, <2>3, <2>5, PagesJoin
  <2> HIDE DEF all, next
  <2>7. \A i \in 1..Len(all) : all[i] <= k
    BY <1>2, <2>3, <2>4, <2>6
  <2>8. ASSUME NEW j \in steady, j <= next
        PROVE  Has(all, j)
    <3>1. j \in Nat /\ j \in Keys
      BY <1>2
    <3>2. CASE j <= cursor
      BY <2>6, <3>2 DEF StoreInv, ListInv
    <3>3. CASE j = k
      BY <1>3, <2>6, <2>8, <3>3
    <3>4. CASE cursor < j /\ j # k /\ j \in slice
      <4>1. Has(read, j)
        BY <1>7, <2>8, <3>4 DEF StoreInv, ListInv
      <4> QED
        BY <1>3, <2>6, <4>1
    <3>5. CASE cursor < j /\ j \notin slice
      <4>1. Cardinality(slice) = Limit /\ k < j
        BY <1>2, <2>8, <3>5 DEF StoreInv, ListInv
      <4> QED
        BY <1>2, <2>2, <2>8, <3>1, <4>1
    <3> QED
      BY <1>2, <3>1, <3>2, <3>3, <3>4, <3>5
  <2>9. next \in Nat /\ (next = Store!Done \/ next < Store!Done) /\ (next # Store!Done => next = k)
    BY <1>2, <2>2
  <2>10. <<>> \in Seq(Keys) /\ Len(<<>>) = 0 /\ Distinct(<<>>)
    BY EmptySeq DEF Distinct
  <2>11. StoreTypes'
    BY <1>1, <1>2, <1>4, <2>1, <2>6, <2>9, <2>10 DEF StoreInv, StoreTypes
  <2>12. PageInv'
    <3>1. Cardinality({}) = 0 /\ 0 <= Limit
      BY FS_EmptySet, DoneIsLast
    <3> QED
      BY <1>4, <2>1, <2>9, <2>10, <3>1 DEF PageInv
  <2>13. ListInv'
    BY <1>1, <1>4, <2>1, <2>6, <2>7, <2>8, <2>9 DEF ListInv
  <2> QED
    BY <2>11, <2>12, <2>13 DEF StoreInv
<1> QED
  BY <1>6, <1>7

LEMMA ChangeKeeps ==
  ASSUME StoreInv, NEW k \in Keys, NEW v \in {0, 1}, Store!Change(k, v)
  PROVE  StoreInv'
<1>1. /\ value' = [value EXCEPT ![k] = v] /\ steady' = (IF v = 0 THEN steady \ {k} ELSE steady)
      /\ cursor' = cursor /\ slice' = slice /\ at' = at /\ read' = read /\ got' = got
  BY DEF Store!Change
<1>2. value \in [Keys -> Nat] /\ steady \subseteq Store!Present
  BY DEF StoreInv, StoreTypes
<1>3. value' \in [Keys -> Nat] /\ \A j \in Keys : value'[j] = IF j = k THEN v ELSE value[j]
  BY <1>1, <1>2
<1>4. steady' \subseteq steady /\ steady' \subseteq Store!Present'
  BY <1>1, <1>2, <1>3 DEF Store!Present
<1>5. StoreTypes'
  BY <1>1, <1>3, <1>4 DEF StoreInv, StoreTypes
<1>6. Store!Done' = Store!Done
  BY DEF Store!Done
<1>7. PageInv'
  BY <1>1, <1>6 DEF StoreInv, PageInv
<1>8. ListInv'
  BY <1>1, <1>4, <1>6 DEF StoreInv, ListInv
<1> QED
  BY <1>5, <1>7, <1>8 DEF StoreInv

\* An editor's steps change at most the version of a key that stays.
LEMMA EditorKeeps ==
  ASSUME StoreInv, NEW e \in Editors, Store!Read(e) \/ Store!Compare(e) \/ Store!Store(e)
  PROVE  StoreInv'
<1>1. /\ value' = value \/ value' = [value EXCEPT ![EditKey] = value[EditKey] + 1]
      /\ steady' = steady /\ cursor' = cursor /\ slice' = slice /\ at' = at /\ read' = read /\ got' = got
  BY DEF Store!Read, Store!Compare, Store!Store
<1>2. value \in [Keys -> Nat] /\ steady \subseteq Store!Present /\ EditKey \in Keys
  BY KeyAssumption DEF StoreInv, StoreTypes
<1>3. value' \in [Keys -> Nat] /\ \A j \in Keys : value'[j] = value[j] \/ value'[j] = value[j] + 1
  BY <1>1, <1>2
<1>4. \A n \in Nat : n + 1 # 0
  OBVIOUS
<1>5. steady' \subseteq Store!Present'
  BY <1>1, <1>2, <1>3, <1>4 DEF Store!Present
<1>6. StoreTypes'
  BY <1>1, <1>3, <1>5 DEF StoreInv, StoreTypes
<1>7. Store!Done' = Store!Done
  BY DEF Store!Done
<1>8. PageInv' /\ ListInv'
  BY <1>1, <1>7 DEF StoreInv, PageInv, ListInv
<1> QED
  BY <1>6, <1>8 DEF StoreInv

LEMMA StoreKeeps ==
  ASSUME StoreInv, Store!Next \/ UNCHANGED keys
  PROVE  StoreInv'
<1>1. CASE UNCHANGED keys
  <2>1. Store!Present' = Store!Present /\ Store!Done' = Store!Done
    BY <1>1 DEF keys, Store!Present, Store!Done
  <2> QED
    BY <1>1, <2>1 DEF keys, StoreInv, StoreTypes, PageInv, ListInv
<1>2. CASE Store!Next
  BY <1>2, ListKeeps, ReadRowKeeps, ChangeKeeps, EditorKeeps DEF Store!Next
<1> QED
  BY <1>1, <1>2

LEMMA StoreHolds ==
  ASSUME StoreInv
  PROVE  Store!TypeOK /\ Store!PagesCover
<1>1. Store!TypeOK
  BY SameCardinality DEF StoreInv, StoreTypes, PageInv, Store!TypeOK
<1>2. DOMAIN got = 1..Len(got) /\ Len(got) \in Nat
  BY LenProperties DEF StoreInv, StoreTypes
<1>3. Store!IsInjective(got)
  BY <1>2 DEF StoreInv, ListInv, Distinct, Store!IsInjective
<1>4. ASSUME cursor = Store!Done, NEW k \in steady
      PROVE  k \in Store!Range(got)
  <2>1. k \in Keys /\ k \in Nat /\ k < Store!Done /\ Store!Done \in Nat
    BY DoneIsLast DEF StoreInv, StoreTypes, Store!Present
  <2>2. Has(got, k)
    BY <1>4, <2>1 DEF StoreInv, ListInv
  <2> QED
    BY <1>2, <2>2 DEF Has, Store!Range
<1> QED
  BY <1>1, <1>3, <1>4 DEF Store!PagesCover

--------------------------------------------------------------------------------
(* Overlays: what is in the document. *)

Controls(places) == (places \cup {"body"}) \X (0..2)
Stacked(s) == {s[i] : i \in DOMAIN s}

\* Every layer has one place in the stack and one share of the lock, and whatever is
\* shown, has the focus or is to have it again is in the document.
DomInv ==
  /\ stack \in Seq(Layers!Layers) /\ Distinct(stack)
  /\ locks = Cardinality(Stacked(stack))
  /\ focus \in Controls(there) /\ prev \in [Layers!Layers -> Controls(there)]
  /\ Stacked(stack) \subseteq there /\ route \in there

LEMMA LayerCount ==
  /\ \A S : Layers!Cardinality(S) = Cardinality(S)
  /\ IsFiniteSet(Layers!Layers) /\ Cardinality(Layers!Layers) = 3
<1>1. IsFiniteSet({"confirm"}) /\ Cardinality({"confirm"}) = 1
  BY FS_Singleton
<1>2. IsFiniteSet({"confirm"} \cup {"picker"}) /\ Cardinality({"confirm"} \cup {"picker"}) = 1 + 1
  BY <1>1, FS_AddElement
<1>3. /\ IsFiniteSet(({"confirm"} \cup {"picker"}) \cup {"drawer"})
      /\ Cardinality(({"confirm"} \cup {"picker"}) \cup {"drawer"}) = 1 + 1 + 1
  BY <1>2, FS_AddElement
<1>4. Layers!Layers = ({"confirm"} \cup {"picker"}) \cup {"drawer"}
  BY DEF Layers!Layers
<1>5. \A S : Layers!Cardinality(S) = Cardinality(S)
  BY DEF Cardinality, Layers!Cardinality
<1> QED
  BY <1>3, <1>4, <1>5

\* A sequence without repetitions has as many elements as places.
LEMMA StackedCount ==
  ASSUME NEW E, NEW s \in Seq(E), Distinct(s)
  PROVE  IsFiniteSet(Stacked(s)) /\ Cardinality(Stacked(s)) = Len(s) /\ Stacked(s) \subseteq E /\ Len(s) \in Nat
<1>1. Len(s) \in Nat /\ DOMAIN s = 1..Len(s) /\ \A i \in 1..Len(s) : s[i] \in E
  BY LenProperties, ElementOfSeq
<1>2. Stacked(s) = {s[i] : i \in 1..Len(s)}
  BY <1>1 DEF Stacked
<1>3. s \in [1..Len(s) -> Stacked(s)]
  BY <1>1, <1>2, SeqDef
<1>4. s \in Bijection(1..Len(s), Stacked(s))
  <2>1. DOMAIN s = 1..Len(s) /\ \A t \in Stacked(s) : \E i \in 1..Len(s) : s[i] = t
    BY <1>1, <1>2
  <2>2. IsInjective(s)
    BY <2>1 DEF Distinct, IsInjective
  <2> QED
    BY <1>3, <2>1, <2>2 DEF Bijection, Injection, Surjection
<1>5. ExistsBijection(1..Len(s), Stacked(s))
  BY <1>4 DEF ExistsBijection
<1>6. IsFiniteSet(1..Len(s)) /\ Cardinality(1..Len(s)) = Len(s)
  <2>1. 1 \in Int /\ Len(s) \in Int
    BY <1>1
  <2>2. IsFiniteSet(1..Len(s)) /\ Cardinality(1..Len(s)) = IF 1 > Len(s) THEN 0 ELSE Len(s) - 1 + 1
    BY <2>1, FS_Interval
  <2>3. (IF 1 > Len(s) THEN 0 ELSE Len(s) - 1 + 1) = Len(s)
    BY <1>1
  <2> QED
    BY <2>2, <2>3
<1> QED
  BY <1>1, <1>2, <1>5, <1>6, FS_Bijection

LEMMA SplicedKeeps ==
  ASSUME NEW s \in Seq(Layers!Layers), Distinct(s), NEW o
  PROVE  /\ Layers!Spliced(s, o) \in Seq(Layers!Layers) /\ Distinct(Layers!Spliced(s, o))
         /\ Stacked(Layers!Spliced(s, o)) = Stacked(s) \ {o}
<1>1. DOMAIN s = 1..Len(s) /\ Len(s) \in Nat
  BY LenProperties
<1>2. CASE \E i \in DOMAIN s : s[i] = o
  <2> DEFINE p == CHOOSE i \in DOMAIN s : s[i] = o
             t == SubSeq(s, 1, p - 1) \o SubSeq(s, p + 1, Len(s))
  <2>1. p \in 1..Len(s) /\ s[p] = o
    BY <1>1, <1>2
  <2>2. Layers!Spliced(s, o) = t
    BY <1>2 DEF Layers!Spliced
  <2> HIDE DEF p
  <2>3. t = SubSeq(s, 1, p - 1) \o SubSeq(s, p + 1, Len(s))
    OBVIOUS
  <2> HIDE DEF t
  <2>4. /\ t \in Seq(Layers!Layers) /\ Len(t) = Len(s) - 1
        /\ \A j \in 1..Len(s) - 1 : t[j] = IF j < p THEN s[j] ELSE s[j + 1]
    BY <2>1, <2>3, WithoutOne, ZenonT(60)
  <2>5. DOMAIN t = 1..Len(t)
    BY <2>4, LenProperties
  <2> DEFINE f(j) == IF j < p THEN j ELSE j + 1
  <2>6. \A j \in 1..Len(t) : f(j) \in 1..Len(s) /\ f(j) # p /\ t[j] = s[f(j)]
    BY <1>1, <2>1, <2>4
  <2>7. \A i, j \in 1..Len(t) : f(i) = f(j) => i = j
    BY <1>1, <2>1, <2>4
  <2>8. \A i \in 1..Len(s) : i # p => \E j \in 1..Len(t) : f(j) = i
    <3> SUFFICES ASSUME NEW i \in 1..Len(s), i # p
                 PROVE  \E j \in 1..Len(t) : f(j) = i
      OBVIOUS
    <3>1. CASE i < p
      BY <1>1, <2>1, <2>4, <3>1
    <3>2. CASE p < i
      <4>1. i - 1 \in 1..Len(t) /\ f(i - 1) = i
        BY <1>1, <2>1, <2>4, <3>2
      <4> QED
        BY <4>1
    <3> QED
      BY <1>1, <2>1, <3>1, <3>2
  <2> HIDE DEF f
  <2>9. Distinct(t)
    BY <2>6, <2>7 DEF Distinct
  <2>10. Stacked(t) = Stacked(s) \ {o}
    <3>1. ASSUME NEW x \in Stacked(t)
          PROVE  x \in Stacked(s) \ {o}
      <4>1. PICK j \in 1..Len(t) : x = t[j]
        BY <2>5 DEF Stacked
      <4>2. x = s[f(j)] /\ f(j) \in 1..Len(s) /\ f(j) # p
        BY <2>6, <4>1
      <4> QED
        BY <1>1, <2>1, <4>2 DEF Stacked, Distinct
    <3>2. ASSUME NEW x \in Stacked(s), x # o
          PROVE  x \in Stacked(t)
      <4>1. PICK i \in 1..Len(s) : x = s[i]
        BY <1>1 DEF Stacked
      <4>2. PICK j \in 1..Len(t) : f(j) = i
        BY <2>1, <2>8, <3>2, <4>1
      <4>3. x = t[j]
        BY <2>6, <4>1, <4>2
      <4> QED
        BY <2>5, <4>3 DEF Stacked
    <3> QED
      BY <3>1, <3>2
  <2> QED
    BY <2>2, <2>4, <2>9, <2>10
<1>3. CASE ~\E i \in DOMAIN s : s[i] = o
  <2>1. Layers!Spliced(s, o) = s /\ o \notin Stacked(s)
    BY <1>3 DEF Layers!Spliced, Stacked
  <2> QED
    BY <2>1
<1> QED
  BY <1>2, <1>3

\* What goes and what comes of the layers, and the focus.
LEMMA WithoutKeeps ==
  ASSUME DomInv, NEW o \in Layers!Layers, NEW p \in Layers!Layers, Layers!Without(o, p)
  PROVE  /\ stack' \in Seq(Layers!Layers) /\ Distinct(stack')
         /\ Stacked(stack') = Stacked(stack) \ {o, p}
         /\ locks' = Cardinality(Stacked(stack'))
         /\ focus' \in Controls(there) /\ prev' \in [Layers!Layers -> Controls(there)]
<1> DEFINE gone == {o, p} \cap Stacked(stack)
           S == Stacked(stack)
<1>1. /\ stack' = Layers!Spliced(Layers!Spliced(stack, o), p)
      /\ locks' = Layers!Unlocked(gone)
      /\ prev' = [l \in Layers!Layers |-> IF l \in gone THEN Layers!Body ELSE prev[l]]
      /\ \/ focus' = focus
         \/ \E l \in gone : focus' = Layers!Given(prev[l], focus)
  BY DEF Layers!Without, Layers!Attached, Stacked
<1>2. stack \in Seq(Layers!Layers) /\ Distinct(stack)
  BY DEF DomInv
<1>3. /\ stack' \in Seq(Layers!Layers) /\ Distinct(stack')
      /\ Stacked(stack') = S \ {o, p}
  <2> DEFINE t == Layers!Spliced(stack, o)
  <2>1. t \in Seq(Layers!Layers) /\ Distinct(t) /\ Stacked(t) = S \ {o}
    BY <1>2, SplicedKeeps
  <2> HIDE DEF t
  <2>2. /\ Layers!Spliced(t, p) \in Seq(Layers!Layers) /\ Distinct(Layers!Spliced(t, p))
        /\ Stacked(Layers!Spliced(t, p)) = Stacked(t) \ {p}
    BY <2>1, SplicedKeeps
  <2>3. stack' = Layers!Spliced(t, p)
    BY <1>1 DEF t
  <2> QED
    BY <2>1, <2>2, <2>3
<1>4. IsFiniteSet(S) /\ S \subseteq Layers!Layers
  BY <1>2, StackedCount
<1> HIDE DEF S
<1>5. locks' = Cardinality(Stacked(stack'))
  <2>1. gone \in SUBSET S /\ S \cap gone = gone
    BY DEF S
  <2>2. IsFiniteSet(gone) /\ Cardinality(gone) <= Cardinality(S) /\ Cardinality(gone) \in Nat /\ Cardinality(S) \in Nat
    BY <1>4, <2>1, FS_Subset, FS_CardinalityType
  <2>3. Cardinality(S \ gone) = Cardinality(S) - Cardinality(gone)
    <3>1. Cardinality(S \ gone) = Cardinality(S) - Cardinality(S \cap gone)
      BY <1>4, FS_Difference
    <3> QED
      BY <2>1, <3>1
  <2>4. S \ gone = Stacked(stack')
    BY <1>3 DEF S
  <2>5. locks = Cardinality(S)
    BY DEF DomInv, S
  <2>6. locks' = (IF locks < Cardinality(gone) THEN 0 ELSE locks - Cardinality(gone))
    BY <1>1, LayerCount DEF Layers!Unlocked
  <2> HIDE DEF gone
  <2> QED
    BY <2>2, <2>3, <2>4, <2>5, <2>6
<1>6. Layers!Body \in Controls(there)
  BY DEF Controls, Layers!Body
<1>7. prev' \in [Layers!Layers -> Controls(there)]
  BY <1>1, <1>6 DEF DomInv
<1>8. \A l \in gone : prev[l] \in Controls(there)
  BY <1>4 DEF DomInv, S
<1>9. focus' \in Controls(there)
  BY <1>1, <1>8 DEF DomInv, Layers!Given
<1> QED
  BY <1>3, <1>5, <1>7, <1>9 DEF S

\* In a larger document every control is still there.
LEMMA ControlsGrow ==
  ASSUME NEW S, NEW T, S \subseteq T
  PROVE  /\ Controls(S) \subseteq Controls(T)
         /\ \A c \in Controls(S) : c[1] \in S \cup {"body"} /\ c[2] \in 0..2
         /\ \A f \in [Layers!Layers -> Controls(S)] : f \in [Layers!Layers -> Controls(T)]
         /\ Layers!Body \in Controls(T)
<1>1. Controls(S) \subseteq Controls(T)
  BY DEF Controls
<1>2. \A c \in Controls(S) : c[1] \in S \cup {"body"} /\ c[2] \in 0..2
  BY DEF Controls
<1>3. Layers!Body \in Controls(T)
  BY DEF Controls, Layers!Body
<1> QED
  BY <1>1, <1>2, <1>3

LEMMA AttachKeeps ==
  ASSUME DomInv, NEW o \in Layers!Layers, Layers!Attach(o)
  PROVE  DomInv'
<1> DEFINE lost(c) == IF c[1] = o THEN Layers!Body ELSE c
<1>1. /\ o \notin Stacked(stack) /\ stack' = Append(stack, o) /\ locks' = locks + 1 /\ there' = there \cup {o}
      /\ focus' = lost(focus) /\ prev' = [p \in Layers!Layers |-> IF p = o THEN lost(focus) ELSE lost(prev[p])]
      /\ route' = route
  BY DEF Layers!Attach, Layers!Attached, Stacked, Layers!page
<1>2. /\ stack \in Seq(Layers!Layers) /\ Distinct(stack) /\ Len(stack) \in Nat /\ DOMAIN stack = 1..Len(stack)
      /\ Stacked(stack) \subseteq there /\ route \in there /\ locks = Cardinality(Stacked(stack))
      /\ focus \in Controls(there) /\ prev \in [Layers!Layers -> Controls(there)]
  BY LenProperties DEF DomInv
<1> DEFINE t == Append(stack, o)
<1>3. /\ t \in Seq(Layers!Layers) /\ Len(t) = Len(stack) + 1 /\ t[Len(stack) + 1] = o
      /\ \A i \in 1..Len(stack) : t[i] = stack[i]
  BY <1>2, AppendProperties
<1>4. DOMAIN t = 1..Len(stack) + 1
  BY <1>3, LenProperties
<1> HIDE DEF t
<1>5. \A i \in 1..Len(stack) : stack[i] # o
  BY <1>1, <1>2 DEF Stacked
<1>6. Distinct(t)
  <2> SUFFICES ASSUME NEW i \in 1..Len(stack) + 1, NEW j \in 1..Len(stack) + 1, t[i] = t[j]
               PROVE  i = j
    BY <1>3 DEF Distinct
  <2>1. CASE i \in 1..Len(stack) /\ j \in 1..Len(stack)
    BY <1>2, <1>3, <2>1 DEF Distinct
  <2>2. CASE i = Len(stack) + 1 \/ j = Len(stack) + 1
    BY <1>2, <1>3, <1>5, <2>2
  <2> QED
    BY <1>2, <2>1, <2>2
<1>7. Stacked(t) = Stacked(stack) \cup {o}
  <2>1. \A i \in 1..Len(stack) + 1 : i = Len(stack) + 1 \/ i \in 1..Len(stack)
    BY <1>2
  <2>2. Stacked(stack) = {stack[i] : i \in 1..Len(stack)} /\ Stacked(t) = {t[i] : i \in 1..Len(stack) + 1}
    BY <1>2, <1>4 DEF Stacked
  <2>3. Len(stack) + 1 \in 1..Len(stack) + 1 /\ \A i \in 1..Len(stack) : i \in 1..Len(stack) + 1
    BY <1>2
  <2> QED
    BY <1>3, <2>1, <2>2, <2>3
<1>8. Cardinality(Stacked(t)) = Cardinality(Stacked(stack)) + 1
  BY <1>1, <1>2, <1>7, StackedCount, FS_AddElement
<1>9. focus' \in Controls(there') /\ prev' \in [Layers!Layers -> Controls(there')]
  <2>1. there \subseteq there'
    BY <1>1
  <2>2. Controls(there) \subseteq Controls(there') /\ Layers!Body \in Controls(there')
    BY <2>1, ControlsGrow
  <2>3. \A c \in Controls(there) : lost(c) \in Controls(there')
    BY <2>2
  <2> HIDE DEF lost
  <2> QED
    BY <1>1, <1>2, <2>3
<1> QED
  BY <1>1, <1>2, <1>3, <1>6, <1>7, <1>8, <1>9 DEF DomInv, t

\* A focus moved, in a document that is the same.
LEMMA FocusKeeps ==
  ASSUME DomInv, UNCHANGED <<stack, locks, prev, there>>, focus' \in Controls(there), route' \in there
  PROVE  DomInv'
BY DEF DomInv

LEMMA DomSame ==
  ASSUME DomInv, UNCHANGED <<route, stack, locks, prev, focus, there>>
  PROVE  DomInv'
BY DEF DomInv

LEMMA FadeKeeps ==
  ASSUME DomInv, NEW p, Layers!Fade(p)
  PROVE  DomInv'
<1>1. /\ p \notin Stacked(stack) /\ p # route /\ there' = there \ {p}
      /\ focus' = (IF focus[1] = p THEN Layers!Body ELSE focus)
      /\ prev' = [o \in Layers!Layers |-> IF prev[o][1] = p THEN Layers!Body ELSE prev[o]]
      /\ UNCHANGED <<route, stack, locks>>
  BY DEF Layers!Fade, Layers!Attached, Stacked, Layers!page
<1>2. \A c \in Controls(there) : c[1] # p => c \in Controls(there')
  BY <1>1 DEF Controls
<1>3. Layers!Body \in Controls(there')
  BY ControlsGrow
<1>4. focus' \in Controls(there')
  BY <1>1, <1>2, <1>3 DEF DomInv
<1>5. prev' \in [Layers!Layers -> Controls(there')]
  BY <1>1, <1>2, <1>3 DEF DomInv
<1> QED
  BY <1>1, <1>4, <1>5 DEF DomInv

LEMMA GoToKeepsDom ==
  ASSUME DomInv, NEW r, Layers!GoTo(r)
  PROVE  DomInv'
<1> DEFINE o == IF r = "login" THEN "drawer" ELSE "picker"
<1>1. Layers!Without("picker", o) /\ there' = there \cup {r} /\ route' = r
  BY DEF Layers!GoTo
<1>2. "picker" \in Layers!Layers /\ o \in Layers!Layers
  BY DEF Layers!Layers
<1> HIDE DEF o
<1>3. /\ stack' \in Seq(Layers!Layers) /\ Distinct(stack')
      /\ Stacked(stack') = Stacked(stack) \ {"picker", o}
      /\ locks' = Cardinality(Stacked(stack'))
      /\ focus' \in Controls(there) /\ prev' \in [Layers!Layers -> Controls(there)]
  BY <1>1, <1>2, WithoutKeeps
<1>4. there \subseteq there'
  BY <1>1
<1>5. focus' \in Controls(there') /\ prev' \in [Layers!Layers -> Controls(there')]
  BY <1>3, <1>4, ControlsGrow
<1>6. Stacked(stack') \subseteq there' /\ route' \in there'
  BY <1>1, <1>3 DEF DomInv
<1> QED
  BY <1>3, <1>5, <1>6 DEF DomInv

LEMMA DomBegins == ASSUME Layers!Init PROVE DomInv
<1>1. /\ stack = <<>> /\ locks = 0 /\ focus = Layers!Body /\ route = "chat" /\ there = {"chat"}
      /\ prev = [o \in Layers!Layers |-> Layers!Body]
  BY DEF Layers!Init
<1>2. stack \in Seq(Layers!Layers) /\ Len(stack) = 0 /\ DOMAIN stack = {}
  BY <1>1
<1>3. Distinct(stack) /\ Stacked(stack) = {}
  BY <1>2 DEF Distinct, Stacked
<1>4. Cardinality(Stacked(stack)) = 0
  BY <1>3, FS_EmptySet
<1>5. Layers!Body \in Controls(there)
  BY DEF Controls, Layers!Body
<1> QED
  BY <1>1, <1>2, <1>3, <1>4, <1>5 DEF DomInv

\* What lies on top is in the document, and so is what is open in a settled page.
LEMMA TopIsThere ==
  ASSUME DomInv
  PROVE  /\ stack # <<>> => Layers!Top \in there
         /\ Layers!Settled => Layers!Open = Stacked(stack) /\ Layers!Open \subseteq there
<1>1. ASSUME stack # <<>>
      PROVE  Layers!Top \in there
  <2>1. Len(stack) \in DOMAIN stack /\ Layers!Top = stack[Len(stack)]
    BY <1>1, EmptySeq, LenProperties DEF DomInv, Layers!Top
  <2> QED
    BY <2>1 DEF DomInv, Stacked
<1>2. ASSUME Layers!Settled
      PROVE  Layers!Open = Stacked(stack) /\ Layers!Open \subseteq there
  BY <1>2 DEF DomInv, Layers!Settled, Layers!Attached, Stacked
<1> QED
  BY <1>1, <1>2

LEMMA SwitchKeepsDom ==
  ASSUME DomInv, NEW v, NEW name, Layers!Switch(v, name)
  PROVE  DomInv'
<1>1. UNCHANGED <<route, stack, locks, prev, focus, there>>
  BY DEF Layers!Switch, Layers!dom
<1> QED
  BY <1>1, DomSame

LEMMA PressKeeps ==
  ASSUME DomInv, NEW p, NEW n \in {1, 2}, Layers!Press(<<p, n>>), p \in there, UNCHANGED route
  PROVE  DomInv'
<1>1. UNCHANGED <<stack, locks, prev, there>> /\ focus' = <<p, n>>
  BY DEF Layers!Press
<1>2. focus' \in Controls(there) /\ route' \in there
  <2>1. n \in 0..2
    OBVIOUS
  <2> QED
    BY <1>1, <2>1 DEF Controls, DomInv
<1> QED
  BY <1>1, <1>2, FocusKeeps

LEMMA UserKeepsDom ==
  ASSUME DomInv, Layers!Settled, Layers!User
  PROVE  DomInv'
<1>0. route \in there
  BY DEF DomInv
<1>1. CASE Layers!OpenDrawer
  <2>1. Layers!Press(<<route, 1>>) /\ UNCHANGED route
    BY <1>1 DEF Layers!OpenDrawer, Layers!Header, Layers!page
  <2> QED
    BY <1>0, <2>1, PressKeeps
<1>2. CASE Layers!OpenPicker
  <2>1. Layers!Press(<<"chat", 1>>) /\ route = "chat" /\ UNCHANGED route
    BY <1>2 DEF Layers!OpenPicker, Layers!Header, Layers!page
  <2> QED
    BY <1>0, <2>1, PressKeeps
<1>3. CASE Layers!AskReset
  <2>1. Layers!Press(<<"chat", 1>>) /\ route = "chat" /\ UNCHANGED route
    BY <1>3 DEF Layers!AskReset, Layers!Header, Layers!page
  <2> QED
    BY <1>0, <2>1, PressKeeps
<1>4. CASE Layers!AskLogout
  <2>1. Layers!Press(<<"settings", 1>>) /\ route = "settings" /\ UNCHANGED route
    BY <1>4 DEF Layers!AskLogout, Layers!Header, Layers!page
  <2> QED
    BY <1>0, <2>1, PressKeeps
<1>5. CASE Layers!Send
  <2>1. Layers!Press(<<"chat", 2>>) /\ route = "chat" /\ UNCHANGED route
    BY <1>5 DEF Layers!Send, Layers!Composer
  <2> QED
    BY <1>0, <2>1, PressKeeps
<1>6. ASSUME NEW yes, Layers!Resolve(yes) PROVE DomInv'
  <2>1. UNCHANGED <<route, stack, locks, prev, focus, there>>
    BY <1>6 DEF Layers!Resolve, Layers!page, Layers!dom
  <2> QED
    BY <2>1, DomSame
<1>7. ASSUME UNCHANGED <<Layers!page, Layers!dom>> PROVE DomInv'
  <2>1. UNCHANGED <<route, stack, locks, prev, focus, there>>
    BY <1>7 DEF Layers!page, Layers!dom
  <2> QED
    BY <2>1, DomSame
<1>8. CASE Layers!Escape
  BY <1>6, <1>7, <1>8 DEF Layers!Escape
<1>9. CASE Layers!CtrlK
  BY <1>7, <1>9 DEF Layers!CtrlK
<1>10. CASE Layers!Slash
  <2>1. UNCHANGED <<route, stack, locks, prev, there>> /\ focus' = <<"chat", 2>> /\ route = "chat"
    BY <1>10 DEF Layers!Slash, Layers!Composer, Layers!page
  <2>2. focus' \in Controls(there) /\ route' \in there
    BY <1>0, <2>1 DEF Controls
  <2> QED
    BY <2>1, <2>2, FocusKeeps
<1>11. ASSUME NEW i \in DOMAIN AgentList, Layers!PickAgent(AgentList[i]) PROVE DomInv'
  <2> DEFINE name == AgentList[i]
  <2>1. CASE UNCHANGED <<Layers!page, Layers!dom>>
    BY <1>7, <2>1
  <2>2. CASE Layers!Switch(visit, name)
    BY <2>2, SwitchKeepsDom
  <2>3. CASE Layers!Press(<<"picker", 2>>) /\ UNCHANGED Layers!page /\ picker
    <3>1. "picker" \in Layers!Open
      BY <2>3 DEF Layers!Open, Layers!Layers
    <3>2. "picker" \in there
      BY <3>1, TopIsThere
    <3>3. UNCHANGED route
      BY <2>3 DEF Layers!page
    <3> QED
      BY <2>3, <3>2, <3>3, PressKeeps
  <2> HIDE DEF name
  <2>4. Layers!PickAgent(name)
    BY <1>11 DEF name
  <2> QED
    BY <2>1, <2>2, <2>3, <2>4 DEF Layers!PickAgent
<1>12. ASSUME NEW o \in Layers!Layers, Layers!Close(o) PROVE DomInv'
  BY <1>6, <1>7, <1>12 DEF Layers!Close
<1>13. ASSUME NEW back \in BOOLEAN, Layers!Tab(back) PROVE DomInv'
  <2> DEFINE top == Layers!Top
             from == IF back THEN 1 ELSE 2
  <2>1. /\ UNCHANGED <<route, stack, locks, prev, there>> /\ stack # <<>>
        /\ focus' = (IF ~(focus[1] = top) \/ focus[2] = from THEN <<top, 3 - from>> ELSE <<top, from>>)
    BY <1>13 DEF Layers!Tab, Layers!page
  <2>2. top \in there
    BY <2>1, TopIsThere
  <2>3. from \in 0..2 /\ 3 - from \in 0..2
    OBVIOUS
  <2> HIDE DEF top, from
  <2>4. focus' \in Controls(there) /\ route' \in there
    BY <1>0, <2>1, <2>2, <2>3 DEF Controls
  <2> QED
    BY <2>1, <2>4, FocusKeeps
<1>14. ASSUME NEW r \in Layers!Routes \ {"login"}, Layers!Navigate(r) PROVE DomInv'
  BY <1>14, GoToKeepsDom DEF Layers!Navigate
<1> QED
  BY <1>1, <1>2, <1>3, <1>4, <1>5, <1>8, <1>9, <1>10, <1>11, <1>12, <1>13, <1>14 DEF Layers!User

LEMMA ResumedKeepsDom == ASSUME DomInv, Layers!Resumed PROVE DomInv'
<1>1. CASE UNCHANGED <<Layers!page, Layers!dom>>
  <2>1. UNCHANGED <<route, stack, locks, prev, focus, there>>
    BY <1>1 DEF Layers!page, Layers!dom
  <2> QED
    BY <2>1, DomSame
<1>2. CASE Layers!Switch(answer.who.visit, answer.who.name)
  BY <1>2, SwitchKeepsDom
<1>3. CASE Layers!Reset(answer.who.visit)
  <2>1. UNCHANGED <<route, stack, locks, prev, focus, there>>
    BY <1>3 DEF Layers!Reset, Layers!dom
  <2> QED
    BY <2>1, DomSame
<1>4. CASE Layers!GoTo("login")
  BY <1>4, GoToKeepsDom
<1> QED
  BY <1>1, <1>2, <1>3, <1>4 DEF Layers!Resumed

LEMMA DomKeeps == ASSUME DomInv, Layers!Next PROVE DomInv'
<1>1. CASE Layers!Settled /\ Layers!User
  BY <1>1, UserKeepsDom
<1>2. ASSUME NEW o \in Layers!Layers, Layers!Attach(o) PROVE DomInv'
  BY <1>2, AttachKeeps
<1>3. ASSUME NEW o \in Layers!Layers, Layers!Detach(o) PROVE DomInv'
  <2>1. Layers!Without(o, o) /\ UNCHANGED <<route, there>>
    BY <1>3 DEF Layers!Detach, Layers!page
  <2>2. /\ stack' \in Seq(Layers!Layers) /\ Distinct(stack')
        /\ Stacked(stack') = Stacked(stack) \ {o, o}
        /\ locks' = Cardinality(Stacked(stack'))
        /\ focus' \in Controls(there) /\ prev' \in [Layers!Layers -> Controls(there)]
    BY <2>1, WithoutKeeps
  <2> QED
    BY <2>1, <2>2 DEF DomInv
<1>4. ASSUME NEW o \in Layers!Layers, Layers!NextTick(o) PROVE DomInv'
  <2>1. UNCHANGED <<route, stack, locks, prev, there>> /\ focus' = Layers!Given(<<o, 1>>, focus)
    BY <1>4 DEF Layers!NextTick, Layers!page
  <2>2. o \in there => <<o, 1>> \in Controls(there)
    BY DEF Controls
  <2>3. focus' \in Controls(there) /\ route' \in there
    BY <2>1, <2>2 DEF Layers!Given, DomInv
  <2> QED
    BY <2>1, <2>3, FocusKeeps
<1>5. CASE Layers!Resumed
  BY <1>5, ResumedKeepsDom
<1>6. ASSUME NEW v, NEW ok, Layers!Listed(v, ok) PROVE DomInv'
  <2>1. UNCHANGED <<route, stack, locks, prev, focus, there>>
    BY <1>6 DEF Layers!Listed, Layers!dom
  <2> QED
    BY <2>1, DomSame
<1>7. ASSUME NEW p \in there, Layers!Fade(p) PROVE DomInv'
  BY <1>7, FadeKeeps
<1> QED
  BY <1>1, <1>2, <1>3, <1>4, <1>5, <1>6, <1>7 DEF Layers!Next

--------------------------------------------------------------------------------
(* Overlays: the chat page, its conversations and the questions asked of it. *)

Questions == {resolver, answer.who}
Here(v) == route = "chat" /\ v = visit
Lasts(v) == v \in hasty \/ Here(v)
Meant(q) ==
  /\ q.visit \in Nat /\ q.visit <= visit
  /\ Here(q.visit) => said /\ chosen = q.from
  /\ q.why = "switch" => Lasts(q.visit)

\* A visit whose list has not come has no agent, so no sheet, conversation or question.
Blank == route = "chat" /\ visit \in listing => chosen = "none" /\ ~said /\ ~names /\ ~picker

\* A question stays the one asked while its visit lasts: whatever opens a stream later,
\* or clears a conversation, is of a visit that lasts or was left waiting.
TalkInv ==
  /\ route \in Layers!Routes /\ visit \in 1..MaxVisits
  /\ listing \subseteq 1..MaxVisits /\ \A v \in listing : v <= visit /\ Lasts(v)
  /\ said => route = "chat"
  /\ picker => route = "chat"
  /\ Blank
  /\ Meant(resolver) /\ Meant(answer.who)
  /\ answer # Layers!NoAnswer => resolver = Layers!Nobody
  /\ \A s \in streams : Lasts(s.visit)
  /\ mixed = FALSE

LEMMA TalkBegins == ASSUME Layers!Init PROVE TalkInv
<1>1. 1 \in 1..MaxVisits
  BY AgentAssumption
<1>2. \A q \in {Layers!Nobody} : q.visit = 0 /\ q.why = "none"
  BY DEF Layers!Nobody
<1>3. answer.who = Layers!Nobody /\ resolver = Layers!Nobody
  BY DEF Layers!Init, Layers!NoAnswer
<1>4. Meant(resolver) /\ Meant(answer.who)
  <2>1. visit = 1
    BY DEF Layers!Init
  <2> QED
    BY <1>2, <1>3, <2>1 DEF Meant, Here
<1> QED
  BY <1>1, <1>3, <1>4 DEF Layers!Init, TalkInv, Blank, Lasts, Here, Layers!Routes, Layers!NoAnswer

\* Nobody asks of no visit.
LEMMA NobodyIsMeant == ASSUME visit \in Nat \ {0} PROVE Meant(Layers!Nobody)
<1>1. Layers!Nobody.visit = 0 /\ Layers!Nobody.why = "none"
  BY DEF Layers!Nobody
<1> QED
  BY <1>1 DEF Meant, Here

\* What neither leaves the page nor talks keeps it all.
LEMMA TalkSame ==
  ASSUME TalkInv, UNCHANGED <<Layers!page, Layers!ask>>, picker' => picker
  PROVE  TalkInv'
<1>1. UNCHANGED <<route, visit, names, chosen, said, listing, streams, hasty, resolver, answer, mixed>>
  BY DEF Layers!page, Layers!ask
<1> QED
  BY <1>1 DEF TalkInv, Blank, Meant, Lasts, Here

\* What only asks or answers.
LEMMA AskingKeeps ==
  ASSUME TalkInv, UNCHANGED Layers!page, picker' => picker, UNCHANGED mixed,
         Meant(resolver'), Meant(answer'.who), answer' # Layers!NoAnswer => resolver' = Layers!Nobody
  PROVE  TalkInv'
<1>1. UNCHANGED <<route, visit, names, chosen, said, listing, streams, hasty>>
  BY DEF Layers!page
<1>2. \A v : Lasts(v)' = Lasts(v)
  BY <1>1 DEF Lasts, Here
<1>3. Meant(resolver)' /\ Meant(answer.who)'
  BY <1>1, <1>2 DEF Meant, Here
<1>4. Blank'
  BY <1>1 DEF TalkInv, Blank
<1>5. (\A v \in listing : v <= visit /\ Lasts(v))' /\ (\A s \in streams : Lasts(s.visit))'
  BY <1>1, <1>2 DEF TalkInv
<1> QED
  BY <1>1, <1>3, <1>4, <1>5 DEF TalkInv

LEMMA ResolveKeeps == ASSUME TalkInv, NEW yes, Layers!Resolve(yes) PROVE TalkInv'
<1>1. /\ answer' = [who |-> resolver, yes |-> yes] /\ resolver' = Layers!Nobody
      /\ UNCHANGED Layers!page /\ UNCHANGED picker /\ UNCHANGED mixed
  BY DEF Layers!Resolve
<1>2. answer'.who = resolver
  BY <1>1
<1>3. visit \in Nat \ {0} /\ Meant(resolver)
  BY DEF TalkInv
<1>4. Meant(resolver')
  BY <1>1, <1>3, NobodyIsMeant
<1> QED
  BY <1>1, <1>2, <1>3, <1>4, AskingKeeps

LEMMA ConfirmKeeps ==
  ASSUME TalkInv, NEW who, Layers!Confirm(who), Meant(who), answer = Layers!NoAnswer,
         UNCHANGED <<Layers!page, picker, answer, mixed>>
  PROVE  TalkInv'
<1>1. Meant(resolver')
  BY DEF Layers!Confirm, TalkInv
<1>2. Meant(answer'.who)
  BY DEF TalkInv
<1> QED
  BY <1>1, <1>2, AskingKeeps

\* onPickAgent's switch, when the visit has nothing to lose or its question was answered.
LEMMA SwitchKeeps ==
  ASSUME TalkInv, NEW v, NEW name, Layers!Switch(v, name), Lasts(v), Here(v) => visit \notin listing,
         Meant(resolver)', Meant(answer.who)', (answer # Layers!NoAnswer => resolver = Layers!Nobody)', mixed' = FALSE
  PROVE  TalkInv'
<1>1. /\ UNCHANGED <<route, visit, names, listing, hasty>> /\ streams' = Layers!OpenFor(v, name)
      /\ said' = (said /\ ~Here(v)) /\ picker' = (picker /\ ~Here(v))
      /\ chosen' = IF Here(v) THEN name ELSE chosen
  BY DEF Layers!Switch, Here
<1>2. \A w : Lasts(w)' = Lasts(w)
  BY <1>1 DEF Lasts, Here
<1>3. \A s \in streams' : Lasts(s.visit)
  <2> SUFFICES ASSUME NEW s \in streams' PROVE Lasts(s.visit)
    OBVIOUS
  <2>1. s \in streams \/ s = [visit |-> v, agent |-> name]
    BY <1>1 DEF Layers!OpenFor
  <2>2. CASE s = [visit |-> v, agent |-> name]
    <3>1. s.visit = v
      BY <2>2
    <3> QED
      BY <3>1
  <2> QED
    BY <2>1, <2>2 DEF TalkInv
<1>4. (\A w \in listing : w <= visit /\ Lasts(w))' /\ (\A s \in streams : Lasts(s.visit))'
  BY <1>1, <1>2, <1>3 DEF TalkInv
<1>5. Blank'
  BY <1>1 DEF TalkInv, Blank, Here
<1> QED
  BY <1>1, <1>4, <1>5 DEF TalkInv

LEMMA GoToKeepsTalk ==
  ASSUME TalkInv, NEW r \in Layers!Routes, Layers!GoTo(r),
         UNCHANGED resolver, Layers!NoAnswer = answer', mixed' = FALSE,
         \/ answer = Layers!NoAnswer
         \/ resolver = Layers!Nobody
  PROVE  TalkInv'
<1>1. /\ r # route /\ (r = "chat" => visit < MaxVisits)
      /\ route' = r /\ visit' = (IF r = "chat" THEN visit + 1 ELSE visit)
      /\ listing' = (IF r = "chat" THEN listing \cup {visit + 1} ELSE listing)
      /\ names' = FALSE /\ chosen' = "none" /\ said' = FALSE /\ picker' = FALSE
      /\ streams' = {s \in streams : route # "chat" \/ s.visit # visit}
      /\ hasty' = hasty \cup {v \in {visit} : v \in listing \/ resolver.visit = v}
  BY DEF Layers!GoTo
<1>2. visit \in 1..MaxVisits /\ visit \in Nat \ {0}
  BY DEF TalkInv
<1>3. visit' \in 1..MaxVisits /\ listing' \subseteq 1..MaxVisits /\ \A v \in listing' : v <= visit'
  <2>1. visit < visit + 1 /\ (r = "chat" => visit + 1 \in 1..MaxVisits)
    BY <1>1, <1>2, AgentAssumption
  <2>2. \A v \in listing : v \in 1..MaxVisits /\ v <= visit /\ v <= visit + 1
    <3> SUFFICES ASSUME NEW v \in listing PROVE v \in 1..MaxVisits /\ v <= visit /\ v <= visit + 1
      OBVIOUS
    <3>1. v \in 1..MaxVisits /\ v <= visit
      BY DEF TalkInv
    <3> QED
      BY <1>2, <3>1, AgentAssumption
  <2>3. CASE r = "chat"
    BY <1>1, <1>2, <2>1, <2>2, <2>3
  <2>4. CASE r # "chat"
    BY <1>1, <1>2, <2>2, <2>4
  <2> QED
    BY <2>3, <2>4
<1>4. \A v \in listing' : Lasts(v)'
  <2> SUFFICES ASSUME NEW v \in listing' PROVE v \in hasty' \/ (route' = "chat" /\ v = visit')
    BY DEF Lasts, Here
  <2>1. CASE v \in listing
    <3>1. v \in hasty \/ v = visit
      BY <2>1 DEF TalkInv, Lasts, Here
    <3> QED
      BY <1>1, <2>1, <3>1
  <2>2. CASE r = "chat" /\ v = visit + 1
    BY <1>1, <2>2
  <2> QED
    BY <1>1, <2>1, <2>2
<1>5. \A s \in streams' : Lasts(s.visit)'
  <2> SUFFICES ASSUME NEW s \in streams' PROVE s.visit \in hasty'
    BY DEF Lasts
  <2>1. s \in streams /\ ~Here(s.visit)
    BY <1>1 DEF Here
  <2> QED
    BY <1>1, <2>1 DEF TalkInv, Lasts
<1>6. ~Here(resolver.visit)'
  <2>1. resolver.visit \in Nat /\ resolver.visit <= visit
    BY DEF TalkInv, Meant
  <2>2. CASE r = "chat"
    <3>1. resolver.visit # visit + 1 /\ visit' = visit + 1
      BY <1>1, <1>2, <2>1, <2>2
    <3> QED
      BY <3>1 DEF Here
  <2>3. CASE r # "chat"
    BY <1>1, <2>3 DEF Here
  <2> QED
    BY <2>2, <2>3
<1>7. Meant(resolver)'
  <2>1. resolver'.visit \in Nat /\ resolver'.visit <= visit'
    <3>1. resolver.visit \in Nat /\ resolver.visit <= visit
      BY DEF TalkInv, Meant
    <3> QED
      BY <1>1, <1>2, <3>1
  <2>2. ASSUME resolver.why = "switch" PROVE resolver.visit \in hasty'
    <3>1. resolver.visit \in hasty \/ resolver.visit = visit
      BY <2>2 DEF TalkInv, Meant, Lasts, Here
    <3> QED
      BY <1>1, <3>1
  <2>3. (resolver.why = "switch" => Lasts(resolver.visit))'
    BY <2>2 DEF Lasts
  <2> QED
    BY <1>6, <2>1, <2>3 DEF Meant
<1>8. Meant(answer.who)'
  <2>1. answer'.who = Layers!Nobody
    BY DEF Layers!NoAnswer
  <2>2. Layers!Nobody.visit = 0 /\ Layers!Nobody.why = "none"
    BY DEF Layers!Nobody
  <2>3. visit' \in Nat \ {0}
    BY <1>3
  <2> QED
    BY <2>1, <2>2, <2>3 DEF Meant, Here
<1>9. Blank'
  BY <1>1 DEF Blank
<1> QED
  BY <1>1, <1>3, <1>4, <1>5, <1>7, <1>8, <1>9 DEF TalkInv

LEMMA ListedKeeps ==
  ASSUME TalkInv, NEW v \in listing, NEW ok \in BOOLEAN, Layers!Listed(v, ok)
  PROVE  TalkInv'
<1> DEFINE a == AgentList[1]
<1>1. /\ listing' = listing \ {v} /\ UNCHANGED <<route, visit, said, hasty, picker, resolver, answer, mixed>>
      /\ names' = (names \/ (Here(v) /\ ok)) /\ chosen' = (IF Here(v) /\ ok THEN a ELSE chosen)
      /\ streams' = IF ok THEN Layers!OpenFor(v, a) ELSE streams
  BY DEF Layers!Listed, Here, Layers!ask
<1> HIDE DEF a
<1>2. \A w : Lasts(w)' = Lasts(w)
  BY <1>1 DEF Lasts, Here
<1>3. \A s \in streams' : Lasts(s.visit)
  <2> SUFFICES ASSUME NEW s \in streams' PROVE Lasts(s.visit)
    OBVIOUS
  <2>1. s \in streams \/ s = [visit |-> v, agent |-> a]
    BY <1>1 DEF Layers!OpenFor
  <2>2. CASE s = [visit |-> v, agent |-> a]
    <3>1. s.visit = v
      BY <2>2
    <3> QED
      BY <3>1 DEF TalkInv
  <2> QED
    BY <2>1, <2>2 DEF TalkInv
<1>4. ASSUME NEW q, Meant(q) PROVE Meant(q)'
  <2>1. Here(q.visit) => ~Here(v)
    BY <1>4 DEF Meant, Here, TalkInv, Blank
  <2>2. Here(q.visit) => chosen' = chosen
    BY <1>1, <2>1
  <2> QED
    BY <1>1, <1>2, <1>4, <2>2 DEF Meant, Here
<1>5. Meant(resolver)' /\ Meant(answer.who)'
  BY <1>1, <1>4 DEF TalkInv
<1>6. Blank'
  BY <1>1 DEF TalkInv, Blank, Here
<1>7. (\A w \in listing : w <= visit /\ Lasts(w))' /\ (\A s \in streams : Lasts(s.visit))'
  BY <1>1, <1>2, <1>3 DEF TalkInv
<1> QED
  BY <1>1, <1>5, <1>6, <1>7 DEF TalkInv

\* A question of a conversation that has begun goes on as asked while nothing is said to another.
LEMMA MeantStays ==
  ASSUME NEW q, Meant(q), UNCHANGED <<route, visit, hasty>>,
         Here(q.visit) => said' /\ chosen' = chosen
  PROVE  Meant(q)'
<1>1. Here(q.visit)' = Here(q.visit) /\ Lasts(q.visit)' = Lasts(q.visit)
  BY DEF Lasts, Here
<1> QED
  BY <1>1 DEF Meant

LEMMA ResumedKeepsTalk == ASSUME TalkInv, Layers!Resumed PROVE TalkInv'
<1> DEFINE who == answer.who
<1>1. /\ resolver = Layers!Nobody /\ UNCHANGED resolver /\ answer' = Layers!NoAnswer
      /\ mixed' = (mixed \/ (answer.yes /\ said /\ who.visit = visit /\ chosen # who.from))
  BY DEF Layers!Resumed, TalkInv
<1>2. Meant(who) /\ mixed = FALSE /\ (said => route = "chat") /\ visit \in Nat \ {0}
  BY DEF TalkInv
<1>3. mixed' = FALSE
  BY <1>1, <1>2 DEF Meant, Here
<1>4. resolver' = Layers!Nobody /\ answer'.who = Layers!Nobody
  BY <1>1 DEF Layers!NoAnswer
<1>5. ASSUME UNCHANGED visit PROVE Meant(resolver)' /\ Meant(answer.who)'
  <2>1. Layers!Nobody.visit = 0 /\ Layers!Nobody.why = "none"
    BY DEF Layers!Nobody
  <2> QED
    BY <1>2, <1>4, <1>5, <2>1 DEF Meant, Here
<1>6. Here(who.visit) => visit \notin listing
  BY <1>2 DEF TalkInv, Blank, Meant, Here
<1> HIDE DEF who
<1>7. CASE UNCHANGED <<Layers!page, picker>>
  <2>1. Meant(Layers!Nobody)
    BY <1>2, NobodyIsMeant
  <2>2. Meant(resolver') /\ Meant(answer'.who)
    BY <1>4, <2>1
  <2> QED
    BY <1>1, <1>2, <1>3, <1>4, <1>7, <2>2, AskingKeeps
<1>8. CASE who.why = "switch" /\ Layers!Switch(who.visit, who.name)
  <2>1. UNCHANGED visit
    BY <1>8 DEF Layers!Switch
  <2>2. Lasts(who.visit)
    BY <1>2, <1>8 DEF Meant
  <2> QED
    BY <1>1, <1>3, <1>4, <1>5, <1>6, <1>8, <2>1, <2>2, SwitchKeeps
<1>9. CASE Layers!Reset(who.visit)
  <2>1. /\ UNCHANGED <<route, visit, names, chosen, listing, streams, hasty, picker>>
        /\ said' = (said /\ ~Here(who.visit))
    BY <1>9 DEF Layers!Reset, Here
  <2>2. \A v : Lasts(v)' = Lasts(v)
    BY <2>1 DEF Lasts, Here
  <2>3. Blank' /\ (said' => route' = "chat")
    BY <2>1 DEF TalkInv, Blank
  <2>4. (\A v \in listing : v <= visit /\ Lasts(v))' /\ (\A s \in streams : Lasts(s.visit))'
    BY <2>1, <2>2 DEF TalkInv
  <2> QED
    BY <1>1, <1>3, <1>5, <2>1, <2>3, <2>4 DEF TalkInv
<1>10. CASE Layers!GoTo("login")
  <2>1. "login" \in Layers!Routes
    BY DEF Layers!Routes
  <2> QED
    BY <1>1, <1>3, <1>10, <2>1, GoToKeepsTalk
<1> QED
  BY <1>7, <1>8, <1>9, <1>10 DEF Layers!Resumed, who

LEMMA PickerKeeps ==
  ASSUME TalkInv, names, route = "chat", UNCHANGED <<Layers!page, Layers!ask>>
  PROVE  TalkInv'
<1>1. UNCHANGED <<route, visit, names, chosen, said, listing, streams, hasty, resolver, answer, mixed>>
  BY DEF Layers!page, Layers!ask
<1> QED
  BY <1>1 DEF TalkInv, Blank, Meant, Lasts, Here

LEMMA PickKeeps ==
  ASSUME TalkInv, answer = Layers!NoAnswer, NEW name, Layers!PickAgent(name)
  PROVE  TalkInv'
<1>0. route = "chat" /\ visit \notin listing /\ visit \in Nat \ {0}
  BY DEF Layers!PickAgent, TalkInv, Blank
<1> DEFINE q == [why |-> "switch", visit |-> visit, name |-> name, from |-> chosen]
<1>1. CASE /\ picker' = FALSE /\ UNCHANGED <<Layers!page, Layers!ask>>
  BY <1>1, TalkSame
<1>2. CASE said /\ Layers!Confirm(q) /\ UNCHANGED <<Layers!page, picker, answer, mixed>>
  <2>1. q.why = "switch" /\ q.visit = visit /\ q.from = chosen
    OBVIOUS
  <2> HIDE DEF q
  <2>2. Meant(q)
    BY <1>0, <1>2, <2>1 DEF Meant, Here, Lasts
  <2> QED
    BY <1>2, <2>2, ConfirmKeeps
<1>3. CASE ~said /\ Layers!Switch(visit, name) /\ UNCHANGED Layers!ask
  <2>1. UNCHANGED <<route, visit, hasty, resolver, answer, mixed>>
    BY <1>3 DEF Layers!Switch, Layers!ask
  <2>2. Meant(resolver)' /\ Meant(answer.who)'
    <3>1. \A p \in Questions : Meant(p) /\ ~Here(p.visit)
      BY <1>3 DEF TalkInv, Meant, Questions
    <3>2. \A p \in Questions : Meant(p)'
      BY <2>1, <3>1, MeantStays
    <3> QED
      BY <2>1, <3>2 DEF Questions
  <2>3. Lasts(visit)
    BY <1>0 DEF Lasts, Here
  <2>4. (answer # Layers!NoAnswer => resolver = Layers!Nobody)' /\ mixed' = FALSE
    BY <2>1 DEF TalkInv
  <2> QED
    BY <1>0, <1>3, <2>2, <2>3, <2>4, SwitchKeeps
<1> QED
  BY <1>1, <1>2, <1>3 DEF Layers!PickAgent

LEMMA SendKeeps == ASSUME TalkInv, Layers!Send PROVE TalkInv'
<1>1. /\ route = "chat" /\ chosen # "none" /\ said' = TRUE
      /\ UNCHANGED <<route, visit, names, chosen, listing, streams, hasty, picker, resolver, answer, mixed>>
  BY DEF Layers!Send, Layers!ask
<1>2. \A v : Lasts(v)' = Lasts(v)
  BY <1>1 DEF Lasts, Here
<1>3. Meant(resolver)' /\ Meant(answer.who)'
  BY <1>1, <1>2 DEF TalkInv, Meant, Here
<1>4. Blank'
  BY <1>1 DEF TalkInv, Blank
<1>5. (\A v \in listing : v <= visit /\ Lasts(v))' /\ (\A s \in streams : Lasts(s.visit))'
  BY <1>1, <1>2 DEF TalkInv
<1> QED
  BY <1>1, <1>3, <1>4, <1>5 DEF TalkInv

LEMMA UserKeepsTalk ==
  ASSUME TalkInv, answer = Layers!NoAnswer, Layers!User
  PROVE  TalkInv'
<1>0. visit \in Nat \ {0}
  BY DEF TalkInv
<1>1. CASE Layers!OpenDrawer
  BY <1>1, TalkSame DEF Layers!OpenDrawer
<1>2. CASE Layers!OpenPicker
  BY <1>2, PickerKeeps DEF Layers!OpenPicker
<1>3. CASE Layers!AskReset
  <2> DEFINE q == [why |-> "reset", visit |-> visit, name |-> chosen, from |-> chosen]
  <2>1. Layers!Confirm(q) /\ said /\ UNCHANGED <<Layers!page, picker, answer, mixed>>
    BY <1>3 DEF Layers!AskReset
  <2>2. q.why = "reset" /\ q.visit = visit /\ q.from = chosen
    OBVIOUS
  <2> HIDE DEF q
  <2>3. Meant(q)
    BY <1>0, <2>1, <2>2 DEF Meant
  <2> QED
    BY <2>1, <2>3, ConfirmKeeps
<1>4. CASE Layers!AskLogout
  <2> DEFINE q == [why |-> "logout", visit |-> 0, name |-> "none", from |-> "none"]
  <2>1. Layers!Confirm(q) /\ UNCHANGED <<Layers!page, picker, answer, mixed>>
    BY <1>4 DEF Layers!AskLogout
  <2>2. q.why = "logout" /\ q.visit = 0
    OBVIOUS
  <2> HIDE DEF q
  <2>3. Meant(q)
    BY <1>0, <2>2 DEF Meant, Here
  <2> QED
    BY <2>1, <2>3, ConfirmKeeps
<1>5. CASE Layers!Send
  BY <1>5, SendKeeps
<1>6. CASE Layers!Escape
  BY <1>6, ResolveKeeps, TalkSame DEF Layers!Escape
<1>7. CASE Layers!CtrlK
  BY <1>7, PickerKeeps DEF Layers!CtrlK
<1>8. CASE Layers!Slash
  BY <1>8, TalkSame DEF Layers!Slash
<1>9. ASSUME NEW i \in DOMAIN AgentList, Layers!PickAgent(AgentList[i]) PROVE TalkInv'
  BY <1>9, PickKeeps
<1>10. ASSUME NEW o \in Layers!Layers, Layers!Close(o) PROVE TalkInv'
  BY <1>10, ResolveKeeps, TalkSame DEF Layers!Close
<1>11. ASSUME NEW back \in BOOLEAN, Layers!Tab(back) PROVE TalkInv'
  BY <1>11, TalkSame DEF Layers!Tab
<1>12. ASSUME NEW r \in Layers!Routes \ {"login"}, Layers!Navigate(r) PROVE TalkInv'
  <2>1. Layers!GoTo(r) /\ UNCHANGED <<resolver, answer, mixed>>
    BY <1>12 DEF Layers!Navigate, Layers!ask
  <2>2. answer' = Layers!NoAnswer /\ mixed' = FALSE
    BY <2>1 DEF TalkInv
  <2> QED
    BY <2>1, <2>2, GoToKeepsTalk
<1> QED
  BY <1>1, <1>2, <1>3, <1>4, <1>5, <1>6, <1>7, <1>8, <1>9, <1>10, <1>11, <1>12 DEF Layers!User

LEMMA TalkKeeps == ASSUME TalkInv, Layers!Next PROVE TalkInv'
<1>1. CASE Layers!Settled /\ Layers!User
  BY <1>1, UserKeepsTalk DEF Layers!Settled
<1>2. ASSUME NEW o \in Layers!Layers, Layers!Attach(o) \/ Layers!Detach(o) \/ Layers!NextTick(o) PROVE TalkInv'
  <2>1. UNCHANGED <<Layers!page, Layers!ask>> /\ UNCHANGED picker
    BY <1>2 DEF Layers!Attach, Layers!Detach, Layers!NextTick
  <2> QED
    BY <2>1, TalkSame
<1>3. CASE Layers!Resumed
  BY <1>3, ResumedKeepsTalk
<1>4. ASSUME NEW v \in listing, NEW ok \in BOOLEAN, Layers!Listed(v, ok) PROVE TalkInv'
  BY <1>4, ListedKeeps
<1>5. ASSUME NEW p \in there, Layers!Fade(p) PROVE TalkInv'
  <2>1. UNCHANGED <<Layers!page, Layers!ask>> /\ UNCHANGED picker
    BY <1>5 DEF Layers!Fade
  <2> QED
    BY <2>1, TalkSame
<1> QED
  BY <1>1, <1>2, <1>3, <1>4, <1>5 DEF Layers!Next

LEMMA LayersHold ==
  ASSUME DomInv, TalkInv
  PROVE  Layers!TypeOK /\ Layers!PageIsFree /\ Layers!AnswerIsMeant /\ Layers!StreamsEnd
<1>1. /\ IsFiniteSet(Stacked(stack)) /\ Cardinality(Stacked(stack)) = Len(stack)
      /\ Stacked(stack) \subseteq Layers!Layers /\ Len(stack) \in Nat
  BY StackedCount DEF DomInv
<1>2. locks \in 0..Cardinality(Layers!Layers)
  <2>1. Stacked(stack) \in SUBSET Layers!Layers
    BY <1>1
  <2>2. Cardinality(Stacked(stack)) <= Cardinality(Layers!Layers)
    BY <2>1, LayerCount, FS_Subset
  <2>3. locks = Len(stack) /\ Len(stack) <= 3 /\ Cardinality(Layers!Layers) = 3
    BY <1>1, <2>2, LayerCount DEF DomInv
  <2> QED
    BY <1>1, <2>3
<1>3. Layers!TypeOK
  <2>1. focus[1] \in there \cup {"body"} /\ prev \in [Layers!Layers -> (there \cup {"body"}) \X (0..2)]
    BY DEF DomInv, Controls
  <2>2. Layers!Cardinality(Layers!Layers) = Cardinality(Layers!Layers)
    BY LayerCount
  <2> QED
    BY <1>2, <2>1, <2>2 DEF Layers!TypeOK, DomInv, TalkInv
<1>4. Layers!PageIsFree
  <2>1. Layers!Attached = Stacked(stack)
    BY DEF Layers!Attached, Stacked
  <2>2. Layers!Cardinality(Layers!Attached) = Len(stack) /\ locks = Cardinality(Stacked(stack))
    BY <1>1, <2>1, LayerCount DEF DomInv
  <2>3. ASSUME Layers!Settled
        PROVE  (locks > 0) = (drawer \/ picker \/ resolver # Layers!Nobody)
    <3>1. Layers!Open = Stacked(stack)
      BY <2>1, <2>3 DEF Layers!Settled
    <3>2. Cardinality(Stacked(stack)) = 0 <=> Stacked(stack) = {}
      BY <1>1, FS_EmptySet
    <3>3. Layers!Open = {} <=> ~(drawer \/ picker \/ resolver # Layers!Nobody)
      BY DEF Layers!Open, Layers!Layers
    <3>4. locks \in Nat /\ (locks > 0 <=> locks # 0)
      BY <1>1, <2>2
    <3> QED
      BY <2>2, <3>1, <3>2, <3>3, <3>4
  <2> QED
    BY <2>2, <2>3 DEF Layers!PageIsFree
<1>5. Layers!AnswerIsMeant
  BY DEF Layers!AnswerIsMeant, TalkInv
<1>6. Layers!StreamsEnd
  BY DEF Layers!StreamsEnd, TalkInv, Lasts, Here
<1> QED
  BY <1>3, <1>4, <1>5, <1>6

--------------------------------------------------------------------------------
(* WebChat. *)

InFrames == [t : {"input", "cancel"}, turn : Nat, parts : {1}]
OutFrames == [t : {"delta", "done", "error"}, turn : Nat, parts : 1..2]
ChatTimers == [t : {"text", "finish"}, turn : Nat]
Bubbles == [who : {"user", "bot"}, of : SUBSET Nat]
ChatTab ==
  [gen : 1..MaxDrops + 1, sock : {"connecting", "open", "backoff", "off"}, opened : BOOLEAN,
   waiting : Seq(Nat), turn : 0..MaxTurns, streaming : BOOLEAN, log : Seq(Bubbles), bubble : Nat,
   pending : SUBSET Nat, timers : Seq(ChatTimers), stops : Nat, stopped : SUBSET Nat, cut : SUBSET Nat,
   answered : SUBSET (Nat \X (1..2)), hurt : BOOLEAN]
ChatTask ==
  [pc : {"none", "start", "wait", "turn", "reply", "rest", "fail"}, turn : Nat, parts : 1..2, cancelled : BOOLEAN]
ChatConn ==
  [net : {"new", "up", "cut"}, handler : {"none", "on", "gone"}, in : Seq(InFrames), out : Seq(OutFrames),
   task : ChatTask]

GoneBy(p, k) == k \in p.stopped \/ k \in p.cut
Live(p, k) == p.streaming /\ k = p.turn

\* Where turn k is: on its way to the server, in its task, on its way back, on the
\* page and still open, under a timer.
Posted(h, k) == \E i \in 1..Len(h.in) : h.in[i].t = "input" /\ h.in[i].turn = k
AtWork(h, k) == h.task.pc # "none" /\ h.task.turn = k
Told(h, k) == \E i \in 1..Len(h.out) : h.out[i].turn = k
Carries(h, k) == Posted(h, k) \/ AtWork(h, k) \/ Told(h, k)
Received(p, k) == k \in p.pending \/ (p.bubble # 0 /\ k \in p.log[p.bubble].of)
Timed(p, k) == \E i \in 1..Len(p.timers) : p.timers[i].turn = k

Drained(h) == h.in = <<>> /\ h.out = <<>> /\ h.task.pc = "none"
Unused(h) == h.net = "new" /\ h.handler = "none" /\ Drained(h)

\* The life of the turn n that a page is at: it waits for the socket, is on its way to
\* the server, at work, half told, told, or refused; or nothing is on its way any more.
IsFrame(f, kind, n) == f.t = kind /\ f.turn = n
OnlyLast(s, m, n) == \A i \in 1..Len(s) - m : s[i].turn # n
Waiting(p, n) ==
  /\ ~p.opened /\ p.waiting # <<>> /\ p.waiting[Len(p.waiting)] = n
  /\ \A i \in 1..Len(p.waiting) - 1 : p.waiting[i] # n
  /\ ~Received(p, n)
Queued(p, h, n) ==
  /\ h.in # <<>> /\ IsFrame(h.in[Len(h.in)], "input", n)
  /\ \A i \in 1..Len(h.in) - 1 : h.in[i].t = "input" => h.in[i].turn # n
  /\ ~AtWork(h, n) /\ ~Told(h, n) /\ ~Received(p, n)
Worked(p, h, n) ==
  /\ h.in = <<>> /\ AtWork(h, n) /\ ~h.task.cancelled /\ h.task.pc # "rest"
  /\ ~Told(h, n) /\ ~Received(p, n)
HalfTold(p, h, n) ==
  /\ h.in = <<>> /\ AtWork(h, n) /\ ~h.task.cancelled /\ h.task.pc = "rest"
  /\ \/ Received(p, n) /\ h.out = <<>>
     \/ ~Received(p, n) /\ h.out # <<>> /\ IsFrame(h.out[Len(h.out)], "delta", n) /\ OnlyLast(h.out, 1, n)
AllTold(p, h, n) ==
  /\ h.in = <<>> /\ h.task.pc = "none" /\ h.out # <<>> /\ IsFrame(h.out[Len(h.out)], "done", n)
  /\ \/ Received(p, n) /\ Len(h.out) = 1
     \/ /\ ~Received(p, n) /\ Len(h.out) > 1 /\ IsFrame(h.out[Len(h.out) - 1], "delta", n)
        /\ OnlyLast(h.out, 2, n)
TurnedDown(p, h, n) ==
  /\ h.in = <<>> /\ ~AtWork(h, n) /\ ~Received(p, n)
  /\ \E i \in 1..Len(h.out) : /\ IsFrame(h.out[i], "error", n)
                              /\ \A j \in 1..Len(h.out) : h.out[j].turn = n => i = j
Quiet(p, h) == p.waiting = <<>> /\ (h.net = "up" => Drained(h))

Underway(p, h, n) ==
  Queued(p, h, n) \/ Worked(p, h, n) \/ HalfTold(p, h, n) \/ AllTold(p, h, n) \/ TurnedDown(p, h, n)
Lives(p, h) ==
  \/ h.net # "up" /\ Waiting(p, p.turn) /\ ~Timed(p, p.turn)
  \/ h.net = "up" /\ p.waiting = <<>> /\ ~Timed(p, p.turn) /\ Underway(p, h, p.turn)
  \/ Quiet(p, h)

\* The texts of an answered turn are on the page, or the second is under its timer.
Shows(p, i, k) == p.log[i].who = "bot" /\ k \in p.log[i].of
Delays(p, i, k) == p.timers[i].t = "text" /\ p.timers[i].turn = k
Whole(p, a) ==
  \/ a[2] = 1 /\ \E i \in 1..Len(p.log) : Shows(p, i, a[1])
  \/ \E i, j \in 1..Len(p.log) : i # j /\ Shows(p, i, a[1]) /\ Shows(p, j, a[1])
  \/ \E i \in 1..Len(p.log), j \in 1..Len(p.timers) : Shows(p, i, a[1]) /\ Delays(p, j, a[1])

InPlace(p) ==
  \A i, j \in 1..Len(p.log) :
    i < j /\ p.log[i].who = "user" /\ p.log[j].who = "bot" =>
      \A n \in p.log[j].of, m \in p.log[i].of : n < m => GoneBy(p, n)

\* What a page holds of turns: of one it gave up, or of the one it is at.
TurnsOf(p) ==
  /\ \A k \in p.stopped \cup p.cut : k <= p.turn
  /\ \A n \in p.cut : \E m \in p.stopped : m < n
  /\ p.streaming => ~GoneBy(p, p.turn)
LogOf(p) ==
  /\ p.bubble # 0 => /\ p.bubble \in 1..Len(p.log)
                     /\ \A j \in 1..Len(p.log) : j >= p.bubble => p.log[j].who = "bot"
  /\ \A i \in 1..Len(p.log) : \A k \in p.log[i].of : k <= p.turn
  /\ InPlace(p)
  /\ \A k \in p.pending : GoneBy(p, k) \/ k = p.turn
TimersOf(p) ==
  /\ \A i \in 1..Len(p.timers) : GoneBy(p, p.timers[i].turn) \/ Live(p, p.timers[i].turn)
  /\ \A i \in 1..Len(p.timers) : Live(p, p.timers[i].turn) =>
       IF p.timers[i].t = "text"
       THEN \E j \in 1..Len(p.timers) : j > i /\ p.timers[j].t = "finish" /\ p.timers[j].turn = p.turn
       ELSE \A j \in 1..Len(p.timers) : j > i => p.timers[j].turn # p.turn
WaitingOf(p) ==
  /\ \A i \in 1..Len(p.waiting) : GoneBy(p, p.waiting[i]) \/ Live(p, p.waiting[i])
  /\ \A i, j \in 1..Len(p.waiting) : i < j => p.waiting[i] < p.waiting[j]
  /\ \A i \in 1..Len(p.waiting) : p.waiting[i] \in 1..p.turn
  /\ p.waiting # <<>> => ~p.opened
  /\ p.sock = "off" => p.waiting = <<>> /\ p.timers = <<>> /\ p.pending = {}
  /\ p.sock = "backoff" => p.gen <= MaxDrops
AnswersOf(p) ==
  \A a \in p.answered :
    /\ a[1] <= p.turn
    /\ \/ GoneBy(p, a[1])
       \/ /\ \A i \in 1..Len(p.waiting) : p.waiting[i] # a[1]
          /\ p.sock # "off" => ~Received(p, a[1]) /\ Whole(p, a)
TabInv(p) == TurnsOf(p) /\ LogOf(p) /\ TimersOf(p) /\ WaitingOf(p) /\ AnswersOf(p)

\* A page and the connection it has.
SockInv(p, h) ==
  /\ p.sock = "open" => h.net = "up" /\ p.opened
  /\ p.sock = "connecting" => Unused(h)
  /\ p.sock \in {"backoff", "off"} => h.net = "cut"
CarryInv(p, h) ==
  /\ h.net = "up" => \A k \in Nat : Carries(h, k) => GoneBy(p, k) \/ Live(p, k)
  /\ h.net = "up" => \A a \in p.answered : GoneBy(p, a[1]) \/ ~Carries(h, a[1])
LifeInv(p, h) ==
  p.streaming =>
    /\ p.sock # "off" => Lives(p, h)
    /\ Timed(p, p.turn) => Quiet(p, h)
LinkInv(p, h) == SockInv(p, h) /\ CarryInv(p, h) /\ LifeInv(p, h)

PagesInv ==
  /\ tab \in [Tabs -> ChatTab] /\ conn \in [Chat!Conns -> ChatConn]
  /\ \A t \in Tabs : TabInv(tab[t]) /\ LinkInv(tab[t], conn[<<t, tab[t].gen>>])
  /\ \A c \in Chat!Conns : c[2] > tab[c[1]].gen => Unused(conn[c])

\* The session's lock.
LockInv ==
  /\ \A c \in Chat!Conns : conn[c].task.pc = "turn" <=> holder = c
  /\ holder # Chat!NoOne => holder \in Chat!Conns /\ Chat!Run(holder) \in runs

\* What a connection to which n turns were sent holds, and the turns it has behind it.
InOrder(h, n, done) ==
  /\ \A i \in 1..Len(h.in) : h.in[i].t = "input" => h.in[i].turn <= n /\ \A k \in done : k < h.in[i].turn
  /\ \A i, j \in 1..Len(h.in) : i < j /\ h.in[i].t = "input" /\ h.in[j].t = "input" => h.in[i].turn < h.in[j].turn
  /\ h.task.pc # "none" =>
       /\ h.task.turn <= n
       /\ \A i \in 1..Len(h.in) : h.in[i].t = "input" => h.task.turn < h.in[i].turn
       /\ \A k \in done : k < h.task.turn
  /\ \A k \in done : k <= n
  /\ h.net = "new" => done = {} /\ Unused(h)
Behind(c) == {row.turn[2] : row \in {r \in audit.rows : r.turn[1] = c}}
RowsInv ==
  /\ \A c \in Chat!Conns : InOrder(conn[c], tab[c[1]].turn, Behind(c))
  /\ audit \in [rows : SUBSET [turn : Chat!Conns \X Nat, ok : BOOLEAN], served : SUBSET (Chat!Conns \X Nat)]
  /\ \A row \in audit.rows : row.ok <=> row.turn \in audit.served
  /\ \A r \in audit.served : \E row \in audit.rows : row.turn = r

ChatInv == PagesInv /\ LockInv /\ RowsInv

SameSocket(p, q) == q.gen = p.gen /\ q.sock = p.sock /\ q.opened = p.opened /\ q.waiting = p.waiting
SameTurn(p, q) == q.turn = p.turn /\ q.streaming = p.streaming /\ q.stopped = p.stopped /\ q.cut = p.cut
SameText(p, q) == q.log = p.log /\ q.bubble = p.bubble /\ q.pending = p.pending
SameReplies(p, q) == q.timers = p.timers /\ q.answered = p.answered

\* The log of q is that of p with what was pending in its bubble.
Painted(p, q) ==
  /\ q.pending = {} /\ Len(p.log) <= Len(q.log)
  /\ \A i \in 1..Len(p.log) : q.log[i].who = p.log[i].who /\ p.log[i].of \subseteq q.log[i].of
  /\ \A i \in 1..Len(q.log) :
       \/ i <= Len(p.log) /\ q.log[i] = p.log[i]
       \/ /\ i = q.bubble /\ q.log[i].who = "bot"
          /\ \A k \in q.log[i].of : k \in p.pending \/ (i <= Len(p.log) /\ k \in p.log[i].of)
  /\ q.bubble # 0 => /\ q.bubble \in 1..Len(q.log)
                     /\ \A j \in 1..Len(q.log) : j >= q.bubble => q.log[j].who = "bot"
  /\ \A k : Received(q, k) <=> Received(p, k)

LEMMA FlushedIs ==
  ASSUME NEW p \in ChatTab, LogOf(p)
  PROVE  LET q == Chat!Flushed(p)
         IN q \in ChatTab /\ SameSocket(p, q) /\ SameTurn(p, q) /\ SameReplies(p, q) /\ Painted(p, q)
<1> DEFINE q == Chat!Flushed(p)
<1>1. CASE p.pending = {}
  <2>1. q = p
    BY <1>1 DEF Chat!Flushed
  <2>2. p.log \in Seq(Bubbles) /\ Len(p.log) \in Nat /\ p.bubble \in Nat
    BY LenProperties DEF ChatTab
  <2>3. Painted(p, p)
    BY <1>1, <2>2 DEF Painted, LogOf
  <2> QED
    BY <2>1, <2>3 DEF SameSocket, SameTurn, SameReplies
<1>2. CASE p.pending # {} /\ p.bubble = 0
  <2> DEFINE b == [who |-> "bot", of |-> p.pending]
  <2> DEFINE l == Append(p.log, b)
  <2>1. q = [p EXCEPT !.log = l, !.bubble = Len(p.log) + 1, !.pending = {}]
    BY <1>2 DEF Chat!Flushed
  <2>2. p.log \in Seq(Bubbles) /\ b \in Bubbles /\ Len(p.log) \in Nat
    BY LenProperties DEF ChatTab, Bubbles
  <2>3. b.who = "bot" /\ b.of = p.pending
    OBVIOUS
  <2> HIDE DEF b
  <2>4. /\ l \in Seq(Bubbles) /\ Len(l) = Len(p.log) + 1
        /\ \A i \in 1..Len(p.log) : l[i] = p.log[i]
        /\ l[Len(p.log) + 1] = b
    BY <2>2, AppendProperties
  <2> HIDE DEF l, q
  <2>5. q.log = l /\ q.bubble = Len(p.log) + 1 /\ q.pending = {}
    BY <2>1 DEF ChatTab
  <2>6. q \in ChatTab
    <3> DEFINE n == Len(p.log) + 1
    <3>1. n \in Nat /\ {} \in SUBSET Nat
      BY <2>2
    <3>2. q = [p EXCEPT !.log = l, !.bubble = n, !.pending = {}]
      BY <2>1
    <3> HIDE DEF n
    <3> QED
      BY <2>4, <3>1, <3>2 DEF ChatTab
  <2>7. SameSocket(p, q) /\ SameTurn(p, q) /\ SameReplies(p, q)
    BY <2>1 DEF ChatTab, SameSocket, SameTurn, SameReplies
  <2>8. \A k : Received(q, k) <=> Received(p, k)
    BY <1>2, <2>2, <2>3, <2>4, <2>5 DEF Received
  <2>9. \A i \in 1..Len(p.log) : q.log[i].who = p.log[i].who /\ p.log[i].of \subseteq q.log[i].of
    BY <2>4, <2>5
  <2>10. \A i \in 1..Len(q.log) : i \in 1..Len(p.log) \/ i = q.bubble
    BY <2>2, <2>4, <2>5
  <2>11. q.log[q.bubble] = b
    BY <2>4, <2>5
  <2>12. q.bubble \in 1..Len(q.log) /\ \A j \in 1..Len(q.log) : j >= q.bubble => j = q.bubble
    BY <2>2, <2>4, <2>5
  <2>13. Len(p.log) <= Len(q.log)
    BY <2>2, <2>4, <2>5
  <2>14. \A i \in 1..Len(q.log) :
           \/ i <= Len(p.log) /\ q.log[i] = p.log[i]
           \/ /\ i = q.bubble /\ q.log[i].who = "bot"
              /\ \A k \in q.log[i].of : k \in p.pending \/ (i <= Len(p.log) /\ k \in p.log[i].of)
    <3> SUFFICES ASSUME NEW i \in 1..Len(q.log)
                 PROVE  \/ i <= Len(p.log) /\ q.log[i] = p.log[i]
                        \/ /\ i = q.bubble /\ q.log[i].who = "bot"
                           /\ \A k \in q.log[i].of : k \in p.pending \/ (i <= Len(p.log) /\ k \in p.log[i].of)
      OBVIOUS
    <3>1. CASE i \in 1..Len(p.log)
      BY <2>2, <2>4, <2>5, <3>1
    <3>2. CASE i = q.bubble
      BY <2>3, <2>11, <3>2
    <3> QED
      BY <2>10, <3>1, <3>2
  <2>15. \A j \in 1..Len(q.log) : j >= q.bubble => q.log[j].who = "bot"
    BY <2>3, <2>11, <2>12
  <2>16. Painted(p, q)
    BY <2>5, <2>8, <2>9, <2>12, <2>13, <2>14, <2>15 DEF Painted
  <2> QED
    BY <2>6, <2>7, <2>16 DEF q
<1>3. CASE p.pending # {} /\ p.bubble # 0
  <2> DEFINE b == p.bubble
  <2> DEFINE e == [p.log[b] EXCEPT !.of = @ \cup p.pending]
  <2> DEFINE l == [p.log EXCEPT ![b] = e]
  <2>1. q = [p EXCEPT !.log = l, !.pending = {}]
    BY <1>3 DEF Chat!Flushed
  <2>2. p.log \in Seq(Bubbles) /\ Len(p.log) \in Nat /\ b \in 1..Len(p.log) /\ p.pending \in SUBSET Nat
    BY <1>3, LenProperties DEF ChatTab, LogOf
  <2>3. p.log[b] \in Bubbles /\ p.log[b].who = "bot"
    BY <1>3, <2>2, ElementOfSeq DEF LogOf
  <2>4. e \in Bubbles /\ e.who = "bot" /\ e.of = p.log[b].of \cup p.pending
    BY <2>2, <2>3 DEF Bubbles
  <2> HIDE DEF e
  <2>5. l \in Seq(Bubbles) /\ Len(l) = Len(p.log) /\ \A j \in 1..Len(p.log) : l[j] = IF j = b THEN e ELSE p.log[j]
    BY <2>2, <2>4, ExceptSeq
  <2> HIDE DEF l, q
  <2>6. q.log = l /\ q.bubble = b /\ q.pending = {}
    BY <2>1 DEF ChatTab
  <2>7. q \in ChatTab
    BY <2>1, <2>5 DEF ChatTab
  <2>8. SameSocket(p, q) /\ SameTurn(p, q) /\ SameReplies(p, q)
    BY <2>1 DEF ChatTab, SameSocket, SameTurn, SameReplies
  <2>9. \A k : Received(q, k) <=> Received(p, k)
    BY <1>3, <2>2, <2>4, <2>5, <2>6 DEF Received
  <2>10. \A j \in 1..Len(p.log) : j >= b => p.log[j].who = "bot"
    BY <1>3 DEF LogOf
  <2>11. b # 0
    BY <1>3
  <2> HIDE DEF b
  <2>12. \A i \in 1..Len(p.log) : q.log[i].who = p.log[i].who /\ p.log[i].of \subseteq q.log[i].of
    BY <2>3, <2>4, <2>5, <2>6
  <2>13. \A i \in 1..Len(q.log) : i # b => q.log[i] = p.log[i]
    BY <2>5, <2>6
  <2>14. q.log[b] = e
    BY <2>2, <2>5, <2>6
  <2>15. \A j \in 1..Len(q.log) : j >= b => q.log[j].who = "bot"
    BY <2>5, <2>6, <2>10, <2>12
  <2>16. \A i \in 1..Len(q.log) : i <= Len(p.log)
    BY <2>2, <2>5, <2>6
  <2>17. Len(p.log) <= Len(q.log) /\ b \in 1..Len(q.log)
    BY <2>2, <2>5, <2>6
  <2>18. \A i \in 1..Len(q.log) :
           \/ i <= Len(p.log) /\ q.log[i] = p.log[i]
           \/ /\ i = b /\ q.log[i].who = "bot"
              /\ \A k \in q.log[i].of : k \in p.pending \/ (i <= Len(p.log) /\ k \in p.log[i].of)
    <3> SUFFICES ASSUME NEW i \in 1..Len(q.log)
                 PROVE  \/ i <= Len(p.log) /\ q.log[i] = p.log[i]
                        \/ /\ i = b /\ q.log[i].who = "bot"
                           /\ \A k \in q.log[i].of : k \in p.pending \/ (i <= Len(p.log) /\ k \in p.log[i].of)
      OBVIOUS
    <3>1. i <= Len(p.log)
      BY <2>16
    <3>2. CASE i = b
      <4>1. q.log[i] = e
        BY <2>14, <3>2
      <4>2. e.of = p.log[i].of \cup p.pending
        BY <2>4, <3>2
      <4>3. q.log[i].who = "bot"
        BY <2>4, <4>1
      <4>4. \A k \in q.log[i].of : k \in p.pending \/ k \in p.log[i].of
        BY <4>1, <4>2
      <4> QED
        BY <3>1, <3>2, <4>3, <4>4
    <3> QED
      BY <2>13, <3>1, <3>2
  <2>19. Painted(p, q)
    BY <2>6, <2>9, <2>12, <2>15, <2>17, <2>18 DEF Painted
  <2> QED
    BY <2>7, <2>8, <2>19 DEF q
<1> QED
  BY <1>1, <1>2, <1>3

LEMMA PaintedKeeps ==
  ASSUME NEW p \in ChatTab, NEW q \in ChatTab, TabInv(p),
         SameSocket(p, q), SameTurn(p, q), SameReplies(p, q), Painted(p, q)
  PROVE  TabInv(q)
<1>1. /\ p.log \in Seq(Bubbles) /\ Len(p.log) \in Nat /\ q.log \in Seq(Bubbles) /\ Len(q.log) \in Nat
      /\ p.turn \in Nat /\ p.pending \in SUBSET Nat
  BY LenProperties DEF ChatTab
<1>2. \A i \in 1..Len(q.log) : q.log[i] \in Bubbles
  BY <1>1, ElementOfSeq
<1>3. \A i \in 1..Len(p.log) : p.log[i] \in Bubbles
  BY <1>1, ElementOfSeq
<1>4. \A k : GoneBy(q, k) <=> GoneBy(p, k)
  BY DEF GoneBy, SameTurn
<1>5. \A k : Live(q, k) <=> Live(p, k)
  BY DEF Live, SameTurn
<1>6. \A k : Received(q, k) <=> Received(p, k)
  BY DEF Painted
<1>7. \A k \in p.pending : GoneBy(p, k) \/ k = p.turn
  BY DEF TabInv, LogOf
<1>8. \A k \in p.pending : k <= p.turn
  BY <1>1, <1>7 DEF TabInv, TurnsOf, GoneBy
<1>a. TurnsOf(q)
  BY <1>4 DEF TabInv, TurnsOf, SameTurn
<1>b. LogOf(q)
  <2>1. q.bubble # 0 => /\ q.bubble \in 1..Len(q.log)
                        /\ \A j \in 1..Len(q.log) : j >= q.bubble => q.log[j].who = "bot"
    BY DEF Painted
  <2>2. ASSUME NEW i \in 1..Len(q.log), NEW k \in q.log[i].of PROVE k <= q.turn
    BY <1>1, <1>8, <2>2 DEF Painted, TabInv, LogOf, SameTurn
  <2>3. ASSUME NEW i \in 1..Len(q.log), NEW j \in 1..Len(q.log), i < j, q.log[i].who = "user", q.log[j].who = "bot",
               NEW n \in q.log[j].of, NEW m \in q.log[i].of, n < m
        PROVE  GoneBy(q, n)
    <3>1. i <= Len(p.log) /\ q.log[i] = p.log[i]
      BY <2>3 DEF Painted
    <3>2. n \in Nat /\ m \in Nat /\ m <= p.turn
      BY <1>1, <1>2, <2>2, <2>3 DEF Bubbles, SameTurn
    <3>3. CASE j <= Len(p.log) /\ n \in p.log[j].of
      <4>1. p.log[j].who = "bot"
        BY <2>3, <3>3 DEF Painted
      <4> QED
        BY <1>1, <1>4, <2>3, <3>1, <3>3, <4>1 DEF TabInv, LogOf, InPlace
    <3>4. CASE n \in p.pending
      BY <1>1, <1>4, <1>7, <2>3, <3>2, <3>4
    <3> QED
      BY <2>3, <3>3, <3>4 DEF Painted
  <2>4. InPlace(q)
    BY <2>3 DEF InPlace
  <2> QED
    BY <2>1, <2>2, <2>4 DEF LogOf, Painted
<1>c. TimersOf(q)
  BY <1>4, <1>5 DEF TabInv, TimersOf, SameReplies, SameTurn
<1>d. WaitingOf(q)
  BY <1>4, <1>5 DEF TabInv, WaitingOf, SameReplies, SameTurn, SameSocket, Painted
<1>e. AnswersOf(q)
  <2> SUFFICES ASSUME NEW a \in p.answered
               PROVE  /\ a[1] <= q.turn
                      /\ \/ GoneBy(q, a[1])
                         \/ /\ \A i \in 1..Len(q.waiting) : q.waiting[i] # a[1]
                            /\ q.sock # "off" => ~Received(q, a[1]) /\ Whole(q, a)
    BY DEF AnswersOf, SameReplies
  <2>1. /\ a[1] <= p.turn
        /\ \/ GoneBy(p, a[1])
           \/ /\ \A i \in 1..Len(p.waiting) : p.waiting[i] # a[1]
              /\ p.sock # "off" => ~Received(p, a[1]) /\ Whole(p, a)
    BY DEF TabInv, AnswersOf
  <2>2. \A i \in 1..Len(p.log) : i \in 1..Len(q.log) /\ (Shows(p, i, a[1]) => Shows(q, i, a[1]))
    BY <1>1 DEF Painted, Shows
  <2>3. \A i \in 1..Len(p.timers) : Delays(p, i, a[1]) => Delays(q, i, a[1])
    BY DEF SameReplies, Delays
  <2>4. Whole(p, a) => Whole(q, a)
    BY <2>2, <2>3 DEF Whole, SameReplies
  <2> QED
    BY <1>4, <1>6, <2>1, <2>4 DEF SameSocket, SameTurn
<1> QED
  BY <1>a, <1>b, <1>c, <1>d, <1>e DEF TabInv

\* A page that has the same of what concerns its turns has the same link.
LEMMA LinkSame ==
  ASSUME NEW p, NEW q, NEW h, LinkInv(p, h),
         SameSocket(p, q), SameTurn(p, q), q.answered = p.answered,
         \A k : Received(q, k) <=> Received(p, k),
         \A k : Timed(q, k) => Timed(p, k)
  PROVE  LinkInv(q, h)
<1>1. \A k : GoneBy(q, k) <=> GoneBy(p, k)
  BY DEF GoneBy, SameTurn
<1>2. \A k : Live(q, k) <=> Live(p, k)
  BY DEF Live, SameTurn
<1>3. SockInv(q, h)
  BY DEF LinkInv, SockInv, SameSocket
<1>4. CarryInv(q, h)
  BY <1>1, <1>2 DEF LinkInv, CarryInv
<1>5. \A n : Underway(p, h, n) => Underway(q, h, n)
  BY DEF Underway, Queued, Worked, HalfTold, AllTold, TurnedDown
<1>6. \A n : Waiting(p, n) => Waiting(q, n)
  BY DEF Waiting, SameSocket
<1>7. Quiet(p, h) => Quiet(q, h)
  BY DEF Quiet, SameSocket
<1>8. LifeInv(q, h)
  BY <1>5, <1>6, <1>7 DEF LinkInv, LifeInv, Lives, SameTurn, SameSocket
<1> QED
  BY <1>3, <1>4, <1>8 DEF LinkInv

SameServer(h, g) == g.net = h.net /\ g.handler = h.handler /\ g.in = h.in /\ g.task = h.task

\* The first frame of a connection is read.
FrameRead(h, g) ==
  /\ SameServer(h, g) /\ h.out # <<>> /\ Len(h.out) \in Nat \ {0} /\ g.out = Tail(h.out)
  /\ Len(g.out) = Len(h.out) - 1 /\ \A i \in 1..Len(g.out) : g.out[i] = h.out[i + 1]
  /\ \A i \in 1..Len(h.out) : h.out[i] \in OutFrames
  /\ Len(h.out) = 1 => g.out = <<>>

LEMMA FrameIsRead ==
  ASSUME NEW h \in ChatConn, h.out # <<>>
  PROVE  LET g == [h EXCEPT !.out = Tail(@)] IN g \in ChatConn /\ FrameRead(h, g)
<1> DEFINE g == [h EXCEPT !.out = Tail(@)]
<1>1. h.out \in Seq(OutFrames) /\ Len(h.out) \in Nat /\ \A i \in 1..Len(h.out) : h.out[i] \in OutFrames
  BY LenProperties, ElementOfSeq DEF ChatConn
<1>2. /\ Tail(h.out) \in Seq(OutFrames) /\ Len(Tail(h.out)) = Len(h.out) - 1
      /\ \A i \in 1..Len(Tail(h.out)) : Tail(h.out)[i] = h.out[i + 1]
  BY <1>1, HeadTailProperties
<1>3. Len(h.out) # 0 /\ (Len(Tail(h.out)) = 0 => Tail(h.out) = <<>>)
  BY <1>1, <1>2, EmptySeq
<1>4. g \in ChatConn /\ g.out = Tail(h.out) /\ SameServer(h, g)
  BY <1>2 DEF ChatConn, SameServer
<1> HIDE DEF g
<1>5. FrameRead(h, g)
  BY <1>1, <1>2, <1>3, <1>4 DEF FrameRead
<1> QED
  BY <1>4, <1>5 DEF g

LEMMA ReadCarries ==
  ASSUME NEW h, NEW g, FrameRead(h, g)
  PROVE  /\ \A k : Carries(g, k) => Carries(h, k)
         /\ Carries(h, h.out[1].turn)
<1>1. \A i \in 1..Len(g.out) : i + 1 \in 1..Len(h.out) /\ g.out[i] = h.out[i + 1]
  BY DEF FrameRead
<1>2. \A k : Told(g, k) => Told(h, k)
  BY <1>1 DEF Told
<1>3. \A k : Posted(g, k) => Posted(h, k)
  BY DEF Posted, FrameRead, SameServer
<1>4. \A k : AtWork(g, k) => AtWork(h, k)
  BY DEF AtWork, FrameRead, SameServer
<1>5. 1 \in 1..Len(h.out)
  BY DEF FrameRead
<1> QED
  BY <1>2, <1>3, <1>4, <1>5 DEF Carries, Told

LEMMA FirstOf ==
  ASSUME NEW n \in Nat \ {0}
  PROVE  (n # 1 => 1 \in 1..n - 1) /\ (n \notin {1, 2} => 1 \in 1..n - 2 /\ n > 2) /\ (n = 2 => n - 1 = 1)
  OBVIOUS

\* A frame of another turn says nothing of turn m.
LEMMA OtherFrame ==
  ASSUME NEW p, NEW q, NEW h, NEW g, NEW m, FrameRead(h, g), h.out[1].turn # m,
         Underway(p, h, m), Received(q, m) => Received(p, m)
  PROVE  ~Received(p, m) /\ Underway(q, g, m)
<1> DEFINE n == Len(h.out)
<1>1. n \in Nat \ {0} /\ Len(g.out) = n - 1 /\ \A i \in 1..n - 1 : g.out[i] = h.out[i + 1]
  BY DEF FrameRead
<1>2. g.in = h.in /\ g.task = h.task
  BY DEF FrameRead, SameServer
<1>3. Told(g, m) => Told(h, m)
  BY <1>1 DEF Told
<1>4. AtWork(g, m) <=> AtWork(h, m)
  BY <1>2 DEF AtWork
<1>5. h.out # <<>>
  BY DEF FrameRead
<1>6. CASE Queued(p, h, m)
  <2>1. Queued(q, g, m) /\ ~Received(p, m)
    BY <1>2, <1>3, <1>4, <1>6 DEF Queued
  <2> QED
    BY <2>1 DEF Underway
<1>7. CASE Worked(p, h, m)
  <2>1. Worked(q, g, m) /\ ~Received(p, m)
    BY <1>2, <1>3, <1>4, <1>7 DEF Worked
  <2> QED
    BY <2>1 DEF Underway
<1>8. CASE HalfTold(p, h, m)
  <2>1. ~Received(p, m) /\ IsFrame(h.out[n], "delta", m) /\ OnlyLast(h.out, 1, m)
    BY <1>5, <1>8 DEF HalfTold
  <2>2. n > 1
    BY <1>1, <2>1 DEF IsFrame
  <2>3. g.out[n - 1] = h.out[n] /\ Len(g.out) # 0
    <3>1. n - 1 \in 1..n - 1 /\ (n - 1) + 1 = n /\ n - 1 # 0
      BY <1>1, <2>2
    <3> QED
      BY <1>1, <3>1
  <2>4. g.out # <<>>
    BY <2>3, <1>1, <2>2
  <2>5. OnlyLast(g.out, 1, m)
    BY <1>1, <2>1 DEF OnlyLast
  <2>6. HalfTold(q, g, m)
    BY <1>1, <1>2, <1>4, <1>8, <2>1, <2>3, <2>4, <2>5 DEF HalfTold
  <2> QED
    BY <2>1, <2>6 DEF Underway
<1>9. CASE AllTold(p, h, m)
  <2>1. IsFrame(h.out[n], "done", m)
    BY <1>9 DEF AllTold
  <2>2. n # 1
    BY <1>1, <2>1 DEF IsFrame
  <2>3. ~Received(p, m) /\ IsFrame(h.out[n - 1], "delta", m) /\ OnlyLast(h.out, 2, m)
    BY <1>9, <2>2 DEF AllTold
  <2>4. n > 2
    <3>1. n # 2
      <4>1. n = 2 => n - 1 = 1
        BY <1>1, FirstOf
      <4> QED
        BY <2>3, <4>1 DEF IsFrame
    <3> QED
      BY <1>1, <2>2, <3>1, FirstOf
  <2>5. g.out[n - 1] = h.out[n] /\ g.out[n - 2] = h.out[n - 1] /\ Len(g.out) > 1
    <3>1. n - 1 \in 1..n - 1 /\ (n - 1) + 1 = n /\ n - 2 \in 1..n - 1 /\ (n - 2) + 1 = n - 1 /\ n - 1 > 1
      BY <1>1, <2>4
    <3> QED
      BY <1>1, <3>1
  <2>6. g.out # <<>>
    BY <2>5
  <2>7. OnlyLast(g.out, 2, m)
    <3> SUFFICES ASSUME NEW i \in 1..Len(g.out) - 2 PROVE g.out[i].turn # m
      BY DEF OnlyLast
    <3>1. i \in 1..n - 1 /\ i + 1 \in 1..n - 2
      BY <1>1
    <3> QED
      BY <1>1, <2>3, <3>1 DEF OnlyLast
  <2>8. n - 2 = Len(g.out) - 1
    BY <1>1
  <2>9. AllTold(q, g, m)
    BY <1>1, <1>2, <1>9, <2>1, <2>3, <2>5, <2>6, <2>7, <2>8 DEF AllTold
  <2> QED
    BY <2>3, <2>9 DEF Underway
<1>10. CASE TurnedDown(p, h, m)
  <2>1. PICK i \in 1..n : IsFrame(h.out[i], "error", m) /\ \A j \in 1..n : h.out[j].turn = m => i = j
    BY <1>10 DEF TurnedDown
  <2>2. i # 1
    BY <2>1 DEF IsFrame
  <2>3. i - 1 \in 1..Len(g.out) /\ g.out[i - 1] = h.out[i]
    BY <1>1, <2>1, <2>2
  <2>4. \A j \in 1..Len(g.out) : g.out[j].turn = m => i - 1 = j
    BY <1>1, <2>1
  <2>5. ~Received(p, m) /\ TurnedDown(q, g, m)
    BY <1>2, <1>4, <1>10, <2>1, <2>3, <2>4 DEF TurnedDown
  <2> QED
    BY <2>5 DEF Underway
<1> QED
  BY <1>6, <1>7, <1>8, <1>9, <1>10 DEF Underway

\* A frame of the turn itself is its delta, its done or the error that turns it down.
LEMMA OwnDelta ==
  ASSUME NEW p, NEW q, NEW h, NEW g, NEW m, FrameRead(h, g), IsFrame(h.out[1], "delta", m),
         Underway(p, h, m), Received(q, m)
  PROVE  Underway(q, g, m)
<1> DEFINE n == Len(h.out)
<1>1. n \in Nat \ {0} /\ Len(g.out) = n - 1 /\ \A i \in 1..n - 1 : g.out[i] = h.out[i + 1]
  BY DEF FrameRead
<1>2. g.in = h.in /\ g.task = h.task
  BY DEF FrameRead, SameServer
<1>3. Told(h, m) /\ h.out # <<>>
  BY <1>1 DEF Told, IsFrame, FrameRead
<1>4. CASE HalfTold(p, h, m)
  <2>1. OnlyLast(h.out, 1, m)
    BY <1>3, <1>4 DEF HalfTold
  <2>2. n = 1
    <3>1. n # 1 => 1 \in 1..n - 1
      BY <1>1, FirstOf
    <3> QED
      BY <2>1, <3>1 DEF OnlyLast, IsFrame
  <2>3. g.out = <<>>
    BY <2>2 DEF FrameRead
  <2>4. HalfTold(q, g, m)
    BY <1>2, <1>4, <2>3 DEF HalfTold, AtWork
  <2> QED
    BY <2>4 DEF Underway
<1>5. CASE AllTold(p, h, m)
  <2>1. IsFrame(h.out[n], "done", m)
    BY <1>5 DEF AllTold
  <2>2. n # 1
    BY <2>1 DEF IsFrame
  <2>3. OnlyLast(h.out, 2, m)
    BY <1>5, <2>2 DEF AllTold
  <2>4. n = 2
    <3>1. n # 2 => 1 \in 1..n - 2
      BY <1>1, FirstOf, <2>2
    <3> QED
      BY <2>3, <3>1 DEF OnlyLast, IsFrame
  <2>5. Len(g.out) = 1 /\ g.out[1] = h.out[2]
    BY <1>1, <2>4
  <2>6. g.out # <<>>
    BY <2>5
  <2>7. AllTold(q, g, m)
    BY <1>2, <1>5, <2>1, <2>4, <2>5, <2>6 DEF AllTold
  <2> QED
    BY <2>7 DEF Underway
<1>6. ~TurnedDown(p, h, m)
  BY <1>1 DEF TurnedDown, IsFrame
<1> QED
  BY <1>3, <1>4, <1>5, <1>6 DEF Underway, Queued, Worked

LEMMA OwnEnd ==
  ASSUME NEW p, NEW h, NEW g, NEW m, FrameRead(h, g), h.out[1].turn = m, h.out[1].t # "delta",
         Underway(p, h, m)
  PROVE  /\ ~Carries(g, m)
         /\ h.out[1].t = "done" => Received(p, m) /\ Drained(g)
<1> DEFINE n == Len(h.out)
<1>1. n \in Nat \ {0} /\ Len(g.out) = n - 1 /\ \A i \in 1..n - 1 : g.out[i] = h.out[i + 1]
  BY DEF FrameRead
<1>2. g.in = h.in /\ g.task = h.task
  BY DEF FrameRead, SameServer
<1>3. Told(h, m) /\ h.out # <<>>
  BY <1>1 DEF Told, FrameRead
<1>4. ~HalfTold(p, h, m)
  <2> SUFFICES ASSUME HalfTold(p, h, m) PROVE FALSE
    OBVIOUS
  <2>1. IsFrame(h.out[n], "delta", m) /\ OnlyLast(h.out, 1, m)
    BY <1>3 DEF HalfTold
  <2>2. n = 1
    <3>1. n # 1 => 1 \in 1..n - 1
      BY <1>1, FirstOf
    <3> QED
      BY <2>1, <3>1 DEF OnlyLast
  <2> QED
    BY <2>1, <2>2 DEF IsFrame
<1>5. CASE AllTold(p, h, m)
  <2>1. IsFrame(h.out[n], "done", m)
    BY <1>5 DEF AllTold
  <2>2. n = 1
    <3> SUFFICES ASSUME n # 1 PROVE FALSE
      OBVIOUS
    <3>1. OnlyLast(h.out, 2, m) /\ IsFrame(h.out[n - 1], "delta", m)
      BY <1>5 DEF AllTold
    <3>2. n = 2
      <4>1. n # 2 => 1 \in 1..n - 2
        BY <1>1, FirstOf
      <4> QED
        BY <3>1, <4>1 DEF OnlyLast
    <3> QED
      BY <3>1, <3>2 DEF IsFrame
  <2>3. Received(p, m)
    BY <1>5, <2>2 DEF AllTold
  <2>4. g.out = <<>> /\ Len(g.out) = 0
    BY <1>1, <2>2 DEF FrameRead
  <2>5. Drained(g)
    BY <1>2, <1>5, <2>4 DEF AllTold, Drained
  <2>6. ~Carries(g, m)
    BY <1>2, <2>4, <2>5 DEF Carries, Posted, AtWork, Told, Drained
  <2> QED
    BY <2>3, <2>5, <2>6
<1>6. CASE TurnedDown(p, h, m)
  <2>1. PICK i \in 1..n : IsFrame(h.out[i], "error", m) /\ \A j \in 1..n : h.out[j].turn = m => i = j
    BY <1>6 DEF TurnedDown
  <2>2. i = 1
    BY <1>1, <2>1
  <2>3. ~Told(g, m)
    BY <1>1, <2>1, <2>2 DEF Told
  <2>4. ~Posted(g, m) /\ ~AtWork(g, m)
    BY <1>2, <1>6 DEF TurnedDown, Posted, AtWork
  <2> QED
    BY <2>1, <2>2, <2>3, <2>4 DEF Carries, IsFrame
<1> QED
  BY <1>3, <1>4, <1>5, <1>6 DEF Underway, Queued, Worked

\* In q the turn of p is over, and nothing has come to it.
Ends(p, q) ==
  /\ q.turn = p.turn /\ q.streaming = FALSE
  /\ q.gen = p.gen /\ q.sock = p.sock /\ q.opened = p.opened
  /\ p.stopped \subseteq q.stopped /\ p.cut \subseteq q.cut
  /\ q.waiting = p.waiting \/ (p.waiting # <<>> /\ q.waiting = Tail(p.waiting))
  /\ q.bubble \in {0, p.bubble} /\ q.pending \in {{}, p.pending}
  /\ \A i \in 1..Len(q.timers) : \E j \in 1..Len(p.timers) : q.timers[i] = p.timers[j]
  /\ p.sock = "off" => q.timers = <<>> /\ q.pending = {}

LEMMA WaitsLess ==
  ASSUME NEW p \in ChatTab, NEW w, WaitingOf(p), w = p.waiting \/ (p.waiting # <<>> /\ w = Tail(p.waiting))
  PROVE  /\ w \in Seq(Nat) /\ Len(w) \in Nat
         /\ \A i \in 1..Len(w) : \E j \in 1..Len(p.waiting) : w[i] = p.waiting[j]
         /\ \A i, j \in 1..Len(w) : i < j => w[i] < w[j]
         /\ w # <<>> => p.waiting # <<>>
<1>1. p.waiting \in Seq(Nat) /\ Len(p.waiting) \in Nat
  BY LenProperties DEF ChatTab
<1>2. \A i, j \in 1..Len(p.waiting) : i < j => p.waiting[i] < p.waiting[j]
  BY DEF WaitingOf
<1>3. CASE w = p.waiting
  BY <1>1, <1>2, <1>3
<1>4. CASE p.waiting # <<>> /\ w = Tail(p.waiting)
  <2>1. w \in Seq(Nat) /\ Len(w) = Len(p.waiting) - 1 /\ \A i \in 1..Len(w) : w[i] = p.waiting[i + 1]
    BY <1>1, <1>4, HeadTailProperties
  <2>2. Len(p.waiting) # 0
    BY <1>1, <1>4, EmptySeq
  <2>3. \A i \in 1..Len(w) : i + 1 \in 1..Len(p.waiting)
    BY <1>1, <2>1
  <2>4. ASSUME NEW i \in 1..Len(w), NEW j \in 1..Len(w), i < j PROVE w[i] < w[j]
    <3>1. i + 1 < j + 1
      BY <2>4
    <3> QED
      BY <1>2, <2>1, <2>3, <3>1
  <2>5. Len(w) \in Nat
    BY <1>1, <2>1, <2>2
  <2> QED
    BY <1>4, <2>1, <2>3, <2>4, <2>5
<1> QED
  BY <1>3, <1>4

LEMMA EndsKeep ==
  ASSUME NEW p \in ChatTab, NEW q \in ChatTab, NEW h, NEW g, TabInv(p), LinkInv(p, h), Ends(p, q),
         q.log = p.log \/ (q.log = <<>> /\ q.bubble = 0 /\ q.answered = {}),
         q.answered = p.answered \/ q.answered = {},
         TurnsOf(q), SockInv(q, g), g.net = "up" => h.net = "up",
         \A k : Carries(g, k) => Carries(h, k),
         \* what was live is given up, or there is nothing left of it
         GoneBy(q, p.turn) \/ ~p.streaming \/
           (/\ \A i \in 1..Len(q.waiting) : q.waiting[i] # p.turn
            /\ \A i \in 1..Len(q.timers) : q.timers[i].turn # p.turn
            /\ g.net = "up" => ~Carries(g, p.turn)),
         \* a delayed text stays, or is of a turn given up
         \A j \in 1..Len(p.timers) : p.timers[j].t = "text" =>
           GoneBy(q, p.timers[j].turn) \/ \E i \in 1..Len(q.timers) : q.timers[i] = p.timers[j]
  PROVE  TabInv(q) /\ LinkInv(q, g)
<1>1. \A k : GoneBy(p, k) => GoneBy(q, k)
  BY DEF GoneBy, Ends
<1>2. \A k : ~Live(q, k)
  BY DEF Live, Ends
<1>4. \A k : Live(p, k) => k = p.turn /\ p.streaming
  BY DEF Live
<1>5. /\ p.turn \in Nat /\ p.waiting \in Seq(Nat) /\ p.log \in Seq(Bubbles) /\ Len(p.log) \in Nat
      /\ p.bubble \in Nat
  BY LenProperties DEF ChatTab
<1>b. LogOf(q)
  <2>1. ASSUME NEW k \in q.pending PROVE GoneBy(q, k) \/ k = q.turn
    BY <1>1, <2>1 DEF Ends, TabInv, LogOf
  <2>2. CASE q.log = <<>> /\ q.bubble = 0
    <3>1. Len(q.log) = 0
      BY <2>2
    <3> QED
      BY <2>1, <2>2, <3>1 DEF LogOf, InPlace
  <2>3. CASE q.log = p.log
    <3>1. InPlace(q)
      BY <1>1, <2>3 DEF TabInv, LogOf, InPlace
    <3> QED
      BY <2>1, <2>3, <3>1 DEF TabInv, LogOf, Ends
  <2> QED
    BY <2>2, <2>3
<1>c. TimersOf(q)
  <2> SUFFICES ASSUME NEW i \in 1..Len(q.timers) PROVE GoneBy(q, q.timers[i].turn)
    BY <1>2 DEF TimersOf
  <2>1. PICK j \in 1..Len(p.timers) : q.timers[i] = p.timers[j]
    BY DEF Ends
  <2>2. GoneBy(p, p.timers[j].turn) \/ Live(p, p.timers[j].turn)
    BY DEF TabInv, TimersOf
  <2> QED
    BY <1>1, <1>4, <2>1, <2>2
<1>w. /\ \A i \in 1..Len(q.waiting) : \E j \in 1..Len(p.waiting) : q.waiting[i] = p.waiting[j]
      /\ \A i, j \in 1..Len(q.waiting) : i < j => q.waiting[i] < q.waiting[j]
      /\ q.waiting # <<>> => p.waiting # <<>>
  <2> DEFINE w == q.waiting
  <2>1. WaitingOf(p) /\ (w = p.waiting \/ (p.waiting # <<>> /\ w = Tail(p.waiting)))
    BY DEF TabInv, Ends
  <2> HIDE DEF w
  <2>2. /\ \A i \in 1..Len(w) : \E j \in 1..Len(p.waiting) : w[i] = p.waiting[j]
        /\ \A i, j \in 1..Len(w) : i < j => w[i] < w[j]
        /\ w # <<>> => p.waiting # <<>>
    BY <2>1, WaitsLess
  <2> QED
    BY <2>2 DEF w
<1>d. WaitingOf(q)
  <2> DEFINE w == q.waiting
  <2>1. WaitingOf(p) /\ (w = p.waiting \/ (p.waiting # <<>> /\ w = Tail(p.waiting)))
    BY DEF TabInv, Ends
  <2>2. /\ \A i \in 1..Len(w) : \E j \in 1..Len(p.waiting) : w[i] = p.waiting[j]
        /\ \A i, j \in 1..Len(w) : i < j => w[i] < w[j]
        /\ w # <<>> => p.waiting # <<>>
    BY <1>w
  <2>3. ASSUME NEW i \in 1..Len(w) PROVE GoneBy(q, w[i])
    <3>1. PICK j \in 1..Len(p.waiting) : w[i] = p.waiting[j]
      BY <2>2
    <3>2. GoneBy(p, p.waiting[j]) \/ Live(p, p.waiting[j])
      BY <2>1 DEF WaitingOf
    <3> QED
      BY <1>1, <1>4, <3>1, <3>2
  <2>4. \A i \in 1..Len(w) : w[i] \in 1..q.turn
    BY <2>1, <2>2 DEF WaitingOf, Ends
  <2>5. w # <<>> => ~q.opened
    BY <2>1, <2>2 DEF WaitingOf, Ends
  <2>6. q.sock = "off" => w = <<>> /\ q.timers = <<>> /\ q.pending = {}
    BY <2>1, <2>2 DEF WaitingOf, Ends
  <2>7. q.sock = "backoff" => q.gen <= MaxDrops
    BY <2>1 DEF WaitingOf, Ends
  <2> QED
    BY <2>2, <2>3, <2>4, <2>5, <2>6, <2>7 DEF WaitingOf
<1>e. AnswersOf(q)
  <2> SUFFICES ASSUME NEW a \in q.answered, ~GoneBy(q, a[1])
               PROVE  /\ \A i \in 1..Len(q.waiting) : q.waiting[i] # a[1]
                      /\ q.sock # "off" => ~Received(q, a[1]) /\ Whole(q, a)
    BY DEF AnswersOf, TabInv, Ends
  <2>1. a \in p.answered /\ q.log = p.log
    OBVIOUS
  <2>2. /\ \A i \in 1..Len(p.waiting) : p.waiting[i] # a[1]
        /\ p.sock # "off" => ~Received(p, a[1]) /\ Whole(p, a)
    BY <1>1, <2>1 DEF TabInv, AnswersOf
  <2>3. \A i \in 1..Len(q.waiting) : \E j \in 1..Len(p.waiting) : q.waiting[i] = p.waiting[j]
    BY <1>w
  <2>4. Received(q, a[1]) => Received(p, a[1])
    BY <2>1 DEF Received, Ends
  <2>5. ASSUME NEW j \in 1..Len(p.timers), Delays(p, j, a[1])
        PROVE  \E i \in 1..Len(q.timers) : Delays(q, i, a[1])
    <3>1. PICK i \in 1..Len(q.timers) : q.timers[i] = p.timers[j]
      BY <2>5 DEF Delays
    <3> QED
      BY <2>5, <3>1 DEF Delays
  <2>6. \A i \in 1..Len(p.log) : Shows(p, i, a[1]) => Shows(q, i, a[1])
    BY <2>1 DEF Shows
  <2>7. Whole(p, a) => Whole(q, a)
    BY <2>1, <2>5, <2>6 DEF Whole
  <2> QED
    BY <2>2, <2>3, <2>4, <2>7 DEF Ends
<1>f. CarryInv(q, g)
  <2>1. ASSUME g.net = "up", NEW k \in Nat, Carries(g, k) PROVE GoneBy(q, k)
    <3>1. GoneBy(p, k) \/ Live(p, k)
      BY <2>1 DEF LinkInv, CarryInv
    <3> QED
      BY <1>1, <1>4, <2>1, <3>1
  <2>2. ASSUME g.net = "up", NEW a \in q.answered PROVE GoneBy(q, a[1]) \/ ~Carries(g, a[1])
    BY <1>1, <2>2 DEF LinkInv, CarryInv
  <2> QED
    BY <2>1, <2>2 DEF CarryInv
<1>g. LifeInv(q, g)
  BY DEF LifeInv, Ends
<1> QED
  BY <1>b, <1>c, <1>d, <1>e, <1>f, <1>g DEF TabInv, LinkInv

LEMMA AnswerAdded ==
  ASSUME NEW p \in ChatTab, NEW q \in ChatTab, NEW h, TabInv(p), LinkInv(p, h), NEW a,
         SameSocket(p, q), SameTurn(p, q), SameText(p, q), q.timers = p.timers,
         q.answered = p.answered \cup {a}, a[1] <= p.turn,
         GoneBy(p, a[1]) \/
           (/\ p.waiting = <<>> /\ p.pending = {} /\ p.bubble = 0 /\ Whole(p, a)
            /\ ~Carries(h, a[1]))
  PROVE  TabInv(q) /\ LinkInv(q, h)
<1>1. \A k : GoneBy(q, k) <=> GoneBy(p, k)
  BY DEF GoneBy, SameTurn
<1>2. \A k : Live(q, k) <=> Live(p, k)
  BY DEF Live, SameTurn
<1>3. \A k : Received(q, k) <=> Received(p, k)
  BY DEF Received, SameText
<1>4. \A k : Timed(q, k) <=> Timed(p, k)
  BY DEF Timed
<1>a. TurnsOf(q)
  BY <1>1 DEF TabInv, TurnsOf, SameTurn
<1>b. LogOf(q)
  <2>1. InPlace(q)
    BY <1>1 DEF TabInv, LogOf, InPlace, SameText
  <2> QED
    BY <1>1, <2>1 DEF TabInv, LogOf, SameText, SameTurn
<1>c. TimersOf(q)
  BY <1>1, <1>2 DEF TabInv, TimersOf, SameTurn
<1>d. WaitingOf(q)
  BY <1>1, <1>2 DEF TabInv, WaitingOf, SameTurn, SameSocket, SameText
<1>e. AnswersOf(q)
  <2> SUFFICES ASSUME NEW b \in q.answered
               PROVE  /\ b[1] <= q.turn
                      /\ \/ GoneBy(q, b[1])
                         \/ /\ \A i \in 1..Len(q.waiting) : q.waiting[i] # b[1]
                            /\ q.sock # "off" => ~Received(q, b[1]) /\ Whole(q, b)
    BY DEF AnswersOf
  <2>1. Whole(p, b) => Whole(q, b)
    BY DEF Whole, Shows, Delays, SameText
  <2>2. CASE b \in p.answered
    BY <1>1, <1>3, <2>1, <2>2 DEF TabInv, AnswersOf, SameTurn, SameSocket
  <2>3. CASE b = a
    <3>1. CASE GoneBy(p, a[1])
      BY <1>1, <2>3, <3>1 DEF SameTurn
    <3>2. CASE p.waiting = <<>> /\ p.pending = {} /\ p.bubble = 0 /\ Whole(p, a)
      <4>1. Len(q.waiting) = 0 /\ ~Received(q, a[1])
        BY <1>3, <3>2 DEF SameSocket, Received
      <4> QED
        BY <2>1, <2>3, <3>2, <4>1 DEF SameTurn
    <3> QED
      BY <3>1, <3>2
  <2> QED
    BY <2>2, <2>3
<1>f. CarryInv(q, h)
  BY <1>1, <1>2 DEF LinkInv, CarryInv
<1>g. SockInv(q, h)
  BY DEF LinkInv, SockInv, SameSocket
<1>h. LifeInv(q, h)
  <2>1. \A n : Underway(p, h, n) => Underway(q, h, n)
    BY <1>3 DEF Underway, Queued, Worked, HalfTold, AllTold, TurnedDown
  <2>2. \A n : Waiting(p, n) => Waiting(q, n)
    BY <1>3 DEF Waiting, SameSocket
  <2>3. Quiet(p, h) => Quiet(q, h)
    BY DEF Quiet, SameSocket
  <2> QED
    BY <1>4, <2>1, <2>2, <2>3 DEF LinkInv, LifeInv, Lives, SameTurn, SameSocket
<1> QED
  BY <1>a, <1>b, <1>c, <1>d, <1>e, <1>f, <1>g, <1>h DEF TabInv, LinkInv

\* A delta waits for the next frame of animation.
LEMMA DeltaKeeps ==
  ASSUME NEW p \in ChatTab, NEW q \in ChatTab, NEW h \in ChatConn, NEW g \in ChatConn,
         TabInv(p), LinkInv(p, h), p.sock = "open", FrameRead(h, g), NEW n, IsFrame(h.out[1], "delta", n),
         SameSocket(p, q), SameTurn(p, q), SameReplies(p, q),
         q.log = p.log, q.bubble = p.bubble, q.pending = p.pending \cup {n}
  PROVE  TabInv(q) /\ LinkInv(q, g)
<1>1. \A k : GoneBy(q, k) <=> GoneBy(p, k)
  BY DEF GoneBy, SameTurn
<1>2. \A k : Live(q, k) <=> Live(p, k)
  BY DEF Live, SameTurn
<1>3. \A k : Received(q, k) <=> Received(p, k) \/ k = n
  BY DEF Received
<1>4. \A k : Timed(q, k) <=> Timed(p, k)
  BY DEF Timed, SameReplies
<1>5. h.net = "up" /\ g.net = "up" /\ h.out # <<>>
  BY DEF LinkInv, SockInv, FrameRead, SameServer
<1>6. Carries(h, n) /\ \A k : Carries(g, k) => Carries(h, k)
  BY ReadCarries DEF IsFrame
<1>7. n \in Nat
  BY DEF FrameRead, OutFrames, IsFrame
<1>8. GoneBy(p, n) \/ Live(p, n)
  BY <1>5, <1>6, <1>7 DEF LinkInv, CarryInv
<1>a. TurnsOf(q)
  BY <1>1 DEF TabInv, TurnsOf, SameTurn
<1>b. LogOf(q)
  <2>1. InPlace(q)
    BY <1>1 DEF TabInv, LogOf, InPlace
  <2>2. ASSUME NEW k \in q.pending PROVE GoneBy(q, k) \/ k = q.turn
    BY <1>1, <1>8, <2>2 DEF TabInv, LogOf, SameTurn, Live
  <2> QED
    BY <2>1, <2>2 DEF TabInv, LogOf, SameTurn
<1>c. TimersOf(q)
  BY <1>1, <1>2 DEF TabInv, TimersOf, SameTurn, SameReplies
<1>d. WaitingOf(q)
  BY <1>1, <1>2 DEF TabInv, WaitingOf, SameTurn, SameSocket, SameReplies
<1>e. AnswersOf(q)
  <2> SUFFICES ASSUME NEW a \in p.answered
               PROVE  /\ a[1] <= q.turn
                      /\ \/ GoneBy(q, a[1])
                         \/ /\ \A i \in 1..Len(q.waiting) : q.waiting[i] # a[1]
                            /\ q.sock # "off" => ~Received(q, a[1]) /\ Whole(q, a)
    BY DEF AnswersOf, SameReplies
  <2>1. Whole(p, a) => Whole(q, a)
    BY DEF Whole, Shows, Delays, SameReplies
  <2>2. GoneBy(p, a[1]) \/ a[1] # n
    BY <1>5, <1>6 DEF LinkInv, CarryInv
  <2> QED
    BY <1>1, <1>3, <2>1, <2>2 DEF TabInv, AnswersOf, SameTurn, SameSocket
<1>f. CarryInv(q, g)
  BY <1>1, <1>2, <1>5, <1>6 DEF LinkInv, CarryInv, SameReplies
<1>g. SockInv(q, g)
  BY <1>5 DEF LinkInv, SockInv, SameSocket, Unused
<1>h. LifeInv(q, g)
  <2> SUFFICES ASSUME q.streaming
               PROVE  g.net = "up" /\ q.waiting = <<>> /\ ~Timed(q, q.turn) /\ Underway(q, g, q.turn)
    BY DEF LifeInv, Lives
  <2>1. ~Quiet(p, h)
    BY <1>5 DEF Quiet, Drained
  <2>2. p.waiting = <<>> /\ ~Timed(p, p.turn) /\ Underway(p, h, p.turn)
    BY <1>5, <2>1 DEF LinkInv, LifeInv, Lives, SameTurn
  <2>3. Underway(q, g, p.turn)
    <3>1. CASE n = p.turn
      <4>1. Received(q, p.turn)
        BY <1>3, <3>1
      <4> QED
        BY <2>2, <3>1, <4>1, OwnDelta
    <3>2. CASE n # p.turn
      <4>1. Received(q, p.turn) => Received(p, p.turn)
        BY <1>3, <3>2
      <4>2. h.out[1].turn # p.turn
        BY <3>2 DEF IsFrame
      <4> QED
        BY <2>2, <4>1, <4>2, OtherFrame
    <3> QED
      BY <3>1, <3>2
  <2> QED
    BY <1>4, <1>5, <2>2, <2>3 DEF SameSocket, SameTurn
<1> QED
  BY <1>a, <1>b, <1>c, <1>d, <1>e, <1>f, <1>g, <1>h DEF TabInv, LinkInv

\* Turns cut short by the end of another: the one that the page was at, if the frame
\* that ends it is of an earlier one, which was given up.
CutBy(p, q, n) == q.cut = IF p.streaming /\ n # p.turn THEN p.cut \cup {p.turn} ELSE p.cut

LEMMA CutShortKeeps ==
  ASSUME NEW p \in ChatTab, NEW q \in ChatTab, TurnsOf(p), NEW n \in Nat, GoneBy(p, n) \/ Live(p, n),
         q.turn = p.turn, q.stopped = p.stopped, CutBy(p, q, n), ~q.streaming
  PROVE  /\ TurnsOf(q) /\ p.cut \subseteq q.cut
         /\ p.streaming => GoneBy(q, p.turn) \/ n = p.turn
<1>1. p.turn \in Nat /\ p.stopped \in SUBSET Nat /\ p.cut \in SUBSET Nat
  BY DEF ChatTab
<1>2. CASE p.streaming /\ n # p.turn
  <2>1. q.cut = p.cut \cup {p.turn}
    BY <1>2 DEF CutBy
  <2>2. GoneBy(p, n) /\ n < p.turn
    <3>1. GoneBy(p, n)
      BY <1>2 DEF Live
    <3>2. n <= p.turn
      BY <3>1 DEF TurnsOf, GoneBy
    <3> QED
      BY <1>1, <1>2, <3>1, <3>2
  <2>3. \E m \in p.stopped : m < p.turn
    <3>1. CASE n \in p.stopped
      BY <2>2, <3>1
    <3>2. CASE n \in p.cut
      <4>1. PICK m \in p.stopped : m < n
        BY <3>2 DEF TurnsOf
      <4>2. m < p.turn
        BY <1>1, <2>2, <4>1
      <4> QED
        BY <4>2
    <3> QED
      BY <2>2, <3>1, <3>2 DEF GoneBy
  <2>4. \A k \in q.stopped \cup q.cut : k <= q.turn
    BY <1>1, <2>1 DEF TurnsOf
  <2>5. \A k \in q.cut : \E m \in q.stopped : m < k
    BY <2>1, <2>3 DEF TurnsOf
  <2> QED
    BY <2>1, <2>4, <2>5 DEF TurnsOf, GoneBy
<1>3. CASE ~(p.streaming /\ n # p.turn)
  <2>1. q.cut = p.cut
    BY <1>3 DEF CutBy
  <2> QED
    BY <1>3, <2>1 DEF TurnsOf
<1> QED
  BY <1>2, <1>3

\* The end of turn n closes the bubble, and what was delayed stays or is dropped.
LEMMA EndKeeps ==
  ASSUME NEW p \in ChatTab, NEW q \in ChatTab, NEW h \in ChatConn, NEW g \in ChatConn,
         TabInv(p), LinkInv(p, h), p.sock = "open", FrameRead(h, g), h.out[1].t # "delta",
         SameSocket(p, q), q.turn = p.turn, q.stopped = p.stopped, CutBy(p, q, h.out[1].turn),
         q.streaming = FALSE, q.log = p.log, q.bubble = 0, q.pending = {}, q.answered = p.answered,
         q.timers = p.timers \/ (q.timers = <<>> /\ h.out[1].t = "error")
  PROVE  /\ TabInv(q) /\ LinkInv(q, g) /\ (GoneBy(p, h.out[1].turn) \/ Live(p, h.out[1].turn))
         /\ p.streaming /\ h.out[1].turn = p.turn /\ h.out[1].t = "done" => Received(p, p.turn)
         /\ h.out[1].turn = p.turn => ~p.streaming \/ ~Carries(g, p.turn)
<1> DEFINE n == h.out[1].turn
<1>1. h.net = "up" /\ g.net = "up" /\ h.out # <<>>
  BY DEF LinkInv, SockInv, FrameRead, SameServer
<1>2. n \in Nat /\ Carries(h, n) /\ \A k : Carries(g, k) => Carries(h, k)
  <2>1. h.out[1] \in OutFrames
    BY DEF FrameRead
  <2> QED
    BY <2>1, ReadCarries DEF OutFrames
<1>3. GoneBy(p, n) \/ Live(p, n)
  BY <1>1, <1>2 DEF LinkInv, CarryInv
<1>4. /\ TurnsOf(q) /\ p.cut \subseteq q.cut
      /\ p.streaming => GoneBy(q, p.turn) \/ n = p.turn
  BY <1>2, <1>3, CutShortKeeps DEF TabInv
<1>5. p.streaming => p.waiting = <<>> /\ ~Timed(p, p.turn) /\ Underway(p, h, p.turn)
  <2>1. ~Quiet(p, h)
    BY <1>1 DEF Quiet, Drained
  <2> QED
    BY <1>1, <2>1 DEF LinkInv, LifeInv, Lives
<1>6. p.streaming /\ n = p.turn => ~Carries(g, p.turn) /\ (h.out[1].t = "done" => Received(p, p.turn))
  BY <1>5, OwnEnd
<1>7. \A i \in 1..Len(q.timers) : \E j \in 1..Len(p.timers) : q.timers[i] = p.timers[j]
  <2>1. CASE q.timers = p.timers
    BY <2>1
  <2>2. CASE q.timers = <<>>
    <3>1. Len(q.timers) = 0
      BY <2>2
    <3> QED
      BY <3>1
  <2> QED
    BY <2>1, <2>2
<1>8. Ends(p, q)
  BY <1>4, <1>7 DEF Ends, SameSocket
<1>9. SockInv(q, g)
  BY <1>1 DEF LinkInv, SockInv, SameSocket, Unused
<1>10. GoneBy(q, p.turn) \/ ~p.streaming \/
           (/\ \A i \in 1..Len(q.waiting) : q.waiting[i] # p.turn
            /\ \A i \in 1..Len(q.timers) : q.timers[i].turn # p.turn
            /\ g.net = "up" => ~Carries(g, p.turn))
  <2> SUFFICES ASSUME p.streaming, n = p.turn
               PROVE  /\ \A i \in 1..Len(q.waiting) : q.waiting[i] # p.turn
                      /\ \A i \in 1..Len(q.timers) : q.timers[i].turn # p.turn
                      /\ g.net = "up" => ~Carries(g, p.turn)
    BY <1>4
  <2>1. Len(q.waiting) = 0
    BY <1>5 DEF SameSocket
  <2>2. \A i \in 1..Len(q.timers) : q.timers[i].turn # p.turn
    BY <1>5, <1>7 DEF Timed
  <2> QED
    BY <1>6, <2>1, <2>2
<1>11. \A j \in 1..Len(p.timers) : p.timers[j].t = "text" =>
           GoneBy(q, p.timers[j].turn) \/ \E i \in 1..Len(q.timers) : q.timers[i] = p.timers[j]
  <2> SUFFICES ASSUME NEW j \in 1..Len(p.timers)
               PROVE  GoneBy(q, p.timers[j].turn) \/ \E i \in 1..Len(q.timers) : q.timers[i] = p.timers[j]
    OBVIOUS
  <2>1. CASE q.timers = p.timers
    BY <2>1
  <2>2. CASE q.timers = <<>>
    <3>1. GoneBy(p, p.timers[j].turn) \/ Live(p, p.timers[j].turn)
      BY DEF TabInv, TimersOf
    <3>2. Live(p, p.timers[j].turn) => GoneBy(q, p.timers[j].turn)
      BY <1>4, <1>5 DEF Live, Timed
    <3>3. GoneBy(p, p.timers[j].turn) => GoneBy(q, p.timers[j].turn)
      BY <1>4 DEF GoneBy
    <3> QED
      BY <3>1, <3>2, <3>3
  <2> QED
    BY <2>1, <2>2
<1>12. TabInv(q) /\ LinkInv(q, g)
  BY <1>1, <1>2, <1>4, <1>8, <1>9, <1>10, <1>11, EndsKeep
<1> QED
  BY <1>3, <1>6, <1>12

\* Turn n is answered with k texts.
Adds(p, q, n, k) == q.answered = p.answered \cup {<<n, k>>}

\* The bubble is the first text of turn n, and the second comes after its delay.
Splits(p, q, n) ==
  /\ Len(q.log) = Len(p.log)
  /\ \A i \in 1..Len(p.log) : q.log[i] = IF i = p.bubble THEN [who |-> "bot", of |-> {n}] ELSE p.log[i]
  /\ Len(q.timers) = Len(p.timers) + 2 /\ \A i \in 1..Len(p.timers) : q.timers[i] = p.timers[i]
  /\ q.timers[Len(p.timers) + 1] = [t |-> "text", turn |-> n]
  /\ q.timers[Len(p.timers) + 2] = [t |-> "finish", turn |-> n]

\* The bubble is closed by the end of turn n, and the turn of the page is over.
Closes(p, r, n) ==
  /\ SameSocket(p, r) /\ r.turn = p.turn /\ r.stopped = p.stopped /\ CutBy(p, r, n) /\ r.streaming = FALSE
  /\ r.log = p.log /\ r.bubble = 0 /\ r.pending = {} /\ r.answered = p.answered /\ r.timers = p.timers

\* A reply of one text is whole when its turn is over.
LEMMA DoneKeeps ==
  ASSUME NEW p \in ChatTab, NEW r \in ChatTab, NEW q \in ChatTab, NEW h \in ChatConn, NEW g \in ChatConn,
         TabInv(p), LinkInv(p, h), p.sock = "open", FrameRead(h, g), h.out[1].t = "done", p.pending = {},
         p.bubble = 0 \/ h.out[1].parts = 1,
         Closes(p, r, h.out[1].turn),
         SameSocket(r, q), SameTurn(r, q), SameText(r, q), q.timers = r.timers,
         Adds(r, q, h.out[1].turn, h.out[1].parts)
  PROVE  TabInv(q) /\ LinkInv(q, g)
<1> USE DEF Adds, Closes
<1> DEFINE n == h.out[1].turn
<1> DEFINE a == <<n, h.out[1].parts>>
<1>1. /\ TabInv(r) /\ LinkInv(r, g) /\ (GoneBy(p, n) \/ Live(p, n))
      /\ p.streaming /\ n = p.turn => Received(p, p.turn)
      /\ n = p.turn => ~p.streaming \/ ~Carries(g, p.turn)
  BY EndKeeps
<1>2. a[1] = n /\ a[2] = h.out[1].parts
  OBVIOUS
<1>3. p.turn \in Nat /\ p.cut \in SUBSET Nat /\ p.log \in Seq(Bubbles) /\ Len(p.log) \in Nat
  BY LenProperties DEF ChatTab
<1>4. n <= p.turn
  BY <1>1, <1>3 DEF TabInv, TurnsOf, GoneBy, Live
<1>5. GoneBy(p, n) => GoneBy(r, n)
  BY DEF GoneBy, CutBy
<1>6. CASE Live(p, n)
  <2>1. n = p.turn /\ p.streaming
    BY <1>6 DEF Live
  <2>2. p.bubble # 0 /\ n \in p.log[p.bubble].of
    BY <1>1, <2>1 DEF Received
  <2>3. p.bubble \in 1..Len(p.log)
    BY <2>2 DEF TabInv, LogOf
  <2>4. p.log[p.bubble].who = "bot"
    BY <1>3, <2>2, <2>3 DEF TabInv, LogOf
  <2>5. Shows(r, p.bubble, n)
    BY <2>2, <2>4 DEF Shows
  <2>6. Whole(r, a)
    BY <1>2, <2>2, <2>3, <2>5 DEF Whole
  <2>7. r.waiting = <<>>
    BY DEF TabInv, WaitingOf, LinkInv, SockInv, SameSocket
  <2>8. ~Carries(g, a[1])
    BY <1>1, <1>2, <2>1
  <2> HIDE DEF a, n
  <2> QED
    BY <1>1, <1>2, <1>4, <2>6, <2>7, <2>8, AnswerAdded DEF a, n
<1>7. CASE GoneBy(p, n)
  <2>1. GoneBy(r, a[1]) /\ a[1] <= r.turn
    BY <1>2, <1>4, <1>5, <1>7
  <2> QED
    BY <1>1, <2>1, AnswerAdded
<1> QED
  BY <1>1, <1>6, <1>7

\* A reply of two texts: the first takes the place of the bubble, the second is under
\* its timer, and so is the end of the turn.
LEMMA SplitKeeps ==
  ASSUME NEW p \in ChatTab, NEW q \in ChatTab, NEW h \in ChatConn, NEW g \in ChatConn,
         TabInv(p), LinkInv(p, h), p.sock = "open", FrameRead(h, g), p.pending = {},
         NEW n, IsFrame(h.out[1], "done", n), p.bubble # 0,
         SameSocket(p, q), SameTurn(p, q), q.bubble = 0, q.pending = {},
         Splits(p, q, n), Adds(p, q, n, 2)
  PROVE  TabInv(q) /\ LinkInv(q, g)
<1> USE DEF Splits, Adds
<1> DEFINE l == Len(p.timers)
<1> DEFINE b == p.bubble
<1>1. \A k : GoneBy(q, k) <=> GoneBy(p, k)
  BY DEF GoneBy, SameTurn
<1>2. \A k : Live(q, k) <=> Live(p, k)
  BY DEF Live, SameTurn
<1>3. \A k : ~Received(q, k)
  BY DEF Received
<1>4. h.net = "up" /\ g.net = "up" /\ h.out # <<>>
  BY DEF LinkInv, SockInv, FrameRead, SameServer
<1>5. Carries(h, n) /\ \A k : Carries(g, k) => Carries(h, k)
  BY ReadCarries DEF IsFrame
<1>6. n \in Nat /\ h.out[1].turn = n /\ h.out[1].t = "done"
  <2>1. h.out[1] \in OutFrames
    BY DEF FrameRead
  <2> QED
    BY <2>1 DEF OutFrames, IsFrame
<1>7. GoneBy(p, n) \/ Live(p, n)
  BY <1>4, <1>5, <1>6 DEF LinkInv, CarryInv
<1>8. p.streaming => ~Timed(p, p.turn) /\ Underway(p, h, p.turn)
  <2>1. ~Quiet(p, h)
    BY <1>4 DEF Quiet, Drained
  <2> QED
    BY <1>4, <2>1 DEF LinkInv, LifeInv, Lives
<1>9. Live(p, n) => ~Carries(g, n) /\ Drained(g)
  <2> SUFFICES ASSUME Live(p, n) PROVE ~Carries(g, n) /\ Drained(g)
    OBVIOUS
  <2>1. Underway(p, h, n)
    BY <1>8 DEF Live
  <2>2. h.out[1].t # "delta"
    BY <1>6
  <2>3. h.out[1].turn = n /\ h.out[1].t = "done"
    BY <1>6
  <2> DEFINE m == h.out[1].turn
  <2>4. Underway(p, h, m) /\ m = n
    BY <2>1, <2>3
  <2> HIDE DEF m
  <2>5. h.out[1].turn = m
    BY DEF m
  <2>6. ~Carries(g, m) /\ (h.out[1].t = "done" => Received(p, m) /\ Drained(g))
    BY <2>2, <2>4, <2>5, OwnEnd
  <2> QED
    BY <2>3, <2>4, <2>6
<1>10. /\ p.turn \in Nat /\ p.log \in Seq(Bubbles) /\ Len(p.log) \in Nat /\ l \in Nat
       /\ p.stopped \in SUBSET Nat /\ p.cut \in SUBSET Nat
  BY LenProperties DEF ChatTab
<1>11. b \in 1..Len(p.log) /\ p.log[b].who = "bot"
  BY <1>10 DEF TabInv, LogOf
<1>12. n <= p.turn
  BY <1>7, <1>10 DEF TabInv, TurnsOf, GoneBy, Live
<1>13. \A i \in 1..Len(p.log) : p.log[i] \in Bubbles
  BY <1>10, ElementOfSeq
<1>14. p.waiting = <<>> /\ q.waiting = <<>> /\ Len(q.waiting) = 0
  BY DEF TabInv, WaitingOf, LinkInv, SockInv, SameSocket
<1>15. q.log[b].who = "bot" /\ q.log[b].of = {n} /\ \A i \in 1..Len(p.log) : i # b => q.log[i] = p.log[i]
  BY <1>11
<1>16. \A i \in 1..Len(p.timers) : ~Live(p, p.timers[i].turn)
  BY <1>8 DEF Live, Timed
<1>17. \A i \in 1..Len(q.timers) : i \in 1..l \/ i = l + 1 \/ i = l + 2
  BY <1>10
<1>a. TurnsOf(q)
  BY <1>1 DEF TabInv, TurnsOf, SameTurn
<1>b. LogOf(q)
  <2>1. ASSUME NEW i \in 1..Len(q.log), NEW k \in q.log[i].of PROVE k <= q.turn
    BY <1>12, <1>15, <2>1 DEF TabInv, LogOf, SameTurn
  <2>2. ASSUME NEW i \in 1..Len(q.log), NEW j \in 1..Len(q.log), i < j, q.log[i].who = "user", q.log[j].who = "bot",
               NEW x \in q.log[j].of, NEW y \in q.log[i].of, x < y
        PROVE  GoneBy(q, x)
    <3>1. i # b /\ q.log[i] = p.log[i]
      BY <1>15, <2>2
    <3>2. y \in Nat /\ y <= p.turn
      BY <1>13, <2>1, <2>2, <3>1 DEF Bubbles, SameTurn
    <3>3. CASE j = b
      <4>1. x = n
        BY <1>15, <2>2, <3>3
      <4>2. n # p.turn
        BY <1>6, <1>10, <2>2, <3>2, <4>1
      <4> QED
        BY <1>1, <1>7, <4>1, <4>2 DEF Live
    <3>4. CASE j # b
      <4>1. q.log[j] = p.log[j]
        BY <1>15, <3>4
      <4> QED
        BY <1>1, <2>2, <3>1, <4>1 DEF TabInv, LogOf, InPlace
    <3> QED
      BY <3>3, <3>4
  <2>3. InPlace(q)
    BY <2>2 DEF InPlace
  <2> QED
    BY <2>1, <2>3 DEF LogOf
<1>c. TimersOf(q)
  <2>1. ASSUME NEW i \in 1..Len(q.timers) PROVE GoneBy(q, q.timers[i].turn) \/ Live(q, q.timers[i].turn)
    <3>1. CASE i \in 1..l
      BY <1>1, <1>2, <3>1 DEF TabInv, TimersOf
    <3>2. CASE i = l + 1 \/ i = l + 2
      <4>1. q.timers[i].turn = n
        BY <3>2
      <4> QED
        BY <1>1, <1>2, <1>7, <4>1
    <3> QED
      BY <1>17, <3>1, <3>2
  <2>2. ASSUME NEW i \in 1..Len(q.timers), Live(q, q.timers[i].turn)
        PROVE  IF q.timers[i].t = "text"
               THEN \E j \in 1..Len(q.timers) : j > i /\ q.timers[j].t = "finish" /\ q.timers[j].turn = q.turn
               ELSE \A j \in 1..Len(q.timers) : j > i => q.timers[j].turn # q.turn
    <3>1. i \notin 1..l
      BY <1>2, <1>16, <2>2
    <3>2. CASE i = l + 1
      <4>1. q.timers[i].t = "text" /\ q.timers[i].turn = n
        BY <3>2
      <4>2. n = q.turn
        BY <2>2, <4>1 DEF Live
      <4>3. l + 2 \in 1..Len(q.timers) /\ l + 2 > i
        BY <1>10, <3>2
      <4>4. q.timers[l + 2].t = "finish" /\ q.timers[l + 2].turn = n
        OBVIOUS
      <4> QED
        BY <4>1, <4>2, <4>3, <4>4
    <3>3. CASE i = l + 2
      <4>1. q.timers[i].t = "finish"
        BY <3>3
      <4>2. ~\E j \in 1..Len(q.timers) : j > i
        BY <1>10, <3>3
      <4> QED
        BY <4>1, <4>2
    <3> QED
      BY <1>17, <3>1, <3>2, <3>3
  <2> QED
    BY <2>1, <2>2 DEF TimersOf
<1>d. WaitingOf(q)
  BY <1>14 DEF TabInv, WaitingOf, SameSocket
<1>e. AnswersOf(q)
  <2> SUFFICES ASSUME NEW a \in q.answered, ~GoneBy(q, a[1])
               PROVE  a[1] <= q.turn /\ Whole(q, a)
    <3>1. \A a \in q.answered : GoneBy(q, a[1]) => a[1] <= q.turn
      BY <1>10 DEF TabInv, TurnsOf, SameTurn, GoneBy
    <3> QED
      BY <1>3, <1>14, <3>1 DEF AnswersOf
  <2>1. CASE a \in p.answered
    <3>1. a[1] <= p.turn /\ (p.sock # "off" => ~Received(p, a[1]) /\ Whole(p, a))
      BY <1>1, <2>1 DEF TabInv, AnswersOf
    <3>2. Whole(p, a) /\ ~Received(p, a[1])
      BY <3>1
    <3>3. \A i \in 1..Len(p.log) : Shows(p, i, a[1]) => Shows(q, i, a[1])
      <4> SUFFICES ASSUME NEW i \in 1..Len(p.log), Shows(p, i, a[1]) PROVE Shows(q, i, a[1])
        OBVIOUS
      <4>1. i # b
        BY <3>2 DEF Received, Shows
      <4> QED
        BY <1>15, <4>1 DEF Shows
    <3>4. \A i \in 1..l : i \in 1..Len(q.timers) /\ (Delays(p, i, a[1]) => Delays(q, i, a[1]))
      BY <1>10 DEF Delays
    <3>5. Whole(q, a)
      BY <3>2, <3>3, <3>4 DEF Whole
    <3> QED
      BY <3>1, <3>5 DEF SameTurn
  <2>2. CASE a = <<n, 2>>
    <3>1. a[1] = n
      BY <2>2
    <3>2. Shows(q, b, n) /\ b \in 1..Len(q.log)
      BY <1>11, <1>15 DEF Shows
    <3>3. Delays(q, l + 1, n) /\ l + 1 \in 1..Len(q.timers)
      BY <1>10 DEF Delays
    <3>4. Whole(q, a)
      BY <3>1, <3>2, <3>3 DEF Whole
    <3> QED
      BY <1>12, <3>1, <3>4 DEF SameTurn
  <2> QED
    BY <2>1, <2>2
<1>f. CarryInv(q, g)
  <2>1. ASSUME NEW k \in Nat, Carries(g, k) PROVE GoneBy(q, k) \/ Live(q, k)
    BY <1>1, <1>2, <1>4, <1>5, <2>1 DEF LinkInv, CarryInv
  <2>2. ASSUME NEW a \in q.answered PROVE GoneBy(q, a[1]) \/ ~Carries(g, a[1])
    <3>1. CASE a \in p.answered
      BY <1>1, <1>4, <1>5, <3>1 DEF LinkInv, CarryInv
    <3>2. CASE a = <<n, 2>>
      <4>1. a[1] = n
        BY <3>2
      <4> QED
        BY <1>1, <1>7, <1>9, <4>1
    <3> QED
      BY <3>1, <3>2
  <2> QED
    BY <2>1, <2>2 DEF CarryInv
<1>g. SockInv(q, g)
  BY <1>4 DEF LinkInv, SockInv, SameSocket, Unused
<1>h. LifeInv(q, g)
  <2> SUFFICES ASSUME p.streaming
               PROVE  \/ Quiet(q, g)
                      \/ ~Timed(q, p.turn) /\ Underway(q, g, p.turn)
    BY <1>4, <1>14 DEF LifeInv, Lives, SameTurn
  <2>1. CASE n = p.turn
    <3>1. Drained(g)
      BY <1>9, <2>1 DEF Live
    <3> QED
      BY <1>14, <3>1 DEF Quiet
  <2>2. CASE n # p.turn
    <3>1. Underway(q, g, p.turn)
      BY <1>3, <1>6, <1>8, <2>2, OtherFrame
    <3>2. ASSUME NEW i \in 1..Len(q.timers) PROVE q.timers[i].turn # p.turn
      <4>1. CASE i \in 1..l
        BY <1>8, <4>1 DEF Timed
      <4>2. CASE i = l + 1 \/ i = l + 2
        <5>1. q.timers[i].turn = n
          BY <4>2
        <5> QED
          BY <2>2, <5>1
      <4> QED
        BY <1>17, <4>1, <4>2
    <3> QED
      BY <3>1, <3>2 DEF Timed
  <2> QED
    BY <2>1, <2>2
<1> QED
  BY <1>a, <1>b, <1>c, <1>d, <1>e, <1>f, <1>g, <1>h DEF TabInv, LinkInv

\* The next timer of a page fires.
TimerFired(p, q) ==
  /\ p.timers # <<>> /\ q.timers = Tail(p.timers)
  /\ Len(p.timers) \in Nat \ {0} /\ Len(q.timers) = Len(p.timers) - 1
  /\ \A i \in 1..Len(q.timers) : q.timers[i] = p.timers[i + 1]
  /\ p.timers[1] \in ChatTimers /\ Head(p.timers) = p.timers[1]

LEMMA TimerIsFired ==
  ASSUME NEW p \in ChatTab, NEW q, p.timers # <<>>, q.timers = Tail(p.timers)
  PROVE  TimerFired(p, q) /\ q.timers \in Seq(ChatTimers)
<1> DEFINE s == p.timers
<1>1. s \in Seq(ChatTimers) /\ Len(s) \in Nat /\ s # <<>>
  BY LenProperties DEF ChatTab
<1> HIDE DEF s
<1>2. Len(s) # 0 /\ Head(s) = s[1]
  BY <1>1, EmptySeq
<1>3. 1 \in 1..Len(s)
  BY <1>1, <1>2
<1>4. s[1] \in ChatTimers
  BY <1>1, <1>3, ElementOfSeq
<1>5. Tail(s) \in Seq(ChatTimers) /\ Len(Tail(s)) = Len(s) - 1 /\ \A i \in 1..Len(Tail(s)) : Tail(s)[i] = s[i + 1]
  BY <1>1, HeadTailProperties
<1>6. Len(s) \in Nat \ {0}
  BY <1>1, <1>2
<1> QED
  BY <1>1, <1>2, <1>4, <1>5, <1>6 DEF s, TimerFired

LEMMA TickTextKeeps ==
  ASSUME NEW p \in ChatTab, NEW q \in ChatTab, NEW h \in ChatConn, TabInv(p), LinkInv(p, h),
         TimerFired(p, q), NEW n, p.timers[1] = [t |-> "text", turn |-> n],
         SameSocket(p, q), SameTurn(p, q), q.bubble = p.bubble, q.pending = p.pending, q.answered = p.answered,
         Len(q.log) = Len(p.log) + 1, \A i \in 1..Len(p.log) : q.log[i] = p.log[i],
         q.log[Len(p.log) + 1] = [who |-> "bot", of |-> {n}]
  PROVE  TabInv(q) /\ LinkInv(q, h)
<1> DEFINE l == Len(p.log)
<1> DEFINE m == Len(p.timers)
<1>1. \A k : GoneBy(q, k) <=> GoneBy(p, k)
  BY DEF GoneBy, SameTurn
<1>2. \A k : Live(q, k) <=> Live(p, k)
  BY DEF Live, SameTurn
<1>3. /\ p.turn \in Nat /\ p.log \in Seq(Bubbles) /\ l \in Nat /\ p.bubble \in Nat
      /\ p.stopped \in SUBSET Nat /\ p.cut \in SUBSET Nat
  BY LenProperties DEF ChatTab
<1>4. m \in Nat \ {0} /\ Len(q.timers) = m - 1 /\ \A i \in 1..m - 1 : i + 1 \in 1..m /\ q.timers[i] = p.timers[i + 1]
  BY DEF TimerFired
<1>5. n \in Nat /\ p.timers[1].t = "text" /\ p.timers[1].turn = n /\ 1 \in 1..m
  <2>1. p.timers[1] \in ChatTimers
    BY DEF TimerFired
  <2> QED
    BY <1>4, <2>1 DEF ChatTimers
<1>6. GoneBy(p, n) \/ Live(p, n)
  BY <1>5 DEF TabInv, TimersOf
<1>7. n <= p.turn
  BY <1>3, <1>6 DEF TabInv, TurnsOf, GoneBy, Live
<1>8. \A i \in 1..l : p.log[i] \in Bubbles
  BY <1>3, ElementOfSeq
<1>9. p.bubble # 0 => p.bubble \in 1..l
  BY DEF TabInv, LogOf
<1>10. \A k : Received(q, k) <=> Received(p, k)
  BY <1>9 DEF Received
<1>11. \A i \in 1..Len(q.log) : i \in 1..l \/ i = l + 1
  BY <1>3
<1>12. q.log[l + 1].who = "bot" /\ q.log[l + 1].of = {n}
  OBVIOUS
<1>a. TurnsOf(q)
  BY <1>1 DEF TabInv, TurnsOf, SameTurn
<1>b. LogOf(q)
  <2>1. ASSUME NEW i \in 1..Len(q.log), NEW k \in q.log[i].of PROVE k <= q.turn
    BY <1>7, <1>11, <1>12, <2>1 DEF TabInv, LogOf, SameTurn
  <2>2. ASSUME NEW i \in 1..Len(q.log), NEW j \in 1..Len(q.log), i < j, q.log[i].who = "user", q.log[j].who = "bot",
               NEW x \in q.log[j].of, NEW y \in q.log[i].of, x < y
        PROVE  GoneBy(q, x)
    <3>1. i \in 1..l /\ q.log[i] = p.log[i]
      BY <1>11, <1>12, <2>2
    <3>2. y \in Nat /\ y <= p.turn
      BY <1>8, <2>1, <2>2, <3>1 DEF Bubbles, SameTurn
    <3>3. CASE j = l + 1
      <4>1. x = n
        BY <1>12, <2>2, <3>3
      <4>2. n # p.turn
        BY <1>3, <1>5, <2>2, <3>2, <4>1
      <4> QED
        BY <1>1, <1>6, <4>1, <4>2 DEF Live
    <3>4. CASE j \in 1..l
      <4>1. q.log[j] = p.log[j]
        BY <3>4
      <4> QED
        BY <1>1, <2>2, <3>1, <3>4, <4>1 DEF TabInv, LogOf, InPlace
    <3> QED
      BY <1>11, <3>3, <3>4
  <2>3. InPlace(q)
    BY <2>2 DEF InPlace
  <2>4. q.bubble # 0 => /\ q.bubble \in 1..Len(q.log)
                        /\ \A j \in 1..Len(q.log) : j >= q.bubble => q.log[j].who = "bot"
    <3> SUFFICES ASSUME p.bubble # 0
                 PROVE  p.bubble \in 1..Len(q.log) /\ \A j \in 1..Len(q.log) : j >= p.bubble => q.log[j].who = "bot"
      OBVIOUS
    <3>1. p.bubble \in 1..l /\ \A j \in 1..l : j >= p.bubble => p.log[j].who = "bot"
      BY DEF TabInv, LogOf
    <3>2. p.bubble \in 1..Len(q.log)
      BY <1>3, <3>1
    <3>3. ASSUME NEW j \in 1..Len(q.log), j >= p.bubble PROVE q.log[j].who = "bot"
      BY <1>11, <1>12, <3>1, <3>3
    <3> QED
      BY <3>2, <3>3
  <2>5. \A k \in q.pending : GoneBy(q, k) \/ k = q.turn
    BY <1>1 DEF TabInv, LogOf, SameTurn
  <2> QED
    BY <2>1, <2>3, <2>4, <2>5 DEF LogOf
<1>c. TimersOf(q)
  <2>1. ASSUME NEW i \in 1..Len(q.timers) PROVE GoneBy(q, q.timers[i].turn) \/ Live(q, q.timers[i].turn)
    <3>1. i + 1 \in 1..m /\ q.timers[i] = p.timers[i + 1]
      BY <1>4
    <3>2. GoneBy(p, p.timers[i + 1].turn) \/ Live(p, p.timers[i + 1].turn)
      BY <3>1 DEF TabInv, TimersOf
    <3> QED
      BY <1>1, <1>2, <3>1, <3>2
  <2>2. ASSUME NEW i \in 1..Len(q.timers), Live(q, q.timers[i].turn)
        PROVE  IF q.timers[i].t = "text"
               THEN \E j \in 1..Len(q.timers) : j > i /\ q.timers[j].t = "finish" /\ q.timers[j].turn = q.turn
               ELSE \A j \in 1..Len(q.timers) : j > i => q.timers[j].turn # q.turn
    <3>1. i + 1 \in 1..m /\ q.timers[i] = p.timers[i + 1] /\ Live(p, p.timers[i + 1].turn)
      BY <1>2, <1>4, <2>2
    <3>2. IF p.timers[i + 1].t = "text"
          THEN \E j \in 1..m : j > i + 1 /\ p.timers[j].t = "finish" /\ p.timers[j].turn = p.turn
          ELSE \A j \in 1..m : j > i + 1 => p.timers[j].turn # p.turn
      BY <3>1 DEF TabInv, TimersOf
    <3>3. CASE p.timers[i + 1].t = "text"
      <4>1. PICK j \in 1..m : j > i + 1 /\ p.timers[j].t = "finish" /\ p.timers[j].turn = p.turn
        BY <3>2, <3>3
      <4>2. j - 1 \in 1..m - 1 /\ j - 1 > i /\ (j - 1) + 1 = j
        BY <1>4, <4>1
      <4>3. q.timers[j - 1] = p.timers[j]
        BY <1>4, <4>2
      <4> QED
        BY <1>4, <3>1, <3>3, <4>1, <4>2, <4>3 DEF SameTurn
    <3>4. CASE p.timers[i + 1].t # "text"
      <4>1. \A j \in 1..Len(q.timers) : j > i => q.timers[j].turn # q.turn
        <5> SUFFICES ASSUME NEW j \in 1..Len(q.timers), j > i PROVE q.timers[j].turn # q.turn
          OBVIOUS
        <5>1. j + 1 \in 1..m /\ j + 1 > i + 1 /\ q.timers[j] = p.timers[j + 1]
          BY <1>4
        <5> QED
          BY <3>2, <3>4, <5>1 DEF SameTurn
      <4> QED
        BY <3>1, <3>4, <4>1
    <3> QED
      BY <3>3, <3>4
  <2> QED
    BY <2>1, <2>2 DEF TimersOf
<1>d. WaitingOf(q)
  BY <1>1, <1>2, <1>4 DEF TabInv, WaitingOf, SameSocket, SameTurn, TimerFired
<1>e. AnswersOf(q)
  <2> SUFFICES ASSUME NEW a \in p.answered
               PROVE  /\ a[1] <= q.turn
                      /\ \/ GoneBy(q, a[1])
                         \/ /\ \A i \in 1..Len(q.waiting) : q.waiting[i] # a[1]
                            /\ q.sock # "off" => ~Received(q, a[1]) /\ Whole(q, a)
    BY DEF AnswersOf
  <2>1. \A i \in 1..l : i \in 1..Len(q.log) /\ (Shows(p, i, a[1]) => Shows(q, i, a[1]))
    BY <1>3 DEF Shows
  <2>2. Whole(p, a) => Whole(q, a)
    <3>1. CASE \E i \in 1..l, j \in 1..m : Shows(p, i, a[1]) /\ Delays(p, j, a[1])
      <4>1. PICK i \in 1..l, j \in 1..m : Shows(p, i, a[1]) /\ Delays(p, j, a[1])
        BY <3>1
      <4>2. CASE j = 1
        <5>1. a[1] = n
          BY <1>5, <4>1, <4>2 DEF Delays
        <5>2. Shows(q, l + 1, a[1]) /\ l + 1 \in 1..Len(q.log) /\ i # l + 1
          BY <1>3, <1>12, <5>1 DEF Shows
        <5> QED
          BY <2>1, <4>1, <5>2 DEF Whole
      <4>3. CASE j # 1
        <5>1. j - 1 \in 1..Len(q.timers) /\ (j - 1) + 1 = j
          BY <1>4, <4>3
        <5>2. q.timers[j - 1] = p.timers[j]
          BY <1>4, <5>1
        <5>3. Delays(q, j - 1, a[1])
          BY <4>1, <5>2 DEF Delays
        <5> QED
          BY <2>1, <4>1, <5>1, <5>3 DEF Whole
      <4> QED
        BY <4>2, <4>3
    <3>2. CASE ~\E i \in 1..l, j \in 1..m : Shows(p, i, a[1]) /\ Delays(p, j, a[1])
      BY <2>1, <3>2 DEF Whole
    <3> QED
      BY <3>1, <3>2
  <2> QED
    BY <1>1, <1>10, <2>2 DEF TabInv, AnswersOf, SameTurn, SameSocket
<1>f. \A k : Timed(q, k) => Timed(p, k)
  BY <1>4 DEF Timed
<1>g. LinkInv(q, h)
  BY <1>10, <1>f, LinkSame
<1> QED
  BY <1>a, <1>b, <1>c, <1>d, <1>e, <1>g DEF TabInv

LEMMA TickFinishKeeps ==
  ASSUME NEW p \in ChatTab, NEW q \in ChatTab, NEW h \in ChatConn, TabInv(p), LinkInv(p, h),
         TimerFired(p, q), NEW n, p.timers[1] = [t |-> "finish", turn |-> n],
         SameSocket(p, q), SameText(p, q), q.answered = p.answered,
         q.turn = p.turn, q.stopped = p.stopped, q.streaming = FALSE, CutBy(p, q, n)
  PROVE  TabInv(q) /\ LinkInv(q, h)
<1> DEFINE m == Len(p.timers)
<1>1. m \in Nat \ {0} /\ Len(q.timers) = m - 1 /\ \A i \in 1..m - 1 : i + 1 \in 1..m /\ q.timers[i] = p.timers[i + 1]
  BY DEF TimerFired
<1>2. n \in Nat /\ p.timers[1].t = "finish" /\ p.timers[1].turn = n /\ 1 \in 1..m
  <2>1. p.timers[1] \in ChatTimers
    BY DEF TimerFired
  <2> QED
    BY <1>1, <2>1 DEF ChatTimers
<1>3. GoneBy(p, n) \/ Live(p, n)
  BY <1>2 DEF TabInv, TimersOf
<1>4. /\ TurnsOf(q) /\ p.cut \subseteq q.cut
      /\ p.streaming => GoneBy(q, p.turn) \/ n = p.turn
  BY <1>2, <1>3, CutShortKeeps DEF TabInv
<1>5. \A i \in 1..Len(q.timers) : \E j \in 1..m : q.timers[i] = p.timers[j]
  BY <1>1
<1>6. p.sock = "off" => p.timers = <<>>
  BY DEF TabInv, WaitingOf
<1>7. p.sock # "off"
  BY <1>6 DEF TimerFired
<1>8. Ends(p, q)
  BY <1>4, <1>5, <1>7 DEF Ends, SameSocket, SameText
<1>9. SockInv(q, h)
  BY DEF LinkInv, SockInv, SameSocket
<1>10. GoneBy(q, p.turn) \/ ~p.streaming \/
           (/\ \A i \in 1..Len(q.waiting) : q.waiting[i] # p.turn
            /\ \A i \in 1..Len(q.timers) : q.timers[i].turn # p.turn
            /\ h.net = "up" => ~Carries(h, p.turn))
  <2> SUFFICES ASSUME p.streaming, n = p.turn
               PROVE  /\ \A i \in 1..Len(q.waiting) : q.waiting[i] # p.turn
                      /\ \A i \in 1..Len(q.timers) : q.timers[i].turn # p.turn
                      /\ h.net = "up" => ~Carries(h, p.turn)
    BY <1>4
  <2>1. Timed(p, p.turn)
    BY <1>2 DEF Timed
  <2>2. Quiet(p, h)
    BY <2>1 DEF LinkInv, LifeInv
  <2>3. Len(q.waiting) = 0
    BY <2>2 DEF Quiet, SameSocket
  <2>4. h.net = "up" => ~Carries(h, p.turn)
    <3> SUFFICES ASSUME Drained(h) PROVE ~Carries(h, p.turn)
      BY <2>2 DEF Quiet
    <3>1. Len(h.in) = 0 /\ Len(h.out) = 0
      BY DEF Drained
    <3> QED
      BY <3>1 DEF Carries, Posted, AtWork, Told, Drained
  <2>5. \A i \in 1..Len(q.timers) : q.timers[i].turn # p.turn
    <3> SUFFICES ASSUME NEW i \in 1..Len(q.timers) PROVE q.timers[i].turn # p.turn
      OBVIOUS
    <3>1. i + 1 \in 1..m /\ i + 1 > 1 /\ q.timers[i] = p.timers[i + 1]
      BY <1>1
    <3>2. Live(p, p.timers[1].turn)
      BY <1>2 DEF Live
    <3>3. \A j \in 1..m : j > 1 => p.timers[j].turn # p.turn
      BY <1>2, <3>2 DEF TabInv, TimersOf
    <3> QED
      BY <3>1, <3>3
  <2> QED
    BY <2>3, <2>4, <2>5
<1>11. \A j \in 1..m : p.timers[j].t = "text" =>
           GoneBy(q, p.timers[j].turn) \/ \E i \in 1..Len(q.timers) : q.timers[i] = p.timers[j]
  <2> SUFFICES ASSUME NEW j \in 1..m, p.timers[j].t = "text" PROVE \E i \in 1..Len(q.timers) : q.timers[i] = p.timers[j]
    OBVIOUS
  <2>1. j # 1
    BY <1>2
  <2>2. j - 1 \in 1..m - 1 /\ (j - 1) + 1 = j
    BY <1>1, <2>1
  <2> QED
    BY <1>1, <2>2
<1>12. q.log = p.log
  BY DEF SameText
<1> QED
  BY <1>4, <1>8, <1>9, <1>10, <1>11, <1>12, EndsKeep

\* whenOpen gives up: what waits longest ends the turn.
LEMMA GiveUpKeeps ==
  ASSUME NEW p \in ChatTab, NEW q \in ChatTab, NEW h \in ChatConn, TabInv(p), LinkInv(p, h),
         p.waiting # <<>>, q.waiting = Tail(p.waiting), CutBy(p, q, p.waiting[1]), q.streaming = FALSE,
         q.gen = p.gen, q.sock = p.sock, q.opened = p.opened, q.turn = p.turn, q.stopped = p.stopped,
         SameText(p, q), SameReplies(p, q)
  PROVE  TabInv(q) /\ LinkInv(q, h)
<1> DEFINE w == p.waiting
<1> DEFINE n == w[1]
<1>1. w \in Seq(Nat) /\ Len(w) \in Nat \ {0} /\ Len(Tail(w)) = Len(w) - 1
  <2>1. w \in Seq(Nat) /\ Len(w) \in Nat /\ w # <<>>
    BY LenProperties DEF ChatTab
  <2> HIDE DEF w
  <2>2. Len(w) # 0 /\ Len(Tail(w)) = Len(w) - 1
    BY <2>1, EmptySeq, HeadTailProperties
  <2> QED
    BY <2>1, <2>2
<1>2. 1 \in 1..Len(w) /\ n \in Nat
  BY <1>1, ElementOfSeq
<1>3. GoneBy(p, n) \/ Live(p, n)
  BY <1>2 DEF TabInv, WaitingOf
<1>4. /\ TurnsOf(q) /\ p.cut \subseteq q.cut
      /\ p.streaming => GoneBy(q, p.turn) \/ n = p.turn
  BY <1>2, <1>3, CutShortKeeps DEF TabInv
<1>5. h.net # "up"
  <2>1. ~p.opened
    BY DEF TabInv, WaitingOf
  <2>2. p.sock # "open"
    BY <2>1 DEF LinkInv, SockInv
  <2>3. p.sock \in {"connecting", "backoff", "off"}
    BY <2>2 DEF ChatTab
  <2> QED
    BY <2>3 DEF LinkInv, SockInv, Unused
<1>6. p.sock # "off"
  BY DEF TabInv, WaitingOf
<1>7. Ends(p, q)
  BY <1>4, <1>6 DEF Ends, SameText, SameReplies
<1>8. SockInv(q, h)
  BY DEF LinkInv, SockInv
<1>9. p.streaming => ~Timed(p, p.turn)
  BY DEF LinkInv, LifeInv, Quiet
<1>10. n = p.turn => \A i \in 1..Len(q.waiting) : q.waiting[i] # p.turn
  <2> SUFFICES ASSUME n = p.turn PROVE Len(w) = 1
    BY <1>1
  <2> SUFFICES ASSUME Len(w) # 1 PROVE FALSE
    OBVIOUS
  <2>1. 2 \in 1..Len(w) /\ 1 < 2
    <3> DEFINE k == Len(w)
    <3>1. k \in Nat \ {0} /\ k # 1
      BY <1>1
    <3> HIDE DEF k
    <3>2. 2 \in 1..k
      BY <3>1
    <3> QED
      BY <3>2 DEF k
  <2>2. w[1] < w[2] /\ w[2] \in 1..p.turn
    BY <1>2, <2>1 DEF TabInv, WaitingOf
  <2> QED
    BY <1>2, <2>2 DEF ChatTab
<1>11. GoneBy(q, p.turn) \/ ~p.streaming \/
           (/\ \A i \in 1..Len(q.waiting) : q.waiting[i] # p.turn
            /\ \A i \in 1..Len(q.timers) : q.timers[i].turn # p.turn
            /\ h.net = "up" => ~Carries(h, p.turn))
  <2> SUFFICES ASSUME p.streaming, n = p.turn
               PROVE  /\ \A i \in 1..Len(q.waiting) : q.waiting[i] # p.turn
                      /\ \A i \in 1..Len(q.timers) : q.timers[i].turn # p.turn
    BY <1>4, <1>5
  <2>1. \A i \in 1..Len(q.timers) : q.timers[i].turn # p.turn
    BY <1>9 DEF Timed, SameReplies
  <2> QED
    BY <1>10, <2>1
<1>12. \A j \in 1..Len(p.timers) : p.timers[j].t = "text" =>
           GoneBy(q, p.timers[j].turn) \/ \E i \in 1..Len(q.timers) : q.timers[i] = p.timers[j]
  BY DEF SameReplies
<1>13. q.log = p.log /\ q.answered = p.answered
  BY DEF SameText, SameReplies
<1> QED
  BY <1>4, <1>7, <1>8, <1>11, <1>12, <1>13, EndsKeep

\* The user stops, with or without emptying the page.
LEMMA StopKeepsTurns ==
  ASSUME NEW p \in ChatTab, NEW q \in ChatTab, NEW h, NEW g, TabInv(p), LinkInv(p, h),
         SameSocket(p, q), q.turn = p.turn, q.cut = p.cut, q.stopped = p.stopped \cup {p.turn},
         q.streaming = FALSE, q.bubble = 0, q.pending = {}, q.timers = <<>>,
         \/ q.log = p.log /\ q.answered = p.answered
         \/ q.log = <<>> /\ q.answered = {},
         g.net = h.net, Unused(h) => g = h, \A k : Carries(g, k) => Carries(h, k)
  PROVE  TabInv(q) /\ LinkInv(q, g)
<1>1. Len(q.timers) = 0
  OBVIOUS
<1>2. GoneBy(q, p.turn)
  BY DEF GoneBy
<1>3. Ends(p, q)
  BY <1>1 DEF Ends, SameSocket
<1>4. TurnsOf(q)
  <2>1. p.turn \in Nat
    BY DEF ChatTab
  <2> QED
    BY <2>1 DEF TabInv, TurnsOf
<1>5. SockInv(q, g)
  BY DEF LinkInv, SockInv, SameSocket
<1>6. \A j \in 1..Len(p.timers) : GoneBy(q, p.timers[j].turn)
  BY <1>2 DEF TabInv, TimersOf, GoneBy, Live
<1> QED
  BY <1>2, <1>3, <1>4, <1>5, <1>6, EndsKeep

\* The socket of a page moves; what waited for it stays, or leaves.
LEMMA MovesKeep ==
  ASSUME NEW p, NEW q, TabInv(p), SameTurn(p, q), SameText(p, q), SameReplies(p, q),
         q.waiting = p.waiting \/ q.waiting = <<>>, q.waiting # <<>> => ~q.opened,
         p.sock # "off", q.sock # "off", q.sock = "backoff" => q.gen <= MaxDrops
  PROVE  TabInv(q) /\ \A k : (Received(q, k) <=> Received(p, k)) /\ (Timed(q, k) <=> Timed(p, k))
<1>1. \A k : GoneBy(q, k) <=> GoneBy(p, k)
  BY DEF GoneBy, SameTurn
<1>2. \A k : Live(q, k) <=> Live(p, k)
  BY DEF Live, SameTurn
<1>3. \A k : Received(q, k) <=> Received(p, k)
  BY DEF Received, SameText
<1>4. \A k : Timed(q, k) <=> Timed(p, k)
  BY DEF Timed, SameReplies
<1>a. TurnsOf(q)
  BY <1>1 DEF TabInv, TurnsOf, SameTurn
<1>b. LogOf(q)
  <2>1. InPlace(q)
    BY <1>1 DEF TabInv, LogOf, InPlace, SameText
  <2> QED
    BY <1>1, <2>1 DEF TabInv, LogOf, SameText, SameTurn
<1>c. TimersOf(q)
  BY <1>1, <1>2 DEF TabInv, TimersOf, SameTurn, SameReplies
<1>d. WaitingOf(q)
  <2>1. q.waiting = <<>> => Len(q.waiting) = 0
    OBVIOUS
  <2> QED
    BY <1>1, <1>2, <2>1 DEF TabInv, WaitingOf, SameTurn
<1>e. AnswersOf(q)
  <2> SUFFICES ASSUME NEW a \in p.answered
               PROVE  /\ a[1] <= q.turn
                      /\ \/ GoneBy(q, a[1])
                         \/ /\ \A i \in 1..Len(q.waiting) : q.waiting[i] # a[1]
                            /\ ~Received(q, a[1]) /\ Whole(q, a)
    BY DEF AnswersOf, SameReplies
  <2>1. Whole(p, a) => Whole(q, a)
    BY DEF Whole, Shows, Delays, SameText, SameReplies
  <2>2. Len(q.waiting) = 0 \/ q.waiting = p.waiting
    OBVIOUS
  <2> QED
    BY <1>1, <1>3, <2>1, <2>2 DEF TabInv, AnswersOf, SameTurn
<1> QED
  BY <1>3, <1>4, <1>a, <1>b, <1>c, <1>d, <1>e DEF TabInv

\* A link that is down: nothing is carried, and the turn waits or is lost.
LEMMA DownKeeps ==
  ASSUME NEW p, NEW q, NEW h, NEW g, TabInv(p), LinkInv(p, h),
         SameTurn(p, q), SameText(p, q), SameReplies(p, q), q.waiting = p.waiting, q.opened = p.opened,
         p.sock # "off", q.sock # "off", q.sock = "backoff" => q.gen <= MaxDrops,
         g.net # "up", SockInv(q, g)
  PROVE  TabInv(q) /\ LinkInv(q, g)
<1>1. p.waiting # <<>> => ~p.opened
  BY DEF TabInv, WaitingOf
<1>2. TabInv(q) /\ \A k : (Received(q, k) <=> Received(p, k)) /\ (Timed(q, k) <=> Timed(p, k))
  BY <1>1, MovesKeep
<1>3. CarryInv(q, g)
  BY DEF CarryInv
<1>4. \A n : Waiting(p, n) => Waiting(q, n)
  BY <1>2 DEF Waiting
<1>5. Quiet(p, h) => Quiet(q, g)
  BY DEF Quiet
<1>6. p.waiting = <<>> => Quiet(q, g)
  BY DEF Quiet
<1>7. LifeInv(q, g)
  BY <1>2, <1>4, <1>5, <1>6 DEF LinkInv, LifeInv, Lives, SameTurn
<1> QED
  BY <1>2, <1>3, <1>7 DEF LinkInv

\* The socket opens.
LEMMA OpenKeepsTurns ==
  ASSUME NEW p \in ChatTab, NEW q \in ChatTab, NEW h, NEW g, TabInv(p), LinkInv(p, h), p.sock = "connecting",
         SameTurn(p, q), SameText(p, q), SameReplies(p, q), q.waiting = <<>>, q.opened = TRUE, q.sock = "open",
         g.net = "up", g.out = h.out, g.task = h.task, Len(g.in) = Len(p.waiting),
         g.in = <<>> <=> Len(g.in) = 0, p.waiting = <<>> <=> Len(p.waiting) = 0,
         \A i \in 1..Len(p.waiting) : g.in[i].t = "input" /\ g.in[i].turn = p.waiting[i]
  PROVE  TabInv(q) /\ LinkInv(q, g)
<1>1. TabInv(q) /\ \A k : (Received(q, k) <=> Received(p, k)) /\ (Timed(q, k) <=> Timed(p, k))
  BY MovesKeep
<1>2. h.net = "new" /\ h.in = <<>> /\ g.out = <<>> /\ Len(g.out) = 0 /\ g.task.pc = "none"
  BY DEF LinkInv, SockInv, Unused, Drained
<1>3. \A k : Carries(g, k) <=> \E i \in 1..Len(p.waiting) : p.waiting[i] = k
  BY <1>2 DEF Carries, Posted, AtWork, Told
<1>4. SockInv(q, g)
  BY DEF SockInv
<1>5. CarryInv(q, g)
  <2>1. ASSUME NEW k \in Nat, Carries(g, k) PROVE GoneBy(q, k) \/ Live(q, k)
    BY <1>3, <2>1 DEF TabInv, WaitingOf, GoneBy, Live, SameTurn
  <2>2. ASSUME NEW a \in q.answered PROVE GoneBy(q, a[1]) \/ ~Carries(g, a[1])
    BY <1>3, <2>2 DEF TabInv, AnswersOf, GoneBy, SameTurn, SameReplies
  <2> QED
    BY <2>1, <2>2 DEF CarryInv
<1>6. Quiet(p, h) => Quiet(q, g)
  BY <1>2 DEF Quiet, Drained
<1>7. ASSUME Waiting(p, p.turn) PROVE Queued(q, g, p.turn)
  <2> DEFINE n == Len(p.waiting)
  <2>1. n \in Nat \ {0}
    BY <1>7, LenProperties DEF Waiting, ChatTab
  <2>2. n \in 1..n /\ \A i \in 1..n - 1 : i \in 1..n
    BY <2>1
  <2>3. g.in # <<>> /\ IsFrame(g.in[n], "input", p.turn)
    BY <1>7, <2>1, <2>2 DEF Waiting, IsFrame
  <2>4. \A i \in 1..n - 1 : g.in[i].turn # p.turn
    BY <1>7, <2>2 DEF Waiting
  <2>5. ~AtWork(g, p.turn) /\ ~Told(g, p.turn) /\ ~Received(q, p.turn)
    BY <1>1, <1>2, <1>7 DEF AtWork, Told, Waiting
  <2> QED
    BY <2>3, <2>4, <2>5 DEF Queued
<1>8. LifeInv(q, g)
  BY <1>1, <1>2, <1>6, <1>7 DEF LinkInv, LifeInv, Lives, Underway, SameTurn
<1> QED
  BY <1>1, <1>4, <1>5, <1>8 DEF LinkInv

\* The page is left.
LEMMA LeaveKeeps ==
  ASSUME NEW p, NEW q, NEW g, TabInv(p), SameTurn(p, q),
         q.log = p.log, q.answered = p.answered, q.sock = "off", q.waiting = <<>>, q.pending = {},
         q.timers = <<>>, q.bubble = 0, g.net = "cut"
  PROVE  TabInv(q) /\ LinkInv(q, g)
<1>1. \A k : GoneBy(q, k) <=> GoneBy(p, k)
  BY DEF GoneBy, SameTurn
<1>2. Len(q.waiting) = 0 /\ Len(q.timers) = 0
  OBVIOUS
<1>a. TurnsOf(q)
  BY <1>1 DEF TabInv, TurnsOf, SameTurn
<1>b. LogOf(q)
  <2>1. InPlace(q)
    BY <1>1 DEF TabInv, LogOf, InPlace
  <2> QED
    BY <2>1 DEF TabInv, LogOf, SameTurn
<1>c. TimersOf(q) /\ WaitingOf(q)
  BY <1>2 DEF TimersOf, WaitingOf
<1>d. AnswersOf(q)
  BY <1>1, <1>2 DEF TabInv, AnswersOf, SameTurn
<1>e. LinkInv(q, g)
  BY <1>2 DEF LinkInv, SockInv, CarryInv, LifeInv, Timed
<1> QED
  BY <1>a, <1>b, <1>c, <1>d, <1>e DEF TabInv

\* s is r with x behind it.
Grown(r, s, x) ==
  /\ Len(r) \in Nat /\ Len(s) = Len(r) + 1 /\ s # <<>>
  /\ \A i \in 1..Len(r) : s[i] = r[i]
  /\ s[Len(r) + 1] = x

LEMMA AppendGrows ==
  ASSUME NEW S, NEW r \in Seq(S), NEW x \in S
  PROVE  Append(r, x) \in Seq(S) /\ Grown(r, Append(r, x), x)
<1>1. Len(r) \in Nat
  BY LenProperties
<1>2. /\ Append(r, x) \in Seq(S) /\ Len(Append(r, x)) = Len(r) + 1
      /\ \A i \in 1..Len(r) : Append(r, x)[i] = r[i]
      /\ Append(r, x)[Len(r) + 1] = x
  BY AppendProperties
<1> DEFINE s == Append(r, x)
<1>3. s \in Seq(S) /\ Len(s) # 0
  BY <1>1, <1>2
<1> HIDE DEF s
<1>4. s # <<>>
  BY <1>3, EmptySeq
<1> QED
  BY <1>1, <1>2, <1>4 DEF s, Grown

LEMMA GrownIndex ==
  ASSUME NEW r, NEW s, NEW x, Grown(r, s, x)
  PROVE  /\ \A i \in 1..Len(s) : (i \in 1..Len(r) /\ s[i] = r[i]) \/ (i = Len(r) + 1 /\ s[i] = x)
         /\ \A i \in 1..Len(r) : i \in 1..Len(s)
         /\ Len(r) + 1 \in 1..Len(s) /\ s[Len(s)] = x /\ Len(s) - 1 = Len(r)
<1> DEFINE n == Len(r)
<1>1. n \in Nat /\ Len(s) = n + 1 /\ (\A i \in 1..n : s[i] = r[i]) /\ s[n + 1] = x
  BY DEF Grown
<1> HIDE DEF n
<1>2. \A i \in 1..n + 1 : i \in 1..n \/ i = n + 1
  BY <1>1
<1>3. \A i \in 1..n : i \in 1..n + 1
  BY <1>1
<1>4. n + 1 \in 1..n + 1 /\ (n + 1) - 1 = n
  BY <1>1
<1> QED
  BY <1>1, <1>2, <1>3, <1>4 DEF n

\* Turn n waits for the first socket, or not; its frame goes out over an open one.
MayWait(p, q, n) ==
  IF p.sock # "open" /\ ~p.opened THEN Grown(p.waiting, q.waiting, n) ELSE q.waiting = p.waiting
GoesOut(p, h, g, f) ==
  IF p.sock = "open"
  THEN g.net = h.net /\ g.out = h.out /\ g.task = h.task /\ Grown(h.in, g.in, f)
  ELSE g = h

\* The user sends: the page is at a new turn.
LEMMA SendKeepsTab ==
  ASSUME NEW p \in ChatTab, NEW q \in ChatTab, NEW h, TabInv(p), LinkInv(p, h), ~p.streaming, p.sock # "off",
         NEW n, n = p.turn + 1, q.turn = n, q.streaming = TRUE, q.stopped = p.stopped, q.cut = p.cut,
         q.gen = p.gen, q.sock = p.sock, q.opened = p.opened, q.answered = p.answered,
         q.bubble = 0, q.pending = {}, q.timers = <<>>, Grown(p.log, q.log, [who |-> "user", of |-> {n}]),
         MayWait(p, q, n)
  PROVE  /\ TabInv(q) /\ (\A k : GoneBy(q, k) <=> GoneBy(p, k)) /\ \A k : GoneBy(q, k) => k # n
         /\ \A a \in q.answered : a[1] # n
<1> USE DEF MayWait
<1>1. \A k : GoneBy(q, k) <=> GoneBy(p, k)
  BY DEF GoneBy
<1>2. p.turn \in Nat /\ n \in Nat /\ p.turn < n
  BY DEF ChatTab
<1>3. /\ p.stopped \in SUBSET Nat /\ p.cut \in SUBSET Nat
      /\ \A a \in p.answered : a[1] \in Nat
  BY DEF ChatTab
<1>4. \A k : GoneBy(p, k) => k \in Nat /\ k <= p.turn
  BY <1>2, <1>3 DEF TabInv, TurnsOf, GoneBy
<1>5. \A k : GoneBy(q, k) => k # n /\ k <= n
  BY <1>1, <1>2, <1>4
<1>6. \A a \in q.answered : a[1] \in Nat /\ a[1] <= p.turn
  BY <1>3 DEF TabInv, AnswersOf
<1>7. \A a \in q.answered : a[1] # n /\ a[1] <= n
  BY <1>2, <1>6
<1>8. \A i \in 1..Len(q.log) : \/ i \in 1..Len(p.log) /\ q.log[i] = p.log[i]
                               \/ q.log[i].who = "user" /\ q.log[i].of = {n} /\ i = Len(p.log) + 1
  BY GrownIndex
<1>9. \A i \in 1..Len(p.log) : p.log[i] \in Bubbles
  BY ElementOfSeq DEF ChatTab
<1>a. TurnsOf(q)
  <2>1. \A k \in q.stopped \cup q.cut : k <= q.turn
    BY <1>5 DEF GoneBy
  <2> QED
    BY <1>5, <2>1 DEF TabInv, TurnsOf
<1>b. LogOf(q)
  <2>1. ASSUME NEW i \in 1..Len(q.log), NEW k \in q.log[i].of PROVE k <= q.turn
    <3>1. CASE i \in 1..Len(p.log) /\ q.log[i] = p.log[i]
      <4>1. k <= p.turn /\ k \in Nat
        BY <1>9, <2>1, <3>1 DEF TabInv, LogOf, Bubbles
      <4> QED
        BY <1>2, <4>1
    <3>2. CASE q.log[i].of = {n}
      BY <1>2, <2>1, <3>2
    <3> QED
      BY <1>8, <3>1, <3>2
  <2>2. ASSUME NEW i \in 1..Len(q.log), NEW j \in 1..Len(q.log), i < j, q.log[i].who = "user", q.log[j].who = "bot",
               NEW x \in q.log[j].of, NEW y \in q.log[i].of, x < y
        PROVE  GoneBy(q, x)
    <3>1. j \in 1..Len(p.log) /\ q.log[j] = p.log[j]
      BY <1>8, <2>2
    <3>2. Len(p.log) \in Nat
      BY DEF Grown
    <3>3. i \in 1..Len(p.log)
      BY <2>2, <3>1, <3>2
    <3>4. q.log[i] = p.log[i]
      BY <3>3 DEF Grown
    <3> QED
      BY <1>1, <2>2, <3>1, <3>3, <3>4 DEF TabInv, LogOf, InPlace
  <2>3. InPlace(q)
    BY <2>2 DEF InPlace
  <2> QED
    BY <2>1, <2>3 DEF LogOf
<1>c. TimersOf(q)
  <2>1. Len(q.timers) = 0
    OBVIOUS
  <2> QED
    BY <2>1 DEF TimersOf
<1>d. WaitingOf(q)
  <2>1. Live(q, n)
    BY DEF Live
  <2>2. \A i \in 1..Len(p.waiting) : GoneBy(q, p.waiting[i]) /\ p.waiting[i] \in 1..p.turn
    BY <1>1 DEF TabInv, WaitingOf, Live
  <2>3. \A i \in 1..Len(p.waiting) : p.waiting[i] \in 1..n /\ p.waiting[i] < n
    BY <1>2, <2>2
  <2>4. q.waiting # <<>> => ~q.opened
    BY DEF TabInv, WaitingOf
  <2>5. q.sock = "backoff" => q.gen <= MaxDrops
    BY DEF TabInv, WaitingOf
  <2>6. CASE q.waiting = p.waiting
    BY <2>2, <2>3, <2>4, <2>5, <2>6 DEF TabInv, WaitingOf
  <2>7. CASE Grown(p.waiting, q.waiting, n)
    <3>1. \A i \in 1..Len(q.waiting) : \/ i \in 1..Len(p.waiting) /\ q.waiting[i] = p.waiting[i]
                                       \/ i = Len(p.waiting) + 1 /\ q.waiting[i] = n
      BY <2>7, GrownIndex
    <3>2. \A i \in 1..Len(q.waiting) : (GoneBy(q, q.waiting[i]) \/ Live(q, q.waiting[i])) /\ q.waiting[i] \in 1..n
      <4>1. n \in 1..n
        BY <1>2
      <4> QED
        BY <2>1, <2>2, <2>3, <3>1, <4>1
    <3>3. ASSUME NEW i \in 1..Len(q.waiting), NEW j \in 1..Len(q.waiting), i < j PROVE q.waiting[i] < q.waiting[j]
      <4>1. Len(p.waiting) \in Nat
        BY <2>7 DEF Grown
      <4>2. i \in 1..Len(p.waiting) /\ q.waiting[i] = p.waiting[i]
        BY <3>1, <3>3, <4>1
      <4>3. CASE j \in 1..Len(p.waiting) /\ q.waiting[j] = p.waiting[j]
        BY <3>3, <4>2, <4>3 DEF TabInv, WaitingOf
      <4>4. CASE q.waiting[j] = n
        BY <2>3, <4>2, <4>4
      <4> QED
        BY <3>1, <4>3, <4>4
    <3> QED
      BY <2>4, <2>5, <3>2, <3>3 DEF WaitingOf
  <2> QED
    BY <2>6, <2>7
<1>e. AnswersOf(q)
  <2> SUFFICES ASSUME NEW a \in p.answered, ~GoneBy(p, a[1])
               PROVE  /\ \A i \in 1..Len(q.waiting) : q.waiting[i] # a[1]
                      /\ ~Received(q, a[1]) /\ Whole(q, a)
    BY <1>1, <1>7 DEF AnswersOf
  <2>1. /\ \A i \in 1..Len(p.waiting) : p.waiting[i] # a[1]
        /\ Whole(p, a)
    BY DEF TabInv, AnswersOf
  <2>2. \A i \in 1..Len(q.waiting) : q.waiting[i] # a[1]
    <3>1. CASE q.waiting = p.waiting
      BY <2>1, <3>1
    <3>2. CASE Grown(p.waiting, q.waiting, n)
      <4>1. \A i \in 1..Len(q.waiting) : \/ i \in 1..Len(p.waiting) /\ q.waiting[i] = p.waiting[i]
                                         \/ q.waiting[i] = n
        BY <3>2, GrownIndex
      <4> QED
        BY <1>7, <2>1, <4>1
    <3> QED
      BY <3>1, <3>2
  <2>3. ~Received(q, a[1])
    BY DEF Received
  <2>4. \A j \in 1..Len(p.timers) : ~Delays(p, j, a[1])
    BY DEF TabInv, TimersOf, Live, Delays
  <2>5. \A i \in 1..Len(p.log) : i \in 1..Len(q.log) /\ (Shows(p, i, a[1]) => Shows(q, i, a[1]))
    BY GrownIndex DEF Shows, Grown
  <2>6. Whole(q, a)
    BY <2>1, <2>4, <2>5 DEF Whole
  <2> QED
    BY <2>2, <2>3, <2>6
<1> QED
  BY <1>1, <1>5, <1>7, <1>a, <1>b, <1>c, <1>d, <1>e DEF TabInv

\* Its frame goes out over an open socket, waits for the first, or is lost.
LEMMA SendKeepsLink ==
  ASSUME NEW p \in ChatTab, NEW q \in ChatTab, NEW h \in ChatConn, NEW g, TabInv(p), LinkInv(p, h), ~p.streaming,
         p.sock # "off", TabInv(q),
         NEW n, n = p.turn + 1, q.turn = n, q.streaming = TRUE, q.sock = p.sock, q.opened = p.opened,
         q.answered = p.answered, q.bubble = 0, q.pending = {}, q.timers = <<>>,
         MayWait(p, q, n),
         \A k : GoneBy(q, k) <=> GoneBy(p, k), \A k : GoneBy(q, k) => k # n, \A a \in q.answered : a[1] # n,
         NEW f, f = [t |-> "input", turn |-> n, parts |-> 1], GoesOut(p, h, g, f)
  PROVE  LinkInv(q, g)
<1> USE DEF MayWait, GoesOut
<1>1. n \in Nat
  BY DEF ChatTab
<1>2. \A k : ~Received(q, k)
  BY DEF Received
<1>3. Len(q.timers) = 0 /\ ~Timed(q, n)
  BY DEF Timed
<1>4. Live(q, n)
  BY DEF Live
<1>5. CASE p.sock = "open"
  <2>1. h.net = "up" /\ g.net = "up" /\ p.opened /\ Grown(h.in, g.in, f) /\ g.task = h.task /\ g.out = h.out
    BY <1>5 DEF LinkInv, SockInv
  <2>2. \A i \in 1..Len(g.in) : (i \in 1..Len(h.in) /\ g.in[i] = h.in[i]) \/ g.in[i] = f
    BY <2>1, GrownIndex
  <2>3. g.in # <<>> /\ g.in[Len(g.in)] = f /\ Len(g.in) - 1 = Len(h.in)
    BY <2>1, GrownIndex DEF Grown
  <2>4. f.t = "input" /\ f.turn = n
    OBVIOUS
  <2>5. ~Carries(h, n)
    BY <1>1, <2>1 DEF LinkInv, CarryInv, Live
  <2>6. \A k : Carries(g, k) => Carries(h, k) \/ k = n
    BY <2>1, <2>2, <2>4 DEF Carries, Posted, AtWork, Told
  <2>7. q.waiting = <<>>
    BY <1>5, <2>1 DEF TabInv, WaitingOf
  <2>8. \A i \in 1..Len(h.in) : g.in[i] = h.in[i]
    BY <2>1 DEF Grown
  <2>9. Queued(q, g, n)
    <3>1. \A i \in 1..Len(g.in) - 1 : g.in[i].t = "input" => g.in[i].turn # n
      BY <2>3, <2>5, <2>8 DEF Carries, Posted
    <3>2. ~AtWork(g, n) /\ ~Told(g, n)
      BY <2>1, <2>5 DEF Carries, AtWork, Told
    <3> QED
      BY <1>2, <2>3, <2>4, <3>1, <3>2 DEF Queued, IsFrame
  <2>10. CarryInv(q, g)
    <3>1. \A k \in Nat : Carries(h, k) => GoneBy(q, k)
      BY <2>1 DEF LinkInv, CarryInv, Live
    <3>2. \A a \in q.answered : GoneBy(q, a[1]) \/ ~Carries(h, a[1])
      BY <2>1 DEF LinkInv, CarryInv
    <3> QED
      BY <1>4, <2>6, <3>1, <3>2 DEF CarryInv
  <2>11. SockInv(q, g)
    BY <1>5, <2>1 DEF SockInv
  <2>12. LifeInv(q, g)
    BY <1>3, <2>1, <2>7, <2>9 DEF LifeInv, Lives, Underway
  <2> QED
    BY <2>10, <2>11, <2>12 DEF LinkInv
<1>6. CASE p.sock # "open"
  <2>1. g = h /\ SockInv(q, g)
    BY <1>6 DEF LinkInv, SockInv
  <2>2. h.net # "up"
    <3>1. p.sock \in {"connecting", "backoff"}
      BY <1>6 DEF ChatTab
    <3> QED
      BY <3>1 DEF LinkInv, SockInv, Unused
  <2>3. CarryInv(q, g)
    BY <2>1, <2>2 DEF CarryInv
  <2>4. CASE ~p.opened
    <3>1. Grown(p.waiting, q.waiting, n) /\ ~q.opened
      BY <1>6, <2>4
    <3>2. q.waiting # <<>> /\ q.waiting[Len(q.waiting)] = n /\ Len(q.waiting) - 1 = Len(p.waiting)
      BY <3>1, GrownIndex DEF Grown
    <3>3. \A i \in 1..Len(p.waiting) : q.waiting[i] = p.waiting[i] /\ p.waiting[i] # n
      BY <3>1 DEF Grown, TabInv, WaitingOf, Live
    <3>4. Waiting(q, n)
      BY <1>2, <3>1, <3>2, <3>3 DEF Waiting
    <3> QED
      BY <1>3, <2>1, <2>2, <2>3, <3>4 DEF LinkInv, LifeInv, Lives
  <2>5. CASE p.opened
    <3>1. q.waiting = <<>>
      BY <1>6, <2>5 DEF TabInv, WaitingOf
    <3>2. Quiet(q, g)
      BY <2>1, <2>2, <3>1 DEF Quiet
    <3> QED
      BY <1>3, <2>1, <2>3, <3>2 DEF LinkInv, LifeInv, Lives
  <2> QED
    BY <2>4, <2>5
<1> QED
  BY <1>5, <1>6

\* A step of a connection that a page sees: what it carries was carried, and the turn
\* the page is at stays underway.
Serves(h, g) ==
  /\ \A k : Carries(g, k) => Carries(h, k)
  /\ ~Drained(h)
  /\ \A p, n : Underway(p, h, n) => Underway(p, g, n)

LEMMA ServedKeeps ==
  ASSUME NEW p, NEW h, NEW g, LinkInv(p, h), ~Unused(h), g.net = h.net, h.net = "up" => Serves(h, g)
  PROVE  LinkInv(p, g)
<1>1. SockInv(p, g)
  BY DEF LinkInv, SockInv
<1>2. CarryInv(p, g)
  BY DEF LinkInv, CarryInv, Serves
<1>3. Quiet(p, h) => Quiet(p, g)
  BY DEF Quiet, Serves
<1>4. Lives(p, h) => Lives(p, g)
  BY <1>3 DEF Lives, Serves
<1>5. LifeInv(p, g)
  BY <1>3, <1>4 DEF LinkInv, LifeInv
<1> QED
  BY <1>1, <1>2, <1>5 DEF LinkInv

\* The handler takes a frame off its queue.
InputRead(h, g) ==
  /\ h.in # <<>> /\ Len(h.in) \in Nat \ {0} /\ Len(g.in) = Len(h.in) - 1
  /\ \A i \in 1..Len(g.in) : g.in[i] = h.in[i + 1]
  /\ Len(h.in) = 1 <=> g.in = <<>>

LEMMA InputIsRead ==
  ASSUME NEW h \in ChatConn, h.in # <<>>, NEW g, g.in = Tail(h.in)
  PROVE  InputRead(h, g) /\ g.in \in Seq(InFrames) /\ Head(h.in) = h.in[1] /\ h.in[1] \in InFrames
<1> DEFINE s == h.in
<1>1. s \in Seq(InFrames) /\ Len(s) \in Nat /\ s # <<>>
  BY LenProperties DEF ChatConn
<1> HIDE DEF s
<1>2. /\ Tail(s) \in Seq(InFrames) /\ Len(Tail(s)) = Len(s) - 1
      /\ \A i \in 1..Len(Tail(s)) : Tail(s)[i] = s[i + 1]
  BY <1>1, HeadTailProperties
<1>3. Len(s) # 0 /\ Head(s) = s[1]
  BY <1>1, EmptySeq
<1>4. Len(Tail(s)) = 0 <=> Tail(s) = <<>>
  BY <1>2, EmptySeq
<1>5. 1 \in 1..Len(s)
  BY <1>1, <1>3
<1>6. s[1] \in InFrames
  BY <1>1, <1>5, ElementOfSeq
<1>7. Len(s) = 1 <=> Tail(s) = <<>>
  BY <1>1, <1>2, <1>4
<1> QED
  BY <1>1, <1>2, <1>3, <1>6, <1>7 DEF s, InputRead

\* What is left on the queue: the frame read apart, all that was there.
LEMMA InputLeft ==
  ASSUME NEW h, NEW g, InputRead(h, g)
  PROVE  \A k : Posted(h, k) <=> Posted(g, k) \/ (h.in[1].t = "input" /\ h.in[1].turn = k)
<1> DEFINE l == Len(h.in)
<1>1. l \in Nat \ {0} /\ Len(g.in) = l - 1 /\ \A i \in 1..l - 1 : g.in[i] = h.in[i + 1]
  BY DEF InputRead
<1>2. \A i \in 1..l - 1 : i + 1 \in 1..l
  BY <1>1
<1>3. \A i \in 1..l : i = 1 \/ (i - 1 \in 1..l - 1 /\ (i - 1) + 1 = i)
  BY <1>1
<1>4. 1 \in 1..l
  BY <1>1
<1>5. ASSUME NEW k PROVE Posted(h, k) <=> Posted(g, k) \/ (h.in[1].t = "input" /\ h.in[1].turn = k)
  <2>1. ASSUME Posted(h, k) PROVE Posted(g, k) \/ (h.in[1].t = "input" /\ h.in[1].turn = k)
    <3>1. PICK i \in 1..l : h.in[i].t = "input" /\ h.in[i].turn = k
      BY <2>1 DEF Posted
    <3>2. CASE i = 1
      BY <3>1, <3>2
    <3>3. CASE i # 1
      <4>1. i - 1 \in 1..Len(g.in) /\ g.in[i - 1] = h.in[i]
        BY <1>1, <1>3, <3>3
      <4> QED
        BY <3>1, <4>1 DEF Posted
    <3> QED
      BY <3>2, <3>3
  <2>2. ASSUME Posted(g, k) PROVE Posted(h, k)
    BY <1>1, <1>2, <2>2 DEF Posted
  <2>3. ASSUME h.in[1].t = "input", h.in[1].turn = k PROVE Posted(h, k)
    BY <1>4, <2>3 DEF Posted
  <2> QED
    BY <2>1, <2>2, <2>3
<1> QED
  BY <1>5

LEMMA NewestLeft ==
  ASSUME NEW h, NEW g, InputRead(h, g), NEW n, Len(h.in) # 1, IsFrame(h.in[Len(h.in)], "input", n),
         \A i \in 1..Len(h.in) - 1 : h.in[i].t = "input" => h.in[i].turn # n
  PROVE  /\ g.in # <<>> /\ IsFrame(g.in[Len(g.in)], "input", n)
         /\ \A i \in 1..Len(g.in) - 1 : g.in[i].t = "input" => g.in[i].turn # n
         /\ h.in[1].t = "input" => h.in[1].turn # n
<1> DEFINE l == Len(h.in)
<1>1. l \in Nat \ {0} /\ l # 1 /\ Len(g.in) = l - 1 /\ \A i \in 1..l - 1 : g.in[i] = h.in[i + 1]
  BY DEF InputRead
<1>2. l - 1 \in 1..l - 1 /\ (l - 1) + 1 = l /\ 1 \in 1..l - 1
  <2>1. l \in Nat \ {0} /\ l # 1
    BY <1>1
  <2> HIDE DEF l
  <2> QED
    BY <2>1
<1>3. g.in[l - 1] = h.in[l]
  BY <1>1, <1>2
<1>4. \A i \in 1..(l - 1) - 1 : i \in 1..l - 1 /\ i + 1 \in 1..l - 1
  BY <1>1
<1>5. \A i \in 1..(l - 1) - 1 : g.in[i] = h.in[i + 1]
  BY <1>1, <1>4
<1>6. g.in # <<>>
  BY DEF InputRead
<1> QED
  BY <1>1, <1>2, <1>3, <1>4, <1>5, <1>6

LEMMA CancelServes ==
  ASSUME NEW h, NEW g, InputRead(h, g), h.in[1].t # "input",
         g.net = h.net, g.out = h.out, g.task.pc = h.task.pc, g.task.turn = h.task.turn
  PROVE  Serves(h, g)
<1>1. \A k : (AtWork(g, k) <=> AtWork(h, k)) /\ (Told(g, k) <=> Told(h, k))
  BY DEF AtWork, Told
<1>2. \A k : Posted(g, k) => Posted(h, k)
  BY InputLeft
<1>3. h.in # <<>>
  BY DEF InputRead
<1>4. ASSUME NEW p, NEW n, Queued(p, h, n) PROVE Queued(p, g, n)
  <2>1. Len(h.in) # 1
    BY <1>4 DEF Queued, IsFrame
  <2>2. /\ IsFrame(h.in[Len(h.in)], "input", n)
        /\ \A i \in 1..Len(h.in) - 1 : h.in[i].t = "input" => h.in[i].turn # n
    BY <1>4 DEF Queued
  <2>3. /\ g.in # <<>> /\ IsFrame(g.in[Len(g.in)], "input", n)
        /\ \A i \in 1..Len(g.in) - 1 : g.in[i].t = "input" => g.in[i].turn # n
    BY <2>1, <2>2, NewestLeft
  <2> QED
    BY <1>1, <1>4, <2>3 DEF Queued
<1>5. ASSUME NEW p, NEW n, Underway(p, h, n) PROVE Underway(p, g, n)
  BY <1>3, <1>4, <1>5 DEF Underway, Worked, HalfTold, AllTold, TurnedDown
<1> QED
  BY <1>1, <1>2, <1>3, <1>5 DEF Serves, Carries, Drained

LEMMA RefuseServes ==
  ASSUME NEW h, NEW g, InputRead(h, g), h.in[1].t = "input", g.task = h.task,
         NEW e, Grown(h.out, g.out, e), e.t = "error", e.turn = h.in[1].turn
  PROVE  Serves(h, g)
<1>1. \A k : AtWork(g, k) <=> AtWork(h, k)
  BY DEF AtWork
<1>2. \A k : Posted(h, k) <=> Posted(g, k) \/ h.in[1].turn = k
  BY InputLeft
<1>3. \A k : Told(g, k) <=> Told(h, k) \/ e.turn = k
  <2>1. /\ \A i \in 1..Len(g.out) : (i \in 1..Len(h.out) /\ g.out[i] = h.out[i]) \/ g.out[i] = e
        /\ \A i \in 1..Len(h.out) : i \in 1..Len(g.out) /\ g.out[i] = h.out[i]
        /\ Len(h.out) + 1 \in 1..Len(g.out) /\ g.out[Len(h.out) + 1] = e
    BY GrownIndex DEF Grown
  <2> QED
    BY <2>1 DEF Told
<1>4. h.in # <<>>
  BY DEF InputRead
<1>5. ASSUME NEW p, NEW n, Queued(p, h, n) PROVE Underway(p, g, n)
  <2>1. CASE Len(h.in) = 1
    <3>1. h.in[1].turn = n /\ g.in = <<>>
      BY <1>5, <2>1 DEF Queued, IsFrame, InputRead
    <3>2. Len(h.out) + 1 \in 1..Len(g.out) /\ g.out[Len(h.out) + 1] = e
      BY GrownIndex DEF Grown
    <3>3. \A j \in 1..Len(g.out) : g.out[j].turn = n => j = Len(h.out) + 1
      <4>1. ~Told(h, n)
        BY <1>5 DEF Queued
      <4>2. \A i \in 1..Len(g.out) : (i \in 1..Len(h.out) /\ g.out[i] = h.out[i]) \/ i = Len(h.out) + 1
        BY GrownIndex
      <4> QED
        BY <4>1, <4>2 DEF Told
    <3>4. ~AtWork(g, n) /\ ~Received(p, n)
      BY <1>1, <1>5 DEF Queued
    <3>5. TurnedDown(p, g, n)
      BY <3>1, <3>2, <3>3, <3>4 DEF TurnedDown, IsFrame
    <3> QED
      BY <3>5 DEF Underway
  <2>2. CASE Len(h.in) # 1
    <3>0. /\ IsFrame(h.in[Len(h.in)], "input", n)
          /\ \A i \in 1..Len(h.in) - 1 : h.in[i].t = "input" => h.in[i].turn # n
      BY <1>5 DEF Queued
    <3>1. /\ g.in # <<>> /\ IsFrame(g.in[Len(g.in)], "input", n)
          /\ \A i \in 1..Len(g.in) - 1 : g.in[i].t = "input" => g.in[i].turn # n
          /\ h.in[1].t = "input" => h.in[1].turn # n
      BY <2>2, <3>0, NewestLeft
    <3>2. Queued(p, g, n)
      BY <1>1, <1>3, <1>5, <3>1 DEF Queued
    <3> QED
      BY <3>2 DEF Underway
  <2> QED
    BY <2>1, <2>2
<1>6. ASSUME NEW p, NEW n, Underway(p, h, n) PROVE Underway(p, g, n)
  BY <1>4, <1>5, <1>6 DEF Underway, Worked, HalfTold, AllTold, TurnedDown
<1> QED
  BY <1>1, <1>2, <1>3, <1>4, <1>6 DEF Serves, Carries, Drained

LEMMA StartServes ==
  ASSUME NEW h, NEW g, InputRead(h, g), h.in[1].t = "input", h.task.pc = "none", g.out = h.out,
         g.task.pc = "start", g.task.turn = h.in[1].turn, ~g.task.cancelled
  PROVE  Serves(h, g)
<1>1. \A k : (AtWork(g, k) <=> k = h.in[1].turn) /\ ~AtWork(h, k)
  BY DEF AtWork
<1>2. \A k : Posted(h, k) <=> Posted(g, k) \/ h.in[1].turn = k
  BY InputLeft
<1>3. \A k : Told(g, k) <=> Told(h, k)
  BY DEF Told
<1>4. h.in # <<>>
  BY DEF InputRead
<1>5. ASSUME NEW p, NEW n, Queued(p, h, n) PROVE Underway(p, g, n)
  <2>1. CASE Len(h.in) = 1
    <3>1. h.in[1].turn = n /\ g.in = <<>>
      BY <1>5, <2>1 DEF Queued, IsFrame, InputRead
    <3>2. Worked(p, g, n)
      BY <1>1, <1>3, <1>5, <3>1 DEF Queued, Worked
    <3> QED
      BY <3>2 DEF Underway
  <2>2. CASE Len(h.in) # 1
    <3>0. /\ IsFrame(h.in[Len(h.in)], "input", n)
          /\ \A i \in 1..Len(h.in) - 1 : h.in[i].t = "input" => h.in[i].turn # n
      BY <1>5 DEF Queued
    <3>1. /\ g.in # <<>> /\ IsFrame(g.in[Len(g.in)], "input", n)
          /\ \A i \in 1..Len(g.in) - 1 : g.in[i].t = "input" => g.in[i].turn # n
          /\ h.in[1].t = "input" => h.in[1].turn # n
      BY <2>2, <3>0, NewestLeft
    <3>2. Queued(p, g, n)
      BY <1>1, <1>3, <1>5, <3>1 DEF Queued
    <3> QED
      BY <3>2 DEF Underway
  <2> QED
    BY <2>1, <2>2
<1>6. ASSUME NEW p, NEW n, Underway(p, h, n) PROVE Underway(p, g, n)
  BY <1>4, <1>5, <1>6 DEF Underway, Worked, HalfTold, AllTold, TurnedDown
<1> QED
  BY <1>1, <1>2, <1>3, <1>4, <1>6 DEF Serves, Carries, Drained

\* The task goes on.
LEMMA WorkServes ==
  ASSUME NEW h, NEW g, g.in = h.in, g.out = h.out, h.task.pc \notin {"none", "rest"},
         g.task.pc \notin {"none", "rest"}, g.task.turn = h.task.turn, g.task.cancelled = h.task.cancelled
  PROVE  Serves(h, g)
<1>1. \A k : (AtWork(g, k) <=> AtWork(h, k)) /\ (Posted(g, k) <=> Posted(h, k)) /\ (Told(g, k) <=> Told(h, k))
  BY DEF AtWork, Posted, Told
<1>2. ASSUME NEW p, NEW n, Underway(p, h, n) PROVE Underway(p, g, n)
  BY <1>1, <1>2 DEF Underway, Queued, Worked, HalfTold, AllTold, TurnedDown
<1> QED
  BY <1>1, <1>2 DEF Serves, Carries, Drained

\* A frame of the task's turn goes out.
LEMMA TellServes ==
  ASSUME NEW h, NEW g, g.in = h.in, h.task.pc # "none", NEW f, Grown(h.out, g.out, f), f.turn = h.task.turn,
         \/ f.t = "delta" /\ h.task.pc = "reply" /\ g.task.pc = "rest" /\ g.task.turn = h.task.turn
            /\ ~h.task.cancelled /\ ~g.task.cancelled
         \/ f.t = "done" /\ h.task.pc = "rest" /\ g.task.pc = "none"
         \/ f.t = "error" /\ h.task.pc = "fail" /\ g.task.pc = "none"
  PROVE  Serves(h, g)
<1> DEFINE m == Len(h.out)
<1>1. \A k : AtWork(h, k) <=> k = f.turn
  BY DEF AtWork
<1>2. \A k : AtWork(g, k) => k = f.turn
  BY DEF AtWork
<1>3. \A k : Posted(g, k) <=> Posted(h, k)
  BY DEF Posted
<1>4. /\ \A i \in 1..Len(g.out) : (i \in 1..m /\ g.out[i] = h.out[i]) \/ (i = m + 1 /\ g.out[i] = f)
      /\ \A i \in 1..m : i \in 1..Len(g.out) /\ g.out[i] = h.out[i]
      /\ m + 1 \in 1..Len(g.out) /\ g.out[m + 1] = f /\ g.out[Len(g.out)] = f /\ Len(g.out) = m + 1
      /\ Len(g.out) - 1 = m /\ m \in Nat /\ g.out # <<>>
  BY GrownIndex DEF Grown
<1>5. \A k : Told(g, k) <=> Told(h, k) \/ k = f.turn
  BY <1>4 DEF Told
<1>6. ASSUME NEW p, NEW n, Queued(p, h, n) PROVE Queued(p, g, n)
  BY <1>1, <1>2, <1>5, <1>6 DEF Queued
<1>7. ASSUME NEW p, NEW n, TurnedDown(p, h, n) PROVE TurnedDown(p, g, n)
  <2>1. n # f.turn
    BY <1>1, <1>7 DEF TurnedDown
  <2>2. PICK i \in 1..m : IsFrame(h.out[i], "error", n) /\ \A j \in 1..m : h.out[j].turn = n => i = j
    BY <1>7 DEF TurnedDown
  <2>3. \A j \in 1..Len(g.out) : g.out[j].turn = n => i = j
    BY <1>4, <2>1, <2>2
  <2> QED
    BY <1>2, <1>4, <1>7, <2>1, <2>2, <2>3 DEF TurnedDown
<1>8. ASSUME NEW p, NEW n, Worked(p, h, n) PROVE HalfTold(p, g, n) \/ TurnedDown(p, g, n)
  <2>1. n = f.turn /\ ~Told(h, n) /\ ~Received(p, n) /\ g.in = <<>> /\ h.task.pc # "rest"
    BY <1>1, <1>8 DEF Worked
  <2>2. CASE f.t = "delta"
    <3>1. OnlyLast(g.out, 1, n)
      BY <1>4, <2>1 DEF OnlyLast, Told
    <3>2. AtWork(g, n) /\ ~g.task.cancelled /\ g.task.pc = "rest"
      BY <2>1, <2>2 DEF AtWork
    <3>3. HalfTold(p, g, n)
      BY <1>4, <2>1, <2>2, <3>1, <3>2 DEF HalfTold, IsFrame
    <3> QED
      BY <3>3
  <2>3. CASE f.t = "error"
    <3>1. ~AtWork(g, n)
      BY <2>3 DEF AtWork
    <3>2. \A j \in 1..Len(g.out) : g.out[j].turn = n => m + 1 = j
      BY <1>4, <2>1 DEF Told
    <3>3. TurnedDown(p, g, n)
      BY <1>4, <2>1, <2>3, <3>1, <3>2 DEF TurnedDown, IsFrame
    <3> QED
      BY <3>3
  <2> QED
    BY <2>1, <2>2, <2>3
<1>9. ASSUME NEW p, NEW n, HalfTold(p, h, n) PROVE AllTold(p, g, n)
  <2>1. n = f.turn /\ f.t = "done" /\ g.task.pc = "none" /\ g.in = <<>>
    BY <1>1, <1>9 DEF HalfTold
  <2>2. CASE Received(p, n) /\ h.out = <<>>
    <3>1. Len(g.out) = 1
      BY <1>4, <2>2
    <3> QED
      BY <1>4, <2>1, <2>2, <3>1 DEF AllTold, IsFrame
  <2>3. CASE ~Received(p, n) /\ h.out # <<>> /\ IsFrame(h.out[m], "delta", n) /\ OnlyLast(h.out, 1, n)
    <3>1. m # 0
      <4>1. IsFrame(h.out[m], "delta", n) /\ h.out # <<>>
        BY <2>3
      <4> QED
        BY <1>4, <4>1
    <3>2. m \in 1..m /\ Len(g.out) > 1
      BY <1>4, <3>1
    <3>3. g.out[Len(g.out) - 1] = h.out[m]
      BY <1>4, <3>2
    <3>4. OnlyLast(g.out, 2, n)
      <4>1. Len(g.out) - 2 = m - 1 /\ \A i \in 1..m - 1 : i \in 1..m
        BY <1>4
      <4> QED
        BY <1>4, <2>3, <4>1 DEF OnlyLast
    <3> QED
      BY <1>4, <2>1, <2>3, <3>2, <3>3, <3>4 DEF AllTold, IsFrame
  <2> QED
    BY <1>9, <2>2, <2>3 DEF HalfTold
<1>10. ASSUME NEW p, NEW n, Underway(p, h, n) PROVE Underway(p, g, n)
  BY <1>6, <1>7, <1>8, <1>9, <1>10 DEF Underway, AllTold
<1>11. \A k : Carries(g, k) => Carries(h, k)
  BY <1>1, <1>2, <1>3, <1>5 DEF Carries
<1> QED
  BY <1>10, <1>11 DEF Serves, Drained

\* A task that was cancelled goes.
LEMMA CancelledServes ==
  ASSUME NEW h, NEW g, g.in = h.in, g.out = h.out, h.task.pc # "none", h.task.cancelled, g.task.pc = "none"
  PROVE  Serves(h, g)
<1>1. \A k : ~AtWork(g, k) /\ (Posted(g, k) <=> Posted(h, k)) /\ (Told(g, k) <=> Told(h, k))
  BY DEF AtWork, Posted, Told
<1>2. ASSUME NEW p, NEW n, Underway(p, h, n) PROVE Underway(p, g, n)
  BY <1>1, <1>2 DEF Underway, Queued, Worked, HalfTold, AllTold, TurnedDown
<1> QED
  BY <1>1, <1>2 DEF Serves, Carries, Drained

\* The turns that a connection holds are numbers.
Numbered(h) ==
  /\ Len(h.in) \in Nat /\ \A i \in 1..Len(h.in) : h.in[i].turn \in Nat
  /\ h.task.turn \in Nat

LEMMA ConnNumbers ==
  ASSUME NEW h \in ChatConn
  PROVE  Numbered(h)
<1>1. h.in \in Seq(InFrames) /\ h.task \in ChatTask
  BY DEF ChatConn
<1>2. Len(h.in) \in Nat /\ \A i \in 1..Len(h.in) : h.in[i] \in InFrames
  BY <1>1, LenProperties, ElementOfSeq
<1> QED
  BY <1>1, <1>2 DEF Numbered, InFrames, ChatTask

\* The same frames, or those behind the first, or the first of them.
LEMMA OrderLess ==
  ASSUME NEW h, NEW g, Numbered(h), NEW n \in Nat, NEW m \in Nat, n <= m, NEW done \in SUBSET Nat,
         InOrder(h, n, done), NEW d \in {0, 1},
         \A i \in 1..Len(g.in) : i + d \in 1..Len(h.in) /\ g.in[i] = h.in[i + d],
         g.task.pc # "none" => h.task.pc # "none" /\ g.task.turn = h.task.turn,
         g.net = "new" => g = h
  PROVE  InOrder(g, m, done)
<1>1. \A i \in 1..Len(g.in) : g.in[i].t = "input" =>
        /\ g.in[i].turn \in Nat /\ g.in[i].turn <= n /\ g.in[i].turn <= m
        /\ \A k \in done : k < g.in[i].turn
  BY DEF InOrder, Numbered
<1>2. ASSUME NEW i \in 1..Len(g.in), NEW j \in 1..Len(g.in), i < j, g.in[i].t = "input", g.in[j].t = "input"
      PROVE  g.in[i].turn < g.in[j].turn
  <2>1. i + d < j + d
    BY <1>2
  <2> QED
    BY <1>2, <2>1 DEF InOrder
<1>3. g.task.pc # "none" =>
        /\ g.task.turn <= m
        /\ \A i \in 1..Len(g.in) : g.in[i].t = "input" => g.task.turn < g.in[i].turn
        /\ \A k \in done : k < g.task.turn
  <2> SUFFICES ASSUME g.task.pc # "none"
               PROVE  /\ g.task.turn <= m
                      /\ \A i \in 1..Len(g.in) : g.in[i].t = "input" => g.task.turn < g.in[i].turn
                      /\ \A k \in done : k < g.task.turn
    OBVIOUS
  <2>1. /\ h.task.turn \in Nat /\ h.task.turn <= n /\ g.task.turn = h.task.turn
        /\ \A k \in done : k < h.task.turn
    BY DEF InOrder, Numbered
  <2>2. \A i \in 1..Len(h.in) : h.in[i].t = "input" => h.task.turn < h.in[i].turn
    BY DEF InOrder
  <2>3. \A i \in 1..Len(g.in) : g.in[i].t = "input" => g.task.turn < g.in[i].turn
    BY <2>1, <2>2
  <2>4. g.task.turn <= m
    BY <2>1
  <2> QED
    BY <2>1, <2>3, <2>4
<1>4. \A k \in done : k <= m
  BY DEF InOrder
<1>5. g.net = "new" => done = {} /\ Unused(g)
  BY DEF InOrder
<1> QED
  BY <1>1, <1>2, <1>3, <1>4, <1>5 DEF InOrder

LEMMA OrderSame ==
  ASSUME NEW h, NEW g, Numbered(h), NEW n \in Nat, NEW m \in Nat, n <= m, NEW done \in SUBSET Nat,
         InOrder(h, n, done), g.in = h.in,
         g.task.pc # "none" => h.task.pc # "none" /\ g.task.turn = h.task.turn,
         g.net = "new" => g = h
  PROVE  InOrder(g, m, done)
<1> DEFINE l == Len(h.in)
<1>1. l \in Nat
  BY DEF Numbered
<1>2. \A i \in 1..l : i + 0 = i
  BY <1>1
<1>3. \A i \in 1..Len(g.in) : i + 0 \in 1..Len(h.in) /\ g.in[i] = h.in[i + 0]
  BY <1>2
<1> QED
  BY <1>3, OrderLess

\* One more frame: that of a new turn, or one of no turn.
LEMMA OrderGrows ==
  ASSUME NEW h, NEW g, Numbered(h), NEW n \in Nat, NEW m \in Nat, n <= m, NEW done \in SUBSET Nat,
         InOrder(h, n, done), g.task = h.task, g.net # "new",
         NEW f, Grown(h.in, g.in, f), f.t = "input" => f.turn = m /\ n < m
  PROVE  InOrder(g, m, done)
<1>1. \A i \in 1..Len(g.in) : (i \in 1..Len(h.in) /\ g.in[i] = h.in[i]) \/ (i = Len(h.in) + 1 /\ g.in[i] = f)
  BY GrownIndex
<1>2. ASSUME NEW i \in 1..Len(g.in), g.in[i].t = "input"
      PROVE  g.in[i].turn \in Nat /\ g.in[i].turn <= m /\ \A k \in done : k < g.in[i].turn
  <2>1. CASE i \in 1..Len(h.in) /\ g.in[i] = h.in[i]
    BY <1>2, <2>1 DEF InOrder, Numbered
  <2>2. CASE g.in[i] = f
    <3>1. g.in[i].turn = m /\ n < m
      BY <1>2, <2>2
    <3>2. \A k \in done : k \in Nat /\ k <= n
      BY DEF InOrder
    <3> QED
      BY <3>1, <3>2
  <2> QED
    BY <1>1, <2>1, <2>2
<1>3. ASSUME NEW i \in 1..Len(g.in), NEW j \in 1..Len(g.in), i < j, g.in[i].t = "input", g.in[j].t = "input"
      PROVE  g.in[i].turn < g.in[j].turn
  <2>0. Len(h.in) \in Nat
    BY DEF Numbered
  <2>1. i \in 1..Len(h.in) /\ g.in[i] = h.in[i]
    BY <1>1, <1>3, <2>0
  <2>2. h.in[i].turn \in Nat /\ h.in[i].turn <= n
    BY <1>3, <2>1 DEF InOrder, Numbered
  <2>3. CASE j \in 1..Len(h.in) /\ g.in[j] = h.in[j]
    BY <1>3, <2>1, <2>3 DEF InOrder
  <2>4. CASE g.in[j] = f
    BY <1>3, <2>1, <2>2, <2>4
  <2> QED
    BY <1>1, <2>3, <2>4
<1>4. ASSUME g.task.pc # "none"
      PROVE  /\ g.task.turn <= m
             /\ \A i \in 1..Len(g.in) : g.in[i].t = "input" => g.task.turn < g.in[i].turn
             /\ \A k \in done : k < g.task.turn
  <2>1. /\ h.task.turn \in Nat /\ h.task.turn <= n /\ (\A k \in done : k < h.task.turn)
        /\ \A i \in 1..Len(h.in) : h.in[i].t = "input" => h.task.turn < h.in[i].turn
    BY <1>4 DEF InOrder, Numbered
  <2>2. ASSUME NEW i \in 1..Len(g.in), g.in[i].t = "input" PROVE h.task.turn < g.in[i].turn
    BY <1>1, <2>1, <2>2
  <2> QED
    BY <2>1, <2>2
<1>5. \A k \in done : k <= m
  BY DEF InOrder
<1> QED
  BY <1>2, <1>3, <1>4, <1>5 DEF InOrder

\* The frames of what waited for a socket that opens.
LEMMA OrderOpens ==
  ASSUME NEW p \in ChatTab, NEW h, NEW g, WaitingOf(p), NEW done, InOrder(h, p.turn, done), Unused(h),
         g.task = h.task, g.net = "up", Len(g.in) = Len(p.waiting),
         \A i \in 1..Len(p.waiting) : g.in[i].t = "input" /\ g.in[i].turn = p.waiting[i]
  PROVE  InOrder(g, p.turn, done)
<1>1. done = {} /\ g.task.pc = "none"
  BY DEF InOrder, Unused, Drained
<1>2. \A i \in 1..Len(p.waiting) : p.waiting[i] <= p.turn
  BY DEF WaitingOf, ChatTab
<1> QED
  BY <1>1, <1>2 DEF InOrder, WaitingOf

\* The first frame becomes the task.
LEMMA OrderStarts ==
  ASSUME NEW h, NEW g, Numbered(h), NEW n \in Nat, NEW done \in SUBSET Nat, InOrder(h, n, done),
         InputRead(h, g), h.in[1].t = "input", g.task.turn = h.in[1].turn, g.net # "new"
  PROVE  InOrder(g, n, done)
<1> DEFINE l == Len(h.in)
<1>1. l \in Nat \ {0} /\ Len(g.in) = l - 1 /\ \A i \in 1..l - 1 : g.in[i] = h.in[i + 1]
  BY DEF InputRead
<1>2. 1 \in 1..l /\ \A i \in 1..l - 1 : i + 1 \in 1..l /\ 1 < i + 1
  BY <1>1
<1>3. \A i, j \in 1..l - 1 : i < j => i + 1 < j + 1
  BY <1>1
<1>4. \A i \in 1..l : h.in[i].t = "input" => h.in[i].turn <= n /\ \A k \in done : k < h.in[i].turn
  BY DEF InOrder
<1>5. \A i, j \in 1..l : i < j /\ h.in[i].t = "input" /\ h.in[j].t = "input" => h.in[i].turn < h.in[j].turn
  BY DEF InOrder
<1>6. \A k \in done : k <= n
  BY DEF InOrder
<1> HIDE DEF l
<1>7. \A i \in 1..Len(g.in) : g.in[i].t = "input" =>
        /\ g.in[i].turn <= n /\ \A k \in done : k < g.in[i].turn
        /\ g.task.turn < g.in[i].turn
  BY <1>1, <1>2, <1>4, <1>5
<1>8. \A i, j \in 1..Len(g.in) : i < j /\ g.in[i].t = "input" /\ g.in[j].t = "input" => g.in[i].turn < g.in[j].turn
  <2> SUFFICES ASSUME NEW i \in 1..l - 1, NEW j \in 1..l - 1, i < j, g.in[i].t = "input", g.in[j].t = "input"
               PROVE  g.in[i].turn < g.in[j].turn
    BY <1>1
  <2>1. i + 1 \in 1..l /\ j + 1 \in 1..l /\ i + 1 < j + 1 /\ g.in[i] = h.in[i + 1] /\ g.in[j] = h.in[j + 1]
    BY <1>1, <1>2, <1>3
  <2> QED
    BY <1>5, <2>1
<1>9. g.task.turn <= n /\ \A k \in done : k < g.task.turn
  BY <1>2, <1>4
<1> QED
  BY <1>6, <1>7, <1>8, <1>9 DEF InOrder

\* The task is over, and its turn behind.
LEMMA OrderEnds ==
  ASSUME NEW h, NEW g, Numbered(h), NEW n \in Nat, NEW done \in SUBSET Nat, InOrder(h, n, done),
         h.task.pc # "none", g.task.pc = "none", g.in = h.in, g.net = h.net,
         NEW more, more = done \cup {h.task.turn}
  PROVE  InOrder(g, n, more) /\ h.task.turn \notin done
<1>1. /\ h.task.turn \in Nat /\ h.task.turn <= n /\ (\A k \in done : k < h.task.turn)
      /\ \A i \in 1..Len(h.in) : h.in[i].t = "input" => h.task.turn < h.in[i].turn
  BY DEF InOrder, Numbered
<1>2. g.net # "new"
  BY DEF InOrder, Unused, Drained
<1>3. h.task.turn \notin done
  BY <1>1
<1>4. \A i \in 1..Len(g.in) : g.in[i].t = "input" => g.in[i].turn <= n /\ \A k \in more : k < g.in[i].turn
  BY <1>1 DEF InOrder
<1>5. \A k \in more : k <= n
  BY <1>1 DEF InOrder
<1> QED
  BY <1>2, <1>3, <1>4, <1>5 DEF InOrder

Link(t) == <<t, tab[t].gen>>

LEMMA BehindNumbers ==
  ASSUME RowsInv, NEW c
  PROVE  Behind(c) \in SUBSET Nat
<1> SUFFICES ASSUME NEW row \in audit.rows PROVE row.turn[2] \in Nat
  BY DEF Behind
<1>1. row \in [turn : Chat!Conns \X Nat, ok : BOOLEAN]
  BY DEF RowsInv
<1> QED
  BY <1>1

LEMMA LinkIs ==
  ASSUME ChatInv, NEW t \in Tabs
  PROVE  /\ Link(t) \in Chat!Conns /\ tab[t] \in ChatTab /\ conn[Link(t)] \in ChatConn
         /\ tab[t].gen \in Nat /\ TabInv(tab[t]) /\ LinkInv(tab[t], conn[Link(t)])
         /\ tab[t].turn \in Nat /\ Numbered(conn[Link(t)]) /\ Behind(Link(t)) \in SUBSET Nat
         /\ InOrder(conn[Link(t)], tab[t].turn, Behind(Link(t)))
<1>1. tab[t] \in ChatTab
  BY DEF ChatInv, PagesInv
<1>2. tab[t].gen \in 1..MaxDrops + 1
  BY <1>1 DEF ChatTab
<1>3. tab[t].gen \in Nat /\ tab[t].turn \in Nat
  BY <1>1, <1>2, ChatAssumption DEF ChatTab
<1>4. Link(t) \in Chat!Conns /\ Link(t)[1] = t
  BY <1>2 DEF Chat!Conns, Link
<1>5. conn[Link(t)] \in ChatConn
  BY <1>4 DEF ChatInv, PagesInv
<1>6. Behind(Link(t)) \in SUBSET Nat
  BY BehindNumbers DEF ChatInv
<1>7. InOrder(conn[Link(t)], tab[t].turn, Behind(Link(t)))
  BY <1>4 DEF ChatInv, RowsInv
<1> QED
  BY <1>1, <1>3, <1>4, <1>5, <1>6, <1>7, ConnNumbers DEF ChatInv, PagesInv, Link

\* The lock's holder is at its turn as long as no task moves.
LEMMA LockStays ==
  ASSUME LockInv, UNCHANGED <<holder, runs>>,
         \A c \in Chat!Conns :
           /\ conn'[c].task.pc = "turn" <=> conn[c].task.pc = "turn"
           /\ conn[c].task.pc = "turn" => conn'[c].task.turn = conn[c].task.turn
  PROVE  LockInv'
<1>1. holder' = holder /\ runs' = runs
  OBVIOUS
<1>2. ASSUME holder # Chat!NoOne
      PROVE  holder \in Chat!Conns /\ <<holder, conn'[holder].task.turn>> \in runs
  <2>1. holder \in Chat!Conns
    BY <1>2 DEF LockInv
  <2>2. conn[holder].task.pc = "turn"
    BY <2>1 DEF LockInv
  <2>3. Chat!Run(holder) \in runs
    BY <1>2 DEF LockInv
  <2> QED
    BY <2>1, <2>2, <2>3 DEF Chat!Run
<1>3. \A c \in Chat!Conns : conn'[c].task.pc = "turn" <=> holder = c
  BY DEF LockInv
<1> QED
  BY <1>1, <1>2, <1>3 DEF LockInv, Chat!NoOne, Chat!Run

\* A step of one page and of the connection it has.
LEMMA PageStep ==
  ASSUME ChatInv, NEW t \in Tabs, NEW q \in ChatTab, NEW g \in ChatConn,
         tab' = [tab EXCEPT ![t] = q], conn' = [conn EXCEPT ![Link(t)] = g], UNCHANGED <<holder, runs, audit>>,
         q.gen = tab[t].gen, TabInv(q) /\ LinkInv(q, g), g.task = conn[Link(t)].task,
         tab[t].turn <= q.turn, InOrder(g, q.turn, Behind(Link(t)))
  PROVE  ChatInv'
<1>1. Link(t) \in Chat!Conns /\ tab[t].gen \in Nat
  BY LinkIs
<1>2. tab \in [Tabs -> ChatTab] /\ conn \in [Chat!Conns -> ChatConn]
  BY DEF ChatInv, PagesInv
<1>3. tab' \in [Tabs -> ChatTab] /\ conn' \in [Chat!Conns -> ChatConn]
  BY <1>2
<1>4. tab'[t] = q /\ conn'[Link(t)] = g
  BY <1>1, <1>2
<1>5. \A u \in Tabs \ {t} : tab'[u] = tab[u]
  BY <1>2
<1>6. \A c \in Chat!Conns \ {Link(t)} : conn'[c] = conn[c]
  BY <1>2
<1>7. ASSUME NEW u \in Tabs PROVE TabInv(tab'[u]) /\ LinkInv(tab'[u], conn'[<<u, tab'[u].gen>>])
  <2>1. CASE u = t
    BY <1>4, <2>1 DEF Link
  <2>2. CASE u # t
    <3>1. <<u, tab[u].gen>> \in Chat!Conns
      BY LinkIs DEF Link
    <3>2. <<u, tab[u].gen>> # Link(t)
      BY <2>2 DEF Link
    <3>3. tab'[u] = tab[u] /\ conn'[<<u, tab[u].gen>>] = conn[<<u, tab[u].gen>>]
      BY <1>5, <1>6, <2>2, <3>1, <3>2
    <3> QED
      BY <3>3 DEF ChatInv, PagesInv
  <2> QED
    BY <2>1, <2>2
<1>8. ASSUME NEW c \in Chat!Conns, c[2] > tab'[c[1]].gen PROVE Unused(conn'[c])
  <2>1. c[1] \in Tabs /\ c[2] \in 1..MaxDrops + 1
    BY DEF Chat!Conns
  <2>2. tab'[c[1]].gen = tab[c[1]].gen
    BY <1>4, <1>5, <2>1
  <2>3. c # Link(t)
    <3> SUFFICES ASSUME c = Link(t) PROVE FALSE
      OBVIOUS
    <3>1. c[1] = t /\ c[2] = tab[t].gen
      BY DEF Link
    <3> QED
      BY <1>1, <1>8, <2>2, <3>1
  <2>4. conn'[c] = conn[c]
    BY <1>6, <2>3
  <2> QED
    BY <1>8, <2>2, <2>4 DEF ChatInv, PagesInv
<1>9. PagesInv'
  BY <1>3, <1>7, <1>8 DEF PagesInv
<1>10. \A c \in Chat!Conns : conn'[c].task = conn[c].task
  BY <1>4, <1>6
<1>11. LockInv'
  BY <1>10, LockStays DEF ChatInv
<1>12. \A c : Behind(c)' = Behind(c)
  BY DEF Behind
<1>13. ASSUME NEW c \in Chat!Conns PROVE InOrder(conn'[c], tab'[c[1]].turn, Behind(c)')
  <2>1. CASE c = Link(t)
    <3>1. c[1] = t
      BY <2>1 DEF Link
    <3> QED
      BY <1>4, <1>12, <2>1, <3>1
  <2>2. CASE c # Link(t)
    <3> DEFINE n == tab[c[1]].turn
    <3> DEFINE m == tab'[c[1]].turn
    <3> DEFINE h == conn[c]
    <3>1. c[1] \in Tabs
      BY DEF Chat!Conns
    <3>2. n \in Nat /\ m \in Nat /\ n <= m
      <4>1. n \in Nat
        BY <3>1, LinkIs
      <4>2. q.turn \in Nat
        BY DEF ChatTab
      <4> QED
        BY <1>4, <1>5, <3>1, <4>1, <4>2
    <3>3. InOrder(h, n, Behind(c)) /\ Behind(c) \in SUBSET Nat
      BY BehindNumbers DEF ChatInv, RowsInv
    <3>4. Numbered(h)
      BY <1>2, ConnNumbers
    <3> HIDE DEF n, m, h
    <3>5. InOrder(h, m, Behind(c))
      BY <3>2, <3>3, <3>4, OrderSame
    <3> QED
      BY <1>6, <1>12, <2>2, <3>5 DEF n, m, h
  <2> QED
    BY <2>1, <2>2
<1>14. RowsInv'
  BY <1>13 DEF ChatInv, RowsInv
<1> QED
  BY <1>9, <1>11, <1>14 DEF ChatInv

\* What was pending is on the page.
LEMMA FlushKeeps ==
  ASSUME NEW p \in ChatTab, NEW h, TabInv(p), LinkInv(p, h), NEW f, f = Chat!Flushed(p)
  PROVE  /\ f \in ChatTab /\ TabInv(f) /\ LinkInv(f, h) /\ f.pending = {}
         /\ SameSocket(p, f) /\ SameTurn(p, f) /\ SameReplies(p, f)
<1>1. LogOf(p)
  BY DEF TabInv
<1>2. f \in ChatTab /\ SameSocket(p, f) /\ SameTurn(p, f) /\ SameReplies(p, f) /\ Painted(p, f)
  BY <1>1, FlushedIs
<1>3. TabInv(f)
  BY <1>2, PaintedKeeps
<1>4. /\ f.answered = p.answered /\ (\A k : Received(f, k) <=> Received(p, k))
      /\ \A k : Timed(f, k) => Timed(p, k)
  BY <1>2 DEF SameReplies, Painted, Timed
<1>5. LinkInv(f, h)
  BY <1>2, <1>4, LinkSame
<1> QED
  BY <1>2, <1>3, <1>5 DEF Painted

LEMMA PaintStep ==
  ASSUME ChatInv, NEW t \in Tabs, Chat!Paint(t)
  PROVE  ChatInv'
<1> DEFINE p == tab[t]
<1> DEFINE h == conn[Link(t)]
<1> DEFINE q == Chat!Flushed(p)
<1>1. p \in ChatTab /\ h \in ChatConn /\ TabInv(p) /\ LinkInv(p, h)
  BY LinkIs
<1>2. tab' = [tab EXCEPT ![t] = q] /\ conn' = conn
  BY DEF Chat!Paint
<1>3. conn' = [conn EXCEPT ![Link(t)] = h]
  BY <1>2 DEF ChatInv, PagesInv
<1>a. UNCHANGED <<holder, runs, audit>>
  BY DEF Chat!Paint
<1>b. InOrder(h, p.turn, Behind(Link(t))) /\ p.turn \in Nat
  BY LinkIs
<1> HIDE DEF q, h
<1>4. q \in ChatTab /\ TabInv(q) /\ LinkInv(q, h) /\ q.gen = p.gen /\ q.turn = p.turn
  <2> HIDE DEF p
  <2>1. q = Chat!Flushed(p)
    BY DEF q
  <2> QED
    BY <1>1, <2>1, FlushKeeps DEF SameSocket, SameTurn
<1>5. h.task = conn[Link(t)].task /\ tab[t].turn <= q.turn /\ InOrder(h, q.turn, Behind(Link(t)))
  <2>1. p.turn <= p.turn
    BY <1>b
  <2> QED
    BY <1>b, <1>4, <2>1 DEF h
<1> QED
  BY <1>1, <1>2, <1>3, <1>4, <1>5, <1>a, PageStep

LEMMA GiveUpStep ==
  ASSUME ChatInv, NEW t \in Tabs, Chat!GiveUp(t)
  PROVE  ChatInv'
<1> DEFINE p == tab[t]
<1> DEFINE h == conn[Link(t)]
<1> DEFINE w == p.waiting
<1> DEFINE cut == IF p.streaming /\ Head(w) # p.turn THEN p.cut \cup {p.turn} ELSE p.cut
<1> DEFINE q == [p EXCEPT !.waiting = Tail(w), !.streaming = FALSE, !.cut = cut]
<1>1. p \in ChatTab /\ h \in ChatConn /\ TabInv(p) /\ LinkInv(p, h)
  BY LinkIs
<1>2. w # <<>> /\ tab' = [tab EXCEPT ![t] = q] /\ conn' = conn
  BY <1>1 DEF Chat!GiveUp, Chat!EndedBy, ChatTab
<1>3. conn' = [conn EXCEPT ![Link(t)] = h]
  BY <1>2 DEF ChatInv, PagesInv
<1>4. w \in Seq(Nat)
  BY <1>1 DEF ChatTab
<1>5. Tail(w) \in Seq(Nat) /\ Head(w) = w[1]
  BY <1>2, <1>4, HeadTailProperties
<1>6. p.turn \in Nat /\ p.cut \in SUBSET Nat
  BY <1>1 DEF ChatTab
<1>7. cut \in SUBSET Nat
  BY <1>6
<1>a. UNCHANGED <<holder, runs, audit>>
  BY DEF Chat!GiveUp
<1>b. InOrder(h, p.turn, Behind(Link(t))) /\ p.turn \in Nat
  BY LinkIs
<1> HIDE DEF p, h
<1>8. q \in ChatTab
  BY <1>1, <1>5, <1>7 DEF ChatTab
<1>9. /\ q.waiting = Tail(p.waiting) /\ q.streaming = FALSE /\ q.cut = cut /\ q.gen = p.gen /\ q.sock = p.sock
      /\ q.opened = p.opened /\ q.turn = p.turn /\ q.stopped = p.stopped /\ SameText(p, q) /\ SameReplies(p, q)
  BY <1>1 DEF ChatTab, SameText, SameReplies
<1> HIDE DEF q
<1>10. CutBy(p, q, p.waiting[1])
  BY <1>5, <1>9 DEF CutBy
<1>11. TabInv(q) /\ LinkInv(q, h)
  BY <1>1, <1>2, <1>8, <1>9, <1>10, GiveUpKeeps
<1>12. /\ h.task = conn[Link(t)].task /\ tab[t].turn <= q.turn /\ InOrder(h, q.turn, Behind(Link(t)))
       /\ q.gen = tab[t].gen
  <2>1. p.turn <= p.turn
    BY <1>b
  <2> QED
    BY <1>b, <1>9, <2>1 DEF p, h
<1> QED
  BY <1>1, <1>2, <1>3, <1>8, <1>11, <1>12, <1>a, PageStep

LEMMA TickStep ==
  ASSUME ChatInv, NEW t \in Tabs, Chat!Tick(t)
  PROVE  ChatInv'
<1> DEFINE p == tab[t]
<1> DEFINE h == conn[Link(t)]
<1> DEFINE first == p.timers[1]
<1>1. p \in ChatTab /\ h \in ChatConn /\ TabInv(p) /\ LinkInv(p, h)
  BY LinkIs
<1>2. p.timers # <<>> /\ conn' = conn
  BY DEF Chat!Tick
<1>3. conn' = [conn EXCEPT ![Link(t)] = h]
  BY <1>2 DEF ChatInv, PagesInv
<1>4. ASSUME NEW q, q.timers = Tail(p.timers) PROVE TimerFired(p, q) /\ q.timers \in Seq(ChatTimers)
  <2> HIDE DEF p
  <2> QED
    BY <1>1, <1>2, <1>4, TimerIsFired
<1>5. first \in ChatTimers /\ Head(p.timers) = first /\ Tail(p.timers) \in Seq(ChatTimers)
  <2> DEFINE q == [timers |-> Tail(p.timers)]
  <2>1. q.timers = Tail(p.timers)
    OBVIOUS
  <2> HIDE DEF q
  <2>2. TimerFired(p, q) /\ q.timers \in Seq(ChatTimers)
    BY <1>4, <2>1
  <2> QED
    BY <2>1, <2>2 DEF TimerFired
<1>6. p.turn \in Nat /\ p.cut \in SUBSET Nat /\ first.turn \in Nat /\ first.t \in {"text", "finish"}
      /\ first = [t |-> first.t, turn |-> first.turn]
  BY <1>1, <1>5 DEF ChatTab, ChatTimers
<1>a. UNCHANGED <<holder, runs, audit>>
  BY DEF Chat!Tick
<1>b. InOrder(h, p.turn, Behind(Link(t))) /\ p.turn \in Nat
  BY LinkIs
<1>7. CASE first.t = "finish"
  <2> DEFINE cut == IF p.streaming /\ first.turn # p.turn THEN p.cut \cup {p.turn} ELSE p.cut
  <2> DEFINE q == [p EXCEPT !.timers = Tail(p.timers), !.streaming = FALSE, !.cut = cut]
  <2>1. tab' = [tab EXCEPT ![t] = q]
    BY <1>1, <1>5, <1>7 DEF Chat!Tick, Chat!EndedBy, ChatTab
  <2>2. cut \in SUBSET Nat
    BY <1>6
  <2> HIDE DEF p, h, cut
  <2>3. q \in ChatTab
    BY <1>1, <1>5, <2>2 DEF ChatTab
  <2>4. /\ q.timers = Tail(p.timers) /\ q.streaming = FALSE /\ q.cut = cut /\ SameSocket(p, q)
        /\ q.turn = p.turn /\ q.stopped = p.stopped /\ SameText(p, q) /\ q.answered = p.answered
    BY <1>1 DEF ChatTab, SameText, SameSocket
  <2> HIDE DEF q
  <2>5. CutBy(p, q, first.turn) /\ TimerFired(p, q) /\ p.timers[1] = [t |-> "finish", turn |-> first.turn]
    BY <1>4, <1>6, <1>7, <2>4 DEF CutBy, cut
  <2>6. TabInv(q) /\ LinkInv(q, h)
    BY <1>1, <2>3, <2>4, <2>5, TickFinishKeeps
  <2>7. /\ h.task = conn[Link(t)].task /\ tab[t].turn <= q.turn /\ InOrder(h, q.turn, Behind(Link(t)))
        /\ q.gen = tab[t].gen
    <3>1. p.turn <= p.turn
      BY <1>b
    <3> QED
      BY <1>b, <2>4, <3>1 DEF p, h, SameSocket
  <2> QED
    BY <1>1, <1>3, <2>1, <2>3, <2>6, <2>7, <1>a, PageStep
<1>8. CASE first.t = "text"
  <2> DEFINE b == [who |-> "bot", of |-> {first.turn}]
  <2> DEFINE l == Append(p.log, b)
  <2> DEFINE q == [p EXCEPT !.timers = Tail(p.timers), !.log = l]
  <2>1. tab' = [tab EXCEPT ![t] = q]
    BY <1>1, <1>5, <1>8 DEF Chat!Tick, Chat!Bubble, ChatTab
  <2>2. b \in Bubbles /\ p.log \in Seq(Bubbles)
    BY <1>1, <1>6 DEF Bubbles, ChatTab
  <2>3. l \in Seq(Bubbles) /\ Grown(p.log, l, b)
    <3> HIDE DEF b
    <3> QED
      BY <2>2, AppendGrows
  <2> HIDE DEF p, h, l
  <2>4. q \in ChatTab
    BY <1>1, <1>5, <2>3 DEF ChatTab
  <2>5. /\ q.timers = Tail(p.timers) /\ q.log = l /\ SameSocket(p, q) /\ SameTurn(p, q)
        /\ q.bubble = p.bubble /\ q.pending = p.pending /\ q.answered = p.answered
    BY <1>1 DEF ChatTab, SameTurn, SameSocket
  <2> HIDE DEF q
  <2>6. TimerFired(p, q) /\ p.timers[1] = [t |-> "text", turn |-> first.turn]
    BY <1>4, <1>6, <1>8, <2>5
  <2>7. /\ Len(q.log) = Len(p.log) + 1 /\ \A i \in 1..Len(p.log) : q.log[i] = p.log[i]
        /\ q.log[Len(p.log) + 1] = [who |-> "bot", of |-> {first.turn}]
    BY <2>3, <2>5 DEF Grown
  <2> DEFINE n == first.turn
  <2>8. /\ p.timers[1] = [t |-> "text", turn |-> n] /\ q.log[Len(p.log) + 1] = [who |-> "bot", of |-> {n}]
    BY <2>6, <2>7
  <2> HIDE DEF n
  <2>9. TabInv(q) /\ LinkInv(q, h)
    BY <1>1, <2>4, <2>5, <2>6, <2>7, <2>8, TickTextKeeps
  <2>10. /\ h.task = conn[Link(t)].task /\ tab[t].turn <= q.turn /\ InOrder(h, q.turn, Behind(Link(t)))
        /\ q.gen = tab[t].gen
    <3>1. p.turn <= p.turn
      BY <1>b
    <3> QED
      BY <1>b, <2>5, <3>1 DEF p, h, SameSocket, SameTurn
  <2> QED
    BY <1>1, <1>3, <2>1, <2>4, <2>9, <2>10, <1>a, PageStep
<1> QED
  BY <1>6, <1>7, <1>8

LEMMA FunIsSeq ==
  ASSUME NEW S, NEW n \in Nat, NEW s \in [1..n -> S]
  PROVE  s \in Seq(S) /\ Len(s) = n
  OBVIOUS

\* The frames of what waited.
LEMMA FramesOf ==
  ASSUME NEW w \in Seq(Nat), NEW s, s = [k \in DOMAIN w |-> Chat!Frame("input", w[k])]
  PROVE  /\ s \in Seq(InFrames) /\ Len(s) = Len(w) /\ (s = <<>> <=> Len(s) = 0) /\ (w = <<>> <=> Len(w) = 0)
         /\ \A i \in 1..Len(w) : s[i].t = "input" /\ s[i].turn = w[i]
<1>1. Len(w) \in Nat /\ DOMAIN w = 1..Len(w) /\ \A i \in 1..Len(w) : w[i] \in Nat
  BY LenProperties, ElementOfSeq
<1>2. \A i \in 1..Len(w) : s[i] = [t |-> "input", turn |-> w[i], parts |-> 1]
  BY <1>1 DEF Chat!Frame
<1>3. \A i \in 1..Len(w) : s[i] \in InFrames /\ s[i].t = "input" /\ s[i].turn = w[i]
  BY <1>1, <1>2 DEF InFrames
<1>4. s = [i \in 1..Len(w) |-> s[i]]
  BY <1>1
<1> DEFINE n == Len(w)
<1>5. n \in Nat /\ s \in [1..n -> InFrames]
  BY <1>1, <1>3, <1>4
<1> HIDE DEF n
<1>6. s \in Seq(InFrames) /\ Len(s) = n
  BY <1>5
<1> QED
  BY <1>3, <1>6, EmptySeq DEF n

LEMMA OpenStep ==
  ASSUME ChatInv, NEW t \in Tabs, Chat!Open(t)
  PROVE  ChatInv'
<1> DEFINE p == tab[t]
<1> DEFINE c == Link(t)
<1> DEFINE h == conn[c]
<1> DEFINE s == [k \in DOMAIN p.waiting |-> Chat!Frame("input", p.waiting[k])]
<1> DEFINE q == [p EXCEPT !.sock = "open", !.opened = TRUE, !.waiting = <<>>]
<1> DEFINE g == [h EXCEPT !.net = "up", !.handler = "on", !.in = s]
<1>1. p \in ChatTab /\ h \in ChatConn /\ TabInv(p) /\ LinkInv(p, h) /\ c \in Chat!Conns
  BY LinkIs
<1>2. tab \in [Tabs -> ChatTab] /\ conn \in [Chat!Conns -> ChatConn]
  BY DEF ChatInv, PagesInv
<1>3. p.sock = "connecting" /\ tab' = [tab EXCEPT ![t] = q]
  BY <1>2 DEF Chat!Open
<1>4. conn' = [conn EXCEPT ![c] = g]
  BY <1>1, <1>2 DEF Chat!Open, Chat!Current, Link
<1>5. p.waiting \in Seq(Nat)
  BY <1>1 DEF ChatTab
<1>6. /\ s \in Seq(InFrames) /\ Len(s) = Len(p.waiting) /\ (s = <<>> <=> Len(s) = 0)
      /\ (p.waiting = <<>> <=> Len(p.waiting) = 0)
      /\ \A i \in 1..Len(p.waiting) : s[i].t = "input" /\ s[i].turn = p.waiting[i]
  BY <1>5, FramesOf
<1>a. InOrder(h, p.turn, Behind(c)) /\ p.turn \in Nat
  BY LinkIs
<1>b. UNCHANGED <<holder, runs, audit>>
  BY DEF Chat!Open
<1> HIDE DEF p, h, s
<1>7. q \in ChatTab /\ g \in ChatConn
  <2>1. <<>> \in Seq(Nat)
    OBVIOUS
  <2>2. q \in ChatTab
    BY <1>1, <2>1 DEF ChatTab
  <2>3. g \in ChatConn
    BY <1>1, <1>6 DEF ChatConn
  <2> QED
    BY <2>2, <2>3
<1>8. /\ SameTurn(p, q) /\ SameText(p, q) /\ SameReplies(p, q) /\ q.waiting = <<>> /\ q.opened = TRUE
      /\ q.sock = "open" /\ q.gen = p.gen
  BY <1>1 DEF ChatTab, SameTurn, SameText, SameReplies
<1>9. g.net = "up" /\ g.out = h.out /\ g.task = h.task /\ g.in = s
  BY <1>1 DEF ChatConn
<1> HIDE DEF q, g
<1>10. TabInv(q) /\ LinkInv(q, g)
  BY <1>1, <1>3, <1>6, <1>7, <1>8, <1>9, OpenKeepsTurns
<1>11. /\ g.task = conn[Link(t)].task /\ tab[t].turn <= q.turn /\ InOrder(g, q.turn, Behind(Link(t)))
       /\ q.gen = tab[t].gen
  <2>1. Unused(h) /\ WaitingOf(p)
    BY <1>1, <1>3 DEF LinkInv, SockInv, TabInv
  <2>2. q.turn = p.turn /\ p.turn <= p.turn
    BY <1>8, <1>a DEF SameTurn
  <2>3. InOrder(g, p.turn, Behind(c))
    BY <1>1, <1>6, <1>9, <1>a, <2>1, OrderOpens
  <2> QED
    BY <1>8, <1>9, <2>2, <2>3 DEF p, h
<1> QED
  BY <1>3, <1>4, <1>7, <1>10, <1>11, <1>b, PageStep

\* The start of what is on its way.
LEMMA PrefixIs ==
  ASSUME NEW S, NEW s \in Seq(S), NEW k \in 0..Len(s)
  PROVE  /\ SubSeq(s, 1, k) \in Seq(S) /\ Len(SubSeq(s, 1, k)) = k /\ k \in Nat
         /\ \A i \in 1..k : i \in 1..Len(s) /\ SubSeq(s, 1, k)[i] = s[i]
<1>1. Len(s) \in Nat
  BY LenProperties
<1>2. k \in Nat /\ \A i \in 1..k : i \in 1..Len(s)
  BY <1>1
<1>3. \A i \in 1..k : s[i] \in S
  BY <1>2, ElementOfSeq
<1>4. SubSeq(s, 1, k) \in Seq(S) /\ Len(SubSeq(s, 1, k)) = k
  BY <1>1, <1>2, <1>3, SubSeqProperties
<1>5. \A i \in 1..k : SubSeq(s, 1, k)[i] = s[i]
  BY <1>1, <1>2, SubSeqProperties
<1> QED
  BY <1>2, <1>4, <1>5

LEMMA DropStep ==
  ASSUME ChatInv, NEW t \in Tabs, Chat!Drop(t)
  PROVE  ChatInv'
<1> DEFINE p == tab[t]
<1> DEFINE c == Link(t)
<1> DEFINE h == conn[c]
<1> DEFINE q == [p EXCEPT !.sock = "backoff", !.hurt = p.hurt \/ p.streaming]
<1>1. p \in ChatTab /\ h \in ChatConn /\ TabInv(p) /\ LinkInv(p, h) /\ c \in Chat!Conns
  BY LinkIs
<1>2. tab \in [Tabs -> ChatTab] /\ conn \in [Chat!Conns -> ChatConn]
  BY DEF ChatInv, PagesInv
<1>3. p.sock # "off" /\ p.gen <= MaxDrops /\ tab' = [tab EXCEPT ![t] = q]
  BY <1>2 DEF Chat!Drop
<1>4. PICK k \in 0..Len(h.in) :
        conn' = [conn EXCEPT ![c].net = "cut", ![c].out = <<>>, ![c].in = SubSeq(@, 1, k)]
  BY DEF Chat!Drop, Chat!Current, Link
<1> DEFINE s == SubSeq(h.in, 1, k)
<1> DEFINE g == [h EXCEPT !.net = "cut", !.out = <<>>, !.in = s]
<1>5. conn' = [conn EXCEPT ![c] = g]
  BY <1>1, <1>2, <1>4
<1>a. InOrder(h, p.turn, Behind(c)) /\ p.turn \in Nat /\ Numbered(h) /\ Behind(c) \in SUBSET Nat
  BY LinkIs
<1>b. UNCHANGED <<holder, runs, audit>>
  BY DEF Chat!Drop
<1>6. s \in Seq(InFrames) /\ Len(s) = k /\ k \in Nat /\ \A i \in 1..k : i \in 1..Len(h.in) /\ s[i] = h.in[i]
  <2>1. h.in \in Seq(InFrames)
    BY <1>1 DEF ChatConn
  <2> QED
    BY <2>1, PrefixIs
<1> HIDE DEF p, h, s
<1>7. g \in ChatConn
  <2>1. <<>> \in Seq(OutFrames)
    OBVIOUS
  <2> QED
    BY <1>1, <1>6, <2>1 DEF ChatConn
<1>8. q \in ChatTab
  <2>1. (p.hurt \/ p.streaming) \in BOOLEAN
    OBVIOUS
  <2> QED
    BY <1>1, <2>1 DEF ChatTab
<1>9. /\ SameTurn(p, q) /\ SameText(p, q) /\ SameReplies(p, q) /\ q.waiting = p.waiting /\ q.opened = p.opened
      /\ q.sock = "backoff" /\ q.gen = p.gen
  BY <1>1 DEF ChatTab, SameTurn, SameText, SameReplies
<1>10. g.net = "cut" /\ g.in = s /\ g.task = h.task
  BY <1>1 DEF ChatConn
<1> HIDE DEF q, g
<1>11. SockInv(q, g)
  BY <1>9, <1>10 DEF SockInv
<1>12. TabInv(q) /\ LinkInv(q, g)
  BY <1>1, <1>3, <1>9, <1>10, <1>11, DownKeeps
<1>13. /\ g.task = conn[Link(t)].task /\ tab[t].turn <= q.turn /\ InOrder(g, q.turn, Behind(Link(t)))
       /\ q.gen = tab[t].gen
  <2>1. q.turn = p.turn /\ p.turn <= p.turn
    BY <1>9, <1>a DEF SameTurn
  <2>2. \A i \in 1..Len(g.in) : i + 0 \in 1..Len(h.in) /\ g.in[i] = h.in[i + 0]
    BY <1>6, <1>10
  <2>3. InOrder(g, p.turn, Behind(c))
    BY <1>10, <1>a, <2>1, <2>2, OrderLess
  <2> QED
    BY <1>9, <1>10, <2>1, <2>3 DEF p, h
<1> QED
  BY <1>3, <1>5, <1>7, <1>8, <1>12, <1>13, <1>b, PageStep

LEMMA LeaveStep ==
  ASSUME ChatInv, NEW t \in Tabs, Chat!Leave(t)
  PROVE  ChatInv'
<1> DEFINE p == tab[t]
<1> DEFINE c == Link(t)
<1> DEFINE h == conn[c]
<1> DEFINE q == [p EXCEPT !.sock = "off", !.waiting = <<>>, !.pending = {}, !.timers = <<>>, !.bubble = 0,
                          !.hurt = TRUE]
<1> DEFINE g == [h EXCEPT !.net = "cut", !.out = <<>>]
<1>1. p \in ChatTab /\ h \in ChatConn /\ TabInv(p) /\ LinkInv(p, h) /\ c \in Chat!Conns
  BY LinkIs
<1>2. tab \in [Tabs -> ChatTab] /\ conn \in [Chat!Conns -> ChatConn]
  BY DEF ChatInv, PagesInv
<1>3. tab' = [tab EXCEPT ![t] = q]
  BY <1>2 DEF Chat!Leave
<1>4. conn' = [conn EXCEPT ![c] = g]
  BY <1>1, <1>2 DEF Chat!Leave, Chat!Current, Link
<1>a. InOrder(h, p.turn, Behind(c)) /\ p.turn \in Nat /\ Numbered(h) /\ Behind(c) \in SUBSET Nat
  BY LinkIs
<1>b. UNCHANGED <<holder, runs, audit>>
  BY DEF Chat!Leave
<1> HIDE DEF p, h
<1>5. q \in ChatTab /\ g \in ChatConn
  <2>1. <<>> \in Seq(Nat) /\ <<>> \in Seq(ChatTimers) /\ {} \in SUBSET Nat /\ 0 \in Nat /\ <<>> \in Seq(OutFrames)
    OBVIOUS
  <2>2. q \in ChatTab
    BY <1>1, <2>1 DEF ChatTab
  <2>3. g \in ChatConn
    BY <1>1, <2>1 DEF ChatConn
  <2> QED
    BY <2>2, <2>3
<1>6. /\ SameTurn(p, q) /\ q.log = p.log /\ q.answered = p.answered /\ q.waiting = <<>> /\ q.pending = {}
      /\ q.timers = <<>> /\ q.bubble = 0 /\ q.sock = "off" /\ q.gen = p.gen
  BY <1>1 DEF ChatTab, SameTurn
<1>7. g.net = "cut" /\ g.in = h.in /\ g.task = h.task
  BY <1>1 DEF ChatConn
<1> HIDE DEF q, g
<1>8. TabInv(q) /\ LinkInv(q, g)
  BY <1>1, <1>6, <1>7, LeaveKeeps
<1>9. /\ g.task = conn[Link(t)].task /\ tab[t].turn <= q.turn /\ InOrder(g, q.turn, Behind(Link(t)))
      /\ q.gen = tab[t].gen
  <2>1. q.turn = p.turn /\ p.turn <= p.turn
    BY <1>6, <1>a DEF SameTurn
  <2>2. InOrder(g, p.turn, Behind(c))
    BY <1>7, <1>a, <2>1, OrderSame
  <2> QED
    BY <1>6, <1>7, <2>1, <2>2 DEF p, h
<1> QED
  BY <1>3, <1>4, <1>5, <1>8, <1>9, <1>b, PageStep

\* The new connection is one that was not used before.
LEMMA ReconnectStep ==
  ASSUME ChatInv, NEW t \in Tabs, Chat!Reconnect(t)
  PROVE  ChatInv'
<1> DEFINE p == tab[t]
<1> DEFINE n == p.gen + 1
<1> DEFINE q == [p EXCEPT !.sock = "connecting", !.gen = n]
<1> DEFINE h == conn[Link(t)]
<1> DEFINE g == conn[<<t, n>>]
<1>1. p \in ChatTab /\ TabInv(p) /\ LinkInv(p, h) /\ p.gen \in Nat
  BY LinkIs
<1>2. tab \in [Tabs -> ChatTab] /\ conn \in [Chat!Conns -> ChatConn]
  BY DEF ChatInv, PagesInv
<1>3. p.sock = "backoff" /\ tab' = [tab EXCEPT ![t] = q] /\ conn' = conn
  BY <1>2 DEF Chat!Reconnect
<1>4. p.gen <= MaxDrops
  BY <1>1, <1>3 DEF TabInv, WaitingOf
<1>5. n \in 1..MaxDrops + 1 /\ n > p.gen
  BY <1>1, <1>4, ChatAssumption
<1>6. <<t, n>> \in Chat!Conns
  BY <1>5 DEF Chat!Conns
<1>7. Unused(g)
  BY <1>5, <1>6 DEF ChatInv, PagesInv
<1> HIDE DEF n
<1>8. q \in ChatTab /\ q.gen = n /\ q.sock = "connecting"
  <2> HIDE DEF p
  <2> QED
    BY <1>1, <1>5 DEF ChatTab
<1>9. SameTurn(p, q) /\ SameText(p, q) /\ SameReplies(p, q) /\ q.waiting = p.waiting /\ q.opened = p.opened
  <2> HIDE DEF p
  <2> QED
    BY <1>1 DEF ChatTab, SameTurn, SameText, SameReplies
<1> HIDE DEF q
<1>10. SockInv(q, g) /\ g.net # "up"
  BY <1>7, <1>8 DEF SockInv, Unused
<1>11. TabInv(q) /\ LinkInv(q, g)
  <2> HIDE DEF p, h, g
  <2> QED
    BY <1>1, <1>3, <1>8, <1>9, <1>10, DownKeeps
<1>12. tab' \in [Tabs -> ChatTab] /\ tab'[t] = q /\ \A u \in Tabs \ {t} : tab'[u] = tab[u]
  BY <1>2, <1>3, <1>8
<1>13. \A u \in Tabs : TabInv(tab'[u]) /\ LinkInv(tab'[u], conn'[<<u, tab'[u].gen>>])
  BY <1>3, <1>8, <1>11, <1>12 DEF ChatInv, PagesInv
<1>14. ASSUME NEW d \in Chat!Conns, d[2] > tab'[d[1]].gen PROVE Unused(conn'[d])
  <2>1. d[1] \in Tabs /\ d[2] \in Nat
    BY ChatAssumption DEF Chat!Conns
  <2>2. d[2] > tab[d[1]].gen
    BY <1>1, <1>5, <1>8, <1>12, <1>14, <2>1
  <2> QED
    BY <1>3, <2>2 DEF ChatInv, PagesInv
<1>15. PagesInv'
  BY <1>2, <1>3, <1>12, <1>13, <1>14 DEF PagesInv
<1>16. UNCHANGED <<holder, runs, audit>>
  BY DEF Chat!Reconnect
<1>17. LockInv'
  BY <1>3, <1>16, LockStays DEF ChatInv
<1>18. \A u \in Tabs : tab'[u].turn = tab[u].turn
  BY <1>9, <1>12 DEF SameTurn
<1>19. RowsInv'
  <2>1. \A d \in Chat!Conns : d[1] \in Tabs
    BY DEF Chat!Conns
  <2>2. \A d : Behind(d)' = Behind(d)
    BY <1>16 DEF Behind
  <2>3. ASSUME NEW d \in Chat!Conns PROVE InOrder(conn'[d], tab'[d[1]].turn, Behind(d)')
    BY <1>3, <1>18, <2>1, <2>2 DEF ChatInv, RowsInv
  <2> QED
    BY <1>16, <2>3 DEF ChatInv, RowsInv
<1> QED
  BY <1>15, <1>17, <1>19 DEF ChatInv

\* A frame leaves over an open socket, and over no other.
LEMMA SentIs ==
  ASSUME ChatInv, NEW t \in Tabs, NEW f \in InFrames, Chat!Sent(t, f), NEW h, h = conn[Link(t)]
  PROVE  \E g \in ChatConn :
           /\ conn' = [conn EXCEPT ![Link(t)] = g]
           /\ GoesOut(tab[t], h, g, f)
<1> USE DEF GoesOut
<1>1. h \in ChatConn /\ Link(t) \in Chat!Conns
  BY LinkIs
<1>2. conn \in [Chat!Conns -> ChatConn]
  BY DEF ChatInv, PagesInv
<1>3. CASE tab[t].sock = "open"
  <2> DEFINE s == Append(h.in, f)
  <2> DEFINE g == [h EXCEPT !.in = s]
  <2>1. conn' = [conn EXCEPT ![Link(t)] = g]
    BY <1>1, <1>2, <1>3 DEF Chat!Sent, Chat!Current, Link
  <2>2. h.in \in Seq(InFrames)
    BY <1>1 DEF ChatConn
  <2>3. s \in Seq(InFrames) /\ Grown(h.in, s, f)
    BY <2>2, AppendGrows
  <2> HIDE DEF s
  <2>4. g \in ChatConn /\ g.net = h.net /\ g.out = h.out /\ g.task = h.task /\ g.in = s
    BY <1>1, <2>3 DEF ChatConn
  <2> QED
    BY <1>3, <2>1, <2>3, <2>4
<1>4. CASE tab[t].sock # "open"
  <2>1. conn' = [conn EXCEPT ![Link(t)] = h]
    BY <1>1, <1>2, <1>4 DEF Chat!Sent
  <2> QED
    BY <1>1, <1>4, <2>1
<1> QED
  BY <1>3, <1>4

LEMMA SendStep ==
  ASSUME ChatInv, NEW t \in Tabs, Chat!Send(t)
  PROVE  ChatInv'
<1> DEFINE p == tab[t]
<1> DEFINE h == conn[Link(t)]
<1> DEFINE n == p.turn + 1
<1> DEFINE b == [who |-> "user", of |-> {n}]
<1> DEFINE l == Append(p.log, b)
<1> DEFINE later == p.sock # "open" /\ ~p.opened
<1> DEFINE lost == p.sock # "open" /\ p.opened
<1> DEFINE w == IF later THEN Append(p.waiting, n) ELSE p.waiting
<1> DEFINE q == [p EXCEPT !.turn = n, !.log = l, !.streaming = TRUE, !.bubble = 0, !.pending = {},
                          !.timers = <<>>, !.hurt = lost, !.waiting = w]
<1> DEFINE f == [t |-> "input", turn |-> n, parts |-> 1]
<1>1. p \in ChatTab /\ h \in ChatConn /\ TabInv(p) /\ LinkInv(p, h)
  BY LinkIs
<1>2. /\ p.sock # "off" /\ ~p.streaming /\ p.turn < MaxTurns /\ tab' = [tab EXCEPT ![t] = q]
      /\ Chat!Sent(t, f)
  BY DEF Chat!Send, Chat!Free, Chat!Bubble, Chat!Frame
<1>3. n \in 0..MaxTurns /\ n \in Nat
  BY <1>1, <1>2, ChatAssumption DEF ChatTab
<1>4. f \in InFrames /\ b \in Bubbles
  BY <1>3 DEF InFrames, Bubbles
<1>5. PICK g \in ChatConn :
           /\ conn' = [conn EXCEPT ![Link(t)] = g]
           /\ GoesOut(p, h, g, f)
  BY <1>2, <1>4, SentIs
<1>a. InOrder(h, p.turn, Behind(Link(t))) /\ p.turn \in Nat /\ Numbered(h) /\ Behind(Link(t)) \in SUBSET Nat
  BY LinkIs
<1>b. UNCHANGED <<holder, runs, audit>>
  BY DEF Chat!Send
<1>6. p.log \in Seq(Bubbles) /\ p.waiting \in Seq(Nat)
  BY <1>1 DEF ChatTab
<1>7. l \in Seq(Bubbles) /\ Grown(p.log, l, b)
  <2> HIDE DEF b
  <2> QED
    BY <1>4, <1>6, AppendGrows
<1>8. w \in Seq(Nat) /\ IF later THEN Grown(p.waiting, w, n) ELSE w = p.waiting
  <2>1. Append(p.waiting, n) \in Seq(Nat) /\ Grown(p.waiting, Append(p.waiting, n), n)
    <3> HIDE DEF n
    <3> QED
      BY <1>3, <1>6, AppendGrows
  <2> QED
    BY <1>6, <2>1
<1>9. lost \in BOOLEAN
  OBVIOUS
<1> HIDE DEF p, h, l, w, lost
<1>10. q \in ChatTab
  <2> DEFINE m == n
  <2>1. q = [p EXCEPT !.turn = m, !.log = l, !.streaming = TRUE, !.bubble = 0, !.pending = {},
                      !.timers = <<>>, !.hurt = lost, !.waiting = w] /\ m \in 0..MaxTurns
    BY <1>3
  <2>2. 0 \in Nat /\ {} \in SUBSET Nat /\ <<>> \in Seq(ChatTimers) /\ TRUE \in BOOLEAN
    OBVIOUS
  <2> HIDE DEF m, n, q
  <2> QED
    BY <1>1, <1>7, <1>8, <1>9, <2>1, <2>2 DEF ChatTab
<1>11. /\ q.turn = n /\ q.streaming = TRUE /\ q.stopped = p.stopped /\ q.cut = p.cut /\ q.gen = p.gen
       /\ q.sock = p.sock /\ q.opened = p.opened /\ q.answered = p.answered /\ q.bubble = 0 /\ q.pending = {}
       /\ q.timers = <<>> /\ q.log = l /\ q.waiting = w
  BY <1>1 DEF ChatTab
<1> HIDE DEF q
<1>12. MayWait(p, q, n)
  BY <1>8, <1>11 DEF MayWait
<1> DEFINE m == n
<1>13. m = p.turn + 1 /\ q.turn = m /\ Grown(p.log, q.log, [who |-> "user", of |-> {m}])
  BY <1>7, <1>11
<1>14. MayWait(p, q, m)
  BY <1>12
<1>15. f = [t |-> "input", turn |-> m, parts |-> 1] /\ GoesOut(p, h, g, f)
  BY <1>5
<1> HIDE DEF n, m, f
<1>16. /\ TabInv(q) /\ (\A k : GoneBy(q, k) <=> GoneBy(p, k)) /\ (\A k : GoneBy(q, k) => k # m)
       /\ \A a \in q.answered : a[1] # m
  BY <1>1, <1>2, <1>10, <1>11, <1>13, <1>14, SendKeepsTab
<1>17. LinkInv(q, g)
  <2>1. /\ q.streaming = TRUE /\ q.sock = p.sock /\ q.opened = p.opened
        /\ q.answered = p.answered /\ q.bubble = 0 /\ q.pending = {} /\ q.timers = <<>>
    BY <1>11
  <2>2. ~p.streaming /\ p.sock # "off" /\ m = p.turn + 1 /\ q.turn = m
    BY <1>2, <1>13
  <2> QED
    BY <1>1, <1>10, <2>1, <2>2, <1>14, <1>15, <1>16, SendKeepsLink
<1>18. /\ g.task = conn[Link(t)].task /\ tab[t].turn <= q.turn /\ InOrder(g, q.turn, Behind(Link(t)))
       /\ q.gen = tab[t].gen
  <2>1. q.turn = m /\ p.turn < m /\ p.turn <= m /\ m \in Nat
    BY <1>13, <1>a
  <2>2. g.task = h.task /\ InOrder(g, m, Behind(Link(t)))
    <3>1. CASE p.sock = "open"
      <4>1. g.task = h.task /\ Grown(h.in, g.in, f) /\ g.net = "up"
        BY <1>1, <1>15, <3>1 DEF GoesOut, LinkInv, SockInv
      <4>2. f.turn = m
        BY <1>15
      <4> QED
        BY <1>a, <2>1, <4>1, <4>2, OrderGrows
    <3>2. CASE p.sock # "open"
      <4>1. g = h
        BY <1>15, <3>2 DEF GoesOut
      <4> QED
        BY <1>a, <2>1, <4>1, OrderSame
    <3> QED
      BY <3>1, <3>2
  <2> QED
    BY <1>11, <2>1, <2>2 DEF p, h
<1> QED
  BY <1>2, <1>5, <1>10, <1>16, <1>17, <1>18, <1>b, PageStep

LEMMA StopStep ==
  ASSUME ChatInv, NEW t \in Tabs, NEW clear \in BOOLEAN, Chat!Stop(t, clear)
  PROVE  ChatInv'
<1> DEFINE p == tab[t]
<1> DEFINE h == conn[Link(t)]
<1> DEFINE f == Chat!Flushed(p)
<1> DEFINE r == [f EXCEPT !.bubble = 0, !.timers = <<>>, !.streaming = FALSE,
                          !.stops = @ + 1, !.stopped = @ \cup {p.turn}]
<1> DEFINE q == IF clear THEN [r EXCEPT !.log = <<>>, !.answered = {}] ELSE r
<1> DEFINE e == [t |-> "cancel", turn |-> 0, parts |-> 1]
<1>1. p \in ChatTab /\ h \in ChatConn /\ TabInv(p) /\ LinkInv(p, h)
  BY LinkIs
<1>2. tab' = [tab EXCEPT ![t] = q] /\ Chat!Sent(t, e)
  BY DEF Chat!Stop, Chat!Aborted, Chat!Frame
<1>3. e \in InFrames
  BY DEF InFrames
<1>4. PICK g \in ChatConn :
           /\ conn' = [conn EXCEPT ![Link(t)] = g]
           /\ GoesOut(p, h, g, e)
  BY <1>2, <1>3, SentIs
<1>5. p.turn \in Nat
  BY <1>1 DEF ChatTab
<1>a. InOrder(h, p.turn, Behind(Link(t))) /\ p.turn \in Nat /\ Numbered(h) /\ Behind(Link(t)) \in SUBSET Nat
  BY LinkIs
<1>b. UNCHANGED <<holder, runs, audit>>
  BY DEF Chat!Stop
<1> USE DEF GoesOut
<1>6. Unused(h) => g = h
  <2>1. p.sock = "open" => h.net = "up"
    BY <1>1 DEF LinkInv, SockInv
  <2> QED
    BY <1>4, <2>1 DEF Unused
<1>7. g.net = h.net
  BY <1>4
<1>8. \A k : Carries(g, k) => Carries(h, k)
  <2>1. CASE p.sock = "open"
    <3>1. g.out = h.out /\ g.task = h.task /\ Grown(h.in, g.in, e)
      BY <1>4, <2>1
    <3>2. e.t = "cancel"
      OBVIOUS
    <3> HIDE DEF e
    <3>3. \A i \in 1..Len(g.in) : (i \in 1..Len(h.in) /\ g.in[i] = h.in[i]) \/ g.in[i] = e
      BY <3>1, GrownIndex
    <3> QED
      BY <3>1, <3>2, <3>3 DEF Carries, Posted, AtWork, Told
  <2>2. CASE p.sock # "open"
    BY <1>4, <2>2
  <2> QED
    BY <2>1, <2>2
<1> HIDE DEF p, h, f
<1>9. /\ f \in ChatTab /\ TabInv(f) /\ LinkInv(f, h) /\ f.pending = {}
      /\ SameSocket(p, f) /\ SameTurn(p, f) /\ SameReplies(p, f)
  BY <1>1, FlushKeeps DEF f
<1>10. f.turn = p.turn
  BY <1>9 DEF SameTurn
<1>11. r \in ChatTab
  <2> DEFINE a == f.stops + 1
  <2> DEFINE z == f.stopped \cup {p.turn}
  <2>1. a \in Nat /\ z \in SUBSET Nat /\ 0 \in Nat /\ <<>> \in Seq(ChatTimers)
    BY <1>5, <1>9 DEF ChatTab
  <2>2. r = [f EXCEPT !.bubble = 0, !.timers = <<>>, !.streaming = FALSE, !.stops = a, !.stopped = z]
    BY <1>9 DEF ChatTab
  <2> HIDE DEF a, z, r
  <2> QED
    BY <1>9, <2>1, <2>2 DEF ChatTab
<1>12. /\ SameSocket(f, r) /\ r.turn = f.turn /\ r.cut = f.cut /\ r.stopped = f.stopped \cup {f.turn}
       /\ r.streaming = FALSE /\ r.bubble = 0 /\ r.pending = {} /\ r.timers = <<>>
       /\ r.log = f.log /\ r.answered = f.answered
  BY <1>9, <1>10 DEF ChatTab, SameSocket
<1> HIDE DEF r
<1>13. q \in ChatTab
  <2>1. <<>> \in Seq(Bubbles)
    OBVIOUS
  <2> QED
    BY <1>11, <2>1 DEF ChatTab
<1>14. /\ SameSocket(f, q) /\ q.turn = f.turn /\ q.cut = f.cut /\ q.stopped = f.stopped \cup {f.turn}
       /\ q.streaming = FALSE /\ q.bubble = 0 /\ q.pending = {} /\ q.timers = <<>>
       /\ \/ q.log = f.log /\ q.answered = f.answered
          \/ q.log = <<>> /\ q.answered = {}
  BY <1>11, <1>12 DEF ChatTab, SameSocket
<1> HIDE DEF q
<1>15. TabInv(q) /\ LinkInv(q, g)
  BY <1>6, <1>7, <1>8, <1>9, <1>13, <1>14, StopKeepsTurns
<1>16. q.gen = p.gen
  BY <1>9, <1>14 DEF SameSocket
<1>17. /\ g.task = conn[Link(t)].task /\ tab[t].turn <= q.turn /\ InOrder(g, q.turn, Behind(Link(t)))
       /\ q.gen = tab[t].gen
  <2>1. q.turn = p.turn /\ p.turn <= p.turn
    BY <1>10, <1>14, <1>a
  <2>2. g.task = h.task /\ InOrder(g, p.turn, Behind(Link(t)))
    <3>1. CASE p.sock = "open"
      <4>1. g.task = h.task /\ Grown(h.in, g.in, e) /\ g.net = "up"
        BY <1>1, <1>4, <3>1 DEF LinkInv, SockInv
      <4>2. e.t # "input"
        OBVIOUS
      <4> HIDE DEF e
      <4> QED
        BY <1>a, <2>1, <4>1, <4>2, OrderGrows
    <3>2. CASE p.sock # "open"
      <4>1. g = h
        BY <1>4, <3>2
      <4> QED
        BY <1>a, <4>1
    <3> QED
      BY <3>1, <3>2
  <2> QED
    BY <1>16, <2>1, <2>2 DEF p, h
<1> QED
  BY <1>2, <1>4, <1>13, <1>15, <1>17, <1>b, PageStep

\* A reply of one text, or of none that is shown.
LEMMA ReceiveDone ==
  ASSUME NEW p \in ChatTab, NEW h \in ChatConn, NEW g \in ChatConn, TabInv(p), LinkInv(p, h), p.sock = "open",
         FrameRead(h, g), NEW e, e = h.out[1], e.t = "done",
         NEW q, q = Chat!EndedBy(e.turn, p, [Chat!Finished(p, e) EXCEPT !.answered = @ \cup {<<e.turn, e.parts>>}])
  PROVE  q \in ChatTab /\ q.gen = p.gen /\ q.turn = p.turn /\ TabInv(q) /\ LinkInv(q, g)
<1> DEFINE f == Chat!Flushed(p)
<1> DEFINE n == e.turn
<1> DEFINE ans == f.answered \cup {<<n, e.parts>>}
<1>1. /\ f \in ChatTab /\ TabInv(f) /\ LinkInv(f, h) /\ f.pending = {}
      /\ SameSocket(p, f) /\ SameTurn(p, f) /\ SameReplies(p, f)
  <2>1. f = Chat!Flushed(p)
    OBVIOUS
  <2> HIDE DEF f
  <2> QED
    BY <2>1, FlushKeeps
<1>2. e \in OutFrames
  <2>1. 1 \in 1..Len(h.out)
    BY DEF FrameRead
  <2> QED
    BY <2>1 DEF FrameRead
<1>3. n \in Nat /\ e.parts \in 1..2
  BY <1>2 DEF OutFrames
<1>4. f.streaming = p.streaming /\ f.turn = p.turn /\ f.cut = p.cut /\ f.gen = p.gen /\ f.sock = "open"
  BY <1>1 DEF SameTurn, SameSocket
<1>5. ans \in SUBSET (Nat \X (1..2))
  BY <1>1, <1>3 DEF ChatTab
<1>6. p.turn \in Nat /\ p.cut \in SUBSET Nat
  BY DEF ChatTab
<1>7. CASE ~(f.bubble # 0 /\ e.parts > 1)
  <2> DEFINE cut == IF p.streaming /\ n # p.turn THEN p.cut \cup {p.turn} ELSE p.cut
  <2> DEFINE r == [f EXCEPT !.bubble = 0, !.streaming = FALSE, !.cut = cut]
  <2>1. q = [f EXCEPT !.bubble = 0, !.streaming = FALSE, !.cut = cut, !.answered = ans]
    <3>1. Chat!Finished(p, e) = [f EXCEPT !.bubble = 0, !.streaming = FALSE]
      BY <1>1, <1>7 DEF Chat!Finished, ChatTab
    <3> DEFINE x == [f EXCEPT !.bubble = 0, !.streaming = FALSE, !.answered = ans]
    <3>2. q = Chat!EndedBy(n, p, x)
      BY <1>1, <3>1 DEF ChatTab
    <3>3. x.streaming = FALSE /\ x.cut = p.cut
      BY <1>1, <1>4 DEF ChatTab
    <3>4. q = [x EXCEPT !.cut = cut]
      BY <1>1, <3>2, <3>3 DEF Chat!EndedBy, ChatTab
    <3> HIDE DEF cut, ans, f
    <3> QED
      BY <1>1, <3>4 DEF ChatTab
  <2>2. cut \in SUBSET Nat
    BY <1>6
  <2>3. f.bubble = 0 \/ e.parts = 1
    BY <1>3, <1>7
  <2> HIDE DEF cut, ans, f
  <2>4. r \in ChatTab /\ q \in ChatTab
    <3>1. 0 \in Nat /\ FALSE \in BOOLEAN
      OBVIOUS
    <3>2. r \in ChatTab
      BY <1>1, <2>2, <3>1 DEF ChatTab
    <3>3. q \in ChatTab
      BY <1>1, <1>5, <2>1, <2>2, <3>1 DEF ChatTab
    <3> QED
      BY <3>2, <3>3
  <2>5. /\ SameSocket(f, r) /\ r.turn = f.turn /\ r.stopped = f.stopped /\ r.cut = cut /\ r.streaming = FALSE
        /\ r.log = f.log /\ r.bubble = 0 /\ r.pending = {} /\ r.answered = f.answered /\ r.timers = f.timers
    BY <1>1 DEF ChatTab, SameSocket
  <2>6. /\ SameSocket(r, q) /\ SameTurn(r, q) /\ SameText(r, q) /\ q.timers = r.timers /\ q.answered = ans
        /\ q.gen = f.gen /\ q.turn = f.turn
    BY <1>1, <2>1 DEF ChatTab, SameSocket, SameTurn, SameText
  <2> HIDE DEF r
  <2>7. CutBy(f, r, h.out[1].turn)
    BY <1>4, <2>5 DEF CutBy, cut
  <2>8. h.out[1].t = "done" /\ (f.bubble = 0 \/ h.out[1].parts = 1)
    BY <2>3
  <2>9. Adds(r, q, h.out[1].turn, h.out[1].parts)
    BY <2>5, <2>6 DEF ans, Adds
  <2>10. TabInv(q) /\ LinkInv(q, g)
    <3>1. /\ f \in ChatTab /\ r \in ChatTab /\ q \in ChatTab /\ TabInv(f) /\ LinkInv(f, h) /\ f.sock = "open"
          /\ f.pending = {}
      BY <1>1, <1>4, <2>4
    <3>2. Closes(f, r, h.out[1].turn)
      BY <2>5, <2>7 DEF Closes
    <3>3. SameSocket(r, q) /\ SameTurn(r, q) /\ SameText(r, q) /\ q.timers = r.timers
      BY <2>6
    <3> QED
      BY <3>1, <3>2, <3>3, <2>8, <2>9, DoneKeeps
  <2> QED
    BY <1>4, <2>4, <2>6, <2>10
<1>8. CASE f.bubble # 0 /\ e.parts > 1
  <2> DEFINE b == [who |-> "bot", of |-> {n}]
  <2> DEFINE l == [f.log EXCEPT ![f.bubble] = b]
  <2> DEFINE two == [k \in 1..2 |-> [t |-> IF k = 2 THEN "finish" ELSE "text", turn |-> n]]
  <2> DEFINE s == f.timers \o two
  <2>1. e.parts = 2
    BY <1>3, <1>8
  <2>2. q = [f EXCEPT !.bubble = 0, !.log = l, !.timers = s, !.answered = ans]
    <3>1. Chat!Finished(p, e) = [f EXCEPT !.bubble = 0, !.log = l, !.timers = s]
      <4>1. [k \in 1..e.parts |-> Chat!Timer(IF k = e.parts THEN "finish" ELSE "text", n)] = two
        BY <2>1 DEF Chat!Timer
      <4> HIDE DEF f, two
      <4>2. f.streaming \in BOOLEAN /\ f = [f EXCEPT !.streaming = f.streaming]
        BY <1>1 DEF ChatTab
      <4> QED
        BY <1>1, <1>8, <4>1, <4>2 DEF Chat!Finished, Chat!Bubble, ChatTab, f
    <3> DEFINE x == [f EXCEPT !.bubble = 0, !.log = l, !.timers = s, !.answered = ans]
    <3> HIDE DEF l, s
    <3>2. q = Chat!EndedBy(n, p, x)
      BY <1>1, <3>1 DEF ChatTab
    <3>3. x.streaming = p.streaming
      BY <1>1, <1>4 DEF ChatTab
    <3>4. q = [x EXCEPT !.cut = x.cut]
      BY <3>2, <3>3 DEF Chat!EndedBy
    <3> HIDE DEF ans, f
    <3> QED
      BY <1>1, <3>4 DEF ChatTab
  <2>3. f.log \in Seq(Bubbles) /\ f.timers \in Seq(ChatTimers) /\ b \in Bubbles /\ Len(f.log) \in Nat /\ Len(f.timers) \in Nat
    BY <1>1, <1>3, LenProperties DEF ChatTab, Bubbles
  <2>4. f.bubble \in 1..Len(f.log)
    BY <1>1, <1>8 DEF TabInv, LogOf
  <2>5. l \in Seq(Bubbles) /\ Len(l) = Len(f.log) /\ \A j \in 1..Len(f.log) : l[j] = IF j = f.bubble THEN b ELSE f.log[j]
    <3> HIDE DEF b, f
    <3> QED
      BY <2>3, <2>4, ExceptSeq
  <2>6. two \in Seq(ChatTimers) /\ Len(two) = 2 /\ two[1] = [t |-> "text", turn |-> n] /\ two[2] = [t |-> "finish", turn |-> n]
    <3>1. \A k \in 1..2 : two[k] \in ChatTimers
      BY <1>3 DEF ChatTimers
    <3>2. two[1] = [t |-> "text", turn |-> n] /\ two[2] = [t |-> "finish", turn |-> n]
      OBVIOUS
    <3>3. two \in [1..2 -> ChatTimers]
      BY <3>1
    <3> DEFINE m == 2
    <3>4. two \in [1..m -> ChatTimers] /\ m \in Nat
      BY <3>3
    <3> HIDE DEF two, m
    <3>5. two \in Seq(ChatTimers) /\ Len(two) = m
      BY <3>4, FunIsSeq
    <3> QED
      BY <3>2, <3>5 DEF m
  <2> HIDE DEF l, two
  <2>7. /\ s \in Seq(ChatTimers) /\ Len(s) = Len(f.timers) + 2 /\ \A i \in 1..Len(f.timers) : s[i] = f.timers[i]
        /\ s[Len(f.timers) + 1] = two[1] /\ s[Len(f.timers) + 2] = two[2]
    <3> DEFINE u == f.timers
    <3>1. u \in Seq(ChatTimers) /\ two \in Seq(ChatTimers) /\ Len(u) \in Nat /\ Len(two) = 2
      BY <2>3, <2>6
    <3> HIDE DEF u
    <3>2. /\ u \o two \in Seq(ChatTimers) /\ Len(u \o two) = Len(u) + Len(two)
          /\ \A i \in 1..Len(u) + Len(two) : (u \o two)[i] = IF i <= Len(u) THEN u[i] ELSE two[i - Len(u)]
      BY <3>1, ConcatProperties
    <3>3. Len(u) + 1 \in 1..Len(u) + 2 /\ Len(u) + 2 \in 1..Len(u) + 2 /\ \A i \in 1..Len(u) : i \in 1..Len(u) + 2 /\ i <= Len(u)
      BY <3>1
    <3>4. (Len(u) + 1) - Len(u) = 1 /\ (Len(u) + 2) - Len(u) = 2 /\ ~(Len(u) + 1 <= Len(u)) /\ ~(Len(u) + 2 <= Len(u))
      BY <3>1
    <3> QED
      BY <3>1, <3>2, <3>3, <3>4 DEF u
  <2> HIDE DEF s, ans, f
  <2>8. q \in ChatTab
    <3>1. 0 \in Nat /\ l \in Seq(Bubbles) /\ s \in Seq(ChatTimers)
      BY <2>5, <2>7
    <3> QED
      BY <1>1, <1>5, <2>2, <3>1 DEF ChatTab
  <2>9. /\ SameSocket(f, q) /\ SameTurn(f, q) /\ q.bubble = 0 /\ q.pending = {} /\ q.log = l /\ q.timers = s
        /\ q.answered = ans /\ q.gen = f.gen /\ q.turn = f.turn
    BY <1>1, <2>2 DEF ChatTab, SameSocket, SameTurn
  <2>10. IsFrame(h.out[1], "done", n)
    BY DEF IsFrame
  <2>11. Adds(f, q, n, 2)
    BY <2>1, <2>9 DEF ans, Adds
  <2>12. /\ Len(q.log) = Len(f.log)
         /\ \A i \in 1..Len(f.log) : q.log[i] = IF i = f.bubble THEN [who |-> "bot", of |-> {n}] ELSE f.log[i]
    BY <2>5, <2>9
  <2>13. Splits(f, q, n)
    BY <2>6, <2>7, <2>9, <2>12 DEF Splits
  <2> DEFINE k == n
  <2>14. IsFrame(h.out[1], "done", k) /\ Adds(f, q, k, 2) /\ Splits(f, q, k)
    BY <2>10, <2>11, <2>13
  <2> HIDE DEF k, n
  <2>15. TabInv(q) /\ LinkInv(q, g)
    <3>1. f \in ChatTab /\ q \in ChatTab /\ TabInv(f) /\ LinkInv(f, h) /\ f.sock = "open" /\ f.pending = {} /\ f.bubble # 0
      BY <1>1, <1>4, <1>8, <2>8
    <3>2. SameSocket(f, q) /\ SameTurn(f, q) /\ q.bubble = 0 /\ q.pending = {}
      BY <2>9
    <3> QED
      BY <3>1, <3>2, <2>14, SplitKeeps
  <2> QED
    BY <1>4, <2>8, <2>9, <2>15
<1> QED
  BY <1>7, <1>8

LEMMA ReceiveStep ==
  ASSUME ChatInv, NEW t \in Tabs, Chat!Receive(t)
  PROVE  ChatInv'
<1> DEFINE p == tab[t]
<1> DEFINE c == Link(t)
<1> DEFINE h == conn[c]
<1> DEFINE g == [h EXCEPT !.out = Tail(@)]
<1> DEFINE e == h.out[1]
<1>1. p \in ChatTab /\ h \in ChatConn /\ TabInv(p) /\ LinkInv(p, h) /\ c \in Chat!Conns
  BY LinkIs
<1>2. tab \in [Tabs -> ChatTab] /\ conn \in [Chat!Conns -> ChatConn]
  BY DEF ChatInv, PagesInv
<1>3. p.sock = "open" /\ h.out # <<>>
  BY DEF Chat!Receive, Chat!Current, Link
<1>a. InOrder(h, p.turn, Behind(c)) /\ p.turn \in Nat /\ Numbered(h) /\ Behind(c) \in SUBSET Nat
  BY LinkIs
<1>b. UNCHANGED <<holder, runs, audit>>
  BY DEF Chat!Receive
<1>c. g.in = h.in /\ g.net = h.net /\ g.net = "up" /\ g.task = h.task
  BY <1>1, <1>3 DEF ChatConn, LinkInv, SockInv
<1>d. ASSUME NEW q, q.turn = p.turn
      PROVE  g.task = conn[Link(t)].task /\ tab[t].turn <= q.turn /\ InOrder(g, q.turn, Behind(Link(t)))
  <2> DEFINE n == p.turn
  <2> DEFINE b == Behind(c)
  <2>1. n \in Nat /\ n <= n /\ Numbered(h) /\ InOrder(h, n, b) /\ b \in SUBSET Nat
    BY <1>a
  <2>2. g.in = h.in /\ g.net # "new" /\ g.task = h.task
    BY <1>c
  <2>3. g.task.pc # "none" => h.task.pc # "none" /\ g.task.turn = h.task.turn
    BY <2>2
  <2>4. InOrder(g, n, b)
    <3> HIDE DEF n, b, h, g
    <3> QED
      BY <2>1, <2>2, <2>3, OrderSame
  <2> QED
    BY <1>d, <2>1, <2>2, <2>4
<1>4. conn' = [conn EXCEPT ![c] = g]
  BY <1>1, <1>2 DEF Chat!Receive, Chat!Current, Link
<1>5. Head(h.out) = e
  <2>1. h.out \in Seq(OutFrames)
    BY <1>1 DEF ChatConn
  <2> DEFINE s == h.out
  <2>2. s \in Seq(OutFrames) /\ s # <<>>
    BY <1>3, <2>1
  <2> HIDE DEF s
  <2>3. Head(s) = s[1]
    BY <2>2, HeadTailProperties
  <2> QED
    BY <2>3 DEF s
<1>6. g \in ChatConn /\ FrameRead(h, g)
  <2> HIDE DEF h
  <2> QED
    BY <1>1, <1>3, FrameIsRead
<1>7. e \in OutFrames
  <2>1. 1 \in 1..Len(h.out)
    BY <1>6 DEF FrameRead
  <2> QED
    BY <1>6, <2>1 DEF FrameRead
<1>8. e.t \in {"delta", "done", "error"} /\ e.turn \in Nat
  BY <1>7 DEF OutFrames
<1>9. CASE e.t = "delta"
  <2> DEFINE n == e.turn
  <2> DEFINE z == p.pending \cup {n}
  <2> DEFINE q == [p EXCEPT !.pending = z]
  <2>1. tab' = [tab EXCEPT ![t] = q]
    BY <1>5, <1>9 DEF Chat!Receive, Chat!Current, Link
  <2>2. z \in SUBSET Nat
    BY <1>1, <1>8 DEF ChatTab
  <2>3. IsFrame(h.out[1], "delta", n)
    BY <1>9 DEF IsFrame
  <2> HIDE DEF p, h, g, z
  <2>4. /\ q \in ChatTab /\ SameSocket(p, q) /\ SameTurn(p, q) /\ SameReplies(p, q)
        /\ q.log = p.log /\ q.bubble = p.bubble /\ q.pending = z
    BY <1>1, <2>2 DEF ChatTab, SameSocket, SameTurn, SameReplies
  <2>5. q.pending = p.pending \cup {n}
    BY <2>4 DEF z
  <2> HIDE DEF q, n, e
  <2>6. TabInv(q) /\ LinkInv(q, g)
    BY <1>1, <1>3, <1>6, <2>3, <2>4, <2>5, DeltaKeeps
  <2>7. q.gen = tab[t].gen /\ q.turn = p.turn
    BY <2>4 DEF p, SameSocket, SameTurn
  <2> QED
    BY <1>4, <1>6, <1>b, <1>d, <2>1, <2>4, <2>6, <2>7, PageStep
<1>10. CASE e.t = "done"
  <2> DEFINE q == Chat!EndedBy(e.turn, p, [Chat!Finished(p, e) EXCEPT !.answered = @ \cup {<<e.turn, e.parts>>}])
  <2>1. tab' = [tab EXCEPT ![t] = q]
    BY <1>5, <1>10 DEF Chat!Receive, Chat!Current, Link
  <2>2. e = h.out[1]
    OBVIOUS
  <2>3. q \in ChatTab /\ q.gen = p.gen /\ q.turn = p.turn /\ TabInv(q) /\ LinkInv(q, g)
    <3>1. q = Chat!EndedBy(e.turn, p, [Chat!Finished(p, e) EXCEPT !.answered = @ \cup {<<e.turn, e.parts>>}])
      OBVIOUS
    <3> HIDE DEF p, h, g, q, e
    <3> QED
      BY <1>1, <1>3, <1>6, <1>10, <2>2, <3>1, ReceiveDone
  <2> HIDE DEF q, g
  <2> QED
    BY <1>4, <1>6, <1>b, <1>d, <2>1, <2>3, PageStep
<1>11. CASE e.t = "error"
  <2> DEFINE f == Chat!Flushed(p)
  <2> DEFINE cut == IF p.streaming /\ e.turn # p.turn THEN p.cut \cup {p.turn} ELSE p.cut
  <2> DEFINE q == [f EXCEPT !.bubble = 0, !.timers = <<>>, !.streaming = FALSE, !.cut = cut]
  <2>1. /\ f \in ChatTab /\ TabInv(f) /\ LinkInv(f, h) /\ f.pending = {}
        /\ SameSocket(p, f) /\ SameTurn(p, f) /\ SameReplies(p, f)
    <3>1. f = Chat!Flushed(p)
      OBVIOUS
    <3> HIDE DEF f, p, h
    <3> QED
      BY <1>1, <3>1, FlushKeeps
  <2>2. f.streaming = p.streaming /\ f.turn = p.turn /\ f.cut = p.cut /\ f.gen = p.gen /\ f.sock = "open"
    BY <1>3, <2>1 DEF SameTurn, SameSocket
  <2>3. tab' = [tab EXCEPT ![t] = q]
    <3> DEFINE x == Chat!Aborted(p)
    <3>1. tab' = [tab EXCEPT ![t] = Chat!EndedBy(e.turn, p, x)]
      BY <1>5, <1>11 DEF Chat!Receive, Chat!Current, Link
    <3>2. x = [f EXCEPT !.bubble = 0, !.timers = <<>>, !.streaming = FALSE]
      BY DEF Chat!Aborted
    <3> HIDE DEF x, f, p
    <3>3. x.streaming = FALSE /\ x.cut = p.cut
      BY <2>1, <2>2, <3>2 DEF ChatTab
    <3>4. Chat!EndedBy(e.turn, p, x) = [x EXCEPT !.cut = cut]
      BY <2>1, <3>2, <3>3 DEF Chat!EndedBy, ChatTab
    <3> HIDE DEF cut
    <3>5. [x EXCEPT !.cut = cut] = q
      BY <2>1, <3>2 DEF ChatTab
    <3> QED
      BY <3>1, <3>4, <3>5
  <2>4. cut \in SUBSET Nat
    BY <1>1 DEF ChatTab
  <2> HIDE DEF cut, f, h, g
  <2>5. q \in ChatTab
    <3>1. 0 \in Nat /\ FALSE \in BOOLEAN /\ <<>> \in Seq(ChatTimers)
      OBVIOUS
    <3> QED
      BY <2>1, <2>4, <3>1 DEF ChatTab
  <2>6. /\ SameSocket(f, q) /\ q.turn = f.turn /\ q.stopped = f.stopped /\ q.cut = cut /\ q.streaming = FALSE
        /\ q.log = f.log /\ q.bubble = 0 /\ q.pending = {} /\ q.answered = f.answered /\ q.timers = <<>>
        /\ q.gen = p.gen /\ q.turn = p.turn
    BY <2>1, <2>2 DEF ChatTab, SameSocket
  <2> HIDE DEF q
  <2>7. CutBy(f, q, h.out[1].turn)
    BY <2>2, <2>6 DEF CutBy, cut
  <2>8. h.out[1].t # "delta" /\ h.out[1].t = "error"
    BY <1>11
  <2> HIDE DEF e
  <2>9. TabInv(q) /\ LinkInv(q, g)
    BY <1>1, <1>6, <2>1, <2>2, <2>5, <2>6, <2>7, <2>8, EndKeeps
  <2> QED
    BY <1>4, <1>6, <1>b, <1>d, <2>3, <2>5, <2>6, <2>9, PageStep
<1> QED
  BY <1>8, <1>9, <1>10, <1>11

LEMMA WorkerIs ==
  ASSUME ChatInv, NEW c \in Chat!Conns
  PROVE  /\ conn[c] \in ChatConn /\ conn[c].task \in ChatTask /\ Numbered(conn[c])
         /\ tab[c[1]].turn \in Nat /\ Behind(c) \in SUBSET Nat /\ InOrder(conn[c], tab[c[1]].turn, Behind(c))
<1>1. conn[c] \in ChatConn
  BY DEF ChatInv, PagesInv
<1>2. c[1] \in Tabs
  BY DEF Chat!Conns
<1>3. tab[c[1]].turn \in Nat
  BY <1>2, LinkIs
<1>4. conn[c].task \in ChatTask
  BY <1>1 DEF ChatConn
<1> QED
  BY <1>1, <1>3, <1>4, ConnNumbers, BehindNumbers DEF ChatInv, RowsInv

\* A step of a connection.
LEMMA ServerStep ==
  ASSUME ChatInv, NEW c \in Chat!Conns, NEW g \in ChatConn, UNCHANGED tab, conn' = [conn EXCEPT ![c] = g],
         ~Unused(conn[c]), g.net = conn[c].net, conn[c].net = "up" => Serves(conn[c], g)
  PROVE  PagesInv'
<1>1. tab \in [Tabs -> ChatTab] /\ conn \in [Chat!Conns -> ChatConn]
  BY DEF ChatInv, PagesInv
<1>2. conn' \in [Chat!Conns -> ChatConn] /\ conn'[c] = g
  BY <1>1
<1>3. \A d \in Chat!Conns \ {c} : conn'[d] = conn[d]
  BY <1>1
<1>4. ASSUME NEW t \in Tabs PROVE TabInv(tab[t]) /\ LinkInv(tab[t], conn'[Link(t)])
  <2>1. Link(t) \in Chat!Conns /\ TabInv(tab[t]) /\ LinkInv(tab[t], conn[Link(t)])
    BY LinkIs
  <2>2. CASE Link(t) = c
    <3> DEFINE p == tab[t]
    <3> DEFINE h == conn[c]
    <3>1. LinkInv(p, h)
      BY <2>1, <2>2
    <3>2. ~Unused(h) /\ g.net = h.net /\ (h.net = "up" => Serves(h, g))
      OBVIOUS
    <3> HIDE DEF p, h
    <3>3. LinkInv(p, g)
      BY <3>1, <3>2, ServedKeeps
    <3> QED
      BY <1>2, <2>1, <2>2, <3>3 DEF p
  <2>3. CASE Link(t) # c
    BY <1>3, <2>1, <2>3
  <2> QED
    BY <2>2, <2>3
<1>5. ASSUME NEW d \in Chat!Conns, d[2] > tab[d[1]].gen PROVE Unused(conn'[d])
  <2>1. Unused(conn[d])
    BY <1>5 DEF ChatInv, PagesInv
  <2>2. d # c
    BY <2>1
  <2> QED
    BY <1>3, <2>1, <2>2
<1> QED
  BY <1>1, <1>2, <1>4, <1>5 DEF PagesInv, Link

\* The rows stay, and the connections in order.
LEMMA RowsStay ==
  ASSUME ChatInv, NEW c \in Chat!Conns, NEW g \in ChatConn, UNCHANGED <<tab, audit>>,
         conn' = [conn EXCEPT ![c] = g], InOrder(g, tab[c[1]].turn, Behind(c))
  PROVE  RowsInv'
<1>1. conn \in [Chat!Conns -> ChatConn]
  BY DEF ChatInv, PagesInv
<1>2. \A d : Behind(d)' = Behind(d)
  BY DEF Behind
<1>3. ASSUME NEW d \in Chat!Conns PROVE InOrder(conn'[d], tab'[d[1]].turn, Behind(d)')
  BY <1>1, <1>2 DEF ChatInv, RowsInv
<1> QED
  BY <1>3 DEF ChatInv, RowsInv

\* A step that neither takes the lock nor ends a turn.
LEMMA PlainStep ==
  ASSUME ChatInv, NEW c \in Chat!Conns, NEW g \in ChatConn, UNCHANGED <<tab, holder, runs, audit>>,
         conn' = [conn EXCEPT ![c] = g],
         ~Unused(conn[c]), g.net = conn[c].net, conn[c].net = "up" => Serves(conn[c], g),
         g.task.pc = "turn" <=> conn[c].task.pc = "turn",
         conn[c].task.pc = "turn" => g.task.turn = conn[c].task.turn,
         InOrder(g, tab[c[1]].turn, Behind(c))
  PROVE  ChatInv'
<1>1. PagesInv'
  BY ServerStep
<1>2. conn \in [Chat!Conns -> ChatConn]
  BY DEF ChatInv, PagesInv
<1>3. \A d \in Chat!Conns :
        /\ conn'[d].task.pc = "turn" <=> conn[d].task.pc = "turn"
        /\ conn[d].task.pc = "turn" => conn'[d].task.turn = conn[d].task.turn
  BY <1>2
<1>4. LockInv'
  BY <1>3, LockStays DEF ChatInv
<1>5. RowsInv'
  BY RowsStay
<1> QED
  BY <1>1, <1>4, <1>5 DEF ChatInv

\* The task ends, and leaves one row.
LEMMA EndedRows ==
  ASSUME ChatInv, NEW c \in Chat!Conns, NEW g \in ChatConn, UNCHANGED tab, conn' = [conn EXCEPT ![c] = g],
         conn[c].task.pc # "none", g.task.pc = "none", g.in = conn[c].in, g.net = conn[c].net,
         NEW ok \in BOOLEAN,
         audit' = [rows |-> audit.rows \cup {[turn |-> <<c, conn[c].task.turn>>, ok |-> ok]},
                   served |-> IF ok THEN audit.served \cup {<<c, conn[c].task.turn>>} ELSE audit.served]
  PROVE  RowsInv'
<1> DEFINE h == conn[c]
<1> DEFINE n == h.task.turn
<1> DEFINE r == <<c, n>>
<1> DEFINE row == [turn |-> r, ok |-> ok]
<1>1. conn \in [Chat!Conns -> ChatConn]
  BY DEF ChatInv, PagesInv
<1>2. /\ Numbered(h) /\ tab[c[1]].turn \in Nat /\ Behind(c) \in SUBSET Nat
      /\ InOrder(h, tab[c[1]].turn, Behind(c)) /\ n \in Nat
  BY WorkerIs DEF Numbered
<1>3. audit'.rows = audit.rows \cup {row} /\ audit'.served = IF ok THEN audit.served \cup {r} ELSE audit.served
  OBVIOUS
<1>4. /\ audit \in [rows : SUBSET [turn : Chat!Conns \X Nat, ok : BOOLEAN], served : SUBSET (Chat!Conns \X Nat)]
      /\ (\A x \in audit.rows : x.ok <=> x.turn \in audit.served)
      /\ \A x \in audit.served : \E y \in audit.rows : y.turn = x
  BY DEF ChatInv, RowsInv
<1>5. Behind(c)' = Behind(c) \cup {n}
  <2>1. row.turn = r /\ r[1] = c /\ r[2] = n
    OBVIOUS
  <2> DEFINE old == {x \in audit.rows : x.turn[1] = c}
  <2> DEFINE new == {x \in audit'.rows : x.turn[1] = c}
  <2>2. new = old \cup {row}
    BY <1>3, <2>1
  <2>3. Behind(c) = {x.turn[2] : x \in old} /\ Behind(c)' = {x.turn[2] : x \in new}
    BY DEF Behind
  <2>4. row.turn[2] = n
    BY <2>1
  <2> HIDE DEF old, new, row, r, n
  <2> QED
    BY <2>2, <2>3, <2>4
<1>6. ASSUME NEW d \in Chat!Conns, d # c PROVE Behind(d)' = Behind(d)
  BY <1>3, <1>6 DEF Behind
<1>7. InOrder(g, tab[c[1]].turn, Behind(c)') /\ n \notin Behind(c)
  <2> DEFINE m == tab[c[1]].turn
  <2> DEFINE b == Behind(c)
  <2> DEFINE z == Behind(c)'
  <2>1. m \in Nat /\ b \in SUBSET Nat /\ InOrder(h, m, b) /\ Numbered(h) /\ z = b \cup {h.task.turn}
    BY <1>2, <1>5
  <2>2. h.task.pc # "none" /\ g.task.pc = "none" /\ g.in = h.in /\ g.net = h.net
    OBVIOUS
  <2>3. InOrder(g, m, z) /\ h.task.turn \notin b
    <3> HIDE DEF m, b, z, h
    <3> QED
      BY <2>1, <2>2, OrderEnds
  <2> QED
    BY <2>3
<1>8. ASSUME NEW d \in Chat!Conns PROVE InOrder(conn'[d], tab'[d[1]].turn, Behind(d)')
  <2>1. CASE d = c
    <3>1. conn'[c] = g
      BY <1>1
    <3> QED
      BY <1>7, <2>1, <3>1
  <2>2. CASE d # c
    <3>1. conn'[d] = conn[d]
      BY <1>1, <2>2
    <3> QED
      BY <1>6, <2>2, <3>1 DEF ChatInv, RowsInv
  <2> QED
    BY <2>1, <2>2
<1>9. r \in Chat!Conns \X Nat /\ r[1] = c /\ r[2] = n
  BY <1>2
<1>10. \A x \in audit.rows : x.turn # r
  BY <1>7, <1>9 DEF Behind
<1>11. r \notin audit.served
  BY <1>4, <1>10
<1> HIDE DEF r
<1>12. row.turn = r /\ row.ok = ok /\ row \in [turn : Chat!Conns \X Nat, ok : BOOLEAN]
  BY <1>9
<1> HIDE DEF row
<1>13. audit' \in [rows : SUBSET [turn : Chat!Conns \X Nat, ok : BOOLEAN], served : SUBSET (Chat!Conns \X Nat)]
  <2> DEFINE a == audit.rows \cup {row}
  <2> DEFINE s == IF ok THEN audit.served \cup {r} ELSE audit.served
  <2>1. a \in SUBSET [turn : Chat!Conns \X Nat, ok : BOOLEAN]
    BY <1>4, <1>12
  <2>2. s \in SUBSET (Chat!Conns \X Nat)
    BY <1>4, <1>9
  <2>3. audit' = [rows |-> a, served |-> s]
    BY DEF row, r
  <2> HIDE DEF a, s
  <2> QED
    BY <2>1, <2>2, <2>3
<1>14. ASSUME NEW x \in audit'.rows PROVE x.ok <=> x.turn \in audit'.served
  <2>1. CASE x \in audit.rows
    <3>1. x.ok <=> x.turn \in audit.served
      BY <1>4, <2>1
    <3>2. x.turn # r
      BY <1>10, <2>1
    <3> QED
      BY <1>3, <3>1, <3>2
  <2>2. CASE x = row
    BY <1>3, <1>11, <1>12, <2>2
  <2> QED
    BY <1>3, <2>1, <2>2
<1>15. ASSUME NEW x \in audit'.served PROVE \E y \in audit'.rows : y.turn = x
  <2>1. CASE x \in audit.served
    BY <1>3, <1>4, <2>1
  <2>2. CASE x = r
    BY <1>3, <1>12, <2>2
  <2> QED
    BY <1>3, <2>1, <2>2
<1> QED
  BY <1>8, <1>13, <1>14, <1>15 DEF RowsInv

\* A frame is put behind those for the page, if the connection lasts.
LEMMA OutIs ==
  ASSUME ChatInv, NEW c \in Chat!Conns, NEW f \in OutFrames
  PROVE  /\ Chat!Out(c, f) \in Seq(OutFrames)
         /\ conn[c].net = "up" => Grown(conn[c].out, Chat!Out(c, f), f)
<1> DEFINE s == conn[c].out
<1>1. s \in Seq(OutFrames)
  BY WorkerIs DEF ChatConn
<1>2. Append(s, f) \in Seq(OutFrames) /\ Grown(s, Append(s, f), f)
  <2> HIDE DEF s
  <2> QED
    BY <1>1, AppendGrows
<1> QED
  BY <1>1, <1>2 DEF Chat!Out

LEMMA ReadStep ==
  ASSUME ChatInv, NEW c \in Chat!Conns, Chat!Read(c)
  PROVE  ChatInv'
<1> DEFINE h == conn[c]
<1> DEFINE n == tab[c[1]].turn
<1> DEFINE done == Behind(c)
<1> DEFINE e == h.in[1]
<1> DEFINE tail == Tail(h.in)
<1> DEFINE busy == h.task.pc # "none"
<1> DEFINE k == e.turn
<1>1. /\ h \in ChatConn /\ h.task \in ChatTask /\ Numbered(h) /\ n \in Nat /\ done \in SUBSET Nat
      /\ InOrder(h, n, done)
  BY WorkerIs
<1>2. h.handler = "on" /\ h.in # <<>> /\ UNCHANGED <<tab, holder, runs, audit>>
  BY DEF Chat!Read
<1>3. conn \in [Chat!Conns -> ChatConn]
  BY DEF ChatInv, PagesInv
<1>4. ~Unused(h) /\ h.net # "new"
  BY <1>1, <1>2 DEF InOrder, Unused
<1>5. ASSUME NEW g, g.in = tail PROVE InputRead(h, g) /\ g.in \in Seq(InFrames) /\ Head(h.in) = e /\ e \in InFrames
  <2> HIDE DEF h
  <2> QED
    BY <1>1, <1>2, <1>5, InputIsRead
<1>6. tail \in Seq(InFrames) /\ Head(h.in) = e /\ e \in InFrames
  <2> DEFINE g == [in |-> tail]
  <2>1. g.in = tail
    OBVIOUS
  <2> HIDE DEF g, tail
  <2> QED
    BY <1>5, <2>1
<1>7. k \in Nat /\ e.t \in {"input", "cancel"}
  BY <1>6 DEF InFrames
<1>8. ASSUME NEW g, InputRead(h, g)
      PROVE  \A i \in 1..Len(g.in) : i + 1 \in 1..Len(h.in) /\ g.in[i] = h.in[i + 1]
  <2> DEFINE l == Len(h.in)
  <2>1. l \in Nat \ {0} /\ Len(g.in) = l - 1 /\ \A i \in 1..Len(g.in) : g.in[i] = h.in[i + 1]
    BY <1>8 DEF InputRead
  <2> HIDE DEF l
  <2>2. \A i \in 1..Len(g.in) : i + 1 \in 1..l
    BY <2>1
  <2> QED
    BY <2>1, <2>2 DEF l
<1>9. ASSUME NEW g, InputRead(h, g), g.task.pc = h.task.pc, g.task.turn = h.task.turn, g.net = h.net
      PROVE  InOrder(g, n, done)
  <2> DEFINE d == 1
  <2>1. \A i \in 1..Len(g.in) : i + d \in 1..Len(h.in) /\ g.in[i] = h.in[i + d]
    BY <1>8, <1>9
  <2>2. d \in {0, 1} /\ n <= n
    BY <1>1
  <2> HIDE DEF d, h, n, done
  <2> QED
    BY <1>1, <1>4, <1>9, <2>1, <2>2, OrderLess
<1>10. CASE e.t = "cancel"
  <2> DEFINE task == [h.task EXCEPT !.cancelled = busy]
  <2> DEFINE g == [h EXCEPT !.in = tail, !.task = task]
  <2>1. conn' = [conn EXCEPT ![c] = g]
    <3>1. conn' = [conn EXCEPT ![c] = Chat!Stopping(c)]
      BY <1>6, <1>10 DEF Chat!Read
    <3>2. Chat!Stopping(c) = [h EXCEPT !.in = tail, !.task.cancelled = busy]
      BY DEF Chat!Stopping, Chat!Busy
    <3>3. [h EXCEPT !.in = tail, !.task.cancelled = busy] = g
      <4> HIDE DEF h, tail, busy
      <4> QED
        BY <1>1 DEF ChatConn
    <3> QED
      BY <3>1, <3>2, <3>3
  <2>2. busy \in BOOLEAN
    OBVIOUS
  <2> HIDE DEF h, tail, busy
  <2>3. task \in ChatTask /\ task.pc = h.task.pc /\ task.turn = h.task.turn
    BY <1>1, <2>2 DEF ChatTask
  <2> HIDE DEF task
  <2>4. g \in ChatConn /\ g.in = tail /\ g.task = task /\ g.net = h.net /\ g.out = h.out
    BY <1>1, <1>6, <2>3 DEF ChatConn
  <2> HIDE DEF g
  <2>5. InputRead(h, g)
    BY <1>5, <2>4
  <2>6. h.in[1].t # "input"
    BY <1>10
  <2>7. Serves(h, g)
    BY <2>3, <2>4, <2>5, <2>6, CancelServes
  <2>8. InOrder(g, n, done)
    BY <1>9, <2>3, <2>4, <2>5
  <2>9. (g.task.pc = "turn" <=> h.task.pc = "turn") /\ g.task.turn = h.task.turn
    BY <2>3, <2>4
  <2> QED
    BY <1>2, <1>4, <2>1, <2>4, <2>7, <2>8, <2>9, PlainStep DEF h
<1>11. CASE e.t = "input" /\ busy
  <2> DEFINE f == Chat!Frame("error", k)
  <2> DEFINE out == Chat!Out(c, f)
  <2> DEFINE g == [h EXCEPT !.in = tail, !.out = out]
  <2>1. conn' = [conn EXCEPT ![c] = g]
    BY <1>1, <1>3, <1>6, <1>11 DEF Chat!Read, Chat!Busy, Chat!Refused, ChatConn
  <2>2. f \in OutFrames /\ f.t = "error" /\ f.turn = k
    BY <1>7 DEF Chat!Frame, OutFrames
  <2> HIDE DEF f
  <2>3. out \in Seq(OutFrames) /\ (h.net = "up" => Grown(h.out, out, f))
    BY <2>2, OutIs
  <2> HIDE DEF h, tail, out
  <2>4. g \in ChatConn /\ g.in = tail /\ g.task = h.task /\ g.net = h.net /\ g.out = out
    BY <1>1, <1>6, <2>3 DEF ChatConn
  <2> HIDE DEF g
  <2>5. InputRead(h, g) /\ h.in[1].t = "input" /\ f.turn = h.in[1].turn
    BY <1>5, <1>11, <2>2, <2>4
  <2>6. h.net = "up" => Serves(h, g)
    BY <2>2, <2>3, <2>4, <2>5, RefuseServes
  <2>7. InOrder(g, n, done)
    BY <1>9, <2>4, <2>5
  <2>8. (g.task.pc = "turn" <=> h.task.pc = "turn") /\ g.task.turn = h.task.turn
    BY <2>4
  <2> QED
    BY <1>2, <1>4, <2>1, <2>4, <2>6, <2>7, <2>8, PlainStep DEF h
<1>12. CASE e.t = "input" /\ ~busy
  <2> DEFINE task == [Chat!NoTask EXCEPT !.pc = "start", !.turn = k]
  <2> DEFINE g == [h EXCEPT !.in = tail, !.task = task]
  <2>1. conn' = [conn EXCEPT ![c] = g]
    <3>1. conn' = [conn EXCEPT ![c] = Chat!Starting(c, e)]
      BY <1>6, <1>12 DEF Chat!Read, Chat!Busy
    <3>3. Chat!Starting(c, e) = g
      BY DEF Chat!Starting
    <3> QED
      BY <3>1, <3>3
  <2>2. task \in ChatTask /\ task.pc = "start" /\ task.turn = k /\ ~task.cancelled
    <3>1. Chat!NoTask \in ChatTask /\ Chat!NoTask.cancelled = FALSE
      BY DEF Chat!NoTask, ChatTask
    <3> HIDE DEF k
    <3> QED
      BY <1>7, <3>1 DEF ChatTask
  <2> HIDE DEF h, tail, task
  <2>3. g \in ChatConn /\ g.in = tail /\ g.task = task /\ g.net = h.net /\ g.out = h.out
    BY <1>1, <1>6, <2>2 DEF ChatConn
  <2> HIDE DEF g
  <2>4. InputRead(h, g) /\ h.in[1].t = "input" /\ g.task.turn = h.in[1].turn /\ g.task.pc = "start" /\ ~g.task.cancelled
    BY <1>5, <1>12, <2>2, <2>3
  <2>5. h.task.pc = "none"
    BY <1>12
  <2>6. Serves(h, g)
    BY <2>3, <2>4, <2>5, StartServes
  <2>7. InOrder(g, n, done)
    <3>1. g.net # "new"
      BY <1>4, <2>3
    <3> HIDE DEF n, done
    <3> QED
      BY <1>1, <2>4, <3>1, OrderStarts
  <2>8. ~(g.task.pc = "turn") /\ ~(h.task.pc = "turn")
    BY <2>4, <2>5
  <2> QED
    BY <1>2, <1>4, <2>1, <2>3, <2>6, <2>7, <2>8, PlainStep DEF h
<1> QED
  BY <1>7, <1>10, <1>11, <1>12

\* The end of the connection is noticed once, and cancels the task.
LEMMA NoticeStep ==
  ASSUME ChatInv, NEW c \in Chat!Conns, Chat!Notice(c)
  PROVE  ChatInv'
<1> DEFINE h == conn[c]
<1> DEFINE n == tab[c[1]].turn
<1> DEFINE done == Behind(c)
<1> DEFINE busy == h.task.pc # "none"
<1> DEFINE task == [h.task EXCEPT !.cancelled = busy]
<1> DEFINE g == [h EXCEPT !.handler = "gone", !.task = task]
<1>1. /\ h \in ChatConn /\ h.task \in ChatTask /\ Numbered(h) /\ n \in Nat /\ done \in SUBSET Nat
      /\ InOrder(h, n, done)
  BY WorkerIs
<1>2. h.handler = "on" /\ h.net = "cut" /\ UNCHANGED <<tab, holder, runs, audit>>
  BY DEF Chat!Notice
<1>3. conn \in [Chat!Conns -> ChatConn]
  BY DEF ChatInv, PagesInv
<1>4. conn' = [conn EXCEPT ![c] = g]
  BY <1>1, <1>3 DEF Chat!Notice, Chat!Busy, ChatConn
<1>5. busy \in BOOLEAN
  OBVIOUS
<1> HIDE DEF h, busy
<1>6. task \in ChatTask /\ task.pc = h.task.pc /\ task.turn = h.task.turn
  BY <1>1, <1>5 DEF ChatTask
<1> HIDE DEF task
<1>7. g \in ChatConn /\ g.in = h.in /\ g.task = task /\ g.net = h.net
  BY <1>1, <1>6 DEF ChatConn
<1> HIDE DEF g
<1>8. ~Unused(h)
  BY <1>2 DEF Unused
<1>9. InOrder(g, n, done)
  <2>1. n <= n /\ g.task.pc = h.task.pc /\ g.task.turn = h.task.turn /\ g.net # "new"
    BY <1>1, <1>2, <1>6, <1>7
  <2> HIDE DEF n, done
  <2> QED
    BY <1>1, <1>7, <2>1, OrderSame
<1>10. (g.task.pc = "turn" <=> h.task.pc = "turn") /\ g.task.turn = h.task.turn /\ h.net # "up"
  BY <1>2, <1>6, <1>7
<1> QED
  BY <1>2, <1>4, <1>7, <1>8, <1>9, <1>10, PlainStep DEF h

LEMMA ConnIsSomeone ==
  ASSUME NEW c \in Chat!Conns
  PROVE  c # Chat!NoOne
<1>1. c \in Tabs \X (1..MaxDrops + 1)
  BY DEF Chat!Conns
<1>2. c = <<c[1], c[2]>>
  BY <1>1
<1> QED
  BY <1>2 DEF Chat!NoOne

LEMMA GotoIs ==
  ASSUME ChatInv, NEW c \in Chat!Conns, NEW pc \in {"reply", "fail", "wait", "turn"}, Chat!Goto(c, pc),
         conn[c].task.pc # "none", conn[c].net = "up" => conn[c].task.pc # "rest", NEW h, h = conn[c]
  PROVE  \E g \in ChatConn :
           /\ conn' = [conn EXCEPT ![c] = g] /\ g.task.pc = pc /\ g.task.turn = h.task.turn
           /\ g.net = h.net /\ ~Unused(h) /\ InOrder(g, tab[c[1]].turn, Behind(c))
           /\ h.net = "up" => Serves(h, g)
<1> DEFINE task == [h.task EXCEPT !.pc = pc]
<1> DEFINE g == [h EXCEPT !.task = task]
<1> DEFINE n == tab[c[1]].turn
<1> DEFINE done == Behind(c)
<1>1. /\ h \in ChatConn /\ h.task \in ChatTask /\ Numbered(h) /\ n \in Nat /\ done \in SUBSET Nat
      /\ InOrder(h, n, done)
  BY WorkerIs
<1>2. conn \in [Chat!Conns -> ChatConn]
  BY DEF ChatInv, PagesInv
<1>3. conn' = [conn EXCEPT ![c] = g]
  BY <1>1, <1>2 DEF Chat!Goto, ChatConn
<1>4. task \in ChatTask /\ task.pc = pc /\ task.turn = h.task.turn /\ task.cancelled = h.task.cancelled
  BY <1>1 DEF ChatTask
<1> HIDE DEF task
<1>5. g \in ChatConn /\ g.in = h.in /\ g.out = h.out /\ g.net = h.net /\ g.task = task
  BY <1>1, <1>4 DEF ChatConn
<1>6. ~Unused(h) /\ h.net # "new"
  BY <1>1 DEF InOrder, Unused, Drained
<1> HIDE DEF g
<1>7. InOrder(g, n, done)
  <2>1. n <= n /\ g.task.turn = h.task.turn /\ g.net # "new"
    BY <1>1, <1>4, <1>5, <1>6
  <2> HIDE DEF n, done
  <2> QED
    BY <1>1, <1>5, <2>1, OrderSame
<1>8. ASSUME h.net = "up" PROVE Serves(h, g)
  <2>1. h.task.pc \notin {"none", "rest"} /\ g.task.pc \notin {"none", "rest"}
    BY <1>4, <1>5, <1>8
  <2> QED
    BY <1>4, <1>5, <2>1, WorkServes
<1> QED
  BY <1>3, <1>4, <1>5, <1>6, <1>7, <1>8

\* A task that goes on, and neither gets nor has the lock.
LEMMA GoesOn ==
  ASSUME ChatInv, NEW c \in Chat!Conns, NEW pc \in {"reply", "fail", "wait"}, Chat!Goto(c, pc),
         conn[c].task.pc \notin {"none", "turn"}, conn[c].net = "up" => conn[c].task.pc # "rest",
         UNCHANGED <<tab, holder, runs, audit>>
  PROVE  ChatInv'
<1> DEFINE h == conn[c]
<1>1. PICK g \in ChatConn :
           /\ conn' = [conn EXCEPT ![c] = g] /\ g.task.pc = pc /\ g.task.turn = h.task.turn
           /\ g.net = h.net /\ ~Unused(h) /\ InOrder(g, tab[c[1]].turn, Behind(c))
           /\ h.net = "up" => Serves(h, g)
  BY GotoIs
<1>2. ~(g.task.pc = "turn") /\ ~(h.task.pc = "turn")
  BY <1>1
<1> QED
  BY <1>1, <1>2, PlainStep

LEMMA ClassifyStep ==
  ASSUME ChatInv, NEW c \in Chat!Conns, Chat!Classify(c)
  PROVE  ChatInv'
<1>1. PICK pc \in {"reply", "fail", "wait"} : Chat!Goto(c, pc)
  BY DEF Chat!Classify
<1>2. conn[c].task.pc = "start" /\ UNCHANGED <<tab, holder, runs, audit>>
  BY DEF Chat!Classify, Chat!At
<1> QED
  BY <1>1, <1>2, GoesOn

LEMMA LockTimeoutStep ==
  ASSUME ChatInv, NEW c \in Chat!Conns, Chat!LockTimeout(c)
  PROVE  ChatInv'
<1>1. conn[c].task.pc = "wait" /\ Chat!Goto(c, "reply") /\ UNCHANGED <<tab, holder, runs, audit>>
  BY DEF Chat!LockTimeout, Chat!At
<1> QED
  BY <1>1, GoesOn

\* The lock is free, and taken.
LEMMA TakeStep ==
  ASSUME ChatInv, NEW c \in Chat!Conns, Chat!Take(c)
  PROVE  ChatInv'
<1> DEFINE h == conn[c]
<1>1. /\ h.task.pc = "wait" /\ holder = Chat!NoOne /\ holder' = c /\ runs' = runs \cup {<<c, h.task.turn>>}
      /\ Chat!Goto(c, "turn") /\ UNCHANGED <<tab, audit>>
  BY DEF Chat!Take, Chat!At, Chat!Run
<1>2. PICK g \in ChatConn :
           /\ conn' = [conn EXCEPT ![c] = g] /\ g.task.pc = "turn" /\ g.task.turn = h.task.turn
           /\ g.net = h.net /\ ~Unused(h) /\ InOrder(g, tab[c[1]].turn, Behind(c))
           /\ h.net = "up" => Serves(h, g)
  <2>1. "turn" \in {"reply", "fail", "wait", "turn"}
    OBVIOUS
  <2> QED
    BY <1>1, <2>1, GotoIs
<1>3. PagesInv'
  BY <1>1, <1>2, ServerStep
<1>4. RowsInv'
  BY <1>1, <1>2, RowsStay
<1>5. conn \in [Chat!Conns -> ChatConn]
  BY DEF ChatInv, PagesInv
<1>6. \A d \in Chat!Conns : conn[d].task.pc # "turn"
  BY <1>1, ConnIsSomeone DEF ChatInv, LockInv
<1>7. \A d \in Chat!Conns : conn'[d].task.pc = "turn" <=> holder' = d
  BY <1>1, <1>2, <1>5, <1>6
<1>8. holder' \in Chat!Conns /\ <<holder', conn'[holder'].task.turn>> \in runs'
  BY <1>1, <1>2, <1>5
<1>9. LockInv'
  BY <1>7, <1>8 DEF LockInv, Chat!Run
<1> QED
  BY <1>3, <1>4, <1>9 DEF ChatInv

\* The lock is let go, and with it the run.
LEMMA LockLeft ==
  ASSUME ChatInv, NEW c \in Chat!Conns, NEW g \in ChatConn, conn' = [conn EXCEPT ![c] = g], g.task.pc # "turn",
         holder = c, holder' = Chat!NoOne
  PROVE  LockInv'
<1>1. conn \in [Chat!Conns -> ChatConn]
  BY DEF ChatInv, PagesInv
<1>2. \A d \in Chat!Conns : conn'[d].task.pc # "turn"
  BY <1>1 DEF ChatInv, LockInv
<1>3. \A d \in Chat!Conns : conn'[d].task.pc = "turn" <=> holder' = d
  BY <1>2, ConnIsSomeone
<1> QED
  BY <1>3 DEF LockInv, Chat!NoOne

LEMMA AnswerStep ==
  ASSUME ChatInv, NEW c \in Chat!Conns, Chat!Answer(c)
  PROVE  ChatInv'
<1> DEFINE h == conn[c]
<1> DEFINE n == tab[c[1]].turn
<1> DEFINE done == Behind(c)
<1>1. /\ h \in ChatConn /\ h.task \in ChatTask /\ Numbered(h) /\ n \in Nat /\ done \in SUBSET Nat
      /\ InOrder(h, n, done)
  BY WorkerIs
<1>2. h.task.pc = "turn" /\ holder' = Chat!NoOne /\ UNCHANGED <<tab, audit>>
  BY DEF Chat!Answer, Chat!At
<1>3. PICK pc \in {"reply", "fail"}, parts \in 1..2 :
        conn' = [conn EXCEPT ![c].task.pc = pc, ![c].task.parts = parts]
  BY DEF Chat!Answer
<1>4. conn \in [Chat!Conns -> ChatConn]
  BY DEF ChatInv, PagesInv
<1> DEFINE task == [h.task EXCEPT !.pc = pc, !.parts = parts]
<1> DEFINE g == [h EXCEPT !.task = task]
<1>5. conn' = [conn EXCEPT ![c] = g]
  BY <1>1, <1>3, <1>4 DEF ChatConn
<1> HIDE DEF h
<1>6. task \in ChatTask /\ task.pc = pc /\ task.turn = h.task.turn /\ task.cancelled = h.task.cancelled
  BY <1>1 DEF ChatTask
<1> HIDE DEF task
<1>7. g \in ChatConn /\ g.in = h.in /\ g.out = h.out /\ g.net = h.net /\ g.task = task
  BY <1>1, <1>6 DEF ChatConn
<1>8. ~Unused(h) /\ h.net # "new"
  BY <1>1, <1>2 DEF InOrder, Unused, Drained
<1> HIDE DEF g
<1>9. InOrder(g, n, done)
  <2>1. n <= n /\ g.task.turn = h.task.turn /\ g.net # "new" /\ h.task.pc # "none"
    BY <1>1, <1>2, <1>6, <1>7, <1>8
  <2> HIDE DEF n, done
  <2> QED
    BY <1>1, <1>7, <2>1, OrderSame
<1>10. Serves(h, g)
  <2>1. h.task.pc \notin {"none", "rest"} /\ g.task.pc \notin {"none", "rest"}
    BY <1>2, <1>6, <1>7
  <2> QED
    BY <1>6, <1>7, <2>1, WorkServes
<1>11. PagesInv'
  BY <1>2, <1>5, <1>7, <1>8, <1>10, ServerStep DEF h
<1>12. RowsInv'
  BY <1>2, <1>5, <1>7, <1>9, RowsStay
<1>13. holder = c
  BY <1>2 DEF ChatInv, LockInv, h
<1>14. LockInv'
  BY <1>2, <1>5, <1>6, <1>7, <1>13, LockLeft
<1> QED
  BY <1>11, <1>12, <1>14 DEF ChatInv

LEMMA OneMoreGrows ==
  ASSUME NEW S, NEW r \in Seq(S), NEW x \in S
  PROVE  <<x>> \in Seq(S) /\ Grown(r, r \o <<x>>, x) /\ r \o <<>> = r /\ <<>> \in Seq(S)
<1>1. r \o <<x>> = Append(r, x) /\ r \o <<>> = r /\ <<x>> \in Seq(S) /\ <<>> \in Seq(S)
  OBVIOUS
<1> QED
  BY <1>1, AppendGrows

LEMMA EndedIs ==
  ASSUME ChatInv, NEW c \in Chat!Conns, NEW s \in Seq(OutFrames), Chat!Ended(c, s), NEW h, h = conn[c],
         h.task.pc # "none"
  PROVE  \E g \in ChatConn :
           /\ conn' = [conn EXCEPT ![c] = g] /\ g.in = h.in /\ g.net = h.net /\ g.task.pc = "none"
           /\ g.out = (IF h.net = "up" THEN h.out \o s ELSE h.out) /\ ~Unused(h)
<1> DEFINE out == IF h.net = "up" THEN h.out \o s ELSE h.out
<1> DEFINE g == [h EXCEPT !.out = out, !.task = Chat!NoTask]
<1>1. h \in ChatConn
  BY WorkerIs
<1>2. conn \in [Chat!Conns -> ChatConn]
  BY DEF ChatInv, PagesInv
<1>3. conn' = [conn EXCEPT ![c] = g]
  BY <1>1, <1>2 DEF Chat!Ended, ChatConn
<1>4. Chat!NoTask \in ChatTask /\ Chat!NoTask.pc = "none"
  BY DEF Chat!NoTask, ChatTask
<1>5. out \in Seq(OutFrames)
  <2>1. h.out \in Seq(OutFrames)
    BY <1>1 DEF ChatConn
  <2> QED
    BY <2>1, ConcatProperties
<1> HIDE DEF out
<1>6. g \in ChatConn /\ g.in = h.in /\ g.net = h.net /\ g.task = Chat!NoTask /\ g.out = out
  BY <1>1, <1>4, <1>5 DEF ChatConn
<1> HIDE DEF g
<1> QED
  BY <1>3, <1>4, <1>6 DEF out, Unused, Drained

\* The turn of a task that is not at the agent ends.
LEMMA EndStep ==
  ASSUME ChatInv, NEW c \in Chat!Conns, UNCHANGED <<tab, holder, runs>>,
         NEW f \in OutFrames, Chat!Ended(c, <<f>>), NEW h, h = conn[c], f.turn = h.task.turn,
         (f.t = "done" /\ h.task.pc = "rest") \/ (f.t = "error" /\ h.task.pc = "fail"),
         NEW ok \in BOOLEAN,
         audit' = [rows |-> audit.rows \cup {[turn |-> <<c, h.task.turn>>, ok |-> ok]},
                   served |-> IF ok THEN audit.served \cup {<<c, h.task.turn>>} ELSE audit.served]
  PROVE  ChatInv'
<1>1. h \in ChatConn /\ h.out \in Seq(OutFrames)
  BY WorkerIs DEF ChatConn
<1>2. h.task.pc \notin {"none", "turn"}
  OBVIOUS
<1>3. <<f>> \in Seq(OutFrames) /\ Grown(h.out, h.out \o <<f>>, f)
  BY <1>1, OneMoreGrows
<1>4. PICK g \in ChatConn :
           /\ conn' = [conn EXCEPT ![c] = g] /\ g.in = h.in /\ g.net = h.net /\ g.task.pc = "none"
           /\ g.out = (IF h.net = "up" THEN h.out \o <<f>> ELSE h.out) /\ ~Unused(h)
  BY <1>2, <1>3, EndedIs
<1>5. ASSUME h.net = "up" PROVE Serves(h, g)
  <2>1. Grown(h.out, g.out, f)
    BY <1>3, <1>4, <1>5
  <2> QED
    BY <1>2, <1>4, <2>1, TellServes
<1>6. PagesInv'
  BY <1>4, <1>5, ServerStep
<1>7. RowsInv'
  BY <1>2, <1>4, EndedRows
<1>8. conn \in [Chat!Conns -> ChatConn]
  BY DEF ChatInv, PagesInv
<1>9. \A d \in Chat!Conns :
        /\ conn'[d].task.pc = "turn" <=> conn[d].task.pc = "turn"
        /\ conn[d].task.pc = "turn" => conn'[d].task.turn = conn[d].task.turn
  BY <1>2, <1>4, <1>8
<1>10. LockInv'
  BY <1>9, LockStays DEF ChatInv
<1> QED
  BY <1>6, <1>7, <1>10 DEF ChatInv

LEMMA AuditIs ==
  ASSUME ChatInv
  PROVE  audit = [rows |-> audit.rows, served |-> audit.served]
BY DEF ChatInv, RowsInv

LEMMA SendDoneStep ==
  ASSUME ChatInv, NEW c \in Chat!Conns, Chat!SendDone(c)
  PROVE  ChatInv'
<1> DEFINE h == conn[c]
<1>1. h.task.pc = "rest" /\ UNCHANGED <<tab, holder, runs>>
  BY DEF Chat!SendDone, Chat!At
<1>2. h.task \in ChatTask
  BY WorkerIs
<1>3. CASE h.net = "up"
  <2> DEFINE f == [Chat!Frame("done", h.task.turn) EXCEPT !.parts = h.task.parts]
  <2> DEFINE ok == TRUE
  <2>1. /\ Chat!Ended(c, <<f>>)
        /\ audit' = [rows |-> audit.rows \cup {[turn |-> <<c, h.task.turn>>, ok |-> TRUE]},
                     served |-> audit.served \cup {<<c, h.task.turn>>}]
    BY <1>3 DEF Chat!SendDone, Chat!Row, Chat!Run
  <2>2. f \in OutFrames /\ f.t = "done" /\ f.turn = h.task.turn
    <3> DEFINE k == h.task.turn
    <3> DEFINE z == h.task.parts
    <3>1. k \in Nat /\ z \in 1..2
      BY <1>2 DEF ChatTask
    <3> HIDE DEF k, z
    <3>2. Chat!Frame("done", k) \in OutFrames /\ Chat!Frame("done", k).t = "done" /\ Chat!Frame("done", k).turn = k
      BY <3>1 DEF Chat!Frame, OutFrames
    <3>3. f = [Chat!Frame("done", k) EXCEPT !.parts = z]
      BY DEF k, z
    <3> HIDE DEF f
    <3>4. f \in OutFrames /\ f.t = "done" /\ f.turn = k
      BY <3>1, <3>2, <3>3 DEF OutFrames
    <3> QED
      BY <3>4 DEF k
  <2>3. audit' = [rows |-> audit.rows \cup {[turn |-> <<c, h.task.turn>>, ok |-> ok]},
                  served |-> IF ok THEN audit.served \cup {<<c, h.task.turn>>} ELSE audit.served]
    BY <2>1
  <2>4. ok \in BOOLEAN
    OBVIOUS
  <2> HIDE DEF f, ok
  <2> QED
    BY <1>1, <2>1, <2>2, <2>3, <2>4, EndStep
<1>4. CASE h.net # "up"
  <2>1. Chat!Goto(c, "fail") /\ UNCHANGED audit
    BY <1>4 DEF Chat!SendDone
  <2> QED
    BY <1>1, <1>4, <2>1, GoesOn
<1> QED
  BY <1>3, <1>4

LEMMA SendErrorStep ==
  ASSUME ChatInv, NEW c \in Chat!Conns, Chat!SendError(c)
  PROVE  ChatInv'
<1> DEFINE h == conn[c]
<1> DEFINE f == Chat!Frame("error", h.task.turn)
<1> DEFINE ok == FALSE
<1>1. h.task.pc = "fail" /\ UNCHANGED <<tab, holder, runs>> /\ Chat!Ended(c, <<f>>)
  BY DEF Chat!SendError, Chat!At
<1>2. audit' = [audit EXCEPT !.rows = @ \cup {[turn |-> <<c, h.task.turn>>, ok |-> FALSE]}]
  BY DEF Chat!SendError, Chat!RowOfError, Chat!Row, Chat!Run
<1>3. audit' = [rows |-> audit.rows \cup {[turn |-> <<c, h.task.turn>>, ok |-> ok]},
                served |-> IF ok THEN audit.served \cup {<<c, h.task.turn>>} ELSE audit.served]
  BY <1>2, AuditIs
<1>4. f \in OutFrames /\ f.t = "error" /\ f.turn = h.task.turn
  <2> DEFINE k == h.task.turn
  <2>1. k \in Nat
    BY WorkerIs DEF ChatTask
  <2> HIDE DEF k
  <2>2. Chat!Frame("error", k) \in OutFrames /\ Chat!Frame("error", k).t = "error" /\ Chat!Frame("error", k).turn = k
    BY <2>1 DEF Chat!Frame, OutFrames
  <2> QED
    BY <2>2 DEF k
<1>5. ok \in BOOLEAN
  OBVIOUS
<1> HIDE DEF f, ok
<1> QED
  BY <1>1, <1>3, <1>4, <1>5, EndStep

\* A cancelled task ends without a word.
LEMMA CancelledStep ==
  ASSUME ChatInv, NEW c \in Chat!Conns, Chat!Cancelled(c)
  PROVE  ChatInv'
<1> DEFINE h == conn[c]
<1> DEFINE ok == FALSE
<1>1. /\ h.task.pc # "none" /\ h.task.cancelled /\ holder' = (IF holder = c THEN Chat!NoOne ELSE holder)
      /\ Chat!Ended(c, <<>>) /\ UNCHANGED <<tab, runs>>
  BY DEF Chat!Cancelled, Chat!Busy
<1>2. audit' = [audit EXCEPT !.rows = @ \cup {[turn |-> <<c, h.task.turn>>, ok |-> FALSE]}]
  BY DEF Chat!Cancelled, Chat!Row, Chat!Run
<1>3. audit' = [rows |-> audit.rows \cup {[turn |-> <<c, h.task.turn>>, ok |-> ok]},
                served |-> IF ok THEN audit.served \cup {<<c, h.task.turn>>} ELSE audit.served]
  BY <1>2, AuditIs
<1>4. h.out \in Seq(OutFrames)
  BY WorkerIs DEF ChatConn
<1>5. h.out \o <<>> = h.out /\ <<>> \in Seq(OutFrames)
  <2> DEFINE r == h.out
  <2>1. r \in Seq(OutFrames)
    BY <1>4
  <2> HIDE DEF r
  <2>2. r \o <<>> = r /\ <<>> \in Seq(OutFrames)
    BY <2>1
  <2> QED
    BY <2>2 DEF r
<1>6. PICK g \in ChatConn :
           /\ conn' = [conn EXCEPT ![c] = g] /\ g.in = h.in /\ g.net = h.net /\ g.task.pc = "none"
           /\ g.out = (IF h.net = "up" THEN h.out \o <<>> ELSE h.out) /\ ~Unused(h)
  BY <1>1, <1>5, EndedIs
<1>7. g.out = h.out
  BY <1>5, <1>6
<1>8. Serves(h, g)
  <2> HIDE DEF h
  <2> QED
    BY <1>1, <1>6, <1>7, CancelledServes
<1>9. PagesInv'
  BY <1>1, <1>6, <1>8, ServerStep
<1>10. RowsInv'
  <2>1. ok \in BOOLEAN
    OBVIOUS
  <2> HIDE DEF ok
  <2> QED
    BY <1>1, <1>3, <1>6, <2>1, EndedRows
<1>11. LockInv'
  <2>1. CASE holder = c
    BY <1>1, <1>6, <2>1, LockLeft
  <2>2. CASE holder # c
    <3>1. h.task.pc # "turn"
      BY <2>2 DEF ChatInv, LockInv
    <3>2. conn \in [Chat!Conns -> ChatConn]
      BY DEF ChatInv, PagesInv
    <3>3. \A d \in Chat!Conns :
            /\ conn'[d].task.pc = "turn" <=> conn[d].task.pc = "turn"
            /\ conn[d].task.pc = "turn" => conn'[d].task.turn = conn[d].task.turn
      BY <1>6, <3>1, <3>2
    <3> QED
      BY <1>1, <2>2, <3>3, LockStays DEF ChatInv
  <2> QED
    BY <2>1, <2>2
<1> QED
  BY <1>9, <1>10, <1>11 DEF ChatInv

LEMMA SendDeltaStep ==
  ASSUME ChatInv, NEW c \in Chat!Conns, Chat!SendDelta(c)
  PROVE  ChatInv'
<1> DEFINE h == conn[c]
<1> DEFINE n == tab[c[1]].turn
<1> DEFINE done == Behind(c)
<1>1. h.task.pc = "reply" /\ ~h.task.cancelled /\ UNCHANGED <<tab, holder, runs, audit>>
  BY DEF Chat!SendDelta, Chat!At
<1>2. /\ h \in ChatConn /\ h.task \in ChatTask /\ Numbered(h) /\ n \in Nat /\ done \in SUBSET Nat
      /\ InOrder(h, n, done)
  BY WorkerIs
<1>3. CASE h.net = "up"
  <2> DEFINE f == Chat!Frame("delta", h.task.turn)
  <2> DEFINE out == Chat!Out(c, f)
  <2> DEFINE task == [h.task EXCEPT !.pc = "rest"]
  <2> DEFINE g == [h EXCEPT !.out = out, !.task = task]
  <2>1. conn \in [Chat!Conns -> ChatConn]
    BY DEF ChatInv, PagesInv
  <2>2. conn' = [conn EXCEPT ![c] = g]
    <3>1. conn' = [conn EXCEPT ![c].out = out, ![c].task.pc = "rest"]
      BY <1>3 DEF Chat!SendDelta
    <3> HIDE DEF out
    <3> QED
      BY <1>2, <2>1, <3>1 DEF ChatConn
  <2>3. f \in OutFrames /\ f.t = "delta" /\ f.turn = h.task.turn
    <3> DEFINE k == h.task.turn
    <3>1. k \in Nat
      BY <1>2 DEF ChatTask
    <3> HIDE DEF k
    <3>2. /\ Chat!Frame("delta", k) \in OutFrames /\ Chat!Frame("delta", k).t = "delta"
          /\ Chat!Frame("delta", k).turn = k
      BY <3>1 DEF Chat!Frame, OutFrames
    <3> QED
      BY <3>2 DEF k
  <2> HIDE DEF f
  <2>4. out \in Seq(OutFrames) /\ Grown(h.out, out, f)
    BY <1>3, <2>3, OutIs
  <2> HIDE DEF out, h
  <2>5. task \in ChatTask /\ task.pc = "rest" /\ task.turn = h.task.turn /\ task.cancelled = h.task.cancelled
    BY <1>2 DEF ChatTask
  <2> HIDE DEF task
  <2>6. g \in ChatConn /\ g.in = h.in /\ g.out = out /\ g.net = h.net /\ g.task = task
    BY <1>2, <2>4, <2>5 DEF ChatConn
  <2> HIDE DEF g
  <2>7. Serves(h, g)
    BY <1>1, <2>3, <2>4, <2>5, <2>6, TellServes
  <2>8. InOrder(g, n, done)
    <3>1. n <= n /\ g.task.turn = h.task.turn /\ g.net # "new" /\ h.task.pc # "none"
      BY <1>1, <1>2, <1>3, <2>5, <2>6
    <3> HIDE DEF n, done
    <3> QED
      BY <1>2, <2>6, <3>1, OrderSame
  <2>9. ~Unused(h) /\ g.task.pc # "turn" /\ h.task.pc # "turn"
    BY <1>1, <1>3, <2>5, <2>6 DEF Unused
  <2> QED
    BY <1>1, <2>2, <2>6, <2>7, <2>8, <2>9, PlainStep DEF h
<1>4. CASE h.net # "up"
  <2>1. Chat!Goto(c, "fail")
    BY <1>4 DEF Chat!SendDelta
  <2> QED
    BY <1>1, <2>1, GoesOn
<1> QED
  BY <1>3, <1>4

\* An agent's run that ends by itself is not the holder's.
LEMMA OrphanStep ==
  ASSUME ChatInv, NEW c \in Chat!Conns, NEW n, Chat!OrphanEnds(<<c, n>>)
  PROVE  ChatInv'
<1> DEFINE r == <<c, n>>
<1>1. UNCHANGED <<tab, conn, holder, audit>> /\ runs' = runs \ {r} /\ ~(Chat!Busy(c) /\ Chat!Run(c) = r)
  BY DEF Chat!OrphanEnds
<1>2. PagesInv' /\ RowsInv'
  <2>1. \A d : Behind(d)' = Behind(d)
    BY <1>1 DEF Behind
  <2> QED
    BY <1>1, <2>1 DEF ChatInv, PagesInv, RowsInv
<1>3. ASSUME holder # Chat!NoOne PROVE Chat!Run(holder) # r
  <2>1. holder \in Chat!Conns
    BY <1>3 DEF ChatInv, LockInv
  <2>2. Chat!Busy(holder)
    BY <2>1 DEF ChatInv, LockInv, Chat!Busy
  <2>3. holder = c => Chat!Run(holder) # r
    BY <1>1, <2>2
  <2> QED
    BY <2>3 DEF Chat!Run
<1>4. LockInv'
  <2>1. \A d \in Chat!Conns : conn'[d].task.pc = "turn" <=> holder' = d
    BY <1>1 DEF ChatInv, LockInv
  <2>2. holder' # Chat!NoOne => holder' \in Chat!Conns /\ <<holder', conn'[holder'].task.turn>> \in runs'
    BY <1>1, <1>3 DEF ChatInv, LockInv, Chat!Run
  <2> QED
    BY <2>1, <2>2 DEF LockInv, Chat!Run, Chat!NoOne
<1> QED
  BY <1>2, <1>4 DEF ChatInv

LEMMA ChatBegins == ASSUME Chat!Init PROVE ChatInv
<1> DEFINE p0 == [gen |-> 1, sock |-> "connecting", opened |-> FALSE, waiting |-> <<>>,
                  turn |-> 0, streaming |-> FALSE, log |-> <<>>, bubble |-> 0, pending |-> {},
                  timers |-> <<>>, stops |-> 0, stopped |-> {}, cut |-> {}, answered |-> {}, hurt |-> FALSE]
<1> DEFINE h0 == [net |-> "new", handler |-> "none", in |-> <<>>, out |-> <<>>, task |-> Chat!NoTask]
<1>1. /\ tab = [t \in Tabs |-> p0] /\ conn = [c \in Chat!Conns |-> h0]
      /\ holder = Chat!NoOne /\ runs = {} /\ audit = [rows |-> {}, served |-> {}]
  BY DEF Chat!Init
<1>2. p0 \in ChatTab
  <2>1. 1 \in 1..MaxDrops + 1 /\ 0 \in 0..MaxTurns /\ 0 \in Nat /\ {} \in SUBSET Nat
    BY ChatAssumption
  <2>2. <<>> \in Seq(Nat) /\ <<>> \in Seq(Bubbles) /\ <<>> \in Seq(ChatTimers)
    OBVIOUS
  <2>3. {} \in SUBSET (Nat \X (1..2))
    OBVIOUS
  <2> QED
    BY <2>1, <2>2, <2>3 DEF ChatTab
<1>3. h0 \in ChatConn
  <2>1. Chat!NoTask \in ChatTask
    BY DEF Chat!NoTask, ChatTask
  <2>2. <<>> \in Seq(InFrames) /\ <<>> \in Seq(OutFrames)
    OBVIOUS
  <2> QED
    BY <2>1, <2>2 DEF ChatConn
<1>4. Unused(h0) /\ h0.task.pc = "none" /\ h0.in = <<>> /\ Len(h0.in) = 0
  BY DEF Unused, Drained, Chat!NoTask
<1>5. TabInv(p0)
  <2>1. Len(p0.log) = 0 /\ Len(p0.timers) = 0 /\ Len(p0.waiting) = 0
    OBVIOUS
  <2>2. TurnsOf(p0) /\ LogOf(p0)
    BY <2>1 DEF TurnsOf, LogOf, InPlace
  <2>3. TimersOf(p0) /\ WaitingOf(p0) /\ AnswersOf(p0)
    BY <2>1 DEF TimersOf, WaitingOf, AnswersOf
  <2> QED
    BY <2>2, <2>3 DEF TabInv
<1>6. LinkInv(p0, h0)
  BY <1>4 DEF LinkInv, SockInv, CarryInv, LifeInv
<1>7. InOrder(h0, 0, {})
  BY <1>4 DEF InOrder
<1>8. p0.gen = 1 /\ p0.turn = 0
  OBVIOUS
<1> HIDE DEF p0, h0
<1>9. \A t \in Tabs : tab[t] = p0 /\ <<t, 1>> \in Chat!Conns
  BY <1>1, ChatAssumption DEF Chat!Conns
<1>10. \A c \in Chat!Conns : conn[c] = h0 /\ c[1] \in Tabs
  BY <1>1 DEF Chat!Conns
<1>11. PagesInv
  <2>1. tab \in [Tabs -> ChatTab] /\ conn \in [Chat!Conns -> ChatConn]
    BY <1>1, <1>2, <1>3
  <2>2. \A t \in Tabs : TabInv(tab[t]) /\ LinkInv(tab[t], conn[<<t, tab[t].gen>>])
    BY <1>5, <1>6, <1>8, <1>9, <1>10
  <2>3. \A c \in Chat!Conns : Unused(conn[c])
    BY <1>4, <1>10
  <2> QED
    BY <2>1, <2>2, <2>3 DEF PagesInv
<1>12. LockInv
  BY <1>1, <1>4, <1>10, ConnIsSomeone DEF LockInv
<1>13. RowsInv
  <2>1. audit.rows = {} /\ audit.served = {}
    BY <1>1
  <2>2. \A c : Behind(c) = {}
    BY <2>1 DEF Behind
  <2>3. \A c \in Chat!Conns : InOrder(conn[c], tab[c[1]].turn, Behind(c))
    BY <1>7, <1>8, <1>9, <1>10, <2>2
  <2>4. audit \in [rows : SUBSET [turn : Chat!Conns \X Nat, ok : BOOLEAN], served : SUBSET (Chat!Conns \X Nat)]
    BY <1>1
  <2> QED
    BY <2>1, <2>3, <2>4 DEF RowsInv
<1> QED
  BY <1>11, <1>12, <1>13 DEF ChatInv

LEMMA ChatKeeps == ASSUME ChatInv, Chat!Next \/ UNCHANGED chat PROVE ChatInv'
<1>1. ASSUME NEW t \in Tabs, Chat!Page(t) PROVE ChatInv'
  BY <1>1, ReceiveStep, PaintStep, TickStep, GiveUpStep, OpenStep, ReconnectStep DEF Chat!Page
<1>2. ASSUME NEW t \in Tabs, Chat!Send(t) \/ Chat!Drop(t) \/ Chat!Leave(t) PROVE ChatInv'
  BY <1>2, SendStep, DropStep, LeaveStep
<1>3. ASSUME NEW t \in Tabs, NEW clear \in BOOLEAN, Chat!Stop(t, clear) PROVE ChatInv'
  BY <1>3, StopStep
<1>4. ASSUME NEW c \in Chat!Conns, Chat!Read(c) \/ Chat!Notice(c) PROVE ChatInv'
  BY <1>4, ReadStep, NoticeStep
<1>5. ASSUME NEW c \in Chat!Conns, Chat!Task(c) PROVE ChatInv'
  BY <1>5, ClassifyStep, TakeStep, LockTimeoutStep, AnswerStep, SendDeltaStep, SendDoneStep, SendErrorStep,
     CancelledStep DEF Chat!Task
<1>6. ASSUME NEW c \in Chat!Conns, NEW n \in 1..MaxTurns, Chat!OrphanEnds(<<c, n>>) PROVE ChatInv'
  BY <1>6, OrphanStep
<1>7. CASE UNCHANGED chat
  <2>1. UNCHANGED <<tab, conn, holder, runs, audit>>
    BY <1>7 DEF chat
  <2>2. PagesInv'
    BY <2>1 DEF ChatInv, PagesInv
  <2>3. LockInv'
    BY <2>1, LockStays DEF ChatInv
  <2>4. \A c : Behind(c)' = Behind(c)
    BY <2>1 DEF Behind
  <2>5. RowsInv'
    BY <2>1, <2>4 DEF ChatInv, RowsInv
  <2> QED
    BY <2>2, <2>3, <2>5 DEF ChatInv
<1> QED
  BY <1>1, <1>2, <1>3, <1>4, <1>5, <1>6, <1>7 DEF Chat!Next

\* One element, and two.
LEMMA CountIs ==
  ASSUME NEW S, IsFiniteSet(S)
  PROVE  /\ Cardinality(S) \in Nat
         /\ \A i \in S : Cardinality(S) >= 1
         /\ \A i, j \in S : i # j => Cardinality(S) >= 2
<1>1. Cardinality(S) \in Nat
  BY FS_CardinalityType
<1>2. ASSUME NEW i \in S PROVE Cardinality(S) >= 1
  <2>1. {i} \in SUBSET S /\ Cardinality({i}) = 1
    BY FS_Singleton
  <2>2. 1 <= Cardinality(S)
    BY <2>1, FS_Subset
  <2> QED
    BY <1>1, <2>2
<1>3. ASSUME NEW i \in S, NEW j \in S, i # j PROVE Cardinality(S) >= 2
  <2>1. IsFiniteSet({i}) /\ Cardinality({i}) = 1
    BY FS_Singleton
  <2>2. Cardinality({i} \cup {j}) = 1 + 1
    BY <1>3, <2>1, FS_AddElement
  <2>3. {i} \cup {j} \in SUBSET S
    OBVIOUS
  <2>4. 1 + 1 <= Cardinality(S)
    BY <2>2, <2>3, FS_Subset
  <2> QED
    BY <1>1, <2>4
<1> QED
  BY <1>1, <1>2, <1>3

\* The texts that a page shows of a turn, and those it holds back.
LEMMA WholeIsShown ==
  ASSUME NEW p \in ChatTab, NEW a \in Nat \X (1..2), Whole(p, a)
  PROVE  Chat!Cardinality({k \in DOMAIN p.log : p.log[k].who = "bot" /\ a[1] \in p.log[k].of})
         + Chat!Cardinality({k \in DOMAIN p.timers : p.timers[k] = Chat!Timer("text", a[1])}) >= a[2]
<1> DEFINE S == {k \in DOMAIN p.log : p.log[k].who = "bot" /\ a[1] \in p.log[k].of}
<1> DEFINE T == {k \in DOMAIN p.timers : p.timers[k] = Chat!Timer("text", a[1])}
<1>1. p.log \in Seq(Bubbles) /\ p.timers \in Seq(ChatTimers)
  BY DEF ChatTab
<1>2. /\ Len(p.log) \in Nat /\ DOMAIN p.log = 1..Len(p.log)
      /\ Len(p.timers) \in Nat /\ DOMAIN p.timers = 1..Len(p.timers)
  <2>1. ASSUME NEW X, NEW s \in Seq(X) PROVE Len(s) \in Nat /\ DOMAIN s = 1..Len(s)
    BY LenProperties
  <2> QED
    BY <1>1, <2>1
<1>3. IsFiniteSet(S) /\ IsFiniteSet(T)
  <2>1. IsFiniteSet(1..Len(p.log)) /\ IsFiniteSet(1..Len(p.timers))
    <3>1. \A b \in Nat : 1 \in Int /\ b \in Int
      OBVIOUS
    <3>2. \A b \in Nat : IsFiniteSet(1..b)
      BY <3>1, FS_Interval
    <3> QED
      BY <1>2, <3>2
  <2>2. S \in SUBSET (1..Len(p.log)) /\ T \in SUBSET (1..Len(p.timers))
    BY <1>2
  <2> QED
    BY <2>1, <2>2, FS_Subset
<1>4. Chat!Cardinality(S) = Cardinality(S) /\ Chat!Cardinality(T) = Cardinality(T)
  BY DEF Chat!Cardinality, Cardinality
<1>5. \A i \in 1..Len(p.log) : Shows(p, i, a[1]) => i \in S
  BY <1>2 DEF Shows
<1>6. ASSUME NEW i \in 1..Len(p.timers), Delays(p, i, a[1]) PROVE i \in T
  <2>1. p.timers[i] \in ChatTimers
    BY <1>1, ElementOfSeq
  <2>2. p.timers[i] = [t |-> "text", turn |-> a[1]]
    BY <1>6, <2>1 DEF Delays, ChatTimers
  <2> QED
    BY <1>2, <2>2 DEF Chat!Timer
<1>7. a[2] \in 1..2
  OBVIOUS
<1> HIDE DEF S, T
<1>8. Cardinality(S) \in Nat /\ Cardinality(T) \in Nat
  BY <1>3, CountIs
<1>9. CASE a[2] = 1 /\ \E i \in 1..Len(p.log) : Shows(p, i, a[1])
  <2>1. Cardinality(S) >= 1
    BY <1>3, <1>5, <1>9, CountIs
  <2> QED
    BY <1>4, <1>8, <1>9, <2>1 DEF S, T
<1>10. CASE \E i, j \in 1..Len(p.log) : i # j /\ Shows(p, i, a[1]) /\ Shows(p, j, a[1])
  <2>1. Cardinality(S) >= 2
    BY <1>3, <1>5, <1>10, CountIs
  <2> QED
    BY <1>4, <1>7, <1>8, <2>1 DEF S, T
<1>11. CASE \E i \in 1..Len(p.log), j \in 1..Len(p.timers) : Shows(p, i, a[1]) /\ Delays(p, j, a[1])
  <2>1. Cardinality(S) >= 1 /\ Cardinality(T) >= 1
    BY <1>3, <1>5, <1>6, <1>11, CountIs
  <2> QED
    BY <1>4, <1>7, <1>8, <2>1 DEF S, T
<1> QED
  BY <1>9, <1>10, <1>11 DEF Whole

LEMMA ChatHold == ASSUME ChatInv PROVE ChatIsTrue
<1>1. Chat!TypeOK
  <2>1. ASSUME NEW t \in Tabs
        PROVE  /\ tab[t].sock \in {"connecting", "open", "backoff", "off"}
               /\ tab[t].gen \in 1..MaxDrops + 1 /\ tab[t].turn \in 0..MaxTurns
               /\ tab[t].bubble \in 0..Len(tab[t].log)
    <3> DEFINE p == tab[t]
    <3>1. p \in ChatTab /\ LogOf(p)
      BY DEF ChatInv, PagesInv, TabInv
    <3> HIDE DEF p
    <3>2. p.log \in Seq(Bubbles) /\ p.bubble \in Nat
      BY <3>1 DEF ChatTab
    <3>3. Len(p.log) \in Nat
      BY <3>2, LenProperties
    <3>4. p.bubble \in 0..Len(p.log)
      BY <3>1, <3>2, <3>3 DEF LogOf
    <3> QED
      BY <3>1, <3>4 DEF ChatTab, p
  <2>2. \A c \in Chat!Conns : conn[c].task.pc = "turn" <=> holder = c
    BY DEF ChatInv, LockInv
  <2>3. holder # Chat!NoOne => Chat!Run(holder) \in runs
    BY DEF ChatInv, LockInv
  <2> QED
    BY <2>1, <2>2, <2>3 DEF Chat!TypeOK
<1>2. Chat!WholeReply
  <2> SUFFICES ASSUME NEW t \in Tabs, NEW a \in tab[t].answered,
                      ~(a[1] \in Chat!GivenUp(tab[t]) \/ tab[t].sock = "off")
               PROVE  Chat!Cardinality({k \in DOMAIN tab[t].log : tab[t].log[k].who = "bot" /\ a[1] \in tab[t].log[k].of})
                      + Chat!Cardinality({k \in DOMAIN tab[t].timers : tab[t].timers[k] = Chat!Timer("text", a[1])}) >= a[2]
    BY DEF Chat!WholeReply
  <2> DEFINE p == tab[t]
  <2>1. p \in ChatTab /\ AnswersOf(p)
    BY DEF ChatInv, PagesInv, TabInv
  <2>2. a \in Nat \X (1..2)
    BY <2>1 DEF ChatTab
  <2>3. Whole(p, a)
    BY <2>1 DEF AnswersOf, GoneBy, Chat!GivenUp
  <2> QED
    BY <2>1, <2>2, <2>3, WholeIsShown
<1>3. Chat!RepliesInPlace
  <2> SUFFICES ASSUME NEW t \in Tabs
               PROVE  /\ \A i, j \in DOMAIN tab[t].log :
                           /\ i < j /\ tab[t].log[i].who = "user" /\ tab[t].log[j].who = "bot"
                           => \A n \in tab[t].log[j].of, m \in tab[t].log[i].of : n < m => n \in Chat!GivenUp(tab[t])
                      /\ \A n \in tab[t].cut : \E m \in tab[t].stopped : m < n
    BY DEF Chat!RepliesInPlace
  <2> DEFINE p == tab[t]
  <2>1. p \in ChatTab /\ TurnsOf(p) /\ InPlace(p)
    BY DEF ChatInv, PagesInv, TabInv, LogOf
  <2>2. DOMAIN p.log = 1..Len(p.log)
    <3>1. p.log \in Seq(Bubbles)
      BY <2>1 DEF ChatTab
    <3> QED
      BY <3>1, LenProperties
  <2>3. \A n \in p.cut : \E m \in p.stopped : m < n
    BY <2>1 DEF TurnsOf
  <2>4. \A i, j \in DOMAIN p.log :
          i < j /\ p.log[i].who = "user" /\ p.log[j].who = "bot" =>
            \A n \in p.log[j].of, m \in p.log[i].of : n < m => n \in Chat!GivenUp(p)
    BY <2>1, <2>2 DEF InPlace, GoneBy, Chat!GivenUp
  <2> QED
    BY <2>3, <2>4
<1>4. Chat!AuditIsTrue
  BY DEF ChatInv, RowsInv, Chat!AuditIsTrue
<1> QED
  BY <1>1, <1>2, <1>3, <1>4 DEF ChatIsTrue

--------------------------------------------------------------------------------
(* The whole. *)

IInv == ChatInv /\ AuthInv /\ PanelInv /\ EventsInv /\ AuditInv /\ StoreInv /\ DomInv /\ TalkInv

LEMMA LayersKeep ==
  ASSUME DomInv, TalkInv, Layers!Next \/ UNCHANGED layers
  PROVE  DomInv' /\ TalkInv'
<1>1. CASE Layers!Next
  BY <1>1, DomKeeps, TalkKeeps
<1>2. CASE UNCHANGED layers
  <2>1. UNCHANGED <<route, stack, locks, prev, focus, there>>
    BY <1>2 DEF layers
  <2>2. UNCHANGED <<Layers!page, Layers!ask>> /\ UNCHANGED picker
    BY <1>2 DEF layers, Layers!page, Layers!ask
  <2> QED
    BY <2>1, <2>2, DomSame, TalkSame
<1> QED
  BY <1>1, <1>2

LEMMA Invariance == Spec => []IInv
<1>1. Init => IInv
  BY ChatBegins, Granted, AuthBegins, PanelBegins, EventsBegin, AuditBegins, StoreBegins, DomBegins, TalkBegins DEF Init, IInv
<1>2. IInv /\ [Next]_vars => IInv'
  BY StepOfOne, ChatKeeps, AuthKeeps, PanelKeeps, EventsKeep, AuditKeeps, StoreKeeps, LayersKeep DEF IInv
<1>3. Spec => Init /\ [][Next]_vars
  BY PTL DEF Spec
<1> QED
  BY <1>1, <1>2, <1>3, PTL

\* useConversation.ts: whoever has seen "done" for a message finds all the texts of its
\* reply on the page or under a timer, and no text below a message that came after it,
\* unless that turn was stopped or cut short by another's end, and none is cut short
\* before the user has stopped one. ws/agents.py: the audit says "ok" of the turns whose
\* reply went out to the end, and of no other.
THEOREM ChatHolds == Spec => []ChatIsTrue
<1>1. IInv => ChatIsTrue
  BY ChatHold DEF IInv
<1> QED
  BY <1>1, Invariance, PTL

\* client.ts: a tab with one refresh in flight at a time is never sent to /login for a
\* token it used up itself, whatever other tabs, reloads and lost answers do.
THEOREM TabsStay == Spec => []NotByItself
<1>1. IInv => NotByItself
  BY AuthHolds DEF IInv
<1> QED
  BY <1>1, Invariance, PTL

\* ws/events.py: while a connection lasts, every event since its handler subscribed, and
\* every one its page asked for that the buffer still held, has arrived, is on its way or
\* was given up for its deadline. ws/rules.py: what a feed of hits has written, writes and
\* queues is in order and ends with the latest hit.
THEOREM FeedsHold == Spec => []FeedsAreTrue
<1>1. IInv => FeedsAreTrue
  BY EventsHold, AuditHolds DEF IInv, FeedsAreTrue
<1> QED
  BY <1>1, Invariance, PTL

\* routers/kv.py: the pages of a listing show every key that was there all the time, none
\* twice. useTriggerSuggest.ts: the panel shows the chosen agent's triggers, whichever
\* load answers last. useOverlay.ts, useConfirm.ts, useConversation.ts: a settled page
\* scrolls exactly when nothing lies over it, a yes clears the conversation its question
\* named, and a stream ends with its page unless that page was left waiting.
THEOREM ListsHold == Spec => []ListsAreTrue
<1>1. IInv => ListsAreTrue
  BY StoreHolds, PanelHolds, LayersHold DEF IInv, ListsAreTrue
<1> QED
  BY <1>1, Invariance, PTL
================================================================================
