------------------------------ MODULE WebAuth ------------------------------
(* Sessions of the Web UI: the refresh tokens the server records, rotates and   *)
(* revokes (auth.py, routers/auth.py), and the tabs of a browser that share a   *)
(* store and renew their access token when a request is refused (client.ts,     *)
(* store/auth.ts). A refresh token is the number of its issue; a handler of the *)
(* server has no await and is one step.                                         *)
EXTENDS Naturals, FiniteSets

CONSTANTS
  Tabs,
  Requests,   \* API requests a tab can have open
  MaxTokens   \* bound: refresh tokens issued

None == 0
Tokens == 1..MaxTokens

VARIABLES
  issued,   \* how many refresh tokens were recorded
  ended,    \* what revoked a token: a tab's refresh, "logout", "reset", or nothing
  tab,      \* each tab's memory, and its refresh in flight
  req,      \* each request of each tab
  store,    \* the refresh token in the browser's storage
  bounced   \* history: the token each tab was last sent to /login for

vars == <<issued, ended, tab, req, store, bounced>>

SignedOut == [refresh |-> None, fresh |-> FALSE, asks |-> None, answer |-> None]

Init ==
  /\ issued = 0 /\ ended = [n \in Tokens |-> "no"]
  /\ tab = [t \in Tabs |-> SignedOut]
  /\ req = [t \in Tabs |-> [r \in Requests |-> "idle"]]
  /\ store = None /\ bounced = [t \in Tabs |-> None]

--------------------------------------------------------------------------------
\* setTokens and clear write the tab's memory and the shared storage.
Holds(t, n) == [tab[t] EXCEPT !.refresh = n, !.fresh = n # None]

\* /login: the password is right.
Login(t) ==
  /\ tab[t].refresh = None /\ issued < MaxTokens
  /\ issued' = issued + 1
  /\ tab' = [tab EXCEPT ![t] = Holds(t, issued + 1)] /\ store' = issued + 1
  /\ UNCHANGED <<ended, req, bounced>>

\* The answer to a refresh will not be heard, whether the server gets to it or not.
Unheard(t) ==
  LET n == tab[t].asks
  IN IF n # None /\ ended[n] \in {"no", t}
     THEN \E gone \in (IF ended[n] = t THEN {TRUE} ELSE BOOLEAN) :
            ended' = IF gone THEN [ended EXCEPT ![n] = "lost"] ELSE ended
     ELSE UNCHANGED ended

\* The page is loaded again: memory is what the storage holds, and whatever was
\* in flight is forgotten.
Reload(t) ==
  /\ tab[t].refresh # store \/ tab[t].asks # None
  /\ tab' = [tab EXCEPT ![t] = [SignedOut EXCEPT !.refresh = store]]
  /\ req' = [req EXCEPT ![t] = [r \in Requests |-> "idle"]]
  /\ Unheard(t)
  /\ UNCHANGED <<issued, store, bounced>>

\* The access token expires.
Expire(t) ==
  /\ tab[t].fresh /\ tab' = [tab EXCEPT ![t].fresh = FALSE]
  /\ UNCHANGED <<issued, ended, req, store, bounced>>

\* Bug: every refused request refreshes for itself.
JoinNever(t) == FALSE

\* refreshInflight: a refresh is on its way, and its outcome is everybody's.
Joins(t) == tab[t].asks # None

\* A request goes out with an access token that has expired, and gets a 401.
Refused(t, r) ==
  /\ req[t][r] = "idle" /\ tab[t].refresh # None /\ ~tab[t].fresh
  /\ req' = [req EXCEPT ![t][r] = "waiting"]
  /\ tab' = IF Joins(t) THEN tab
            ELSE [tab EXCEPT ![t].asks = tab[t].refresh, ![t].answer = None]
  /\ UNCHANGED <<issued, ended, store, bounced>>

\* The refresh token is revoked as its successor is recorded.
Rotated(n, t) == [ended EXCEPT ![n] = t]

\* /refresh, and the answer on its way: a new token, or "refused" (MaxTokens + 1).
Refresh(t) ==
  LET n == tab[t].asks
  IN /\ n # None /\ tab[t].answer = None
     /\ IF ended[n] = "no"
        THEN /\ issued < MaxTokens /\ issued' = issued + 1
             /\ ended' = Rotated(n, t)
             /\ tab' = [tab EXCEPT ![t].answer = issued + 1]
        ELSE /\ tab' = [tab EXCEPT ![t].answer = MaxTokens + 1]
             /\ UNCHANGED <<issued, ended>>
     /\ UNCHANGED <<req, store, bounced>>

\* The answer arrives. New tokens serve everybody who waits; a refusal clears the
\* tab and sends it to /login.
Answered(t) ==
  LET n == tab[t].answer
      good == n \in Tokens
  IN /\ n # None
     /\ tab' = [tab EXCEPT ![t] = [Holds(t, IF good THEN n ELSE None) EXCEPT !.asks = None, !.answer = None]]
     /\ store' = IF good THEN n ELSE None
     /\ req' = [req EXCEPT ![t] = [r \in Requests |-> "idle"]]
     /\ bounced' = IF good THEN bounced ELSE [bounced EXCEPT ![t] = tab[t].asks]
     /\ UNCHANGED <<issued, ended>>

\* The request fails or its answer is lost: that clears the tab as well.
Failed(t) ==
  /\ tab[t].asks # None
  /\ tab' = [tab EXCEPT ![t] = SignedOut] /\ store' = None
  /\ req' = [req EXCEPT ![t] = [r \in Requests |-> "idle"]]
  /\ Unheard(t)
  /\ UNCHANGED <<issued, bounced>>

\* The logout button: the token in memory is revoked, then memory is cleared; a
\* refresh in flight is not called off.
Logout(t) ==
  /\ tab[t].refresh # None
  /\ ended' = [ended EXCEPT ![tab[t].refresh] = IF @ = "no" THEN "logout" ELSE @]
  /\ tab' = [tab EXCEPT ![t].refresh = None, ![t].fresh = FALSE] /\ store' = None
  /\ UNCHANGED <<issued, req, bounced>>

\* upsert_user: a new password ends every session.
Reset ==
  /\ \E n \in 1..issued : ended[n] = "no"
  /\ ended' = [n \in Tokens |-> IF n <= issued /\ ended[n] = "no" THEN "reset" ELSE ended[n]]
  /\ UNCHANGED <<issued, tab, req, store, bounced>>

Next ==
  \/ Reset
  \/ \E t \in Tabs :
       \/ Login(t) \/ Reload(t) \/ Expire(t) \/ Refresh(t) \/ Answered(t) \/ Failed(t) \/ Logout(t)
       \/ \E r \in Requests : Refused(t, r)

Spec == Init /\ [][Next]_vars

--------------------------------------------------------------------------------
\* The type invariant: a request waits only for a refresh that is in flight.
TypeOK ==
  /\ issued \in 0..MaxTokens /\ store \in 0..issued
  /\ \A t \in Tabs : /\ tab[t].refresh \in 0..issued /\ tab[t].asks \in 0..issued
                     /\ tab[t].answer \in 0..MaxTokens + 1
                     /\ (\E r \in Requests : req[t][r] = "waiting") => tab[t].asks # None

\* A tab is never sent to /login because it used up its own token: its token was
\* ended by another tab, a logout, a reset, or by a refresh whose answer the
\* tab never got (client.ts: one refresh in flight serves every request).
NotByItself == \A t \in Tabs : bounced[t] # None => ended[bounced[t]] # t

================================================================================
