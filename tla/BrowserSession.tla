--------------------------- MODULE BrowserSession ---------------------------
(***************************************************************************)
(* The browser: tabs that share the signed-in session in localStorage,     *)
(* refresh its access token and sign in and out (auth.js), and send        *)
(* requests, equal reads of which are shared (api.js); of the application  *)
(* the reads of the selected incident's status, and the writes followed by *)
(* such a read (main.jsx, incidentReads.js).                               *)
(*                                                                         *)
(* A page runs one callback at a time: an action is what runs between two  *)
(* awaits.  Cognito and the API are external: they answer, refuse or fail. *)
(***************************************************************************)
EXTENDS Naturals, FiniteSets, Functions

CONSTANTS Tabs, Incidents, None,
          MaxLogins,   \* bound: sign-ins
          MaxTokens,   \* bound: access tokens issued
          MaxWrites,   \* bound: writes served
          MaxCalls     \* bound: calls of one page under way

ASSUME BrowserAssumption ==
  /\ None \notin Incidents
  /\ {MaxLogins, MaxTokens, MaxWrites, MaxCalls} \subseteq Nat

VARIABLES
  stored,   \* the session in localStorage: a sign-in and its current token
  issued,   \* sign-ins and access tokens Cognito has given out
  lapsed,   \* access tokens up to this one have expired
  over,     \* sign-ins up to this one are more than 24 hours old
  written,  \* writes the API has served, per incident
  page      \* what each tab is doing

vars == <<stored, issued, lapsed, over, written, page>>

\* mode: whether the page takes itself for signed in, or is on its way to sign
\* in or out; refresh: the token request under way and the session it renews;
\* shown: the status on the screen, None when there is none or it is marked as
\* refreshing; pending: the reads that can be shared, by token and incident;
\* noted: per incident, the last write of this page that was answered.
NewPage(mode, selected) ==
  [mode |-> mode, refresh |-> None, selected |-> selected, shown |-> None,
   calls |-> {}, requests |-> [id \in {} |-> None], pending |-> [key \in {} |-> None],
   noted |-> [i \in Incidents |-> 0]]

Init ==
  /\ stored = None
  /\ issued = [logins |-> 0, tokens |-> 0]
  /\ lapsed = 0 /\ over = 0
  /\ written = [i \in Incidents |-> 0]
  /\ page = [t \in Tabs |-> NewPage("guest", None)]

-----------------------------------------------------------------------------
(* The session. *)

SavedSession == IF stored = None THEN None ELSE IF stored.login <= over THEN None ELSE stored
Usable == IF SavedSession = None THEN FALSE ELSE SavedSession.token > lapsed

\* Whatever the page is refreshing is no longer for the present session.
Overtaken(p) == IF p.refresh = None THEN p ELSE [p EXCEPT !.refresh.overtaken = TRUE]

\* expireSession, and the application's listener: nothing outstanding counts.
Expired(p) ==
  [Overtaken(p) EXCEPT !.mode = IF @ = "user" THEN "guest" ELSE @, !.selected = None,
     !.shown = None, !.calls = {[c EXCEPT !.latest = FALSE] : c \in @}]

-----------------------------------------------------------------------------
(* Calls and the requests that serve them. *)

Without(f, gone) == Restrict(f, DOMAIN f \ gone)
With(f, x, y) == [z \in DOMAIN f \cup {x} |-> IF z = x THEN y ELSE f[z]]

\* (defect) the latest answer is shown whatever is selected meanwhile
Concerns_Gate(p, c) == c.kind # "write" /\ c.latest

\* What a call brings is shown only if it is the latest and still selected.
Concerns(p, c) == c.kind # "write" /\ c.latest /\ c.incident = p.selected

\* The calls and the requests are done with; a shared read is forgotten only
\* if it is still the one that is shared.
Settled(p, calls, ids, result) ==
  [p EXCEPT !.calls = @ \ calls, !.requests = Without(@, ids),
            !.pending = Without(@, {k \in DOMAIN @ : @[k] \in ids}),
            !.shown = IF \E c \in calls : Concerns(p, c) THEN result ELSE @]

CallsOf(p, id) == {c \in p.calls : c.pc = "request" /\ c.at = id}

\* Everything that waits for a token fails with the refresh.
Unserved(p) ==
  LET ids == {i \in DOMAIN p.requests : p.requests[i].pc = "token"} IN
  [Settled(p, {c \in p.calls : c.pc = "token"} \cup UNION {CallsOf(p, i) : i \in ids},
           ids, None) EXCEPT !.refresh = None]

Supplied(p, token) ==
  [p EXCEPT !.refresh = None,
     !.calls = {IF c.pc = "token" THEN [c EXCEPT !.pc = "ready", !.at = token] ELSE c : c \in @},
     !.requests = [i \in DOMAIN @ |->
        IF @[i].pc = "token" THEN [@[i] EXCEPT !.pc = "sent", !.bearer = token] ELSE @[i]]]

\* (defect) a fresh read leaves an older one to be shared
Shares_Stale(c) == c.kind \notin {"write", "fresh"}

\* Which calls put their request where others find it.
Shares(c) == c.kind # "write"

\* The rest of requestJson once the token is there: an equal read is shared
\* unless the call asks for a fresh one.
Issued(p, c, token) ==
  LET key == <<token, c.incident>>
      id == CHOOSE n \in 1 .. Cardinality(DOMAIN p.requests) + 1 : n \notin DOMAIN p.requests
      served(at) == (p.calls \ {c}) \cup {[c EXCEPT !.pc = "request", !.at = at]} IN
  IF c.kind \notin {"write", "fresh"} /\ key \in DOMAIN p.pending
  THEN [p EXCEPT !.calls = served(p.pending[key])]
  ELSE [p EXCEPT !.calls = served(id),
          !.requests = With(@, id, [incident |-> c.incident, write |-> c.kind = "write",
                                    bearer |-> token, pc |-> "sent", version |-> 0,
                                    again |-> FALSE]),
          !.pending = IF Shares(c) THEN With(@, key, id) ELSE @]

\* refreshCurrent: join the refresh under way or start one.  Without a saved
\* session only what asks for it, the calls and their requests ids, fails.
Refreshes(t, p, calls, ids) ==
  IF SavedSession = None
  THEN /\ stored' = None
       /\ page' = [page EXCEPT ![t] = Expired(Settled(p, calls, ids, None))]
  ELSE /\ UNCHANGED stored
       /\ page' = [page EXCEPT ![t] =
            IF p.refresh # None THEN p
            ELSE [p EXCEPT !.refresh = [session |-> stored, overtaken |-> FALSE, token |-> 0]]]

\* requestJson: a usable token is taken at once.
Calls(t, p, kind, incident) ==
  LET c == [kind |-> kind, incident |-> incident, latest |-> kind # "write",
            pc |-> "token", at |-> 0]
      gated == IF kind = "write" THEN p.calls
               ELSE {[other EXCEPT !.latest = FALSE] : other \in p.calls}
      begun == [p EXCEPT !.calls = gated \cup {c},
                         !.shown = IF kind = "fresh" THEN None ELSE @] IN
  IF Usable
  THEN UNCHANGED stored /\ page' = [page EXCEPT ![t] = Issued(begun, c, stored.token)]
  ELSE Refreshes(t, begun, {c}, {})

Busy(t) == Cardinality(page[t].calls) >= MaxCalls

Polls(t) ==
  /\ page[t].mode = "user" /\ page[t].selected # None /\ ~Busy(t)
  /\ \A c \in page[t].calls : c.kind # "poll"
  /\ Calls(t, page[t], "poll", page[t].selected)
  /\ UNCHANGED <<issued, lapsed, over, written>>

\* An operation on the incident is offered while its status is shown.
Writes(t) ==
  /\ page[t].mode = "user" /\ page[t].shown # None /\ ~Busy(t)
  /\ \A c \in page[t].calls : c.kind # "write"
  /\ Calls(t, page[t], "write", page[t].selected)
  /\ UNCHANGED <<issued, lapsed, over, written>>

\* Any other request of the page finds the access token expired.
AsksToken(t) ==
  /\ page[t].mode = "user" /\ ~Usable
  /\ Refreshes(t, page[t], {}, {})
  /\ UNCHANGED <<issued, lapsed, over, written>>

Proceeds(t, c) ==
  /\ c.pc = "ready"
  /\ page' = [page EXCEPT ![t] = Issued(page[t], c, c.at)]
  /\ UNCHANGED <<stored, issued, lapsed, over, written>>

Selects(t, i) ==
  /\ page[t].mode = "user" /\ page[t].selected # i
  /\ page' = [page EXCEPT ![t].selected = i, ![t].shown = None,
       ![t].calls = {[c EXCEPT !.latest = FALSE,
                               !.kind = IF @ = "poll" THEN "old" ELSE @] : c \in @}]
  /\ UNCHANGED <<stored, issued, lapsed, over, written>>

-----------------------------------------------------------------------------
(* What becomes of a request. *)

Becomes(t, i, pc, version) ==
  page' = [page EXCEPT ![t].requests[i].pc = pc, ![t].requests[i].version = version]

Serves(t, i) ==
  LET r == page[t].requests[i] IN
  /\ r.pc = "sent"
  /\ r.write => written[r.incident] < MaxWrites
  /\ written' = IF r.write THEN [written EXCEPT ![r.incident] = @ + 1] ELSE written
  /\ Becomes(t, i, "served", written'[r.incident])
  /\ UNCHANGED <<stored, issued, lapsed, over>>

Refuses(t, i) ==
  /\ page[t].requests[i].pc = "sent" /\ page[t].requests[i].bearer <= lapsed
  /\ Becomes(t, i, "refused", 0)
  /\ UNCHANGED <<stored, issued, lapsed, over, written>>

\* A 401 is answered once by a refresh and the same request again.
Reauthorizes(t, i) ==
  /\ page[t].requests[i].pc = "refused" /\ ~page[t].requests[i].again
  /\ Refreshes(t, [page[t] EXCEPT !.requests[i].pc = "token", !.requests[i].again = TRUE],
               CallsOf(page[t], i), {i})
  /\ UNCHANGED <<issued, lapsed, over, written>>

\* The read is shown; after a write the status is read again, for the incident
\* that was written.
Answers(t, i) ==
  LET p == page[t]
      r == p.requests[i]
      done == Settled(p, CallsOf(p, i), {i}, [incident |-> r.incident, version |-> r.version]) IN
  /\ r.pc = "served"
  /\ IF r.write
     THEN Calls(t, [done EXCEPT !.noted[r.incident] = r.version], "fresh", r.incident)
     ELSE UNCHANGED stored /\ page' = [page EXCEPT ![t] = done]
  /\ UNCHANGED <<issued, lapsed, over, written>>

\* No answer, an error, or a second 401.
Fails(t, i) ==
  /\ \/ page[t].requests[i].pc \in {"sent", "served"}
     \/ page[t].requests[i].pc = "refused" /\ page[t].requests[i].again
  /\ page' = [page EXCEPT ![t] = Settled(page[t], CallsOf(page[t], i), {i}, None)]
  /\ UNCHANGED <<stored, issued, lapsed, over, written>>

-----------------------------------------------------------------------------
(* What becomes of a refresh. *)

\* The response has arrived, its body is still to be read.
Renews(t) ==
  /\ page[t].refresh # None /\ page[t].refresh.token = 0 /\ issued.tokens < MaxTokens
  /\ issued' = [issued EXCEPT !.tokens = @ + 1]
  /\ page' = [page EXCEPT ![t] =
       IF page[t].refresh.overtaken THEN Unserved(page[t])
       ELSE [page[t] EXCEPT !.refresh.token = issued.tokens + 1]]
  /\ UNCHANGED <<stored, lapsed, over, written>>

\* (defect) the renewed session is stored over whatever is there
StillStored_Unchecked(t) == page[t].refresh.session.login > over

StillStored(t) ==
  page[t].refresh.session.login > over /\ stored = page[t].refresh.session

Stores(t) ==
  LET token == page[t].refresh.token IN
  /\ page[t].refresh # None /\ page[t].refresh.token # 0
  /\ IF StillStored(t)
     THEN /\ stored' = [page[t].refresh.session EXCEPT !.token = token]
          /\ page' = [page EXCEPT ![t] = Supplied(page[t], token)]
     ELSE /\ UNCHANGED stored
          /\ page' = [page EXCEPT ![t] = Unserved(page[t])]
  /\ UNCHANGED <<issued, lapsed, over, written>>

\* Cognito is unavailable, or its answer is of no use: the session is kept.
RefreshFails(t) ==
  /\ page[t].refresh # None
  /\ page' = [page EXCEPT ![t] = Unserved(page[t])]
  /\ UNCHANGED <<stored, issued, lapsed, over, written>>

\* Cognito no longer accepts the session, or the token is for another resource.
SessionEnds(t) ==
  /\ page[t].refresh # None
  /\ ~page[t].refresh.overtaken \/ page[t].refresh.token # 0
  /\ stored' = None
  /\ page' = [page EXCEPT ![t] = Expired(Unserved(page[t]))]
  /\ UNCHANGED <<issued, lapsed, over, written>>

-----------------------------------------------------------------------------
(* Signing in and out, and loading the page. *)

Login(t) ==
  /\ page[t].mode = "guest" /\ issued.logins < MaxLogins /\ issued.tokens < MaxTokens
  /\ page' = [page EXCEPT ![t] = [Overtaken(page[t]) EXCEPT !.mode = "signing in"]]
  /\ UNCHANGED <<stored, issued, lapsed, over, written>>

\* callback: the code is exchanged and the session stored.
Callback(t) ==
  LET new == [logins |-> issued.logins + 1, tokens |-> issued.tokens + 1] IN
  /\ page[t].mode = "signing in"
  /\ issued.logins < MaxLogins /\ issued.tokens < MaxTokens
  /\ issued' = new
  /\ stored' = [login |-> new.logins, token |-> new.tokens]
  /\ page' = [page EXCEPT ![t] = NewPage("user", page[t].selected)]
  /\ UNCHANGED <<lapsed, over, written>>

\* The token is for another resource; or there is none, and what is stored
\* stays.
CallbackRefused(t) ==
  /\ page[t].mode = "signing in"
  /\ \/ stored' = None /\ page' = [page EXCEPT ![t] = NewPage("guest", None)]
     \/ UNCHANGED stored /\ page' = [page EXCEPT ![t] = NewPage("guest", page[t].selected)]
  /\ UNCHANGED <<issued, lapsed, over, written>>

Logout(t) ==
  /\ page[t].mode = "user"
  /\ stored' = None
  /\ page' = [page EXCEPT ![t] = [Overtaken(page[t]) EXCEPT !.mode = "leaving"]]
  /\ UNCHANGED <<issued, lapsed, over, written>>

\* The page is loaded again, on its return from signing out or by the person;
\* what it had sent may still be served.
Loads(t) ==
  /\ page' = [page EXCEPT ![t] =
       NewPage(IF SavedSession = None THEN "guest" ELSE "user",
               IF page[t].mode = "leaving" THEN None ELSE page[t].selected)]
  /\ UNCHANGED <<stored, issued, lapsed, over, written>>

\* Time passes.
Lapses ==
  /\ stored # None /\ lapsed' = stored.token
  /\ UNCHANGED <<stored, issued, over, written, page>>
Ages ==
  /\ stored # None /\ over' = stored.login
  /\ UNCHANGED <<stored, issued, lapsed, written, page>>

-----------------------------------------------------------------------------
Reading(t) ==
  \/ Polls(t)
  \/ Writes(t)
  \/ \E c \in page[t].calls : Proceeds(t, c)
  \/ \E i \in Incidents : Selects(t, i)
  \/ \E i \in DOMAIN page[t].requests :
       Serves(t, i) \/ Refuses(t, i) \/ Reauthorizes(t, i) \/ Answers(t, i) \/ Fails(t, i)

Session(t) ==
  \/ AsksToken(t)
  \/ Renews(t)
  \/ Stores(t)
  \/ RefreshFails(t)
  \/ SessionEnds(t)
  \/ Login(t)
  \/ Callback(t)
  \/ CallbackRefused(t)
  \/ Logout(t)
  \/ Loads(t)

Next == (\E t \in Tabs : Reading(t) \/ Session(t)) \/ Lapses \/ Ages

Spec == Init /\ [][Next]_vars

-----------------------------------------------------------------------------
\* Only a new sign-in makes a session: after a sign-out or another sign-in, in
\* whatever tab, no refresh still under way puts back or replaces a session; it
\* only ever renews the one it was started for (auth.js:47-69).
RenewalKeepsSession ==
  [][stored' # stored /\ stored' # None =>
       \/ stored'.login = issued'.logins /\ issued'.logins > issued.logins
       \/ stored # None /\ stored'.login = stored.login /\ stored'.token > stored.token]_vars

\* A status that is shown as current has seen every write that this page knows
\* to be done: neither a read begun before the write, nor one shared with it,
\* is applied after it (api.js:5-31, main.jsx:130-145).
NothingShownIsBehind ==
  \A t \in Tabs : page[t].shown # None =>
    page[t].shown.version >= page[t].noted[page[t].shown.incident]

\* What is shown is the incident that is selected, also when an operation on
\* one incident ends after another has been selected (main.jsx:53-70, 132-145).
ShownIsSelected ==
  \A t \in Tabs : page[t].shown # None => page[t].shown.incident = page[t].selected
=============================================================================
