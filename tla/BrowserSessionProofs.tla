------------------------ MODULE BrowserSessionProofs ------------------------
(***************************************************************************)
(* Proofs about BrowserSession: what is stored, shared and shown, in any   *)
(* number of tabs.                                                         *)
(***************************************************************************)
EXTENDS BrowserSession, FiniteSetTheorems, TLAPS

-----------------------------------------------------------------------------
(* The invariant *)

SessionRecord == [login : Nat, token : Nat]
Refresh == [session : SessionRecord, overtaken : BOOLEAN, token : Nat]
Status == [incident : Incidents, version : Nat]
Call == [kind : {"poll", "old", "fresh", "write"}, incident : Incidents, latest : BOOLEAN,
         pc : {"token", "ready", "request"}, at : Nat]
Request == [incident : Incidents, write : BOOLEAN, bearer : Nat,
            pc : {"token", "sent", "served", "refused"}, version : Nat, again : BOOLEAN]

Partial(S, T) == UNION {[D -> T] : D \in SUBSET S}

Page == [mode : {"guest", "user", "signing in", "leaving"}, refresh : Refresh \cup {None},
         selected : Incidents \cup {None}, shown : Status \cup {None}, calls : SUBSET Call,
         requests : Partial(Nat, Request), pending : Partial(Nat \X Incidents, Nat),
         noted : [Incidents -> Nat]]

\* A request is unsettled, or has seen what its page knows to be written.
UpToDate(p, id) ==
  p.requests[id].pc = "served" => p.requests[id].version >= p.noted[p.requests[id].incident]

\* Calls and shared reads name requests for their incident.
Wired(p) ==
  /\ IsFiniteSet(DOMAIN p.requests)
  /\ \A c \in p.calls : c.pc = "request" =>
       c.at \in DOMAIN p.requests /\ p.requests[c.at].incident = c.incident
  /\ \A k \in DOMAIN p.pending :
       p.pending[k] \in DOMAIN p.requests /\ p.requests[p.pending[k]].incident = k[2]

\* What is on the screen.
Showing(p) ==
  p.shown # None => /\ p.shown.incident = p.selected
                    /\ p.shown.version >= p.noted[p.shown.incident]

\* The call whose answer will be shown waits for a request that is up to date,
\* and finds no other to share.
Current(p) ==
  \A c \in p.calls : c.latest =>
    /\ c.pc = "request" => UpToDate(p, c.at)
    /\ c.pc = "ready" => \A k \in DOMAIN p.pending : k[1] = c.at => UpToDate(p, p.pending[k])

\* What can be shared under one of the tokens is up to date, for other incidents than x.
Shareable(p, tokens, x) ==
  \A k \in DOMAIN p.pending : k[1] \in tokens /\ k[2] # x => UpToDate(p, p.pending[k])

\* Nothing is known of the future: neither writes nor tokens.
Bounded(p, w, top) ==
  /\ \A i \in Incidents : p.noted[i] <= w[i]
  /\ \A id \in DOMAIN p.requests : p.requests[id].version <= w[p.requests[id].incident]
  /\ \A k \in DOMAIN p.pending : k[1] <= top
  /\ \A c \in p.calls : c.pc = "ready" => c.at <= top

\* A refresh is for a session that was stored and brings a newer token.
Renewing(p, n) ==
  p.refresh # None =>
    /\ p.refresh.session # None
    /\ p.refresh.token # 0 => p.refresh.token > p.refresh.session.token /\ p.refresh.token <= n
    /\ p.refresh.session.token <= n

PageOK(p, w, top, tokens, n) ==
  /\ p \in Page
  /\ Wired(p)
  /\ Showing(p)
  /\ Current(p)
  /\ Shareable(p, tokens, None)
  /\ Bounded(p, w, top)
  /\ Renewing(p, n)

\* PageOK, but for an incident x of which a write has just been noted, and
\* whatever the screen and the calls wait for.
Wiring(p, w, top, tokens, n, x) ==
  p \in Page /\ Wired(p) /\ Shareable(p, tokens, x) /\ Bounded(p, w, top) /\ Renewing(p, n)

Issue == [logins : Nat, tokens : Nat]
Counts == [Incidents -> Nat]

World ==
  /\ stored \in SessionRecord \cup {None} /\ issued \in Issue
  /\ lapsed \in Nat /\ over \in Nat
  /\ written \in Counts
  /\ stored # None => stored.token <= issued.tokens

\* The newest token that a page may have used.
Top == IF stored = None THEN issued.tokens ELSE stored.token
Usables == IF Usable THEN {stored.token} ELSE {}

BrowserInv ==
  /\ World
  /\ page \in [Tabs -> Page]
  /\ \A t \in Tabs : PageOK(page[t], written, Top, Usables, issued.tokens)

-----------------------------------------------------------------------------
(* Partial functions *)

\* Leaving out some places.
LEMMA WithoutOK ==
  ASSUME NEW S, NEW T, NEW f \in Partial(S, T), NEW gone
  PROVE  /\ Without(f, gone) \in Partial(S, T)
         /\ DOMAIN Without(f, gone) = DOMAIN f \ gone
         /\ \A x \in DOMAIN f \ gone : Without(f, gone)[x] = f[x]
<1>1. PICK D \in SUBSET S : f \in [D -> T]  BY DEF Partial
<1>2. Without(f, gone) = [x \in D \ gone |-> f[x]]  BY <1>1 DEF Without, Restrict
<1>3. Without(f, gone) \in [D \ gone -> T]  BY <1>1, <1>2
<1>4. D \ gone \in SUBSET S  OBVIOUS
<1> QED  BY <1>1, <1>2, <1>3, <1>4 DEF Partial

\* Setting one place.
LEMMA WithOK ==
  ASSUME NEW S, NEW T, NEW f \in Partial(S, T), NEW x \in S, NEW y \in T
  PROVE  /\ With(f, x, y) \in Partial(S, T)
         /\ DOMAIN With(f, x, y) = DOMAIN f \cup {x}
         /\ With(f, x, y)[x] = y
         /\ \A z \in DOMAIN f : z # x => With(f, x, y)[z] = f[z]
<1>1. PICK D \in SUBSET S : f \in [D -> T]  BY DEF Partial
<1>2. With(f, x, y) = [z \in D \cup {x} |-> IF z = x THEN y ELSE f[z]]  BY <1>1 DEF With
<1>3. With(f, x, y) \in [D \cup {x} -> T]  BY <1>1, <1>2
<1>4. D \cup {x} \in SUBSET S  OBVIOUS
<1> QED  BY <1>1, <1>2, <1>3, <1>4 DEF Partial

\* Changing all places.
LEMMA MappedOK ==
  ASSUME NEW S, NEW T, NEW f \in Partial(S, T), NEW g, DOMAIN g = DOMAIN f,
         g = [x \in DOMAIN f |-> g[x]], \A x \in DOMAIN f : g[x] \in T
  PROVE  g \in Partial(S, T)
BY DEF Partial

LEMMA PartialValue ==
  ASSUME NEW S, NEW T, NEW f \in Partial(S, T)
  PROVE  /\ DOMAIN f \subseteq S
         /\ \A x \in DOMAIN f : f[x] \in T
BY DEF Partial

LEMMA EmptyOK ==
  ASSUME NEW S, NEW T
  PROVE  /\ [x \in {} |-> None] \in Partial(S, T)
         /\ DOMAIN [x \in {} |-> None] = {}
BY DEF Partial

\* A new identity for a request: there is a free one among the first few.
LEMMA FreeIdentity ==
  ASSUME NEW D, IsFiniteSet(D), NEW id,
         id = CHOOSE n \in 1 .. Cardinality(D) + 1 : n \notin D
  PROVE  id \in Nat \ {0} /\ id \notin D
<1>1. Cardinality(D) \in Nat  BY FS_CardinalityType
<1>2. \E n \in 1 .. Cardinality(D) + 1 : n \notin D
  <2> SUFFICES ASSUME 1 .. Cardinality(D) + 1 \subseteq D PROVE FALSE  OBVIOUS
  <2>1. Cardinality(1 .. Cardinality(D) + 1) <= Cardinality(D)  BY FS_Subset
  <2>2. Cardinality(1 .. Cardinality(D) + 1) = Cardinality(D) + 1  BY <1>1, FS_Interval
  <2> QED  BY <1>1, <2>1, <2>2
<1>3. id \in 1 .. Cardinality(D) + 1 /\ id \notin D  BY <1>2
<1> QED  BY <1>1, <1>3

-----------------------------------------------------------------------------
(* What the operations on a page change *)

LEMMA PageFields ==
  ASSUME NEW p \in Page
  PROVE  /\ p = [mode |-> p.mode, refresh |-> p.refresh, selected |-> p.selected,
                 shown |-> p.shown, calls |-> p.calls, requests |-> p.requests,
                 pending |-> p.pending, noted |-> p.noted]
         /\ p.mode \in {"guest", "user", "signing in", "leaving"}
         /\ p.refresh \in Refresh \cup {None} /\ p.selected \in Incidents \cup {None}
         /\ p.shown \in Status \cup {None} /\ p.calls \subseteq Call
         /\ p.requests \in Partial(Nat, Request) /\ p.pending \in Partial(Nat \X Incidents, Nat)
         /\ p.noted \in [Incidents -> Nat]
         /\ DOMAIN p.requests \subseteq Nat /\ \A i \in DOMAIN p.requests : p.requests[i] \in Request
         /\ DOMAIN p.pending \subseteq Nat \X Incidents
         /\ \A k \in DOMAIN p.pending : p.pending[k] \in Nat
<1> HIDE DEF Partial
<1>1. p.requests \in Partial(Nat, Request) /\ p.pending \in Partial(Nat \X Incidents, Nat)
  BY DEF Page
<1>2. /\ DOMAIN p.requests \subseteq Nat /\ \A i \in DOMAIN p.requests : p.requests[i] \in Request
      /\ DOMAIN p.pending \subseteq Nat \X Incidents
      /\ \A k \in DOMAIN p.pending : p.pending[k] \in Nat
  BY <1>1, PartialValue
<1> QED  BY <1>1, <1>2 DEF Page

\* A page is made of fields.
LEMMA PageMade ==
  ASSUME NEW mode \in {"guest", "user", "signing in", "leaving"},
         NEW refresh \in Refresh \cup {None}, NEW selected \in Incidents \cup {None},
         NEW shown \in Status \cup {None}, NEW calls \in SUBSET Call,
         NEW requests \in Partial(Nat, Request), NEW pending \in Partial(Nat \X Incidents, Nat),
         NEW noted \in [Incidents -> Nat]
  PROVE  [mode |-> mode, refresh |-> refresh, selected |-> selected, shown |-> shown,
          calls |-> calls, requests |-> requests, pending |-> pending, noted |-> noted] \in Page
BY DEF Page

\* The shared reads that are forgotten with requests.
Lost(p, ids) == {k \in DOMAIN p.pending : p.pending[k] \in ids}

LEMMA SettledFields ==
  ASSUME NEW p \in Page, NEW C, NEW ids, NEW result, NEW q, q = Settled(p, C, ids, result)
  PROVE  /\ q.mode = p.mode /\ q.refresh = p.refresh /\ q.selected = p.selected
         /\ q.noted = p.noted /\ q.calls = p.calls \ C /\ q.requests = Without(p.requests, ids)
         /\ q.pending = Without(p.pending, Lost(p, ids))
         /\ (\E c \in C : Concerns(p, c)) => q.shown = result
         /\ (\A c \in C : ~Concerns(p, c)) => q.shown = p.shown
         /\ result \in Status \cup {None} => q \in Page
<1> DEFINE shown == IF \E c \in C : Concerns(p, c) THEN result ELSE p.shown
           lost == Lost(p, ids)
<1>1. q = [mode |-> p.mode, refresh |-> p.refresh, selected |-> p.selected, shown |-> shown,
           calls |-> p.calls \ C, requests |-> Without(p.requests, ids),
           pending |-> Without(p.pending, lost), noted |-> p.noted]
  <2>1. PICK a, b, c, d : /\ a = p.calls \ C /\ b = Without(p.requests, ids)
                          /\ c = Without(p.pending, lost) /\ d = shown
    OBVIOUS
  <2>2. q = [p EXCEPT !.calls = a, !.requests = b, !.pending = c, !.shown = d]
    BY <2>1 DEF Settled, Lost
  <2> HIDE DEF shown, lost
  <2>3. q = [mode |-> p.mode, refresh |-> p.refresh, selected |-> p.selected, shown |-> d,
             calls |-> a, requests |-> b, pending |-> c, noted |-> p.noted]
    BY <2>2, PageFields
  <2> QED  BY <2>1, <2>3
<1>2. /\ Without(p.requests, ids) \in Partial(Nat, Request)
      /\ Without(p.pending, lost) \in Partial(Nat \X Incidents, Nat)
  BY PageFields, WithoutOK
<1>3. result \in Status \cup {None} => shown \in Status \cup {None}  BY PageFields
<1>4. p.calls \ C \subseteq Call  BY PageFields
<1> HIDE DEF shown, lost
<1>5. result \in Status \cup {None} => q \in Page
  <2>1. p \in Page /\ p.calls \ C \in SUBSET Call  BY <1>4
  <2> QED  BY ONLY <1>1, <1>2, <1>3, <2>1, PageFields, PageMade
<1> QED  BY <1>1, <1>5 DEF shown, lost

\* The calls that the requests serve.
Covers(p, C, ids) == \A c \in p.calls : c.pc = "request" /\ c.at \in ids => c \in C

\* What may be shown if one of the calls is the latest.
Fits(p, C, result) ==
  \A c \in C : Concerns(p, c) /\ result # None =>
    result.incident = p.selected /\ result.version >= p.noted[result.incident]

Settles(p, C, ids, result) ==
  /\ C \subseteq p.calls /\ ids \subseteq DOMAIN p.requests /\ Covers(p, C, ids)
  /\ result \in Status \cup {None} /\ Fits(p, C, result)

\* Answering, or giving up, a set of requests and the calls they serve.
LEMMA SettledOK ==
  ASSUME NEW w, NEW top, NEW tokens, NEW n, NEW x, NEW p, Wiring(p, w, top, tokens, n, x), Showing(p), Current(p),
         NEW C, NEW ids, NEW result, Settles(p, C, ids, result), NEW q, q = Settled(p, C, ids, result)
  PROVE  /\ Wiring(q, w, top, tokens, n, x) /\ Showing(q) /\ Current(q)
         /\ q.mode = p.mode /\ q.refresh = p.refresh /\ q.selected = p.selected
         /\ q.noted = p.noted /\ q.calls = p.calls \ C
         /\ DOMAIN q.requests = DOMAIN p.requests \ ids
         /\ \A i \in DOMAIN q.requests : q.requests[i] = p.requests[i]
<1> USE DEF Settles, Covers, Fits, Wiring
<1>1. /\ q.mode = p.mode /\ q.refresh = p.refresh /\ q.selected = p.selected
      /\ q.noted = p.noted /\ q.calls = p.calls \ C /\ q \in Page
      /\ q.requests = Without(p.requests, ids) /\ q.pending = Without(p.pending, Lost(p, ids))
      /\ (\E c \in C : Concerns(p, c)) => q.shown = result
      /\ (\A c \in C : ~Concerns(p, c)) => q.shown = p.shown
  BY p \in Page, q = Settled(p, C, ids, result), result \in Status \cup {None},
     SettledFields
<1>2. /\ DOMAIN q.requests = DOMAIN p.requests \ ids
      /\ \A i \in DOMAIN q.requests : q.requests[i] = p.requests[i]
  BY <1>1 DEF Without, Restrict
<1>3. /\ DOMAIN q.pending = DOMAIN p.pending \ Lost(p, ids)
      /\ \A k \in DOMAIN q.pending : q.pending[k] = p.pending[k]
  BY <1>1 DEF Without, Restrict
<1>4. \A k \in DOMAIN q.pending :
        k \in DOMAIN p.pending /\ q.pending[k] = p.pending[k] /\ p.pending[k] \notin ids
  BY <1>3 DEF Lost
<1>5. \A k \in DOMAIN q.pending : q.pending[k] \in DOMAIN q.requests
  BY <1>2, <1>4 DEF Wired
<1>6. \A i \in DOMAIN q.requests : UpToDate(p, i) => UpToDate(q, i)
  BY <1>1, <1>2 DEF UpToDate
<1>7. Wired(q)
  <2>1. IsFiniteSet(DOMAIN q.requests)  BY <1>2, FS_Subset DEF Wired
  <2>2. \A c \in q.calls : c.pc = "request" =>
          c.at \in DOMAIN q.requests /\ q.requests[c.at].incident = c.incident
    BY <1>1, <1>2 DEF Wired
  <2>3. \A k \in DOMAIN q.pending : q.requests[q.pending[k]].incident = k[2]
    BY <1>2, <1>4, <1>5 DEF Wired
  <2> QED  BY <1>5, <2>1, <2>2, <2>3 DEF Wired
<1>8. Showing(q)
  BY <1>1 DEF Showing
<1>9. Current(q)
  <2> SUFFICES ASSUME NEW c \in q.calls, c.latest
               PROVE  /\ c.pc = "request" => UpToDate(q, c.at)
                      /\ c.pc = "ready" =>
                           \A k \in DOMAIN q.pending : k[1] = c.at => UpToDate(q, q.pending[k])
    BY DEF Current
  <2>1. c \in p.calls  BY <1>1
  <2>2. ASSUME c.pc = "request" PROVE UpToDate(q, c.at)
    BY <1>6, <1>7, <2>1, <2>2 DEF Current, Wired
  <2>3. ASSUME c.pc = "ready", NEW k \in DOMAIN q.pending, k[1] = c.at
        PROVE  UpToDate(q, q.pending[k])
    BY <1>4, <1>5, <1>6, <2>1, <2>3 DEF Current
  <2> QED  BY <2>2, <2>3
<1>10. Shareable(q, tokens, x)
  BY <1>4, <1>5, <1>6 DEF Shareable
<1>11. Bounded(q, w, top)
  BY <1>1, <1>2, <1>4 DEF Bounded
<1>12. Renewing(q, n)
  BY <1>1 DEF Renewing
<1> QED  BY <1>1, <1>2, <1>7, <1>8, <1>9, <1>10, <1>11, <1>12

-----------------------------------------------------------------------------
(* Every operation keeps a page in order *)

\* The world goes on: more is written and issued, and what becomes usable is new.
LEMMA Later ==
  ASSUME NEW p, NEW w \in Counts, NEW top \in Nat, NEW tokens, NEW n \in Nat,
         PageOK(p, w, top, tokens, n),
         NEW w2 \in Counts, NEW top2 \in Nat, NEW tokens2, NEW n2 \in Nat,
         \A i \in Incidents : w[i] <= w2[i], top <= top2, n <= n2,
         \A k \in tokens2 : k \in tokens \/ (k \in Nat /\ k > top)
  PROVE  PageOK(p, w2, top2, tokens2, n2)
<1> USE DEF PageOK, Counts
<1>1. Shareable(p, tokens2, None)
  <2> SUFFICES ASSUME NEW k \in DOMAIN p.pending, k[1] \in tokens2, k[2] # None
               PROVE  UpToDate(p, p.pending[k])
    BY DEF Shareable
  <2>1. k[1] \in Nat  BY PageFields
  <2>2. k[1] <= top  BY DEF Bounded
  <2>3. k[1] \in tokens  BY <2>1, <2>2
  <2> QED  BY <2>3 DEF Shareable
<1>2. Bounded(p, w2, top2)
  <2>1. \A i \in Incidents : p.noted[i] \in Nat /\ p.noted[i] <= w[i]
    BY PageFields DEF Bounded
  <2>2. \A id \in DOMAIN p.requests :
          /\ p.requests[id].version \in Nat /\ p.requests[id].incident \in Incidents
          /\ p.requests[id].version <= w[p.requests[id].incident]
    BY PageFields DEF Bounded, Request
  <2>3. \A k \in DOMAIN p.pending : k[1] \in Nat /\ k[1] <= top
    BY PageFields DEF Bounded
  <2>4. \A c \in p.calls : c.pc = "ready" => c.at \in Nat /\ c.at <= top
    BY PageFields DEF Bounded, Call
  <2> QED  BY <2>1, <2>2, <2>3, <2>4 DEF Bounded
<1>3. Renewing(p, n2)
  <2>1. p.refresh # None => p.refresh.token \in Nat /\ p.refresh.session.token \in Nat
    BY PageFields DEF Refresh, SessionRecord
  <2> QED  BY <2>1 DEF Renewing
<1> QED  BY <1>1, <1>2, <1>3

\* The fields that the refresh and the mode do not touch.
LEMMA SameCalls ==
  ASSUME NEW p, NEW w, NEW top, NEW tokens, NEW n, PageOK(p, w, top, tokens, n),
         NEW q, q \in Page, q.calls = p.calls, q.requests = p.requests, q.pending = p.pending,
         q.noted = p.noted, q.selected = p.selected, q.shown = p.shown, Renewing(q, n)
  PROVE  PageOK(q, w, top, tokens, n)
<1> USE DEF PageOK
<1>1. Wired(q)  BY DEF Wired
<1>2. Showing(q)  BY DEF Showing
<1>3. \A i : UpToDate(p, i) => UpToDate(q, i)  BY DEF UpToDate
<1>4. Current(q)  BY <1>3 DEF Current
<1>5. Shareable(q, tokens, None)  BY <1>3 DEF Shareable
<1>6. Bounded(q, w, top)  BY DEF Bounded
<1> QED  BY <1>1, <1>2, <1>4, <1>5, <1>6

LEMMA OvertakenOK ==
  ASSUME NEW p, NEW w, NEW top, NEW tokens, NEW n, PageOK(p, w, top, tokens, n)
  PROVE  /\ PageOK(Overtaken(p), w, top, tokens, n)
         /\ Overtaken(p).mode = p.mode /\ Overtaken(p).selected = p.selected
         /\ p.refresh = None => Overtaken(p).refresh = None
<1> PICK q : q = Overtaken(p)  OBVIOUS
<1>1. CASE p.refresh = None  BY <1>1 DEF Overtaken
<1>2. CASE p.refresh # None
  <2>1. PICK r : r = [p.refresh EXCEPT !.overtaken = TRUE]  OBVIOUS
  <2>2. r \in Refresh /\ r.session = p.refresh.session /\ r.token = p.refresh.token
    BY <1>2, <2>1, PageFields DEF PageOK, Refresh
  <2>3. q = [p EXCEPT !.refresh = r]
    BY <1>2, <2>1 DEF Overtaken
  <2>4. q = [mode |-> p.mode, refresh |-> r, selected |-> p.selected, shown |-> p.shown,
             calls |-> p.calls, requests |-> p.requests, pending |-> p.pending,
             noted |-> p.noted]
    BY <2>3, PageFields DEF PageOK
  <2>5. q \in Page
    <3>1. p \in Page  BY DEF PageOK
    <3>2. r \in Refresh \cup {None} /\ p.calls \in SUBSET Call  BY <2>2, <3>1, PageFields
    <3> QED  BY ONLY <2>4, <3>1, <3>2, PageFields, PageMade
  <2>6. Renewing(q, n)
    BY <1>2, <2>2, <2>4 DEF PageOK, Renewing
  <2> QED  BY <1>2, <2>4, <2>5, <2>6, SameCalls
<1> QED  BY <1>1, <1>2

Quiet(c) == [c EXCEPT !.latest = FALSE]

LEMMA QuietOK ==
  ASSUME NEW c \in Call
  PROVE  /\ Quiet(c) \in Call /\ ~Quiet(c).latest
         /\ Quiet(c).pc = c.pc /\ Quiet(c).at = c.at /\ Quiet(c).incident = c.incident
         /\ Quiet(c).kind = c.kind
BY DEF Call, Quiet

\* No call is the latest but one that waits for a token.
Gated(p, q) ==
  \A c \in q.calls :
    \/ c.pc = "token"
    \/ ~c.latest /\ \E d \in p.calls : c.pc = d.pc /\ c.at = d.at /\ c.incident = d.incident

\* Then there is nothing to be shown by the others.
LEMMA GatedOK ==
  ASSUME NEW w, NEW top, NEW tokens, NEW n, NEW x,
         NEW p, Wiring(p, w, top, tokens, n, x),
         NEW q, q \in Page, q.requests = p.requests, q.pending = p.pending, q.noted = p.noted,
         q.refresh = p.refresh \/ Renewing(q, n),
         Gated(p, q)
  PROVE  Wiring(q, w, top, tokens, n, x) /\ Current(q)
<1> USE DEF Wiring, Gated
<1>1. Wired(q)  BY DEF Wired
<1>2. \A i : UpToDate(p, i) => UpToDate(q, i)  BY DEF UpToDate
<1>3. Current(q)  BY DEF Current
<1>4. Shareable(q, tokens, x)  BY <1>2 DEF Shareable
<1>5. Bounded(q, w, top)  BY DEF Bounded
<1>6. Renewing(q, n)  BY DEF Renewing
<1> QED  BY <1>1, <1>3, <1>4, <1>5, <1>6

Quieted(C) == {Quiet(c) : c \in C}

LEMMA ExpiredFields ==
  ASSUME NEW p \in Page, NEW o, o = Overtaken(p), NEW q, q = Expired(p)
  PROVE  /\ q.mode \in {"guest", "signing in", "leaving"} /\ q.refresh = o.refresh
         /\ q.selected = None /\ q.shown = None /\ q.calls = Quieted(o.calls)
         /\ q.requests = o.requests /\ q.pending = o.pending /\ q.noted = o.noted
         /\ q \in Page
<1>1. o \in Page
  <2>1. CASE p.refresh = None  BY <2>1 DEF Overtaken
  <2>2. CASE p.refresh # None
    <3>1. PICK r : r = [p.refresh EXCEPT !.overtaken = TRUE]  OBVIOUS
    <3>2. r \in Refresh  BY <2>2, <3>1, PageFields DEF Refresh
    <3>3. o = [p EXCEPT !.refresh = r]  BY <2>2, <3>1 DEF Overtaken
    <3> QED  BY <3>2, <3>3 DEF Page
  <2> QED  BY <2>1, <2>2
<1>2. PICK m : m = IF o.mode = "user" THEN "guest" ELSE o.mode  OBVIOUS
<1>8. PICK C : C = Quieted(o.calls)  OBVIOUS
<1>3. q = [o EXCEPT !.mode = m, !.selected = None, !.shown = None, !.calls = C]
  BY <1>2, <1>8 DEF Expired, Quieted, Quiet
<1>4. q = [mode |-> m, refresh |-> o.refresh, selected |-> None, shown |-> None,
           calls |-> C, requests |-> o.requests, pending |-> o.pending, noted |-> o.noted]
  BY <1>1, <1>3, PageFields
<1>5. C \subseteq Call
  BY <1>1, <1>8, PageFields, QuietOK DEF Quieted
<1>6. m \in {"guest", "signing in", "leaving"}  BY <1>1, <1>2, PageFields
<1>7. q \in Page
  <2>1. m \in {"guest", "user", "signing in", "leaving"}  BY <1>6
  <2>2. None \in Incidents \cup {None} /\ None \in Status \cup {None} /\ C \in SUBSET Call
    BY <1>5
  <2> QED  BY ONLY <1>1, <1>4, <2>1, <2>2, PageFields, PageMade
<1>9. /\ q.mode = m /\ q.refresh = o.refresh /\ q.selected = None /\ q.shown = None
      /\ q.calls = C /\ q.requests = o.requests /\ q.pending = o.pending /\ q.noted = o.noted
  BY <1>4
<1> QED  BY <1>6, <1>7, <1>8, <1>9

LEMMA ExpiredOK ==
  ASSUME NEW p, NEW w, NEW top, NEW tokens, NEW n, PageOK(p, w, top, tokens, n)
  PROVE  PageOK(Expired(p), w, top, tokens, n) /\ Expired(p).shown = None
<1> PICK o : o = Overtaken(p)  OBVIOUS
<1> PICK q : q = Expired(p)  OBVIOUS
<1>1. PageOK(o, w, top, tokens, n)  BY OvertakenOK
<1>2. p \in Page /\ o \in Page  BY <1>1 DEF PageOK
<1>3. /\ q.mode \in {"guest", "signing in", "leaving"} /\ q.refresh = o.refresh
      /\ q.selected = None /\ q.shown = None /\ q.calls = Quieted(o.calls)
      /\ q.requests = o.requests /\ q.pending = o.pending /\ q.noted = o.noted
      /\ q \in Page
  BY <1>2, o = Overtaken(p), q = Expired(p), ExpiredFields
<1>4. Gated(o, q)
  <2> SUFFICES ASSUME NEW c \in q.calls
               PROVE  ~c.latest /\ \E d \in o.calls :
                        c.pc = d.pc /\ c.at = d.at /\ c.incident = d.incident
    BY DEF Gated
  <2>1. PICK d \in o.calls : c = Quiet(d)  BY <1>3 DEF Quieted
  <2>2. d \in Call  BY <1>2, PageFields
  <2>3. ~c.latest /\ c.pc = d.pc /\ c.at = d.at /\ c.incident = d.incident
    BY <2>1, <2>2, QuietOK
  <2> QED  BY <2>3
<1>5. Wiring(o, w, top, tokens, n, None)  BY <1>1 DEF PageOK, Wiring
<1>6. Wiring(q, w, top, tokens, n, None) /\ Current(q)
  BY <1>3, <1>4, <1>5, GatedOK
<1>7. Showing(q)  BY <1>3 DEF Showing
<1> QED  BY <1>3, <1>6, <1>7 DEF PageOK, Wiring

LEMMA NewPageOK ==
  ASSUME NEW mode \in {"guest", "user"}, NEW selected \in Incidents \cup {None},
         NEW w \in Counts, NEW top, NEW tokens, NEW n
  PROVE  PageOK(NewPage(mode, selected), w, top, tokens, n)
<1> PICK e : e = [x \in {} |-> None]  OBVIOUS
<1> PICK q : q = NewPage(mode, selected)  OBVIOUS
<1>1. /\ e \in Partial(Nat, Request) /\ e \in Partial(Nat \X Incidents, Nat) /\ DOMAIN e = {}
  BY EmptyOK
<1>2. q = [mode |-> mode, refresh |-> None, selected |-> selected, shown |-> None, calls |-> {},
           requests |-> e, pending |-> e, noted |-> [i \in Incidents |-> 0]]
  BY DEF NewPage
<1>3. /\ q.refresh = None /\ q.shown = None /\ q.calls = {} /\ q.requests = e /\ q.pending = e
      /\ q.noted = [i \in Incidents |-> 0]
  BY <1>2
<1>4. q \in Page
  <2>1. PICK z : z = [i \in Incidents |-> 0]  OBVIOUS
  <2>2. z \in [Incidents -> Nat]  BY <2>1
  <2>8. PICK C : C = {}  OBVIOUS
  <2>4. C \in SUBSET Call  BY <2>8
  <2>3. q = [mode |-> mode, refresh |-> None, selected |-> selected, shown |-> None,
             calls |-> C, requests |-> e, pending |-> e, noted |-> z]
    BY <1>2, <2>1, <2>8
  <2>5. mode \in {"guest", "user", "signing in", "leaving"}  OBVIOUS
  <2>6. None \in Refresh \cup {None} /\ None \in Status \cup {None}  OBVIOUS
  <2>7. e \in Partial(Nat, Request) /\ e \in Partial(Nat \X Incidents, Nat)  BY <1>1
  <2> QED  BY ONLY <2>2, <2>3, <2>4, <2>5, <2>6, <2>7, selected \in Incidents \cup {None}, PageMade
<1>5. Wired(q)  BY <1>1, <1>3, FS_EmptySet DEF Wired
<1>6. Showing(q) /\ Current(q) /\ Renewing(q, n)  BY <1>3 DEF Showing, Current, Renewing
<1>7. Shareable(q, tokens, None)  BY <1>1, <1>3 DEF Shareable
<1>8. Bounded(q, w, top)  BY <1>1, <1>3 DEF Bounded, Counts
<1> QED  BY <1>4, <1>5, <1>6, <1>7, <1>8 DEF PageOK

\* Everything that waits for a token fails.
LEMMA UnservedOK ==
  ASSUME NEW w, NEW top, NEW tokens, NEW n, NEW p, PageOK(p, w, top, tokens, n)
  PROVE  /\ PageOK(Unserved(p), w, top, tokens, n)
         /\ Unserved(p).selected = p.selected /\ Unserved(p).mode = p.mode
<1> USE DEF PageOK
<1> DEFINE ids == {i \in DOMAIN p.requests : p.requests[i].pc = "token"}
           C == {c \in p.calls : c.pc = "token"} \cup UNION {CallsOf(p, i) : i \in ids}
<1> PICK s : s = Settled(p, C, ids, None)  OBVIOUS
<1> PICK q : q = Unserved(p)  OBVIOUS
<1>1. C \subseteq p.calls /\ ids \subseteq DOMAIN p.requests
  BY DEF CallsOf
<1>2. Covers(p, C, ids)
  BY DEF CallsOf, Covers
<1>3. q = [s EXCEPT !.refresh = None]
  BY DEF Unserved
<1> HIDE DEF ids, C
<1>4. /\ Wiring(s, w, top, tokens, n, None) /\ Showing(s) /\ Current(s)
      /\ s.selected = p.selected /\ s.mode = p.mode
  <2>1. None \in Status \cup {None}  OBVIOUS
  <2>2. Fits(p, C, None)  BY DEF Fits
  <2> HIDE DEF PageOK
  <2> QED
    <3>1. Wiring(p, w, top, tokens, n, None) /\ Showing(p) /\ Current(p)
      BY DEF PageOK, Wiring
    <3>3. s = Settled(p, C, ids, None)  OBVIOUS
    <3>4. Settles(p, C, ids, None)  BY <1>1, <1>2, <2>1, <2>2 DEF Settles
    <3> QED  BY ONLY <3>1, <3>3, <3>4, SettledOK
<1>10. s \in Page  BY <1>4 DEF Wiring
<1>5. q = [mode |-> s.mode, refresh |-> None, selected |-> s.selected, shown |-> s.shown,
           calls |-> s.calls, requests |-> s.requests, pending |-> s.pending,
           noted |-> s.noted]
  BY <1>3, <1>10, PageFields
<1>6. /\ q.mode = s.mode /\ q.refresh = None /\ q.selected = s.selected /\ q.shown = s.shown
      /\ q.calls = s.calls /\ q.requests = s.requests /\ q.pending = s.pending
      /\ q.noted = s.noted
  BY <1>5
<1>7. q \in Page
  <2>1. s.calls \in SUBSET Call /\ None \in Refresh \cup {None}  BY <1>10, PageFields
  <2> QED  BY ONLY <1>5, <1>10, <2>1, PageFields, PageMade
<1>8. Renewing(q, n)  BY <1>6 DEF Renewing
<1>9. PageOK(s, w, top, tokens, n)  BY <1>4 DEF Wiring
<1> QED  BY <1>4, <1>6, <1>7, <1>8, <1>9, SameCalls

\* A call or a request that waits gets a token newer than all that have been used.
LEMMA SuppliedOK ==
  ASSUME NEW w \in Counts, NEW top \in Nat, NEW tokens, NEW n \in Nat,
         NEW p, PageOK(p, w, top, tokens, n), NEW token \in Nat, token > top
  PROVE  PageOK(Supplied(p, token), w, token, {token}, n)
<1> USE DEF PageOK, Counts
<1> DEFINE Ready(c) == IF c.pc = "token" THEN [c EXCEPT !.pc = "ready", !.at = token] ELSE c
           Sent(r) == IF r.pc = "token" THEN [r EXCEPT !.pc = "sent", !.bearer = token] ELSE r
<1> PICK C : C = {Ready(c) : c \in p.calls}  OBVIOUS
<1> PICK R : R = [i \in DOMAIN p.requests |-> Sent(p.requests[i])]  OBVIOUS
<1> PICK q : q = Supplied(p, token)  OBVIOUS
<1>1. q = [p EXCEPT !.refresh = None, !.calls = C, !.requests = R]
  BY DEF Supplied
<1>2. \A c \in C : /\ c \in Call
                   /\ \/ c \in p.calls /\ c.pc # "token"
                      \/ c.pc = "ready" /\ c.at = token
  <2> SUFFICES ASSUME NEW d \in p.calls
               PROVE  /\ Ready(d) \in Call
                      /\ \/ Ready(d) \in p.calls /\ Ready(d).pc # "token"
                         \/ Ready(d).pc = "ready" /\ Ready(d).at = token
    OBVIOUS
  <2>1. d \in Call  BY PageFields
  <2> QED  BY <2>1 DEF Call
<1>3. \A r \in Request : /\ Sent(r) \in Request /\ Sent(r).incident = r.incident
                         /\ Sent(r).version = r.version
                         /\ Sent(r).pc = "served" => r.pc = "served"
  BY DEF Request
<1> HIDE DEF Ready, Sent
<1>4. /\ DOMAIN R = DOMAIN p.requests
      /\ \A i \in DOMAIN R : R[i] = Sent(p.requests[i])
  OBVIOUS
<1>5. R \in Partial(Nat, Request)
  <2>1. \A i \in DOMAIN p.requests : R[i] \in Request  BY <1>3, <1>4, PageFields
  <2>2. DOMAIN p.requests \in SUBSET Nat  BY PageFields
  <2>3. R \in [DOMAIN p.requests -> Request]  BY <2>1
  <2> QED  BY <2>2, <2>3 DEF Partial
<1>6. q = [mode |-> p.mode, refresh |-> None, selected |-> p.selected, shown |-> p.shown,
           calls |-> C, requests |-> R, pending |-> p.pending, noted |-> p.noted]
  BY <1>1, PageFields
<1>7. /\ q.refresh = None /\ q.selected = p.selected /\ q.shown = p.shown
      /\ q.calls = C /\ q.requests = R /\ q.pending = p.pending /\ q.noted = p.noted
  BY <1>6
<1>8. q \in Page
  <2>1. C \subseteq Call  BY <1>2
  <2>2. p \in Page /\ C \in SUBSET Call /\ None \in Refresh \cup {None}  BY <2>1
  <2> QED  BY ONLY <1>5, <1>6, <2>2, PageFields, PageMade
<1>9. \A i \in DOMAIN q.requests :
        /\ i \in DOMAIN p.requests
        /\ q.requests[i].incident = p.requests[i].incident
        /\ q.requests[i].version = p.requests[i].version
        /\ q.requests[i].pc = "served" => p.requests[i].pc = "served"
  <2> SUFFICES ASSUME NEW i \in DOMAIN p.requests
               PROVE  /\ R[i].incident = p.requests[i].incident
                      /\ R[i].version = p.requests[i].version
                      /\ R[i].pc = "served" => p.requests[i].pc = "served"
    BY <1>4, <1>7
  <2>1. p.requests[i] \in Request  BY PageFields
  <2> QED  BY <1>3, <1>4, <2>1
<1>10. \A i \in DOMAIN q.requests : UpToDate(p, i) => UpToDate(q, i)
  BY <1>7, <1>9 DEF UpToDate
<1>11. DOMAIN q.requests = DOMAIN p.requests  BY <1>4, <1>7
<1>12. Wired(q)
  <2>1. IsFiniteSet(DOMAIN q.requests)  BY <1>11 DEF Wired
  <2>2. ASSUME NEW c \in q.calls, c.pc = "request"
        PROVE  c.at \in DOMAIN q.requests /\ q.requests[c.at].incident = c.incident
    <3>1. c \in p.calls  BY <1>2, <1>7, <2>2
    <3> QED  BY <1>9, <1>11, <2>2, <3>1 DEF Wired
  <2>3. ASSUME NEW k \in DOMAIN q.pending
        PROVE  q.pending[k] \in DOMAIN q.requests /\ q.requests[q.pending[k]].incident = k[2]
    BY <1>7, <1>9, <1>11 DEF Wired
  <2> QED  BY <2>1, <2>2, <2>3 DEF Wired
<1>19. \A k \in DOMAIN p.pending : k[1] \in Nat /\ k[1] < token
  <2>1. \A k \in DOMAIN p.pending : k[1] \in Nat  BY PageFields
  <2>2. \A k \in DOMAIN p.pending : k[1] <= top  BY DEF Bounded
  <2> QED  BY <2>1, <2>2
<1>13. \A k \in DOMAIN q.pending : k[1] \in Nat /\ k[1] # token
  BY <1>7, <1>19
<1>14. Showing(q)  BY <1>7 DEF Showing
<1>15. Current(q)
  <2> SUFFICES ASSUME NEW c \in q.calls, c.latest
               PROVE  /\ c.pc = "request" => UpToDate(q, c.at)
                      /\ c.pc = "ready" =>
                           \A k \in DOMAIN q.pending : k[1] = c.at => UpToDate(q, q.pending[k])
    BY DEF Current
  <2>1. CASE c \in p.calls
    <3>1. ASSUME c.pc = "request" PROVE UpToDate(q, c.at)
      BY <1>10, <1>11, <2>1, <3>1 DEF Current, Wired
    <3>2. ASSUME c.pc = "ready", NEW k \in DOMAIN q.pending, k[1] = c.at
          PROVE  UpToDate(q, q.pending[k])
      BY <1>7, <1>10, <1>11, <2>1, <3>2 DEF Current, Wired
    <3> QED  BY <3>1, <3>2
  <2>2. CASE c.pc = "ready" /\ c.at = token  BY <1>13, <2>2
  <2> QED  BY <1>2, <1>7, <2>1, <2>2
<1>16. Shareable(q, {token}, None)  BY <1>13 DEF Shareable
<1>17. Bounded(q, w, token)
  <2>1. \A k \in DOMAIN q.pending : k[1] <= token
    BY <1>7, <1>19
  <2>2. \A c \in q.calls : c.pc = "ready" => c.at <= token
    BY <1>2, <1>7 DEF Bounded, Call
  <2>3. \A id \in DOMAIN q.requests : q.requests[id].version <= w[q.requests[id].incident]
    BY <1>9 DEF Bounded
  <2> QED  BY <1>7, <2>1, <2>2, <2>3 DEF Bounded
<1>18. Renewing(q, n)  BY <1>7 DEF Renewing
<1> QED  BY <1>8, <1>12, <1>14, <1>15, <1>16, <1>17, <1>18

\* A call that has its token: it finds a read to share, or sends a request.
LEMMA IssuedOK ==
  ASSUME NEW w \in Counts, NEW top \in Nat, NEW tokens, NEW n, NEW x,
         NEW p, Wiring(p, w, top, tokens, n, x), Showing(p), Current(p),
         NEW c \in Call, NEW token \in Nat, token <= top,
         c.latest /\ <<token, c.incident>> \in DOMAIN p.pending =>
           UpToDate(p, p.pending[<<token, c.incident>>]) \/ c.kind = "fresh",
         x = None \/ (c.kind = "fresh" /\ c.incident = x /\ tokens = {token})
  PROVE  PageOK(Issued(p, c, token), w, top, tokens, n)
<1> PICK key : key = <<token, c.incident>>  OBVIOUS
<1> PICK q : q = Issued(p, c, token)  OBVIOUS
<1>1. p \in Page /\ Wired(p) /\ Shareable(p, tokens, x) /\ Bounded(p, w, top) /\ Renewing(p, n)
  BY DEF Wiring
<1>2. key \in Nat \X Incidents /\ key[1] = token /\ key[2] = c.incident
  BY DEF Call
<1>3. CASE c.kind \notin {"write", "fresh"} /\ key \in DOMAIN p.pending
  <2>1. x = None  BY <1>3
  <2>2. PICK d : d = [c EXCEPT !.pc = "request", !.at = p.pending[key]]  OBVIOUS
  <2>3. /\ d \in Call /\ d.pc = "request" /\ d.at = p.pending[key] /\ d.incident = c.incident
        /\ d.latest = c.latest
    BY <1>1, <1>3, <2>2, PageFields DEF Call
  <2>4. PICK C : C = (p.calls \ {c}) \cup {d}  OBVIOUS
  <2>5. q = [p EXCEPT !.calls = C]
    BY <1>3, <2>2, <2>4, key = <<token, c.incident>>, q = Issued(p, c, token) DEF Issued
  <2>6. q = [mode |-> p.mode, refresh |-> p.refresh, selected |-> p.selected, shown |-> p.shown,
             calls |-> C, requests |-> p.requests, pending |-> p.pending, noted |-> p.noted]
    BY <1>1, <2>5, PageFields
  <2>7. /\ q.refresh = p.refresh /\ q.selected = p.selected /\ q.shown = p.shown
        /\ q.calls = C /\ q.requests = p.requests /\ q.pending = p.pending /\ q.noted = p.noted
    BY <2>6
  <2>8. q \in Page
    <3>1. p \in Page /\ p.calls \subseteq Call  BY <1>1, PageFields
    <3>2. C \in SUBSET Call  BY <2>3, <2>4, <3>1
    <3> QED  BY ONLY <2>6, <3>1, <3>2, PageFields, PageMade
  <2>9. \A i : UpToDate(p, i) => UpToDate(q, i)  BY <2>7 DEF UpToDate
  <2>10. \A e \in q.calls : e \in p.calls \/ e = d  BY <2>4, <2>7
  <2>11. Wired(q)
    <3>1. ASSUME NEW e \in q.calls, e.pc = "request"
          PROVE  e.at \in DOMAIN q.requests /\ q.requests[e.at].incident = e.incident
      <4>1. CASE e \in p.calls  BY <1>1, <2>7, <3>1, <4>1 DEF Wired
      <4>2. CASE e = d  BY <1>1, <1>2, <1>3, <2>3, <2>7, <4>2 DEF Wired
      <4> QED  BY <2>10, <4>1, <4>2
    <3> QED  BY <1>1, <2>7, <3>1 DEF Wired
  <2>12. Current(q)
    <3> SUFFICES ASSUME NEW e \in q.calls, e.latest
                 PROVE  /\ e.pc = "request" => UpToDate(q, e.at)
                        /\ e.pc = "ready" =>
                             \A k \in DOMAIN q.pending : k[1] = e.at => UpToDate(q, q.pending[k])
      BY DEF Current
    <3>1. CASE e \in p.calls  BY <2>7, <2>9, <3>1 DEF Current
    <3>2. CASE e = d  BY <1>3, <2>3, <2>9, <3>2
    <3> QED  BY <2>10, <3>1, <3>2
  <2>13. Showing(q)  BY <2>7 DEF Showing
  <2>14. Shareable(q, tokens, None)  BY <1>1, <2>1, <2>7, <2>9 DEF Shareable
  <2>15. Bounded(q, w, top)
    <3>1. \A e \in q.calls : e.pc = "ready" => e.at <= top
      BY <1>1, <2>3, <2>10 DEF Bounded
    <3> QED  BY <1>1, <2>7, <3>1 DEF Bounded
  <2>16. Renewing(q, n)  BY <1>1, <2>7 DEF Renewing
  <2> QED  BY <2>8, <2>11, <2>12, <2>13, <2>14, <2>15, <2>16 DEF PageOK
<1>4. CASE ~(c.kind \notin {"write", "fresh"} /\ key \in DOMAIN p.pending)
  <2>1. PICK id : id = CHOOSE m \in 1 .. Cardinality(DOMAIN p.requests) + 1 : m \notin DOMAIN p.requests
    OBVIOUS
  <2>2. id \in Nat /\ id \notin DOMAIN p.requests
    BY <1>1, <2>1, FreeIdentity DEF Wired
  <2>3. PICK d : d = [c EXCEPT !.pc = "request", !.at = id]  OBVIOUS
  <2>4. /\ d \in Call /\ d.pc = "request" /\ d.at = id /\ d.incident = c.incident
    BY <2>2, <2>3 DEF Call
  <2>5. PICK new : new = [incident |-> c.incident, write |-> c.kind = "write", bearer |-> token,
                          pc |-> "sent", version |-> 0, again |-> FALSE]
    OBVIOUS
  <2>6. new \in Request /\ new.incident = c.incident /\ new.pc = "sent" /\ new.version = 0
    <3>1. c.incident \in Incidents /\ (c.kind = "write") \in BOOLEAN  BY DEF Call
    <3> QED  BY <2>5, <3>1 DEF Request
  <2>7. PICK C : C = (p.calls \ {c}) \cup {d}  OBVIOUS
  <2>8. PICK R : R = With(p.requests, id, new)  OBVIOUS
  <2>9. PICK P : P = IF Shares(c) THEN With(p.pending, key, id) ELSE p.pending  OBVIOUS
  <2>10. q = [p EXCEPT !.calls = C, !.requests = R, !.pending = P]
    BY <1>4, <2>1, <2>3, <2>5, <2>7, <2>8, <2>9, key = <<token, c.incident>>,
       q = Issued(p, c, token) DEF Issued
  <2>11. q = [mode |-> p.mode, refresh |-> p.refresh, selected |-> p.selected,
              shown |-> p.shown, calls |-> C, requests |-> R, pending |-> P, noted |-> p.noted]
    BY <1>1, <2>10, PageFields
  <2>12. /\ q.refresh = p.refresh /\ q.selected = p.selected /\ q.shown = p.shown
         /\ q.calls = C /\ q.requests = R /\ q.pending = P /\ q.noted = p.noted
    BY <2>11
  <2>13. /\ DOMAIN R = DOMAIN p.requests \cup {id} /\ R[id] = new
         /\ \A i \in DOMAIN p.requests : R[i] = p.requests[i]
    BY <2>2, <2>8 DEF With
  <2>14. /\ DOMAIN p.pending \subseteq DOMAIN P
         /\ \A k \in DOMAIN P : \/ k \in DOMAIN p.pending /\ P[k] = p.pending[k]
                                \/ k = key /\ P[k] = id
         /\ Shares(c) => P[key] = id
    <3>1. CASE Shares(c)
      <4>1. P = With(p.pending, key, id)  BY <2>9, <3>1
      <4> QED  BY <4>1 DEF With
    <3>2. CASE ~Shares(c)  BY <2>9, <3>2
    <3> QED  BY <3>1, <3>2
  <2>15. q \in Page
    <3>1. C \subseteq Call  BY <1>1, <2>4, <2>7, PageFields
    <3>2. R \in Partial(Nat, Request)  BY <1>1, <2>2, <2>6, <2>8, WithOK, PageFields
    <3>3. P \in Partial(Nat \X Incidents, Nat)
      <4>1. p.pending \in Partial(Nat \X Incidents, Nat)  BY <1>1, PageFields
      <4> QED  BY <1>2, <2>2, <2>9, <4>1, WithOK
    <3>4. p \in Page /\ C \in SUBSET Call  BY <1>1, <3>1
    <3> QED  BY ONLY <2>11, <3>2, <3>3, <3>4, PageFields, PageMade
  <2>16. /\ UpToDate(q, id)
         /\ \A i \in DOMAIN p.requests : UpToDate(p, i) => UpToDate(q, i)
    BY <2>2, <2>6, <2>12, <2>13 DEF UpToDate
  <2>17. \A e \in q.calls : e \in p.calls \/ e = d  BY <2>7, <2>12
  <2>18. Wired(q)
    <3>1. IsFiniteSet(DOMAIN q.requests)
      BY <1>1, <2>12, <2>13, FS_AddElement DEF Wired
    <3>2. ASSUME NEW e \in q.calls, e.pc = "request"
          PROVE  e.at \in DOMAIN q.requests /\ q.requests[e.at].incident = e.incident
      <4>1. CASE e \in p.calls  BY <1>1, <2>2, <2>12, <2>13, <3>2, <4>1 DEF Wired
      <4>2. CASE e = d  BY <2>4, <2>6, <2>12, <2>13, <4>2
      <4> QED  BY <2>17, <4>1, <4>2
    <3>3. ASSUME NEW k \in DOMAIN q.pending
          PROVE  q.pending[k] \in DOMAIN q.requests /\ q.requests[q.pending[k]].incident = k[2]
      <4>1. CASE k \in DOMAIN p.pending /\ P[k] = p.pending[k]
        BY <1>1, <2>2, <2>12, <2>13, <4>1 DEF Wired
      <4>2. CASE k = key /\ P[k] = id  BY <1>2, <2>6, <2>12, <2>13, <4>2
      <4> QED  BY <2>12, <2>14, <4>1, <4>2
    <3> QED  BY <3>1, <3>2, <3>3 DEF Wired
  <2>19. Current(q)
    <3> SUFFICES ASSUME NEW e \in q.calls, e.latest
                 PROVE  /\ e.pc = "request" => UpToDate(q, e.at)
                        /\ e.pc = "ready" =>
                             \A k \in DOMAIN q.pending : k[1] = e.at => UpToDate(q, q.pending[k])
      BY DEF Current
    <3>1. CASE e = d  BY <2>4, <2>16, <3>1
    <3>2. ASSUME e \in p.calls, e.pc = "request" PROVE UpToDate(q, e.at)
      BY <1>1, <2>16, <3>2 DEF Current, Wired
    <3>3. ASSUME e \in p.calls, e.pc = "ready", NEW k \in DOMAIN q.pending, k[1] = e.at
          PROVE  UpToDate(q, q.pending[k])
      BY <1>1, <2>12, <2>14, <2>16, <3>3 DEF Current, Wired
    <3> QED  BY <2>17, <3>1, <3>2, <3>3
  <2>20. Showing(q)  BY <2>12 DEF Showing
  <2>21. Shareable(q, tokens, None)
    <3> SUFFICES ASSUME NEW k \in DOMAIN q.pending, k[1] \in tokens, k[2] # None
                 PROVE  UpToDate(q, q.pending[k])
      BY DEF Shareable
    <3>1. CASE P[k] = id  BY <2>12, <2>16, <3>1
    <3>2. CASE k \in DOMAIN p.pending /\ P[k] = p.pending[k] /\ P[k] # id
      <4>1. k[2] # x
        <5>1. CASE x = None  BY <5>1
        <5>2. CASE c.kind = "fresh" /\ c.incident = x /\ tokens = {token}
          <6>1. k # key  BY <2>14, <3>2, <5>2 DEF Shares
          <6>2. k \in Nat \X Incidents  BY <1>1, <3>2, PageFields
          <6>3. k = <<k[1], k[2]>>  BY <6>2
          <6> QED  BY <5>2, <6>1, <6>3, key = <<token, c.incident>>
        <5> QED  BY <5>1, <5>2
      <4> QED  BY <1>1, <2>12, <2>16, <3>2, <4>1 DEF Shareable, Wired
    <3> QED  BY <2>12, <2>14, <3>1, <3>2
  <2>22. Bounded(q, w, top)
    <3>1. \A e \in q.calls : e.pc = "ready" => e.at <= top
      BY <1>1, <2>4, <2>17 DEF Bounded
    <3>2. \A k \in DOMAIN q.pending : k[1] <= top
      BY <1>1, <1>2, <2>12, <2>14 DEF Bounded
    <3>3. \A i \in DOMAIN q.requests : q.requests[i].version <= w[q.requests[i].incident]
      <4>1. w[c.incident] \in Nat  BY DEF Counts, Call
      <4> QED  BY <1>1, <2>6, <2>12, <2>13, <4>1 DEF Bounded
    <3> QED  BY <1>1, <2>12, <3>1, <3>2, <3>3 DEF Bounded
  <2>23. Renewing(q, n)  BY <1>1, <2>12 DEF Renewing
  <2> QED  BY <2>15, <2>18, <2>19, <2>20, <2>21, <2>22, <2>23 DEF PageOK
<1> QED  BY <1>3, <1>4

-----------------------------------------------------------------------------
(* The steps of a page *)

\* What the world does while a page takes a step.
Grows ==
  /\ \A i \in Incidents : written[i] <= written'[i]
  /\ Top <= Top' /\ issued.tokens <= issued.tokens'
  /\ \A k \in Usables' : k \in Usables \/ (k \in Nat /\ k > Top)

LEMMA WorldFacts ==
  ASSUME World
  PROVE  /\ Top \in Nat /\ Top <= issued.tokens /\ issued.tokens \in Nat
         /\ Usable => /\ stored # None /\ stored \in SessionRecord
                      /\ Top = stored.token /\ Usables = {stored.token}
         /\ ~Usable => Usables = {}
BY DEF World, Issue, SessionRecord, Top, Usables, Usable, SavedSession

PageIn(p) == PageOK(p, written, Top, Usables, issued.tokens)

LEMMA PageIsIn ==
  ASSUME BrowserInv, NEW t \in Tabs
  PROVE  PageIn(page[t]) /\ page[t] \in Page
BY DEF BrowserInv, PageIn

\* The pages that take no step stay in order.
LEMMA LaterIn ==
  ASSUME BrowserInv, World', Grows, NEW u \in Tabs
  PROVE  PageOK(page[u], written', Top', Usables', issued.tokens')
<1>1. PICK p, w, top, tokens, n, w2, top2, tokens2, n2 :
        /\ p = page[u] /\ w = written /\ top = Top /\ tokens = Usables /\ n = issued.tokens
        /\ w2 = written' /\ top2 = Top' /\ tokens2 = Usables' /\ n2 = issued.tokens'
  OBVIOUS
<1>2. w \in Counts /\ top \in Nat /\ n \in Nat
  BY <1>1, WorldFacts DEF BrowserInv, World
<1>3. w2 \in Counts /\ top2 \in Nat /\ n2 \in Nat
  <2>1. (Top \in Nat /\ issued.tokens \in Nat)'  BY WorldFacts, PTL
  <2> QED  BY <1>1, <2>1 DEF World
<1>4. PageOK(p, w, top, tokens, n)  BY <1>1 DEF BrowserInv
<1>5. /\ \A i \in Incidents : w[i] <= w2[i]
      /\ top <= top2 /\ n <= n2 /\ \A k \in tokens2 : k \in tokens \/ (k \in Nat /\ k > top)
  BY <1>1 DEF Grows
<1>6. PageOK(p, w2, top2, tokens2, n2)
  BY ONLY <1>2, <1>3, <1>4, <1>5, Later
<1> QED  BY <1>1, <1>6

LEMMA InvOthers ==
  ASSUME BrowserInv, World', Grows, NEW t \in Tabs, NEW q,
         page' = [page EXCEPT ![t] = q],
         PageOK(q, written', Top', Usables', issued.tokens')
  PROVE  BrowserInv'
<1>1. q \in Page  BY DEF PageOK
<1>2. page' \in [Tabs -> Page] /\ page'[t] = q /\ \A u \in Tabs \ {t} : page'[u] = page[u]
  BY <1>1 DEF BrowserInv
<1> QED  BY <1>2, LaterIn DEF BrowserInv

\* Nothing changes but the page.
LEMMA InvPage ==
  ASSUME BrowserInv, NEW t \in Tabs, NEW q, page' = [page EXCEPT ![t] = q], PageIn(q),
         UNCHANGED <<stored, issued, lapsed, over, written>>
  PROVE  BrowserInv'
<1>1. World' /\ Top' = Top /\ Usables' = Usables
  BY DEF BrowserInv, World, Top, Usables, Usable, SavedSession
<1>2. \A i \in Incidents : written[i] \in Nat  BY DEF BrowserInv, World, Counts
<1>3. Grows  BY <1>1, <1>2, WorldFacts DEF Grows, BrowserInv
<1>4. PageOK(q, written', Top', Usables', issued.tokens')  BY <1>1 DEF PageIn
<1> QED  BY <1>1, <1>3, <1>4, InvOthers

\* The session is gone.
LEMMA InvSignedOut ==
  ASSUME BrowserInv, NEW t \in Tabs, NEW q, page' = [page EXCEPT ![t] = q], PageIn(q),
         stored' = None, UNCHANGED <<issued, lapsed, over, written>>
  PROVE  BrowserInv'
<1>1. World' /\ Top' = issued.tokens /\ Usables' = {}
  BY DEF BrowserInv, World, Top, Usables, Usable, SavedSession
<1>2. \A i \in Incidents : written[i] \in Nat  BY DEF BrowserInv, World, Counts
<1>3. Grows  BY <1>1, <1>2, WorldFacts DEF Grows, BrowserInv
<1>4. PageOK(q, written', Top', Usables', issued.tokens')
  <2>1. PICK w, top, tokens, n, top2 :
          /\ w = written /\ top = Top /\ tokens = Usables /\ n = issued.tokens
          /\ top2 = issued.tokens
    OBVIOUS
  <2>2. /\ w \in Counts /\ top \in Nat /\ n \in Nat /\ top2 \in Nat /\ top <= top2 /\ n <= n
    BY <2>1, WorldFacts DEF BrowserInv, World
  <2>3. PageOK(q, w, top, tokens, n)  BY <2>1 DEF PageIn
  <2>4. \A i \in Incidents : w[i] <= w[i]  BY <1>2, <2>1
  <2>5. PageOK(q, w, top2, {}, n)
    BY ONLY <2>2, <2>3, <2>4, Later
  <2> QED  BY <1>1, <2>1, <2>5
<1> QED  BY <1>1, <1>3, <1>4, InvOthers

LEMMA WiredIn ==
  ASSUME NEW p, PageIn(p)
  PROVE  /\ p \in Page /\ Wiring(p, written, Top, Usables, issued.tokens, None)
         /\ Showing(p) /\ Current(p)
BY DEF PageIn, PageOK, Wiring

\* A call that waits for its token, or nobody, fails.
LEMMA NoneSettles ==
  ASSUME NEW p, NEW C, C \subseteq p.calls, \A c \in C : c.pc = "token"
  PROVE  Settles(p, C, {}, None)
BY DEF Settles, Covers, Fits

\* A refresh is joined or begun, or the session is found to be gone.
LEMMA InvRefreshes ==
  ASSUME BrowserInv, NEW t \in Tabs, NEW p, PageIn(p), NEW C, NEW ids,
         Settles(p, C, ids, None), Refreshes(t, p, C, ids),
         UNCHANGED <<issued, lapsed, over, written>>
  PROVE  BrowserInv'
<1>1. CASE SavedSession = None
  <2>1. PICK s : s = Settled(p, C, ids, None)  OBVIOUS
  <2>2. stored' = None /\ page' = [page EXCEPT ![t] = Expired(s)]
    BY <1>1, <2>1 DEF Refreshes
  <2>3. PageIn(s)
    <3>1. PICK w, top, tokens, n :
            w = written /\ top = Top /\ tokens = Usables /\ n = issued.tokens
      OBVIOUS
    <3>2. Wiring(p, w, top, tokens, n, None) /\ Showing(p) /\ Current(p)
      BY <3>1, WiredIn
    <3>3. Wiring(s, w, top, tokens, n, None) /\ Showing(s) /\ Current(s)
      BY ONLY <2>1, <3>2, Settles(p, C, ids, None), SettledOK
    <3> QED  BY <3>1, <3>3 DEF PageIn, PageOK, Wiring
  <2>4. PageIn(Expired(s))  BY <2>3, ExpiredOK DEF PageIn
  <2> QED  BY <2>2, <2>4, InvSignedOut
<1>2. CASE SavedSession # None /\ p.refresh # None
  <2>1. UNCHANGED stored /\ page' = [page EXCEPT ![t] = p]  BY <1>2 DEF Refreshes
  <2> QED  BY <2>1, InvPage
<1>3. CASE SavedSession # None /\ p.refresh = None
  <2>1. PICK r : r = [session |-> stored, overtaken |-> FALSE, token |-> 0]  OBVIOUS
  <2>2. PICK q : q = [p EXCEPT !.refresh = r]  OBVIOUS
  <2>3. UNCHANGED stored /\ page' = [page EXCEPT ![t] = q]
    BY <1>3, <2>1, <2>2 DEF Refreshes
  <2>4. stored # None /\ stored \in SessionRecord /\ stored.token <= issued.tokens
    BY <1>3 DEF SavedSession, BrowserInv, World
  <2>5. r \in Refresh /\ r.session = stored /\ r.token = 0  BY <2>1, <2>4 DEF Refresh
  <2>6. p \in Page  BY DEF PageIn, PageOK
  <2>7. q = [mode |-> p.mode, refresh |-> r, selected |-> p.selected, shown |-> p.shown,
             calls |-> p.calls, requests |-> p.requests, pending |-> p.pending,
             noted |-> p.noted]
    <3>1. p = [mode |-> p.mode, refresh |-> p.refresh, selected |-> p.selected, shown |-> p.shown,
               calls |-> p.calls, requests |-> p.requests, pending |-> p.pending, noted |-> p.noted]
      BY <2>6, PageFields
    <3> QED  BY ONLY <2>2, <3>1
  <2>8. /\ q.refresh = r /\ q.selected = p.selected /\ q.shown = p.shown /\ q.calls = p.calls
        /\ q.requests = p.requests /\ q.pending = p.pending /\ q.noted = p.noted
    BY <2>7
  <2>9. q \in Page
    <3>1. r \in Refresh \cup {None} /\ p.calls \in SUBSET Call  BY <2>5, <2>6, PageFields
    <3> QED  BY ONLY <2>6, <2>7, <3>1, PageFields, PageMade
  <2>10. Renewing(q, issued.tokens)  BY <2>4, <2>5, <2>8 DEF Renewing
  <2>11. PageIn(q)  BY <2>8, <2>9, <2>10, SameCalls DEF PageIn
  <2> QED  BY <2>3, <2>11, InvPage
<1> QED  BY <1>1, <1>2, <1>3

-----------------------------------------------------------------------------
(* A call begins, a request is answered *)

Gates(p, kind) == IF kind = "write" THEN p.calls ELSE Quieted(p.calls)
Begun(p, c) ==
  [p EXCEPT !.calls = Gates(p, c.kind) \cup {c},
            !.shown = IF c.kind = "fresh" THEN None ELSE @]
Begins(c) ==
  /\ c \in Call /\ c.kind \in {"poll", "fresh", "write"} /\ c.pc = "token"
  /\ c.kind = "write" => ~c.latest

\* A call that waits for its token is added, and gates the others unless it writes.
LEMMA BegunOK ==
  ASSUME NEW w, NEW top, NEW tokens, NEW n, NEW x,
         NEW p, Wiring(p, w, top, tokens, n, x), NEW c, Begins(c),
         c.kind = "fresh" \/ (Showing(p) /\ Current(p)), NEW q, q = Begun(p, c)
  PROVE  /\ Wiring(q, w, top, tokens, n, x) /\ Showing(q) /\ Current(q)
         /\ q.pending = p.pending
<1> PICK kind : kind = c.kind  OBVIOUS
<1> PICK C : C = Gates(p, kind) \cup {c}  OBVIOUS
<1> PICK s : s = IF kind = "fresh" THEN None ELSE p.shown  OBVIOUS
<1> USE DEF Begins
<1>8. q = [p EXCEPT !.calls = C, !.shown = s]  BY DEF Begun
<1>1. p \in Page  BY DEF Wiring
<1>2. q = [mode |-> p.mode, refresh |-> p.refresh, selected |-> p.selected, shown |-> s,
           calls |-> C, requests |-> p.requests, pending |-> p.pending, noted |-> p.noted]
  <2>1. p = [mode |-> p.mode, refresh |-> p.refresh, selected |-> p.selected, shown |-> p.shown,
             calls |-> p.calls, requests |-> p.requests, pending |-> p.pending, noted |-> p.noted]
    BY <1>1, PageFields
  <2> QED  BY ONLY <1>8, <2>1
<1>3. /\ q.refresh = p.refresh /\ q.selected = p.selected /\ q.shown = s
      /\ q.calls = C /\ q.requests = p.requests /\ q.pending = p.pending /\ q.noted = p.noted
  BY <1>2
<1>4. \A e \in C : e \in Call /\ (e = c \/ e \in Gates(p, kind))
  <2>1. Quieted(p.calls) \subseteq Call  BY <1>1, PageFields, QuietOK DEF Quieted
  <2> QED  BY <1>1, <2>1, PageFields DEF Gates
<1>5. q \in Page
  <2>1. s \in Status \cup {None}  BY <1>1, PageFields
  <2>2. C \in SUBSET Call  BY <1>4
  <2> QED  BY ONLY <1>1, <1>2, <2>1, <2>2, PageFields, PageMade
<1>6. CASE kind = "write"
  <2>1. \A e \in C : e \in p.calls \/ (e.pc = "token" /\ ~e.latest)
    BY <1>4, <1>6 DEF Gates
  <2>2. Wired(q)  BY <1>3, <2>1 DEF Wired, Wiring
  <2>3. Current(q)
    <3>1. Current(p)  BY <1>6
    <3>2. \A i : UpToDate(p, i) => UpToDate(q, i)  BY <1>3 DEF UpToDate
    <3> QED  BY <1>3, <2>1, <3>1, <3>2 DEF Current
  <2>4. Shareable(q, tokens, x)  BY <1>3 DEF Shareable, Wiring, UpToDate
  <2>5. Bounded(q, w, top)  BY <1>3, <2>1 DEF Bounded, Wiring
  <2>6. Renewing(q, n)  BY <1>3 DEF Renewing, Wiring
  <2>7. Showing(q)  BY <1>3, <1>6 DEF Showing
  <2> QED  BY <1>3, <1>5, <2>2, <2>3, <2>4, <2>5, <2>6, <2>7 DEF Wiring
<1>7. CASE kind # "write"
  <2>1. Gated(p, q)
    <3> SUFFICES ASSUME NEW e \in C, e \in Gates(p, kind)
                 PROVE  ~e.latest /\ \E d \in p.calls :
                          e.pc = d.pc /\ e.at = d.at /\ e.incident = d.incident
      BY <1>3, <1>4 DEF Gated
    <3>1. PICK d \in p.calls : e = Quiet(d)  BY <1>7 DEF Gates, Quieted
    <3>2. d \in Call  BY <1>1, PageFields
    <3> QED  BY <3>1, <3>2, QuietOK
  <2>2. Wiring(q, w, top, tokens, n, x) /\ Current(q)  BY <1>3, <1>5, <2>1, GatedOK
  <2>3. Showing(q)  BY <1>3 DEF Showing
  <2> QED  BY <1>3, <2>2, <2>3
<1> QED  BY <1>6, <1>7

\* A call is made: it has its token at once, or waits for it.
LEMMA InvCalls ==
  ASSUME BrowserInv, NEW t \in Tabs, NEW kind \in {"poll", "fresh", "write"},
         NEW incident \in Incidents, NEW x, x = None \/ (kind = "fresh" /\ incident = x),
         NEW p, Wiring(p, written, Top, Usables, issued.tokens, x),
         kind = "fresh" \/ (Showing(p) /\ Current(p)),
         Calls(t, p, kind, incident), UNCHANGED <<issued, lapsed, over, written>>
  PROVE  BrowserInv'
<1> PICK c : c = [kind |-> kind, incident |-> incident, latest |-> kind # "write",
                  pc |-> "token", at |-> 0]
  OBVIOUS
<1>1. /\ c \in Call /\ c.pc = "token" /\ c.kind = kind /\ c.incident = incident
      /\ kind = "write" => ~c.latest
  BY DEF Call
<1> PICK q : q = Begun(p, c)  OBVIOUS
<1>2. PICK w, top, tokens, n :
        w = written /\ top = Top /\ tokens = Usables /\ n = issued.tokens
  OBVIOUS
<1>3. Wiring(q, w, top, tokens, n, x) /\ Showing(q) /\ Current(q) /\ q.pending = p.pending
  <2>1. Wiring(p, w, top, tokens, n, x)  BY <1>2
  <2>2. Begins(c)  BY <1>1 DEF Begins
  <2>3. c.kind = "fresh" \/ (Showing(p) /\ Current(p))  BY <1>1
  <2> QED  BY ONLY <2>1, <2>2, <2>3, q = Begun(p, c), BegunOK
<1>4. IF Usable
      THEN UNCHANGED stored /\ page' = [page EXCEPT ![t] = Issued(q, c, stored.token)]
      ELSE Refreshes(t, q, {c}, {})
  <2>2. q = [p EXCEPT !.calls = (IF kind = "write" THEN p.calls
                                 ELSE {[other EXCEPT !.latest = FALSE] : other \in p.calls}) \cup {c},
                      !.shown = IF kind = "fresh" THEN None ELSE @]
    BY <1>1 DEF Begun, Gates, Quieted, Quiet
  <2> QED  BY <2>2 DEF Calls
<1>5. World  BY DEF BrowserInv
<1>6. CASE Usable
  <2>1. PICK r : r = Issued(q, c, stored.token)  OBVIOUS
  <2>2. UNCHANGED stored /\ page' = [page EXCEPT ![t] = r]  BY <1>4, <1>6, <2>1
  <2>3. PICK token : token = stored.token  OBVIOUS
  <2>4. /\ w \in Counts /\ top \in Nat /\ token \in Nat /\ token <= top /\ tokens = {token}
    BY <1>2, <1>5, <1>6, <2>3, WorldFacts DEF World
  <2>5. c.latest /\ <<token, c.incident>> \in DOMAIN q.pending =>
          UpToDate(q, q.pending[<<token, c.incident>>]) \/ c.kind = "fresh"
    <3>1. CASE kind = "fresh"  BY <1>1, <3>1
    <3>2. CASE kind # "fresh"
      <4>1. x = None /\ c.incident # None  BY <1>1, <3>2, BrowserAssumption
      <4>2. <<token, c.incident>>[1] \in tokens /\ <<token, c.incident>>[2] # x
        BY <2>4, <4>1
      <4> QED  BY <1>3, <4>2 DEF Wiring, Shareable
    <3> QED  BY <3>1, <3>2
  <2>6. x = None \/ (c.kind = "fresh" /\ c.incident = x /\ tokens = {token})
    BY <1>1, <2>4
  <2>7. PageOK(Issued(q, c, token), w, top, tokens, n)
    BY ONLY <1>1, <1>3, <2>4, <2>5, <2>6, IssuedOK
  <2>8. PageIn(r)  BY <1>2, <2>1, <2>3, <2>7 DEF PageIn
  <2> QED  BY <2>2, <2>8, InvPage
<1>7. CASE ~Usable
  <2>1. Usables = {}  BY <1>5, <1>7, WorldFacts
  <2>2. Shareable(q, Usables, None)  BY <2>1 DEF Shareable
  <2>3. PageIn(q)  BY <1>2, <1>3, <2>2 DEF PageIn, PageOK, Wiring
  <2>4. Settles(q, {c}, {}, None)
    <3>1. c \in q.calls
      <4>1. PICK C, s : C = Gates(p, c.kind) \cup {c}
                        /\ s = IF c.kind = "fresh" THEN None ELSE p.shown
        OBVIOUS
      <4>2. p \in Page  BY DEF Wiring
      <4>3. p = [mode |-> p.mode, refresh |-> p.refresh, selected |-> p.selected,
                 shown |-> p.shown, calls |-> p.calls, requests |-> p.requests,
                 pending |-> p.pending, noted |-> p.noted]
        BY <4>2, PageFields
      <4>4. q = [p EXCEPT !.calls = C, !.shown = s]  BY <4>1 DEF Begun
      <4>5. q.calls = C  BY ONLY <4>3, <4>4
      <4> QED  BY <4>1, <4>5
    <3> QED  BY <1>1, <3>1, NoneSettles
  <2> QED  BY <1>4, <1>7, <2>3, <2>4, InvRefreshes
<1> QED  BY <1>6, <1>7

\* A request changes, but for what it asks.
LEMMA ReplacedOK ==
  ASSUME NEW w, NEW top, NEW tokens, NEW n, NEW p, PageOK(p, w, top, tokens, n),
         NEW i \in DOMAIN p.requests, NEW r \in Request, r.incident = p.requests[i].incident,
         r.version <= w[r.incident],
         r.pc = "served" => r.version >= p.noted[r.incident],
         NEW q, q = [p EXCEPT !.requests[i] = r]
  PROVE  PageOK(q, w, top, tokens, n)
<1> USE DEF PageOK
<1>1. PICK R : R = [p.requests EXCEPT ![i] = r]  OBVIOUS
<1>2. q = [p EXCEPT !.requests = R]  BY <1>1
<1>3. q = [mode |-> p.mode, refresh |-> p.refresh, selected |-> p.selected, shown |-> p.shown,
           calls |-> p.calls, requests |-> R, pending |-> p.pending, noted |-> p.noted]
  <2>1. p = [mode |-> p.mode, refresh |-> p.refresh, selected |-> p.selected, shown |-> p.shown,
             calls |-> p.calls, requests |-> p.requests, pending |-> p.pending, noted |-> p.noted]
    BY PageFields
  <2> QED  BY ONLY <1>2, <2>1
<1>4. /\ q.refresh = p.refresh /\ q.selected = p.selected /\ q.shown = p.shown
      /\ q.calls = p.calls /\ q.requests = R /\ q.pending = p.pending /\ q.noted = p.noted
  BY <1>3
<1>5. /\ R \in Partial(Nat, Request) /\ DOMAIN R = DOMAIN p.requests /\ R[i] = r
      /\ \A j \in DOMAIN R : j # i => R[j] = p.requests[j]
  <2>1. p.requests \in Partial(Nat, Request)  BY PageFields
  <2>2. PICK D \in SUBSET Nat : p.requests \in [D -> Request]  BY <2>1 DEF Partial
  <2>3. R \in [D -> Request]  BY <1>1, <2>2
  <2> QED  BY <1>1, <2>2, <2>3 DEF Partial
<1>6. q \in Page
  <2>1. p \in Page  OBVIOUS
  <2>2. p.calls \in SUBSET Call  BY PageFields
  <2> QED  BY ONLY <1>3, <1>5, <2>1, <2>2, PageFields, PageMade
<1>7. \A j \in DOMAIN R : R[j].incident = p.requests[j].incident  BY <1>5
<1>8. \A j \in DOMAIN R : UpToDate(p, j) => UpToDate(q, j)
  BY <1>4, <1>5 DEF UpToDate
<1>9. Wired(q)  BY <1>4, <1>5, <1>7 DEF Wired
<1>10. Showing(q)  BY <1>4 DEF Showing
<1>11. Current(q)
  <2> SUFFICES ASSUME NEW c \in q.calls, c.latest
               PROVE  /\ c.pc = "request" => UpToDate(q, c.at)
                      /\ c.pc = "ready" =>
                           \A k \in DOMAIN q.pending : k[1] = c.at => UpToDate(q, q.pending[k])
    BY DEF Current
  <2>1. c \in p.calls  BY <1>4
  <2>2. ASSUME c.pc = "request" PROVE UpToDate(q, c.at)
    BY <1>5, <1>8, <2>1, <2>2 DEF Current, Wired
  <2>3. ASSUME c.pc = "ready", NEW k \in DOMAIN q.pending, k[1] = c.at
        PROVE  UpToDate(q, q.pending[k])
    BY <1>4, <1>5, <1>8, <2>1, <2>3 DEF Current, Wired
  <2> QED  BY <2>2, <2>3
<1>12. Shareable(q, tokens, None)
  BY <1>4, <1>5, <1>8 DEF Shareable, Wired
<1>13. Bounded(q, w, top)
  <2>1. \A j \in DOMAIN R : R[j].version <= w[R[j].incident]
    BY <1>5 DEF Bounded
  <2> QED  BY <1>4, <2>1 DEF Bounded
<1>14. Renewing(q, n)  BY <1>4 DEF Renewing
<1> QED  BY <1>6, <1>9, <1>10, <1>11, <1>12, <1>13, <1>14

-----------------------------------------------------------------------------
(* The actions *)

LEMMA InvPolls == ASSUME BrowserInv, NEW t \in Tabs, Polls(t) PROVE BrowserInv'
<1>1. page[t].selected \in Incidents  BY PageIsIn, PageFields DEF Polls
<1>2. PageIn(page[t])  BY PageIsIn
<1>3. Calls(t, page[t], "poll", page[t].selected) /\ UNCHANGED <<issued, lapsed, over, written>>
  BY DEF Polls
<1> QED  BY <1>1, <1>2, <1>3, WiredIn, InvCalls

LEMMA InvWrites == ASSUME BrowserInv, NEW t \in Tabs, Writes(t) PROVE BrowserInv'
<1>1. page[t].selected \in Incidents
  <2>1. page[t].shown \in Status /\ Showing(page[t])
    BY PageIsIn, PageFields, WiredIn DEF Writes
  <2> QED  BY <2>1 DEF Writes, Showing, Status
<1>2. PageIn(page[t])  BY PageIsIn
<1>3. Calls(t, page[t], "write", page[t].selected) /\ UNCHANGED <<issued, lapsed, over, written>>
  BY DEF Writes
<1> QED  BY <1>1, <1>2, <1>3, WiredIn, InvCalls

LEMMA InvAsksToken == ASSUME BrowserInv, NEW t \in Tabs, AsksToken(t) PROVE BrowserInv'
<1>1. Settles(page[t], {}, {}, None)  BY NoneSettles
<1> QED  BY <1>1, PageIsIn, InvRefreshes DEF AsksToken

LEMMA InvProceeds ==
  ASSUME BrowserInv, NEW t \in Tabs, NEW c \in page[t].calls, Proceeds(t, c)
  PROVE  BrowserInv'
<1> PICK p : p = page[t]  OBVIOUS
<1> PICK q : q = Issued(p, c, c.at)  OBVIOUS
<1>1. PICK w, top, tokens, n :
        w = written /\ top = Top /\ tokens = Usables /\ n = issued.tokens
  OBVIOUS
<1>2. PageIn(p)  BY PageIsIn
<1>3. Wiring(p, w, top, tokens, n, None) /\ Showing(p) /\ Current(p) /\ p \in Page
  BY <1>1, <1>2, WiredIn
<1>4. /\ c \in Call /\ c.pc = "ready" /\ c.at \in Nat /\ c.at <= top
      /\ c.latest /\ <<c.at, c.incident>> \in DOMAIN p.pending =>
           UpToDate(p, p.pending[<<c.at, c.incident>>])
  <2>1. c \in Call /\ c.pc = "ready" /\ c.at \in Nat
    BY <1>3, PageFields DEF Proceeds, Call
  <2>2. c.at <= top  BY <1>3, <2>1 DEF Wiring, Bounded
  <2>3. ASSUME c.latest, <<c.at, c.incident>> \in DOMAIN p.pending
        PROVE  UpToDate(p, p.pending[<<c.at, c.incident>>])
    <3>1. <<c.at, c.incident>>[1] = c.at  OBVIOUS
    <3> QED  BY <1>3, <2>1, <2>3, <3>1 DEF Current
  <2> QED  BY <2>1, <2>2, <2>3
<1>5. w \in Counts /\ top \in Nat
  BY <1>1, WorldFacts DEF BrowserInv, World
<1>6. PageOK(Issued(p, c, c.at), w, top, tokens, n)
  BY ONLY <1>3, <1>4, <1>5, IssuedOK
<1>7. PageIn(q)  BY <1>1, <1>6 DEF PageIn
<1> QED  BY <1>7, InvPage DEF Proceeds

LEMMA InvSelects ==
  ASSUME BrowserInv, NEW t \in Tabs, NEW i \in Incidents, Selects(t, i)
  PROVE  BrowserInv'
<1> DEFINE Left(c) == [c EXCEPT !.latest = FALSE, !.kind = IF @ = "poll" THEN "old" ELSE @]
<1> PICK p : p = page[t]  OBVIOUS
<1> PICK C : C = {Left(c) : c \in p.calls}  OBVIOUS
<1> PICK q : q = [p EXCEPT !.selected = i, !.shown = None, !.calls = C]  OBVIOUS
<1>1. page' = [page EXCEPT ![t] = q]
  BY DEF Selects, BrowserInv, Page
<1> HIDE DEF Left
<1>2. PageIn(p) /\ p \in Page  BY PageIsIn
<1>3. PICK w, top, tokens, n :
        w = written /\ top = Top /\ tokens = Usables /\ n = issued.tokens
  OBVIOUS
<1>4. q = [mode |-> p.mode, refresh |-> p.refresh, selected |-> i, shown |-> None,
           calls |-> C, requests |-> p.requests, pending |-> p.pending, noted |-> p.noted]
  <2>1. p = [mode |-> p.mode, refresh |-> p.refresh, selected |-> p.selected, shown |-> p.shown,
             calls |-> p.calls, requests |-> p.requests, pending |-> p.pending, noted |-> p.noted]
    BY <1>2, PageFields
  <2> QED  BY ONLY <2>1, q = [p EXCEPT !.selected = i, !.shown = None, !.calls = C]
<1>5. /\ q.refresh = p.refresh /\ q.selected = i /\ q.shown = None
      /\ q.calls = C /\ q.requests = p.requests /\ q.pending = p.pending /\ q.noted = p.noted
  BY <1>4
<1>6. \A c \in C : /\ c \in Call /\ ~c.latest
                   /\ \E d \in p.calls : c.pc = d.pc /\ c.at = d.at /\ c.incident = d.incident
  <2> SUFFICES ASSUME NEW d \in p.calls
               PROVE  /\ Left(d) \in Call /\ ~Left(d).latest
                      /\ Left(d).pc = d.pc /\ Left(d).at = d.at /\ Left(d).incident = d.incident
    OBVIOUS
  <2>1. d \in Call  BY <1>2, PageFields
  <2> QED  BY <2>1 DEF Call, Left
<1>7. q \in Page
  <2>1. C \in SUBSET Call  BY <1>6
  <2>2. i \in Incidents \cup {None} /\ None \in Status \cup {None}  OBVIOUS
  <2> QED  BY ONLY <1>2, <1>4, <2>1, <2>2, PageFields, PageMade
<1>8. Gated(p, q)  BY <1>5, <1>6 DEF Gated
<1>9. Wiring(p, w, top, tokens, n, None)  BY <1>2, <1>3, WiredIn
<1>10. Wiring(q, w, top, tokens, n, None) /\ Current(q)
  BY ONLY <1>5, <1>7, <1>8, <1>9, GatedOK
<1>11. Showing(q)  BY <1>5 DEF Showing
<1>12. PageIn(q)  BY <1>3, <1>10, <1>11 DEF PageIn, PageOK, Wiring
<1> QED  BY <1>1, <1>12, InvPage DEF Selects

Became(r, pc, version) == [r EXCEPT !.pc = pc, !.version = version]

\* What is said of a request, and nothing else of it.
LEMMA BecomesFacts ==
  ASSUME BrowserInv, NEW t \in Tabs, NEW i \in DOMAIN page[t].requests,
         NEW pc \in {"served", "refused"}, NEW version \in Nat, Becomes(t, i, pc, version),
         NEW r, r = Became(page[t].requests[i], pc, version)
  PROVE  /\ page' = [page EXCEPT ![t] = [page[t] EXCEPT !.requests[i] = r]]
         /\ r \in Request /\ r.incident = page[t].requests[i].incident
         /\ r.pc = pc /\ r.version = version
<1> USE DEF Became
<1>1. page[t].requests[i] \in Request  BY PageIsIn, PageFields
<1>2. r \in Request /\ r.incident = page[t].requests[i].incident /\ r.pc = pc /\ r.version = version
  BY <1>1 DEF Request
<1>3. PICK p : p = page[t]  OBVIOUS
<1>4. p \in Page  BY <1>3, PageIsIn
<1>6. i \in DOMAIN p.requests  BY <1>3
<1>5. [[p EXCEPT !.requests[i].pc = pc] EXCEPT !.requests[i].version = version]
        = [p EXCEPT !.requests[i] = r]
  <2>1. PICK R : R = p.requests  OBVIOUS
  <2>2. PICK S : S = [R EXCEPT ![i].pc = pc]  OBVIOUS
  <2>8. R \in Partial(Nat, Request)  BY <1>4, <2>1, PageFields
  <2>3. PICK D \in SUBSET Nat : R \in [D -> Request]
    BY <2>8 DEF Partial
  <2>7. i \in D  BY <1>6, <2>1, <2>3
  <2>4. S[i] = [R[i] EXCEPT !.pc = pc] /\ DOMAIN S = D /\ \A j \in D : j # i => S[j] = R[j]
    BY <2>2, <2>3, <2>7
  <2>5. [S EXCEPT ![i].version = version] = [R EXCEPT ![i] = r]
    <3>1. [S[i] EXCEPT !.version = version] = r  BY <1>3, <2>1, <2>4
    <3> QED  BY <2>2, <2>3, <2>4, <2>7, <3>1
  <2>6. [p EXCEPT !.requests[i].pc = pc] = [p EXCEPT !.requests = S]  BY <2>1, <2>2
  <2> QED  BY <1>4, <2>1, <2>5, <2>6 DEF Page
<1>7. page' = [page EXCEPT ![t] = [[p EXCEPT !.requests[i].pc = pc] EXCEPT !.requests[i].version = version]]
  BY <1>3 DEF Becomes, BrowserInv
<1> QED  BY <1>2, <1>3, <1>5, <1>7

LEMMA InvRefuses ==
  ASSUME BrowserInv, NEW t \in Tabs, NEW i \in DOMAIN page[t].requests, Refuses(t, i)
  PROVE  BrowserInv'
<1> PICK p : p = page[t]  OBVIOUS
<1> PICK r : r = Became(p.requests[i], "refused", 0)  OBVIOUS
<1> PICK q : q = [p EXCEPT !.requests[i] = r]  OBVIOUS
<1>1. Becomes(t, i, "refused", 0) /\ UNCHANGED <<stored, issued, lapsed, over, written>>
  BY DEF Refuses
<1>2. /\ page' = [page EXCEPT ![t] = q]
      /\ r \in Request /\ r.incident = p.requests[i].incident /\ r.pc = "refused" /\ r.version = 0
  BY <1>1, BecomesFacts
<1>3. PICK w, top, tokens, n :
        w = written /\ top = Top /\ tokens = Usables /\ n = issued.tokens
  OBVIOUS
<1>4. PageOK(p, w, top, tokens, n)  BY <1>3, PageIsIn DEF PageIn
<1>5. r.version <= w[r.incident]
  <2>1. w \in [Incidents -> Nat]  BY <1>3 DEF BrowserInv, World, Counts
  <2>2. r.incident \in Incidents  BY <1>2 DEF Request
  <2> QED  BY <1>2, <2>1, <2>2
<1>6. PageOK(q, w, top, tokens, n)
  <2>1. i \in DOMAIN p.requests  OBVIOUS
  <2>2. r.pc # "served"  BY <1>2
  <2> QED  BY ONLY <1>2, <1>4, <1>5, <2>1, <2>2, q = [p EXCEPT !.requests[i] = r], ReplacedOK
<1>7. PageIn(q)  BY <1>3, <1>6 DEF PageIn
<1> QED  BY <1>1, <1>2, <1>7, InvPage

LEMMA InvServes ==
  ASSUME BrowserInv, NEW t \in Tabs, NEW i \in DOMAIN page[t].requests, Serves(t, i)
  PROVE  BrowserInv'
<1> PICK p : p = page[t]  OBVIOUS
<1> PICK v : v = written'[p.requests[i].incident]  OBVIOUS
<1> PICK r : r = Became(p.requests[i], "served", v)  OBVIOUS
<1> PICK q : q = [p EXCEPT !.requests[i] = r]  OBVIOUS
<1>1. p.requests[i] \in Request /\ p.requests[i].incident \in Incidents
  BY PageIsIn, PageFields DEF Request
<1>2. /\ written' \in Counts /\ v \in Nat
      /\ \A j \in Incidents : written[j] <= written'[j]
  <2>1. written \in [Incidents -> Nat]  BY DEF BrowserInv, World, Counts
  <2>2. CASE p.requests[i].write
    BY <1>1, <2>1, <2>2 DEF Serves, Counts
  <2>3. CASE ~p.requests[i].write
    BY <1>1, <2>1, <2>3 DEF Serves, Counts
  <2> QED  BY <2>2, <2>3
<1>3. Becomes(t, i, "served", v) /\ UNCHANGED <<stored, issued, lapsed, over>>
  BY DEF Serves
<1>4. /\ page' = [page EXCEPT ![t] = q]
      /\ r \in Request /\ r.incident = p.requests[i].incident /\ r.pc = "served" /\ r.version = v
  BY <1>2, <1>3, BecomesFacts
<1>5. World' /\ Top' = Top /\ Usables' = Usables
  BY <1>2, <1>3 DEF BrowserInv, World, Top, Usables, Usable, SavedSession
<1>6. Grows  BY <1>2, <1>3, <1>5, WorldFacts DEF Grows, BrowserInv
<1>7. PICK w, w2, top, tokens, n :
        w = written /\ w2 = written' /\ top = Top /\ tokens = Usables /\ n = issued.tokens
  OBVIOUS
<1>8. PageOK(p, w, top, tokens, n)  BY <1>7, PageIsIn DEF PageIn
<1>9. /\ w \in Counts /\ w2 \in Counts /\ top \in Nat /\ n \in Nat
      /\ \A j \in Incidents : w[j] <= w2[j]
  BY <1>2, <1>7, WorldFacts DEF BrowserInv, World
<1>10. PageOK(p, w2, top, tokens, n)
  <2>1. top <= top /\ n <= n /\ \A k \in tokens : k \in tokens  BY <1>9
  <2> QED  BY ONLY <1>8, <1>9, <2>1, Later
<1>11. r.version <= w2[r.incident] /\ r.version >= p.noted[r.incident]
  <2>1. r.version = w2[r.incident] /\ r.incident \in Incidents  BY <1>1, <1>4, <1>7
  <2>2. w2[r.incident] \in Nat  BY <1>9, <2>1 DEF Counts
  <2>4. Bounded(p, w2, top)  BY <1>10 DEF PageOK
  <2>5. \A j \in Incidents : p.noted[j] <= w2[j]  BY ONLY <2>4 DEF Bounded
  <2>3. p.noted[r.incident] <= w2[r.incident]  BY ONLY <2>1, <2>5
  <2> QED  BY ONLY <2>1, <2>2, <2>3
<1>12. PageOK(q, w2, top, tokens, n)
  <2>1. i \in DOMAIN p.requests  OBVIOUS
  <2> QED  BY ONLY <1>4, <1>10, <1>11, <2>1, q = [p EXCEPT !.requests[i] = r], ReplacedOK
<1>13. PageOK(q, written', Top', Usables', issued.tokens')
  BY <1>3, <1>5, <1>7, <1>12
<1> QED  BY <1>4, <1>5, <1>6, <1>13, InvOthers

\* An answer, or none, settles the calls that one request serves.
LEMMA OneSettles ==
  ASSUME NEW p, p \in Page, NEW i \in DOMAIN p.requests, NEW result \in Status \cup {None},
         result # None => /\ Wired(p) /\ Current(p) /\ p.requests[i].pc = "served"
                          /\ result.incident = p.requests[i].incident
                          /\ result.version = p.requests[i].version
  PROVE  Settles(p, CallsOf(p, i), {i}, result)
<1>1. Covers(p, CallsOf(p, i), {i})  BY DEF Covers, CallsOf
<1>2. CallsOf(p, i) \subseteq p.calls  BY DEF CallsOf
<1>3. Fits(p, CallsOf(p, i), result)
  <2> SUFFICES ASSUME NEW c \in CallsOf(p, i), Concerns(p, c), result # None
               PROVE  result.incident = p.selected /\ result.version >= p.noted[result.incident]
    BY DEF Fits
  <2>1. c \in p.calls /\ c.pc = "request" /\ c.at = i  BY DEF CallsOf
  <2>2. c.latest /\ c.incident = p.selected  BY DEF Concerns
  <2>3. p.requests[i].incident = c.incident  BY <2>1 DEF Wired
  <2>4. UpToDate(p, i)  BY <2>1, <2>2 DEF Current
  <2> QED  BY <2>2, <2>3, <2>4 DEF UpToDate
<1> QED  BY <1>1, <1>2, <1>3 DEF Settles

LEMMA InvReauthorizes ==
  ASSUME BrowserInv, NEW t \in Tabs, NEW i \in DOMAIN page[t].requests, Reauthorizes(t, i)
  PROVE  BrowserInv'
<1> PICK p : p = page[t]  OBVIOUS
<1> PICK r : r = [p.requests[i] EXCEPT !.pc = "token", !.again = TRUE]  OBVIOUS
<1> PICK q : q = [p EXCEPT !.requests[i] = r]  OBVIOUS
<1>1. p \in Page /\ p.requests[i] \in Request  BY PageIsIn, PageFields
<1>2. /\ r \in Request /\ r.incident = p.requests[i].incident /\ r.pc = "token"
      /\ r.version = p.requests[i].version
  BY <1>1 DEF Request
<1>3. Refreshes(t, q, CallsOf(p, i), {i})
  <2>1. [p EXCEPT !.requests[i].pc = "token", !.requests[i].again = TRUE] = q
    <3>1. PICK R : R = p.requests  OBVIOUS
    <3>2. PICK S : S = [R EXCEPT ![i].pc = "token"]  OBVIOUS
    <3>8. R \in Partial(Nat, Request)  BY <1>1, <3>1, PageFields
    <3>3. PICK D \in SUBSET Nat : R \in [D -> Request]
      BY <3>8 DEF Partial
    <3>4. i \in D  BY <3>1, <3>3
    <3>5. S[i] = [R[i] EXCEPT !.pc = "token"] /\ DOMAIN S = D /\ \A j \in D : j # i => S[j] = R[j]
      BY <3>2, <3>3, <3>4
    <3>6. [S EXCEPT ![i].again = TRUE] = [R EXCEPT ![i] = r]
      <4>1. [S[i] EXCEPT !.again = TRUE] = r  BY <3>1, <3>5
      <4> QED  BY <3>2, <3>3, <3>4, <3>5, <4>1
    <3>7. [p EXCEPT !.requests[i].pc = "token"] = [p EXCEPT !.requests = S]  BY <3>1, <3>2
    <3> QED  BY <1>1, <3>1, <3>6, <3>7 DEF Page
  <2> QED  BY <2>1 DEF Reauthorizes
<1>4. PICK w, top, tokens, n :
        w = written /\ top = Top /\ tokens = Usables /\ n = issued.tokens
  OBVIOUS
<1>5. PageOK(p, w, top, tokens, n)  BY <1>4, PageIsIn DEF PageIn
<1>6. PageOK(q, w, top, tokens, n)
  <2>1. i \in DOMAIN p.requests /\ r.pc # "served"  BY <1>2
  <2>2. r.version <= w[r.incident]  BY <1>2, <1>5 DEF PageOK, Bounded
  <2> QED  BY ONLY <1>2, <1>5, <2>1, <2>2, q = [p EXCEPT !.requests[i] = r], ReplacedOK
<1>7. PageIn(q)  BY <1>4, <1>6 DEF PageIn
<1>8. Settles(q, CallsOf(p, i), {i}, None)
  <2>1. q \in Page  BY <1>6 DEF PageOK
  <2>2. q.calls = p.calls /\ DOMAIN q.requests = DOMAIN p.requests
    <3>1. PICK R : R = [p.requests EXCEPT ![i] = r]  OBVIOUS
    <3>2. DOMAIN R = DOMAIN p.requests  BY <3>1
    <3>3. p = [mode |-> p.mode, refresh |-> p.refresh, selected |-> p.selected,
               shown |-> p.shown, calls |-> p.calls, requests |-> p.requests,
               pending |-> p.pending, noted |-> p.noted]
      BY <1>1, PageFields
    <3>4. q = [p EXCEPT !.requests = R]  BY <3>1
    <3>5. q.calls = p.calls /\ q.requests = R  BY ONLY <3>3, <3>4
    <3> QED  BY <3>2, <3>5
  <2>3. CallsOf(q, i) = CallsOf(p, i)  BY <2>2 DEF CallsOf
  <2> QED  BY <2>1, <2>2, <2>3, OneSettles
<1> QED  BY <1>3, <1>7, <1>8, InvRefreshes DEF Reauthorizes

LEMMA InvFails ==
  ASSUME BrowserInv, NEW t \in Tabs, NEW i \in DOMAIN page[t].requests, Fails(t, i)
  PROVE  BrowserInv'
<1> PICK p : p = page[t]  OBVIOUS
<1> PICK C : C = CallsOf(p, i)  OBVIOUS
<1> PICK q : q = Settled(p, C, {i}, None)  OBVIOUS
<1>1. page' = [page EXCEPT ![t] = q] /\ UNCHANGED <<stored, issued, lapsed, over, written>>
  BY DEF Fails
<1>2. PICK w, top, tokens, n :
        w = written /\ top = Top /\ tokens = Usables /\ n = issued.tokens
  OBVIOUS
<1>3. p \in Page /\ Wiring(p, w, top, tokens, n, None) /\ Showing(p) /\ Current(p)
  BY <1>2, PageIsIn, WiredIn
<1>4. Settles(p, C, {i}, None)
  <2>1. i \in DOMAIN p.requests /\ None \in Status \cup {None}  OBVIOUS
  <2> QED  BY ONLY <1>3, <2>1, C = CallsOf(p, i), OneSettles
<1>5. Wiring(q, w, top, tokens, n, None) /\ Showing(q) /\ Current(q)
  BY ONLY <1>3, <1>4, q = Settled(p, C, {i}, None), SettledOK
<1>6. PageIn(q)  BY <1>2, <1>5 DEF PageIn, PageOK, Wiring
<1> QED  BY <1>1, <1>6, InvPage

\* After a write is noted, what is shared of its incident may be behind.
LEMMA NotedOK ==
  ASSUME NEW w, NEW top, NEW tokens, NEW n, NEW p, Wiring(p, w, top, tokens, n, None),
         NEW x \in Incidents, NEW version \in Nat, version <= w[x],
         NEW q, q = [p EXCEPT !.noted[x] = version]
  PROVE  Wiring(q, w, top, tokens, n, x)
<1> USE DEF Wiring
<1>1. PICK N : N = [p.noted EXCEPT ![x] = version]  OBVIOUS
<1>2. q = [mode |-> p.mode, refresh |-> p.refresh, selected |-> p.selected, shown |-> p.shown,
           calls |-> p.calls, requests |-> p.requests, pending |-> p.pending, noted |-> N]
  <2>1. p = [mode |-> p.mode, refresh |-> p.refresh, selected |-> p.selected, shown |-> p.shown,
             calls |-> p.calls, requests |-> p.requests, pending |-> p.pending, noted |-> p.noted]
    BY PageFields
  <2>2. q = [p EXCEPT !.noted = N]  BY <1>1
  <2> QED  BY ONLY <2>1, <2>2
<1>3. /\ q.refresh = p.refresh /\ q.calls = p.calls /\ q.requests = p.requests
      /\ q.pending = p.pending /\ q.noted = N
  BY <1>2
<1>4. N \in [Incidents -> Nat] /\ N[x] = version /\ \A i \in Incidents \ {x} : N[i] = p.noted[i]
  <2>1. p.noted \in [Incidents -> Nat]  BY PageFields
  <2> QED  BY <1>1, <2>1
<1>5. q \in Page
  <2>1. p \in Page  OBVIOUS
  <2>2. p.calls \in SUBSET Call  BY PageFields
  <2> QED  BY ONLY <1>2, <1>4, <2>1, <2>2, PageFields, PageMade
<1>6. Wired(q)  BY <1>3 DEF Wired
<1>7. Shareable(q, tokens, x)
  <2> SUFFICES ASSUME NEW k \in DOMAIN p.pending, k[1] \in tokens, k[2] # x
               PROVE  UpToDate(q, p.pending[k])
    BY <1>3 DEF Shareable
  <2>1. p.pending[k] \in DOMAIN p.requests /\ p.requests[p.pending[k]].incident = k[2]
    BY DEF Wired
  <2>2. k[2] \in Incidents  BY PageFields
  <2>3. UpToDate(p, p.pending[k])  BY <2>2, BrowserAssumption DEF Shareable
  <2> QED  BY <1>3, <1>4, <2>1, <2>2, <2>3 DEF UpToDate
<1>8. Bounded(q, w, top)  BY <1>3, <1>4 DEF Bounded
<1>9. Renewing(q, n)  BY <1>3 DEF Renewing
<1> QED  BY <1>5, <1>6, <1>7, <1>8, <1>9

LEMMA InvAnswers ==
  ASSUME BrowserInv, NEW t \in Tabs, NEW i \in DOMAIN page[t].requests, Answers(t, i)
  PROVE  BrowserInv'
<1> PICK p : p = page[t]  OBVIOUS
<1> PICK r : r = p.requests[i]  OBVIOUS
<1> PICK C : C = CallsOf(p, i)  OBVIOUS
<1> PICK result : result = [incident |-> r.incident, version |-> r.version]  OBVIOUS
<1> PICK q : q = Settled(p, C, {i}, result)  OBVIOUS
<1>1. /\ r.pc = "served" /\ UNCHANGED <<issued, lapsed, over, written>>
      /\ IF r.write
         THEN Calls(t, [q EXCEPT !.noted[r.incident] = r.version], "fresh", r.incident)
         ELSE UNCHANGED stored /\ page' = [page EXCEPT ![t] = q]
  BY DEF Answers
<1>2. PICK w, top, tokens, n :
        w = written /\ top = Top /\ tokens = Usables /\ n = issued.tokens
  OBVIOUS
<1>3. p \in Page /\ Wiring(p, w, top, tokens, n, None) /\ Showing(p) /\ Current(p)
  BY <1>2, PageIsIn, WiredIn
<1>4. i \in DOMAIN p.requests /\ r \in Request /\ r.incident \in Incidents /\ r.version \in Nat
  BY <1>3, PageFields DEF Request
<1>5. /\ result \in Status \cup {None} /\ result.incident = r.incident
      /\ result.version = r.version
  BY <1>4 DEF Status
<1>6. Settles(p, C, {i}, result)
  <2>1. /\ Wired(p) /\ Current(p) /\ p.requests[i].pc = "served"
        /\ result.incident = p.requests[i].incident /\ result.version = p.requests[i].version
    BY <1>1, <1>3, <1>5 DEF Wiring
  <2> QED  BY ONLY <1>3, <1>4, <1>5, <2>1, C = CallsOf(p, i), OneSettles
<1>7. Wiring(q, w, top, tokens, n, None) /\ Showing(q) /\ Current(q)
  BY ONLY <1>3, <1>6, q = Settled(p, C, {i}, result), SettledOK
<1>8. CASE ~r.write
  <2>1. PageIn(q)  BY <1>2, <1>7 DEF PageIn, PageOK, Wiring
  <2> QED  BY <1>1, <1>8, <2>1, InvPage
<1>9. CASE r.write
  <2>1. PICK s : s = [q EXCEPT !.noted[r.incident] = r.version]  OBVIOUS
  <2>2. Calls(t, s, "fresh", r.incident)  BY <1>1, <1>9, <2>1
  <2>3. r.version <= w[r.incident]
    BY <1>3, <1>4, r = p.requests[i] DEF Wiring, Bounded
  <2>4. Wiring(s, w, top, tokens, n, r.incident)
    BY ONLY <1>4, <1>7, <2>1, <2>3, NotedOK
  <2>5. Wiring(s, written, Top, Usables, issued.tokens, r.incident)  BY <1>2, <2>4
  <2> QED  BY <1>1, <1>4, <2>2, <2>5, InvCalls
<1> QED  BY <1>8, <1>9

LEMMA InvRefreshFails == ASSUME BrowserInv, NEW t \in Tabs, RefreshFails(t) PROVE BrowserInv'
<1>1. PageIn(Unserved(page[t]))  BY PageIsIn, UnservedOK DEF PageIn
<1> QED  BY <1>1, InvPage DEF RefreshFails

LEMMA InvSessionEnds == ASSUME BrowserInv, NEW t \in Tabs, SessionEnds(t) PROVE BrowserInv'
<1>1. PageIn(Unserved(page[t]))  BY PageIsIn, UnservedOK DEF PageIn
<1>2. PageIn(Expired(Unserved(page[t])))  BY <1>1, ExpiredOK DEF PageIn
<1> QED  BY <1>2, InvSignedOut DEF SessionEnds

\* The response to a refresh, whose token is newer than all before.
LEMMA InvRenews == ASSUME BrowserInv, NEW t \in Tabs, Renews(t) PROVE BrowserInv'
<1> PICK p : p = page[t]  OBVIOUS
<1>1. PICK n2 : n2 = issued.tokens + 1  OBVIOUS
<1>2. /\ issued \in Issue /\ issued.tokens \in Nat /\ n2 \in Nat /\ issued.tokens <= n2
      /\ issued' \in Issue /\ issued'.tokens = n2
  BY <1>1 DEF BrowserInv, World, Issue, Renews
<1>3. World'
  BY <1>1, <1>2 DEF BrowserInv, World, Renews, SessionRecord
<1>4. Usables' = Usables  BY DEF Usables, Usable, SavedSession, Renews
<1>5. Top <= Top' /\ Top \in Nat /\ Top' \in Nat
  <2>1. Top' = IF stored = None THEN n2 ELSE stored.token  BY <1>2 DEF Top, Renews
  <2> QED  BY <1>2, <2>1, WorldFacts DEF Top, BrowserInv
<1>6. \A i \in Incidents : written[i] <= written'[i]
  BY DEF BrowserInv, World, Counts, Renews
<1>7. Grows  BY <1>2, <1>4, <1>5, <1>6 DEF Grows
<1>8. PICK w, top, tokens : w = written' /\ top = Top' /\ tokens = Usables'  OBVIOUS
<1>9. PageOK(p, w, top, tokens, n2)  BY <1>2, <1>3, <1>7, <1>8, LaterIn
<1>10. CASE p.refresh.overtaken
  <2>1. PageOK(Unserved(p), w, top, tokens, n2)  BY <1>9, UnservedOK
  <2>2. page' = [page EXCEPT ![t] = Unserved(p)]  BY <1>10 DEF Renews
  <2> QED  BY <1>2, <1>3, <1>7, <1>8, <2>1, <2>2, InvOthers
<1>11. CASE ~p.refresh.overtaken
  <2>1. PICK r : r = [p.refresh EXCEPT !.token = n2]  OBVIOUS
  <2>2. PICK q : q = [p EXCEPT !.refresh = r]  OBVIOUS
  <2>3. page' = [page EXCEPT ![t] = q]  BY <1>1, <1>11, <2>1, <2>2 DEF Renews
  <2>4. p.refresh # None /\ p \in Page  BY <1>9 DEF Renews, PageOK
  <2>5. p.refresh \in Refresh  BY <2>4, PageFields
  <2>6. r \in Refresh /\ r.session = p.refresh.session /\ r.token = n2
    BY <1>2, <2>1, <2>5 DEF Refresh
  <2>7. p.refresh.session.token \in Nat /\ p.refresh.session.token <= issued.tokens
    <3>1. Renewing(p, issued.tokens)  BY PageIsIn DEF PageIn, PageOK
    <3> QED  BY <2>4, <2>5, <3>1 DEF Refresh, SessionRecord, Renewing
  <2>8. q = [mode |-> p.mode, refresh |-> r, selected |-> p.selected, shown |-> p.shown,
             calls |-> p.calls, requests |-> p.requests, pending |-> p.pending,
             noted |-> p.noted]
    <3>1. p = [mode |-> p.mode, refresh |-> p.refresh, selected |-> p.selected, shown |-> p.shown,
               calls |-> p.calls, requests |-> p.requests, pending |-> p.pending, noted |-> p.noted]
      BY <2>4, PageFields
    <3> QED  BY ONLY <2>2, <3>1
  <2>9. /\ q.refresh = r /\ q.selected = p.selected /\ q.shown = p.shown /\ q.calls = p.calls
        /\ q.requests = p.requests /\ q.pending = p.pending /\ q.noted = p.noted
    BY <2>8
  <2>10. q \in Page
    <3>1. r \in Refresh \cup {None}  BY <2>6
    <3>2. p.calls \in SUBSET Call  BY <2>4, PageFields
    <3> QED  BY ONLY <2>4, <2>8, <3>1, <3>2, PageFields, PageMade
  <2>11. Renewing(q, n2)
    <3>1. Renewing(p, issued.tokens)  BY PageIsIn DEF PageIn, PageOK
    <3>2. q.refresh.session # None  BY <2>4, <2>6, <2>9, <3>1 DEF Renewing
    <3> QED  BY <1>1, <1>2, <2>6, <2>7, <2>9, <3>2 DEF Renewing
  <2>12. PageOK(q, w, top, tokens, n2)
    BY ONLY <1>9, <2>9, <2>10, <2>11, SameCalls
  <2> QED  BY <1>2, <1>3, <1>7, <1>8, <2>3, <2>12, InvOthers
<1> QED  BY <1>10, <1>11

\* The renewed session is stored, in place of the very one it renews.
LEMMA InvStores == ASSUME BrowserInv, NEW t \in Tabs, Stores(t) PROVE BrowserInv'
<1> PICK p : p = page[t]  OBVIOUS
<1> PICK token : token = p.refresh.token  OBVIOUS
<1>1. PageIn(p) /\ p \in Page  BY PageIsIn
<1>2. CASE ~StillStored(t)
  <2>1. PageIn(Unserved(p))  BY <1>1, UnservedOK DEF PageIn
  <2> QED  BY <1>2, <2>1, InvPage DEF Stores
<1>3. CASE StillStored(t)
  <2>1. PICK q : q = Supplied(p, token)  OBVIOUS
  <2>2. /\ stored' = [p.refresh.session EXCEPT !.token = token]
        /\ page' = [page EXCEPT ![t] = q] /\ UNCHANGED <<issued, lapsed, over, written>>
        /\ p.refresh # None /\ token # 0 /\ stored = p.refresh.session
    BY <1>3, <2>1 DEF Stores, StillStored
  <2>3. p.refresh \in Refresh /\ stored \in SessionRecord /\ token \in Nat
    BY <1>1, <2>2, PageFields DEF Refresh
  <2>4. token > stored.token /\ token <= issued.tokens /\ stored # None /\ stored.token \in Nat
    <3>1. Renewing(p, issued.tokens)  BY <1>1 DEF PageIn, PageOK
    <3> QED  BY <2>2, <2>3, <3>1 DEF Renewing, SessionRecord
  <2>5. stored' \in SessionRecord /\ stored'.token = token
    BY <2>2, <2>3 DEF SessionRecord
  <2>6. World'  BY <2>2, <2>4, <2>5 DEF BrowserInv, World
  <2>7. Top = stored.token /\ Usables' \subseteq {token}
    BY <2>4, <2>5 DEF Top, Usables, Usable, SavedSession
  <2>8. Top' = IF stored' = None THEN issued.tokens' ELSE token  BY <2>5 DEF Top
  <2>9. CASE stored' = None
    <3>1. issued.tokens \in Nat  BY DEF BrowserInv, World, Issue
    <3>2. Top' = issued.tokens /\ Usables' = {}
      BY <2>2, <2>8, <2>9 DEF Usables, Usable, SavedSession
    <3>3. Top <= issued.tokens  BY <2>3, <2>4, <2>7, <3>1
    <3>4. \A i \in Incidents : written[i] \in Nat  BY DEF BrowserInv, World, Counts
    <3>5. Grows  BY <2>2, <3>1, <3>2, <3>3, <3>4 DEF Grows
    <3>6. PICK w, top, n : w = written /\ top = Top /\ n = issued.tokens  OBVIOUS
    <3>7. PageOK(p, w, top, Usables, n)  BY <1>1, <3>6 DEF PageIn
    <3>8. w \in Counts /\ top \in Nat /\ n \in Nat /\ token > top
      BY <2>3, <2>4, <2>7, <3>1, <3>6 DEF BrowserInv, World
    <3>9. PageOK(q, w, token, {token}, n)
      BY ONLY <2>1, <2>3, <3>7, <3>8, SuppliedOK
    <3>10. PageOK(q, w, n, {}, n)
      <4>1. token <= n /\ n <= n /\ \A i \in Incidents : w[i] <= w[i]
        BY <2>4, <3>4, <3>6, <3>8
      <4> QED  BY ONLY <2>3, <3>8, <3>9, <4>1, Later
    <3>11. PageOK(q, written', Top', Usables', issued.tokens')
      BY <2>2, <3>2, <3>6, <3>10
    <3> QED  BY <2>2, <2>6, <3>5, <3>11, InvOthers
  <2>10. CASE stored' # None
    <3>1. Top' = token  BY <2>8, <2>10
    <3>2. \A i \in Incidents : written[i] \in Nat  BY DEF BrowserInv, World, Counts
    <3>3. issued.tokens \in Nat  BY DEF BrowserInv, World, Issue
    <3>4. Grows  BY <2>2, <2>3, <2>4, <2>7, <3>1, <3>2, <3>3 DEF Grows
    <3>5. PICK w, top, n, tokens :
            w = written /\ top = Top /\ n = issued.tokens /\ tokens = Usables'
      OBVIOUS
    <3>6. PageOK(p, w, top, Usables, n)  BY <1>1, <3>5 DEF PageIn
    <3>7. w \in Counts /\ top \in Nat /\ n \in Nat /\ token > top
      BY <2>3, <2>4, <2>7, <3>3, <3>5 DEF BrowserInv, World
    <3>8. PageOK(q, w, token, {token}, n)
      BY ONLY <2>1, <2>3, <3>6, <3>7, SuppliedOK
    <3>9. PageOK(q, w, token, tokens, n)
      <4>1. token <= token /\ n <= n /\ \A i \in Incidents : w[i] <= w[i]
        BY <2>3, <3>2, <3>5, <3>7
      <4>2. \A k \in tokens : k \in {token}  BY <2>7, <3>5
      <4> QED  BY ONLY <2>3, <3>7, <3>8, <4>1, <4>2, Later
    <3>10. PageOK(q, written', Top', Usables', issued.tokens')
      BY <2>2, <3>1, <3>5, <3>9
    <3> QED  BY <2>2, <2>6, <3>4, <3>10, InvOthers
  <2> QED  BY <2>9, <2>10
<1> QED  BY <1>2, <1>3

\* Setting out to sign in, or out.
LEMMA LeavesOK ==
  ASSUME NEW w, NEW top, NEW tokens, NEW n, NEW p, PageOK(p, w, top, tokens, n),
         NEW mode \in {"signing in", "leaving"}, NEW q, q = [Overtaken(p) EXCEPT !.mode = mode]
  PROVE  PageOK(q, w, top, tokens, n)
<1> PICK o : o = Overtaken(p)  OBVIOUS
<1>1. PageOK(o, w, top, tokens, n)  BY OvertakenOK
<1>2. o \in Page  BY <1>1 DEF PageOK
<1>3. q = [mode |-> mode, refresh |-> o.refresh, selected |-> o.selected, shown |-> o.shown,
           calls |-> o.calls, requests |-> o.requests, pending |-> o.pending, noted |-> o.noted]
  <2>1. o = [mode |-> o.mode, refresh |-> o.refresh, selected |-> o.selected, shown |-> o.shown,
             calls |-> o.calls, requests |-> o.requests, pending |-> o.pending, noted |-> o.noted]
    BY <1>2, PageFields
  <2>2. q = [o EXCEPT !.mode = mode]  OBVIOUS
  <2> QED  BY ONLY <2>1, <2>2
<1>4. /\ q.refresh = o.refresh /\ q.selected = o.selected /\ q.shown = o.shown
      /\ q.calls = o.calls /\ q.requests = o.requests /\ q.pending = o.pending
      /\ q.noted = o.noted
  BY <1>3
<1>5. q \in Page
  <2>1. mode \in {"guest", "user", "signing in", "leaving"}  OBVIOUS
  <2>2. o.calls \in SUBSET Call  BY <1>2, PageFields
  <2> QED  BY ONLY <1>2, <1>3, <2>1, <2>2, PageFields, PageMade
<1>6. Renewing(q, n)  BY <1>1, <1>4 DEF PageOK, Renewing
<1> QED  BY ONLY <1>1, <1>4, <1>5, <1>6, SameCalls

LEMMA InvLogin == ASSUME BrowserInv, NEW t \in Tabs, Login(t) PROVE BrowserInv'
<1> PICK q : q = [Overtaken(page[t]) EXCEPT !.mode = "signing in"]  OBVIOUS
<1>1. PageIn(q)  BY PageIsIn, LeavesOK DEF PageIn
<1> QED  BY <1>1, InvPage DEF Login

LEMMA InvLogout == ASSUME BrowserInv, NEW t \in Tabs, Logout(t) PROVE BrowserInv'
<1> PICK q : q = [Overtaken(page[t]) EXCEPT !.mode = "leaving"]  OBVIOUS
<1>1. PageIn(q)  BY PageIsIn, LeavesOK DEF PageIn
<1> QED  BY <1>1, InvSignedOut DEF Logout

\* A page that is loaded begins with nothing.
LEMMA NewPageIn ==
  ASSUME World, NEW mode \in {"guest", "user"}, NEW selected \in Incidents \cup {None}
  PROVE  PageIn(NewPage(mode, selected))
<1>1. written \in Counts  BY DEF World
<1> QED  BY <1>1, NewPageOK DEF PageIn

LEMMA InvCallback == ASSUME BrowserInv, NEW t \in Tabs, Callback(t) PROVE BrowserInv'
<1> PICK q : q = NewPage("user", page[t].selected)  OBVIOUS
<1>1. PICK k : k = issued.tokens + 1  OBVIOUS
<1>2. /\ issued' = [logins |-> issued.logins + 1, tokens |-> k]
      /\ stored' = [login |-> issued.logins + 1, token |-> k]
      /\ page' = [page EXCEPT ![t] = q] /\ UNCHANGED <<lapsed, over, written>>
  BY <1>1 DEF Callback
<1>3. /\ issued.logins \in Nat /\ issued.tokens \in Nat /\ k \in Nat
      /\ issued.tokens <= k /\ issued.tokens < k
  BY <1>1 DEF BrowserInv, World, Issue
<1>4. issued' \in Issue /\ issued'.tokens = k /\ stored' \in SessionRecord /\ stored'.token = k
  BY <1>2, <1>3 DEF Issue, SessionRecord
<1>5. World'  BY <1>2, <1>3, <1>4 DEF BrowserInv, World
<1>6. Top' = k  BY <1>4 DEF Top
<1>7. Usables' \subseteq {k}  BY <1>4 DEF Usables
<1>8. Top \in Nat /\ Top < k
  <2>1. Top \in Nat /\ Top <= issued.tokens  BY WorldFacts DEF BrowserInv
  <2> QED  BY <1>3, <2>1
<1>9. \A i \in Incidents : written[i] <= written'[i]
  BY <1>2 DEF BrowserInv, World, Counts
<1>10. Grows  BY <1>3, <1>4, <1>6, <1>7, <1>8, <1>9 DEF Grows
<1>11. (PageIn(q))'
  <2>1. q = NewPage("user", page[t].selected) /\ page[t].selected \in Incidents \cup {None}
    BY PageIsIn, PageFields
  <2>2. PICK w, top, tokens, n :
          w = written' /\ top = Top' /\ tokens = Usables' /\ n = issued.tokens'
    OBVIOUS
  <2>3. w \in Counts  BY <1>5, <2>2 DEF World
  <2>4. PageOK(q, w, top, tokens, n)  BY <2>1, <2>3, NewPageOK
  <2> QED  BY <2>2, <2>4 DEF PageIn
<1> QED  BY <1>2, <1>5, <1>10, <1>11, InvOthers DEF PageIn

LEMMA InvCallbackRefused ==
  ASSUME BrowserInv, NEW t \in Tabs, CallbackRefused(t)
  PROVE  BrowserInv'
<1>1. World /\ page[t].selected \in Incidents \cup {None}
  BY PageIsIn, PageFields DEF BrowserInv
<1>2. CASE stored' = None /\ page' = [page EXCEPT ![t] = NewPage("guest", None)]
  <2>1. PageIn(NewPage("guest", None))  BY <1>1, NewPageIn
  <2> QED  BY <1>2, <2>1, InvSignedOut DEF CallbackRefused
<1>3. CASE UNCHANGED stored /\ page' = [page EXCEPT ![t] = NewPage("guest", page[t].selected)]
  <2>1. PageIn(NewPage("guest", page[t].selected))  BY <1>1, NewPageIn
  <2> QED  BY <1>3, <2>1, InvPage DEF CallbackRefused
<1> QED  BY <1>2, <1>3 DEF CallbackRefused

LEMMA InvLoads == ASSUME BrowserInv, NEW t \in Tabs, Loads(t) PROVE BrowserInv'
<1>1. World /\ page[t].selected \in Incidents \cup {None}
  BY PageIsIn, PageFields DEF BrowserInv
<1>2. PICK mode, selected :
        /\ mode = IF SavedSession = None THEN "guest" ELSE "user"
        /\ selected = IF page[t].mode = "leaving" THEN None ELSE page[t].selected
  OBVIOUS
<1>3. PageIn(NewPage(mode, selected))  BY <1>1, <1>2, NewPageIn
<1> QED  BY <1>2, <1>3, InvPage DEF Loads

\* What expires can no longer be used, and nothing else changes.
LEMMA InvTime == ASSUME BrowserInv, Lapses \/ Ages PROVE BrowserInv'
<1>1. stored # None /\ stored \in SessionRecord /\ lapsed \in Nat /\ over \in Nat
  BY DEF Lapses, Ages, BrowserInv, World
<1>2. World' /\ Top' = Top
  BY <1>1 DEF BrowserInv, World, Top, Lapses, Ages, SessionRecord
<1>3. Usables' = {}
  BY <1>1 DEF Usables, Usable, SavedSession, Lapses, Ages, SessionRecord
<1>4. \A i \in Incidents : written[i] <= written'[i]
  BY DEF BrowserInv, World, Counts, Lapses, Ages
<1>5. Top \in Nat /\ issued.tokens \in Nat /\ issued' = issued
  BY WorldFacts DEF BrowserInv, Lapses, Ages
<1>6. Grows  BY <1>2, <1>3, <1>4, <1>5 DEF Grows
<1>7. page' = page  BY DEF Lapses, Ages
<1> QED  BY <1>2, <1>6, <1>7, LaterIn DEF BrowserInv

LEMMA InvInit == Init => BrowserInv
<1> SUFFICES ASSUME Init PROVE BrowserInv  OBVIOUS
<1>1. World  BY DEF Init, World, Issue, Counts
<1>2. PageIn(NewPage("guest", None))  BY <1>1, NewPageIn
<1>3. NewPage("guest", None) \in Page  BY <1>2 DEF PageIn, PageOK
<1>4. page \in [Tabs -> Page] /\ \A t \in Tabs : page[t] = NewPage("guest", None)
  BY <1>3 DEF Init
<1> QED  BY <1>1, <1>2, <1>4 DEF BrowserInv, PageIn

LEMMA InvNext == BrowserInv /\ [Next]_vars => BrowserInv'
<1> SUFFICES ASSUME BrowserInv, [Next]_vars PROVE BrowserInv'  OBVIOUS
<1>1. ASSUME NEW t \in Tabs, Reading(t) PROVE BrowserInv'
  BY <1>1, InvPolls, InvWrites, InvProceeds, InvSelects, InvServes, InvRefuses,
     InvReauthorizes, InvAnswers, InvFails DEF Reading
<1>2. ASSUME NEW t \in Tabs, Session(t) PROVE BrowserInv'
  BY <1>2, InvAsksToken, InvRenews, InvStores, InvRefreshFails, InvSessionEnds, InvLogin,
     InvCallback, InvCallbackRefused, InvLogout, InvLoads DEF Session
<1>3. CASE Lapses \/ Ages  BY <1>3, InvTime
<1>4. CASE UNCHANGED vars
  BY <1>4 DEF vars, BrowserInv, World, Top, Usables, Usable, SavedSession
<1> QED  BY <1>1, <1>2, <1>3, <1>4 DEF Next

\* Calls, shared reads and the requests that serve them are always as the
\* invariant says, in every tab, whatever the tabs do to the session between
\* (api.js:5-31, auth.js:47-90).
THEOREM BrowserCorrect == Spec => []BrowserInv
BY InvInit, InvNext, PTL DEF Spec

\* A status that is shown as current has seen every write that the page knows
\* to be done, for any number of tabs, calls and incidents.
THEOREM NothingIsEverBehind == Spec => []NothingShownIsBehind
<1>1. BrowserInv => NothingShownIsBehind
  BY DEF BrowserInv, PageOK, Showing, NothingShownIsBehind
<1> QED  BY <1>1, BrowserCorrect, PTL

\* What is shown is always of the incident that is selected.
THEOREM ShownIsAlwaysSelected == Spec => []ShownIsSelected
<1>1. BrowserInv => ShownIsSelected
  BY DEF BrowserInv, PageOK, Showing, ShownIsSelected
<1> QED  BY <1>1, BrowserCorrect, PTL

-----------------------------------------------------------------------------
(* What becomes of the stored session *)

\* A step leaves it, or removes it.
Kept == stored' = stored \/ stored' = None

Renewed ==
  \/ stored'.login = issued'.logins /\ issued'.logins > issued.logins
  \/ stored # None /\ stored'.login = stored.login /\ stored'.token > stored.token

LEMMA CallsKeep ==
  ASSUME NEW t, NEW p, NEW kind, NEW incident, Calls(t, p, kind, incident)
  PROVE  Kept
BY DEF Calls, Refreshes, Kept

LEMMA StoresRenews ==
  ASSUME BrowserInv, NEW t \in Tabs, Stores(t)
  PROVE  Kept \/ Renewed
<1> PICK p : p = page[t]  OBVIOUS
<1> PICK token : token = p.refresh.token  OBVIOUS
<1>1. CASE ~StillStored(t)  BY <1>1 DEF Stores, Kept
<1>2. CASE StillStored(t)
  <2>1. /\ stored' = [p.refresh.session EXCEPT !.token = token]
        /\ p.refresh # None /\ token # 0 /\ stored = p.refresh.session
    BY <1>2 DEF Stores, StillStored
  <2>2. p.refresh \in Refresh /\ stored \in SessionRecord
    BY <2>1, PageIsIn, PageFields DEF Refresh
  <2>3. token > stored.token /\ stored # None
    <3>1. Renewing(p, issued.tokens)  BY PageIsIn DEF PageIn, PageOK
    <3> QED  BY <2>1, <3>1 DEF Renewing
  <2>4. stored'.login = stored.login /\ stored'.token = token
    BY <2>1, <2>2 DEF SessionRecord
  <2> QED  BY <2>3, <2>4 DEF Renewed
<1> QED  BY <1>1, <1>2

LEMMA CallbackRenews ==
  ASSUME BrowserInv, NEW t \in Tabs, Callback(t)
  PROVE  Renewed
<1>1. PICK l, k : l = issued.logins + 1 /\ k = issued.tokens + 1  OBVIOUS
<1>2. issued' = [logins |-> l, tokens |-> k] /\ stored' = [login |-> l, token |-> k]
  BY <1>1 DEF Callback
<1>3. issued'.logins = l /\ stored'.login = l  BY <1>2
<1>4. issued.logins \in Nat /\ l > issued.logins
  BY <1>1 DEF BrowserInv, World, Issue
<1> QED  BY <1>3, <1>4 DEF Renewed

LEMMA RenewalStep == BrowserInv /\ [Next]_vars => Kept \/ Renewed
<1> SUFFICES ASSUME BrowserInv, [Next]_vars PROVE Kept \/ Renewed  OBVIOUS
<1>1. ASSUME NEW t \in Tabs, Reading(t) PROVE Kept
  <2>1. CASE Polls(t) \/ Writes(t)  BY <2>1, CallsKeep DEF Polls, Writes
  <2>2. ASSUME NEW c \in page[t].calls, Proceeds(t, c) PROVE Kept
    BY <2>2 DEF Proceeds, Kept
  <2>3. ASSUME NEW i \in Incidents, Selects(t, i) PROVE Kept
    BY <2>3 DEF Selects, Kept
  <2>4. ASSUME NEW i \in DOMAIN page[t].requests, Serves(t, i) \/ Refuses(t, i) \/ Fails(t, i)
        PROVE  Kept
    BY <2>4 DEF Serves, Refuses, Fails, Kept
  <2>5. ASSUME NEW i \in DOMAIN page[t].requests, Reauthorizes(t, i) PROVE Kept
    BY <2>5 DEF Reauthorizes, Refreshes, Kept
  <2>6. ASSUME NEW i \in DOMAIN page[t].requests, Answers(t, i) PROVE Kept
    <3>1. CASE page[t].requests[i].write  BY <2>6, <3>1, CallsKeep DEF Answers
    <3>2. CASE ~page[t].requests[i].write  BY <2>6, <3>2 DEF Answers, Kept
    <3> QED  BY <3>1, <3>2
  <2> QED  BY <1>1, <2>1, <2>2, <2>3, <2>4, <2>5, <2>6 DEF Reading
<1>2. ASSUME NEW t \in Tabs, Session(t) PROVE Kept \/ Renewed
  <2>1. CASE AsksToken(t)  BY <2>1 DEF AsksToken, Refreshes, Kept
  <2>2. CASE Renews(t) \/ RefreshFails(t) \/ Login(t) \/ Loads(t)
    BY <2>2 DEF Renews, RefreshFails, Login, Loads, Kept
  <2>3. CASE SessionEnds(t) \/ Logout(t) \/ CallbackRefused(t)
    BY <2>3 DEF SessionEnds, Logout, CallbackRefused, Kept
  <2>4. CASE Stores(t)  BY <2>4, StoresRenews
  <2>5. CASE Callback(t)  BY <2>5, CallbackRenews
  <2> QED  BY <1>2, <2>1, <2>2, <2>3, <2>4, <2>5 DEF Session
<1>3. CASE Lapses \/ Ages \/ UNCHANGED vars  BY <1>3 DEF Lapses, Ages, vars, Kept
<1> QED  BY <1>1, <1>2, <1>3 DEF Next

\* A refresh only ever renews the session it was started for, while that is the
\* one that is stored; only a new sign-in makes a session (auth.js:47-69).
THEOREM RenewalOnlyRenews == Spec => RenewalKeepsSession
<1>1. ASSUME BrowserInv, [Next]_vars
      PROVE  [stored' # stored /\ stored' # None =>
                \/ stored'.login = issued'.logins /\ issued'.logins > issued.logins
                \/ stored # None /\ stored'.login = stored.login /\ stored'.token > stored.token]_vars
  BY <1>1, RenewalStep DEF Kept, Renewed
<1>2. []BrowserInv /\ [][Next]_vars => RenewalKeepsSession
  BY <1>1, PTL DEF RenewalKeepsSession
<1> QED  BY <1>2, BrowserCorrect, PTL DEF Spec

=============================================================================
