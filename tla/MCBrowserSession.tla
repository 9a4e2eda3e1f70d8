-------------------------- MODULE MCBrowserSession --------------------------
(***************************************************************************)
(* A small instance of BrowserSession.                                     *)
(***************************************************************************)
EXTENDS BrowserSession, TLC

CONSTANT Working  \* bound: the tabs in which an incident is looked at

\* Bounds of the instance: one write is served; the last token is given out,
\* and the other tab refreshes, while nothing is being read.
Bound ==
  /\ \A t \in Tabs \ Working :
       /\ page[t].selected = None
       /\ page[t].refresh # None => \A w \in Working : page[w].calls = {}
  /\ Cardinality({i \in Incidents : written[i] > 0}) <= 1
  /\ issued.tokens = MaxTokens => \A t \in Tabs : page[t].selected = None /\ page[t].calls = {}

MCNext == Next /\ Bound'
MCSpec == Init /\ [][MCNext]_vars

Symmetry == Permutations(Incidents)
=============================================================================
