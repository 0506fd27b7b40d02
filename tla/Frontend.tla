------------------------------ MODULE Frontend ------------------------------
(***************************************************************************)
(* The single page of public/js/app.js: hash routing, the tabs, and the    *)
(* fetch + cache + stale-response guard every view goes through.  Handlers *)
(* and promise callbacks run one at a time; what interleaves is the order  *)
(* of clicks, hashchange events and responses.                             *)
(*                                                                         *)
(* A page is what the URL fragment names: a player, or a leaderboard or    *)
(* hall of fame given by game mode and month.  Each has its own URL and its *)
(* own cache key, so a page stands for both, and for the data the server   *)
(* sends for it.                                                           *)
(***************************************************************************)
EXTENDS Naturals

CONSTANTS
  Modes,        \* game modes with a tab
  Months,       \* archive months
  PlayerPages,  \* player id and link token
  DefaultMode,  \* "author"
  MaxClicks     \* bound: what the user does in one session

AllTime == "all"
HallOfFame == "hof"
Periods == Months \cup {AllTime, HallOfFame}
MainPages == Modes \X Periods
NoPlayer == <<"no player">>

ASSUME FrontendAssumption ==
  /\ DefaultMode \in Modes
  /\ {AllTime, HallOfFame} \cap Months = {}
  /\ (MainPages \cup {NoPlayer}) \cap PlayerPages = {}
  /\ MaxClicks \in Nat

Pages == MainPages \cup PlayerPages

VARIABLES
  view,       \* state.view
  main,       \* state.gameMode and state.month
  who,        \* state.playerID and state.playerSig
  hash,       \* the page location.hash names
  events,     \* hashchange events not handled yet
  store,      \* cache, hofCache and playerCache: page |-> the data kept for it
  fetchGen,   \* fetchGen
  flights,    \* fetches in flight: the page asked for and the generation
  shown,      \* shown[v]: what the main area and the player modal display
  clicks,     \* what the user has done so far
  fromStore   \* history: the last fetchCached was answered from the cache

navVars == <<view, main, who, hash, events>>
dataVars == <<store, fetchGen, flights, shown, fromStore>>
frontendVars == <<navVars, dataVars, clicks>>

Views == {"main", "player"}
Loading == <<"loading">>
Error == <<"error">>
Nothing == <<"nothing">>

FrontendTypeOK ==
  /\ view \in Views
  /\ main \in MainPages
  /\ who \in PlayerPages \cup {NoPlayer}
  /\ hash \in Pages
  /\ events \in Nat
  /\ DOMAIN store \subseteq Pages
  /\ \A p \in DOMAIN store : store[p] \in Pages
  /\ fetchGen \in Nat
  /\ flights \subseteq [page : Pages, gen : 1..fetchGen]
  /\ shown \in [Views -> Pages \cup {Loading, Error, Nothing}]
  /\ clicks \in 0..MaxClicks
  /\ fromStore \in BOOLEAN

\* The page the state names, and the part of the screen a page is drawn in.
PageOf(v, m, w) == IF v = "player" THEN w ELSE m
Page == PageOf(view, main, who)
ViewOf(p) == IF p \in PlayerPages THEN "player" ELSE "main"

\* The script ends with applyHash(): it opens the page the URL names.
FrontendInit ==
  /\ hash \in Pages
  /\ view = ViewOf(hash)
  /\ main = IF hash \in MainPages THEN hash ELSE <<DefaultMode, AllTime>>
  /\ who = IF hash \in PlayerPages THEN hash ELSE NoPlayer
  /\ events = 0
  /\ store = [p \in {} |-> p]
  /\ fetchGen = 1
  /\ flights = {[page |-> hash, gen |-> 1]}
  /\ shown = [v \in Views |-> IF v = view THEN Loading ELSE Nothing]
  /\ clicks = 0
  /\ fromStore = FALSE

-----------------------------------------------------------------------------
\* fetchCached when the page is in its cache.
RenderFromStore(p) ==
  /\ p \in DOMAIN store
  /\ shown' = [shown EXCEPT ![ViewOf(p)] = store[p]]
  /\ fromStore' = TRUE
  /\ UNCHANGED <<store, fetchGen, flights>>

\* fetchCached that starts a fetch without a generation of its own.
FetchUnnumbered(p) ==
  /\ p \notin DOMAIN store
  /\ flights' = flights \cup {[page |-> p, gen |-> fetchGen]}
  /\ shown' = [shown EXCEPT ![ViewOf(p)] = Loading]
  /\ fromStore' = FALSE
  /\ UNCHANGED <<store, fetchGen>>

\* fetchCached that computes the next generation without storing it.
FetchUncounted(p) ==
  /\ p \notin DOMAIN store
  /\ flights' = flights \cup {[page |-> p, gen |-> fetchGen + 1]}
  /\ shown' = [shown EXCEPT ![ViewOf(p)] = Loading]
  /\ fromStore' = FALSE
  /\ UNCHANGED <<store, fetchGen>>

\* fetchCached when it is not.
StartFetch(p) ==
  /\ p \notin DOMAIN store
  /\ fetchGen' = fetchGen + 1
  /\ flights' = flights \cup {[page |-> p, gen |-> fetchGen']}
  /\ shown' = [shown EXCEPT ![ViewOf(p)] = Loading]
  /\ fromStore' = FALSE
  /\ UNCHANGED store

\* fetchData, for the page the new state names.
FetchData(p) == RenderFromStore(p) \/ StartFetch(p)

\* A page kept under the key of the state at the time of the answer.
StoreUnderCurrent(f) ==
  [p \in DOMAIN store \cup {Page} |-> IF p = Page THEN f.page ELSE store[p]]

\* cacheStore[cacheKey] = data.
StoreUnderKey(f) ==
  [p \in DOMAIN store \cup {f.page} |-> IF p = f.page THEN f.page ELSE store[p]]

\* A response arrives and is of the current generation: data, or an error.
Succeed(f) ==
  /\ f.gen = fetchGen
  /\ store' = StoreUnderKey(f)
  /\ shown' = [shown EXCEPT ![ViewOf(f.page)] = f.page]

\* An error handler that leaves the screen alone.
FailSilently(f) ==
  /\ f.gen = fetchGen
  /\ UNCHANGED <<store, shown>>

Fail(f) ==
  /\ f.gen = fetchGen
  /\ shown' = [shown EXCEPT ![ViewOf(f.page)] = Error]
  /\ UNCHANGED store

\* A response of an earlier generation is ignored.
Ignore(f) ==
  /\ f.gen # fetchGen
  /\ UNCHANGED <<store, shown>>

Respond ==
  /\ \E f \in flights :
       /\ flights' = flights \ {f}
       /\ Succeed(f) \/ Fail(f) \/ Ignore(f)
  /\ UNCHANGED <<navVars, fetchGen, clicks, fromStore>>

-----------------------------------------------------------------------------
Click ==
  /\ clicks < MaxClicks
  /\ clicks' = clicks + 1

\* A tab that forgets to push the new state into the URL.
SwitchKeepingHash(m) ==
  /\ main' = m
  /\ FetchData(PageOf(view, m, who))
  /\ UNCHANGED <<view, who, hash, events>>

\* Tabs: the new state, pushHash (replaceState fires no event), fetchData.
SwitchTo(m) ==
  /\ main' = m
  /\ hash' = PageOf(view, m, who)
  /\ FetchData(PageOf(view, m, who))
  /\ UNCHANGED <<view, who, events>>

\* The game mode tabs; the active one does nothing.
ClickMode ==
  /\ Click
  /\ \E mode \in Modes \ {main[1]} : SwitchTo(<<mode, main[2]>>)

\* "All time" and the hall of fame; the active one does nothing.
ClickPeriod ==
  /\ Click
  /\ \E month \in {AllTime, HallOfFame} \ {main[2]} : SwitchTo(<<main[1], month>>)

\* A month of the archive, the selected one included.
ClickArchive ==
  /\ Click
  /\ \E month \in Months : SwitchTo(<<main[1], month>>)

\* The fragment's text changes, so an event is queued, also when the new text is
\* another spelling of the same page: "" and "#author", "#gold/current" and
\* "#gold/2026-05".  An assignment that changes nothing queues nothing.
SetHash(p) ==
  /\ hash' = p
  /\ events' = events + 1
  /\ UNCHANGED <<view, main, who, dataVars>>

\* A link, the back button, or the address bar.  Every page has a fragment that
\* decodes: applyHash throws at any other, which is left out.
Navigate == Click /\ \E p \in Pages : SetHash(p)

\* dismissPlayer: the close button, the backdrop, or Escape.
DismissPlayer == Click /\ view = "player" /\ SetHash(main)

\* applyHash, whatever the hash is by the time its event is handled.
ApplyHash ==
  /\ events > 0
  /\ events' = events - 1
  /\ view' = ViewOf(hash)
  /\ main' = IF hash \in MainPages THEN hash ELSE main
  /\ who' = IF hash \in PlayerPages THEN hash ELSE who
  /\ FetchData(hash)
  /\ UNCHANGED <<hash, clicks>>

FrontendNext ==
  \/ ClickMode \/ ClickPeriod \/ ClickArchive
  \/ Navigate \/ DismissPlayer
  \/ ApplyHash \/ Respond

FrontendSpec == FrontendInit /\ [][FrontendNext]_frontendVars

\* Queued events are handled, and the browser settles every fetch.
FrontendFairSpec ==
  FrontendSpec /\ WF_frontendVars(ApplyHash) /\ WF_frontendVars(Respond)

-----------------------------------------------------------------------------
\* What is on screen is the page the state names, or its progress or failure.
OnScreen == shown[view]
ShowsItsPage == OnScreen \in {Page, Loading, Error}

\* What the comment on fetchCached promises: a response that comes late is
\* never drawn over the page the user has gone on to.
StaleResponsesIgnored == ShowsItsPage

\* The guard does work as long as the page on screen was itself fetched: a
\* late response can only be drawn over a page that came from the cache.
StaleOnlyOverCached == ~fromStore => ShowsItsPage

\* Whatever order responses arrive in, a cache only holds a page's own data.
CacheTruthful == \A p \in DOMAIN store : store[p] = p

\* Once the events are handled, the URL names the page the state is on: it can
\* be reloaded or shared.
HashNamesPage == events = 0 => hash = Page

\* A loading indicator on screen always goes away.
LoadingEnds == (OnScreen = Loading) ~> (OnScreen # Loading)
=============================================================================
