--------------------------- MODULE FrontendProofs ---------------------------
(***************************************************************************)
(* Frontend, for every set of modes, months and players and any number of  *)
(* clicks: its types, its caches, its URL, and when a late response can be *)
(* drawn over another page.                                                *)
(***************************************************************************)
EXTENDS Frontend, TLAPS

\* The player view always has a player.
ViewHasPage == view = "player" => who \in PlayerPages

\* Of the current generation there is only a fetch for the page on screen,
\* unless that came from the cache.
CurrentFetch ==
  \A f \in flights : f.gen = fetchGen /\ ~fromStore => f.page = Page

FrontendIInv ==
  /\ FrontendTypeOK
  /\ ViewHasPage
  /\ CacheTruthful
  /\ HashNamesPage
  /\ CurrentFetch
  /\ StaleOnlyOverCached

\* A page is drawn in its own part of the screen.
LEMMA PageFacts ==
  ASSUME NEW v \in Views, NEW m \in MainPages, NEW w,
         v = "player" => w \in PlayerPages
  PROVE  PageOf(v, m, w) \in Pages /\ ViewOf(PageOf(v, m, w)) = v
  BY FrontendAssumption DEF PageOf, Pages, ViewOf, Views

\* The page the URL names is the one applyHash goes to.
LEMMA HashPage ==
  ASSUME FrontendTypeOK
  PROVE  LET v == ViewOf(hash)
             m == IF hash \in MainPages THEN hash ELSE main
             w == IF hash \in PlayerPages THEN hash ELSE who
         IN  /\ v \in Views /\ m \in MainPages /\ w \in PlayerPages \cup {NoPlayer}
             /\ v = "player" => w \in PlayerPages
             /\ PageOf(v, m, w) = hash
  BY FrontendAssumption DEF FrontendTypeOK, ViewOf, Views, PageOf, Pages

\* Whichever way fetchCached goes, the data it leaves fits the page it is for.
LEMMA FetchFits ==
  ASSUME FrontendIInv, NEW p \in Pages, FetchData(p)
  PROVE  /\ DOMAIN store' \subseteq Pages
         /\ \A q \in DOMAIN store' : store'[q] \in Pages /\ store'[q] = q
         /\ fetchGen' \in Nat
         /\ flights' \subseteq [page : Pages, gen : 1..fetchGen']
         /\ shown' \in [Views -> Pages \cup {Loading, Error, Nothing}]
         /\ fromStore' \in BOOLEAN
         /\ \A f \in flights' : f.gen = fetchGen' /\ ~fromStore' => f.page = p
         /\ ~fromStore' => shown'[ViewOf(p)] = Loading
<1> USE DEF FrontendIInv, FrontendTypeOK
<1>1. ViewOf(p) \in Views
  BY DEF ViewOf, Views
<1>2. CASE RenderFromStore(p)
  BY <1>1, <1>2 DEF RenderFromStore, CacheTruthful
<1>3. CASE StartFetch(p)
  <2>1. /\ fetchGen' = fetchGen + 1
        /\ flights' = flights \cup {[page |-> p, gen |-> fetchGen']}
        /\ shown' = [shown EXCEPT ![ViewOf(p)] = Loading]
        /\ fromStore' = FALSE
        /\ UNCHANGED store
    BY <1>3 DEF StartFetch
  <2>2. fetchGen' \in Nat /\ 1..fetchGen \subseteq 1..fetchGen' /\ fetchGen' \in 1..fetchGen'
    BY <2>1
  <2>3. flights' \subseteq [page : Pages, gen : 1..fetchGen']
    BY <2>1, <2>2
  <2>4. \A f \in flights : f.gen # fetchGen'
    BY <2>1
  <2>5. shown' \in [Views -> Pages \cup {Loading, Error, Nothing}] /\ shown'[ViewOf(p)] = Loading
    BY <1>1, <2>1
  <2>6. /\ DOMAIN store' \subseteq Pages
        /\ \A q \in DOMAIN store' : store'[q] \in Pages /\ store'[q] = q
    BY <2>1 DEF CacheTruthful
  <2>7. \A f \in flights' : f.gen = fetchGen' /\ ~fromStore' => f.page = p
    <3> SUFFICES ASSUME NEW f \in flights', f.gen = fetchGen'
                 PROVE  f.page = p
      OBVIOUS
    <3>1. f \in flights \/ f = [page |-> p, gen |-> fetchGen']
      BY <2>1
    <3> QED
      BY <2>4, <3>1
  <2>8. fromStore' \in BOOLEAN
    BY <2>1
  <2>9. ~fromStore' => shown'[ViewOf(p)] = Loading
    BY <2>5
  <2> QED
    BY <2>2, <2>3, <2>5, <2>6, <2>7, <2>8, <2>9
<1> QED
  BY <1>2, <1>3 DEF FetchData

\* A new page with its fetch, and the URL naming it.
LEMMA FetchNewPage ==
  ASSUME FrontendIInv, view' \in Views, main' \in MainPages,
         who' \in PlayerPages \cup {NoPlayer}, view' = "player" => who' \in PlayerPages,
         FetchData(Page'), hash' = Page', events' \in Nat, clicks' \in 0..MaxClicks
  PROVE  FrontendIInv'
<1>1. Page' \in Pages /\ ViewOf(Page') = view'
  BY PageFacts DEF Page
<1>2. /\ DOMAIN store' \subseteq Pages
      /\ \A q \in DOMAIN store' : store'[q] \in Pages /\ store'[q] = q
      /\ fetchGen' \in Nat
      /\ flights' \subseteq [page : Pages, gen : 1..fetchGen']
      /\ shown' \in [Views -> Pages \cup {Loading, Error, Nothing}]
      /\ fromStore' \in BOOLEAN
      /\ \A f \in flights' : f.gen = fetchGen' /\ ~fromStore' => f.page = Page'
      /\ ~fromStore' => shown'[ViewOf(Page')] = Loading
  BY <1>1, FetchFits
<1>3. FrontendTypeOK' /\ ViewHasPage'
  BY <1>1, <1>2 DEF FrontendTypeOK, ViewHasPage
<1>4. CacheTruthful' /\ HashNamesPage' /\ CurrentFetch'
  BY <1>2 DEF CacheTruthful, HashNamesPage, CurrentFetch
<1>5. StaleOnlyOverCached'
  BY <1>1, <1>2 DEF StaleOnlyOverCached, ShowsItsPage, OnScreen
<1> QED
  BY <1>3, <1>4, <1>5 DEF FrontendIInv

\* A tab changes the state and the URL together.
LEMMA TabStep ==
  ASSUME FrontendIInv, NEW m \in MainPages, SwitchTo(m), Click
  PROVE  FrontendIInv'
<1>1. /\ UNCHANGED <<view, who, events>>
      /\ main' = m
      /\ Page' = PageOf(view, m, who)
      /\ hash' = Page' /\ FetchData(Page')
  BY DEF SwitchTo, Page
<1>2. clicks' \in 0..MaxClicks
  BY FrontendAssumption DEF Click, FrontendIInv, FrontendTypeOK
<1>3. /\ view' \in Views /\ main' \in MainPages /\ who' \in PlayerPages \cup {NoPlayer}
      /\ view' = "player" => who' \in PlayerPages
      /\ events' \in Nat
  BY <1>1 DEF FrontendIInv, FrontendTypeOK, ViewHasPage
<1> QED
  BY <1>1, <1>2, <1>3, FetchNewPage

\* A fragment that is set by hand waits for its event.
LEMMA HashStep ==
  ASSUME FrontendIInv, NEW p \in Pages, SetHash(p), Click
  PROVE  FrontendIInv'
<1>1. /\ UNCHANGED <<view, main, who, store, fetchGen, flights, shown, fromStore>>
      /\ hash' = p /\ events' = events + 1 /\ Page' = Page
  BY DEF SetHash, dataVars, Page
<1>2. clicks' \in 0..MaxClicks
  BY FrontendAssumption DEF Click, FrontendIInv, FrontendTypeOK
<1> QED
  BY <1>1, <1>2 DEF FrontendIInv, FrontendTypeOK, ViewHasPage, CacheTruthful, HashNamesPage,
     CurrentFetch, StaleOnlyOverCached, ShowsItsPage, OnScreen

\* applyHash goes to the page the URL names by then.
LEMMA ApplyHashStep == ASSUME FrontendIInv, ApplyHash PROVE FrontendIInv'
<1>1. /\ view' = ViewOf(hash)
      /\ main' = IF hash \in MainPages THEN hash ELSE main
      /\ who' = IF hash \in PlayerPages THEN hash ELSE who
      /\ FetchData(hash) /\ UNCHANGED <<hash, clicks>>
      /\ events' \in Nat
  BY DEF ApplyHash, FrontendIInv, FrontendTypeOK
<1>2. /\ view' \in Views /\ main' \in MainPages /\ who' \in PlayerPages \cup {NoPlayer}
      /\ view' = "player" => who' \in PlayerPages
      /\ Page' = hash
  BY <1>1, HashPage DEF FrontendIInv, Page
<1>3. clicks' \in 0..MaxClicks
  BY <1>1 DEF FrontendIInv, FrontendTypeOK
<1> QED
  BY <1>1, <1>2, <1>3, FetchNewPage

\* A response is drawn only in its generation.
LEMMA RespondStep == ASSUME FrontendIInv, Respond PROVE FrontendIInv'
<1> USE DEF FrontendIInv, FrontendTypeOK
<1>1. PICK f \in flights : flights' = flights \ {f} /\ (Succeed(f) \/ Fail(f) \/ Ignore(f))
  BY DEF Respond
<1>2. UNCHANGED <<view, main, who, hash, events, fetchGen, clicks, fromStore>> /\ Page' = Page
  BY DEF Respond, navVars, Page
<1>3. Page \in Pages /\ ViewOf(Page) = view
  BY PageFacts DEF Page, ViewHasPage
<1>4. f.page \in Pages /\ ViewOf(f.page) \in Views
  BY <1>1 DEF ViewOf, Views
<1>5. /\ DOMAIN store' \subseteq Pages
      /\ \A p \in DOMAIN store' : store'[p] \in Pages /\ store'[p] = p
  BY <1>1, <1>4 DEF Succeed, StoreUnderKey, Fail, Ignore, CacheTruthful
<1>6. shown' \in [Views -> Pages \cup {Loading, Error, Nothing}]
  BY <1>1, <1>4 DEF Succeed, Fail, Ignore
<1>7. ViewHasPage' /\ CacheTruthful' /\ HashNamesPage' /\ CurrentFetch'
  BY <1>1, <1>2, <1>5 DEF ViewHasPage, CacheTruthful, HashNamesPage, CurrentFetch
<1>8. StaleOnlyOverCached'
  <2> SUFFICES ASSUME ~fromStore
               PROVE  shown'[view] \in {Page, Loading, Error}
    BY <1>2 DEF StaleOnlyOverCached, ShowsItsPage, OnScreen
  <2>1. CASE f.gen = fetchGen
    BY <1>1, <1>3, <2>1 DEF CurrentFetch, Succeed, Fail, Ignore
  <2>2. CASE f.gen # fetchGen
    BY <1>1, <2>2 DEF Succeed, Fail, Ignore, StaleOnlyOverCached, ShowsItsPage, OnScreen
  <2> QED
    BY <2>1, <2>2
<1> QED
  BY <1>1, <1>2, <1>5, <1>6, <1>7, <1>8

\* Every step of the page keeps the inductive invariant.
LEMMA FrontendNextIInv == FrontendIInv /\ [FrontendNext]_frontendVars => FrontendIInv'
<1> SUFFICES ASSUME FrontendIInv, [FrontendNext]_frontendVars
             PROVE  FrontendIInv'
  OBVIOUS
<1>1. main[1] \in Modes /\ main[2] \in Periods
  BY DEF FrontendIInv, FrontendTypeOK, MainPages
<1>2. CASE ClickMode
  <2>1. PICK mode \in Modes \ {main[1]} : SwitchTo(<<mode, main[2]>>)
    BY <1>2 DEF ClickMode
  <2>2. <<mode, main[2]>> \in MainPages
    BY <1>1 DEF MainPages
  <2> QED
    BY <1>2, <2>1, <2>2, TabStep DEF ClickMode
<1>3. CASE ClickPeriod \/ ClickArchive
  <2>1. PICK month \in Periods : SwitchTo(<<main[1], month>>)
    BY <1>3 DEF ClickPeriod, ClickArchive, Periods
  <2>2. <<main[1], month>> \in MainPages
    BY <1>1 DEF MainPages
  <2> QED
    BY <1>3, <2>1, <2>2, TabStep DEF ClickPeriod, ClickArchive
<1>4. CASE Navigate
  BY <1>4, HashStep DEF Navigate
<1>5. CASE DismissPlayer
  <2>1. main \in Pages
    BY DEF FrontendIInv, FrontendTypeOK, Pages
  <2> QED
    BY <1>5, <2>1, HashStep DEF DismissPlayer
<1>6. CASE ApplyHash
  BY <1>6, ApplyHashStep
<1>7. CASE Respond
  BY <1>7, RespondStep
<1>8. CASE UNCHANGED frontendVars
  BY <1>8 DEF frontendVars, navVars, dataVars, FrontendIInv, FrontendTypeOK, ViewHasPage,
     CacheTruthful, HashNamesPage, CurrentFetch, StaleOnlyOverCached, ShowsItsPage, OnScreen, Page
<1> QED
  BY <1>2, <1>3, <1>4, <1>5, <1>6, <1>7, <1>8 DEF FrontendNext

\* The script starts by opening the page its URL names.
LEMMA FrontendInitIInv == ASSUME FrontendInit PROVE FrontendIInv
<1>1. <<DefaultMode, AllTime>> \in MainPages
  BY FrontendAssumption DEF MainPages, Periods
<1>2. /\ view \in Views /\ main \in MainPages /\ who \in PlayerPages \cup {NoPlayer}
      /\ view = "player" => who \in PlayerPages
      /\ Page = hash /\ hash \in Pages
  BY <1>1, FrontendAssumption DEF FrontendInit, ViewOf, Views, Page, PageOf, Pages
<1>3. events \in Nat /\ fetchGen \in Nat /\ clicks \in 0..MaxClicks /\ fromStore \in BOOLEAN
  <2>1. events = 0 /\ fetchGen = 1 /\ clicks = 0 /\ fromStore = FALSE
    BY DEF FrontendInit
  <2>2. MaxClicks \in Nat
    BY FrontendAssumption
  <2>3. fromStore \in BOOLEAN
    BY <2>1, Zenon
  <2>4. events \in Nat /\ fetchGen \in Nat /\ clicks \in 0..MaxClicks
    BY <2>1, <2>2
  <2> QED
    BY <2>3, <2>4
<1>4. DOMAIN store \subseteq Pages /\ \A p \in DOMAIN store : store[p] \in Pages
  BY DEF FrontendInit
<1>5. flights \subseteq [page : Pages, gen : 1..fetchGen]
  BY <1>2 DEF FrontendInit
<1>6. shown \in [Views -> Pages \cup {Loading, Error, Nothing}]
  BY DEF FrontendInit
<1>7. FrontendTypeOK
  BY <1>2, <1>3, <1>4, <1>5, <1>6 DEF FrontendTypeOK
<1> QED
  BY <1>2, <1>7 DEF FrontendInit, FrontendIInv, ViewHasPage, CacheTruthful, HashNamesPage,
     CurrentFetch, StaleOnlyOverCached, ShowsItsPage, OnScreen

\* The inductive invariant holds throughout.
LEMMA FrontendInvariant == FrontendSpec => []FrontendIInv
  BY FrontendInitIInv, FrontendNextIInv, PTL DEF FrontendSpec

-----------------------------------------------------------------------------
\* Every variable stays in its type.
THEOREM FrontendTypeCorrect == FrontendSpec => []FrontendTypeOK
<1>1. FrontendIInv => FrontendTypeOK
  BY DEF FrontendIInv
<1> QED
  BY <1>1, FrontendInvariant, PTL

\* A late response is drawn over another page only if that came from the cache.
THEOREM StaleOverCachedOnly == FrontendSpec => []StaleOnlyOverCached
<1>1. FrontendIInv => StaleOnlyOverCached
  BY DEF FrontendIInv
<1> QED
  BY <1>1, FrontendInvariant, PTL

\* The caches keep every page's own data under its key.
THEOREM CachesTruthful == FrontendSpec => []CacheTruthful
<1>1. FrontendIInv => CacheTruthful
  BY DEF FrontendIInv
<1> QED
  BY <1>1, FrontendInvariant, PTL

\* With no event waiting the URL names the page on screen.
THEOREM HashNames == FrontendSpec => []HashNamesPage
<1>1. FrontendIInv => HashNamesPage
  BY DEF FrontendIInv
<1> QED
  BY <1>1, FrontendInvariant, PTL
=============================================================================
