--------------------------- MODULE ContentProofs ----------------------------
(* What is still shown of an address that was left, what a catalogue tells a *)
(* client, and what becomes of a change to a dashboard, for all values of    *)
(* the constants.                                                            *)
EXTENDS ContentCache, Catalog, Dashboards, CollectionProofs, FiniteSetTheorems

----------------------------------------------------------------------------
(* Cached contents: any life of an entry, time-out and number of requests *)

Known == Sources \cup {NoAddress}

\* A fetch in flight took up its address while it was the item's, and no
\* longer ago than a fetch may last; so content of an address entered the
\* cache at most that much after the item left it.
ClockInv == clock \in Nat /\ address \in Known /\ leftAt \in [Sources -> Nat]

EntryInv ==
    /\ cached.from \in Known /\ cached.fetchedAt \in Nat /\ cached.fetchedAt <= clock
    /\ cached.from \notin {NoAddress, address}
          => cached.fetchedAt <= leftAt[cached.from] + FetchTimeout

FetchInv ==
    \A f \in Fetchers : fetching[f] # Free =>
        /\ fetching[f] \in [at : {"reading", "fetching"}, url : Known, had : Known,
                            began : Nat, calm : BOOLEAN]
        /\ fetching[f].at = "fetching" =>
              /\ fetching[f].began <= clock /\ clock <= fetching[f].began + FetchTimeout
              /\ fetching[f].url \notin {NoAddress, address}
                    => fetching[f].began <= leftAt[fetching[f].url]

FadeInv ==
    /\ ClockInv /\ EntryInv /\ FetchInv
    /\ DOMAIN fetching = Fetchers
    /\ OldAddressFadesOut

USE CacheAssumption DEF Known, Sources

\* The cache begins empty, with nothing in flight.
LEMMA FadeInit == ASSUME CacheTTL > 0 PROVE ContentInit => FadeInv
  BY DEF ContentInit, FadeInv, ClockInv, EntryInv, FetchInv, OldAddressFadesOut, NoEntry, NoneYet

\* What an answer says of an address that was left at most `age` ago.
LEMMA ShowStep ==
    ASSUME NEW how, NEW from \in Known, NEW calm, Show(how, from, calm), ClockInv,
           CacheTTL > 0, 
           how \in {"cached", "fresh"} /\ from \notin {NoAddress, address}
              => clock - leftAt[from] < FetchTimeout + CacheTTL
    PROVE  OldAddressFadesOut'
  BY DEF Show, OldAddressFadesOut, ClockInv

\* The content of `from` enters the cache.
LEMMA FetchedStep ==
    ASSUME CacheTTL > 0, FadeInv, NEW f \in Fetchers, NEW from \in Known, fetching[f] # Free,
           Fetched(f, from),
           from \notin {NoAddress, address} => clock <= leftAt[from] + FetchTimeout
    PROVE  FadeInv'
<1>1. /\ cached' = [from |-> from, fetchedAt |-> clock]
      /\ Show("fresh", from, fetching[f].calm)
      /\ fetching' = [fetching EXCEPT ![f] = Free]
      /\ UNCHANGED <<clock, address, leftAt>>
  BY DEF Fetched
<1>2. ClockInv' /\ EntryInv'
  BY <1>1 DEF FadeInv, ClockInv, EntryInv
<1>3. FetchInv' /\ DOMAIN fetching' = Fetchers
  BY <1>1 DEF FadeInv, FetchInv
<1>4. OldAddressFadesOut'
  <2>1. from \notin {NoAddress, address} => clock - leftAt[from] < FetchTimeout + CacheTTL
    BY DEF FadeInv, ClockInv
  <2> QED BY <1>1, <2>1, ShowStep DEF FadeInv
<1> QED BY <1>2, <1>3, <1>4 DEF FadeInv

\* The fallback, or the error, is no fresh content.
LEMMA FallbackStep ==
    ASSUME CacheTTL > 0, FadeInv, NEW f \in Fetchers, fetching[f] # Free, Fallback(f)
    PROVE  FadeInv'
<1>1. /\ fetching' = [fetching EXCEPT ![f] = Free]
      /\ UNCHANGED <<clock, address, leftAt, cached>>
      /\ \/ Show("fallback", fetching[f].had, fetching[f].calm)
         \/ Show("SERVER_UNAVAILABLE", NoAddress, fetching[f].calm)
  BY DEF Fallback
<1>2. ClockInv' /\ EntryInv'
  BY <1>1 DEF FadeInv, ClockInv, EntryInv
<1>3. FetchInv' /\ DOMAIN fetching' = Fetchers
  BY <1>1 DEF FadeInv, FetchInv
<1>4. fetching[f].had \in Known
  BY DEF FadeInv, FetchInv
<1>5. OldAddressFadesOut'
  BY <1>1, <1>4, ShowStep DEF FadeInv
<1> QED BY <1>2, <1>3, <1>5 DEF FadeInv

\* A request: refused, answered from a cache that is young enough, or begun.
LEMMA AskStep ==
    ASSUME CacheTTL > 0, FadeInv, NEW f \in Fetchers, Ask(f)
    PROVE  FadeInv'
<1>1. UNCHANGED <<clock, address, leftAt, cached>> /\ fetching[f] = Free
  BY DEF Ask
<1>2. ClockInv' /\ EntryInv'
  BY <1>1 DEF FadeInv, ClockInv, EntryInv
<1>3. CASE UNCHANGED fetching
  <2>1. FetchInv' /\ DOMAIN fetching' = Fetchers
    BY <1>1, <1>3 DEF FadeInv, FetchInv
  <2>2. CASE Show("NOT_FOUND", NoAddress, Calm)
    BY <1>2, <2>1, <2>2, ShowStep DEF FadeInv
  <2>3. CASE IsFresh(cached) /\ Show("cached", cached.from, Calm)
    <3>1. cached.from \in Known /\ cached.fetchedAt \in Nat /\ clock \in Nat
      BY DEF FadeInv, EntryInv, ClockInv
    <3>2. cached.from \notin {NoAddress, address} => leftAt[cached.from] \in Nat
      BY <3>1 DEF FadeInv, ClockInv
    <3>3. cached.from \notin {NoAddress, address}
             => clock - leftAt[cached.from] < FetchTimeout + CacheTTL
      BY <2>3, <3>1, <3>2 DEF IsFresh, FadeInv, EntryInv
    <3> QED BY <1>2, <2>1, <2>3, <3>1, <3>3, ShowStep DEF FadeInv
  <2>4. fetching[f] = Free /\ [at |-> "fetching"].at # Free.at
    BY <1>1 DEF Free
  <2> QED BY <1>3, <2>2, <2>3, <2>4 DEF Ask, Free, FadeInv
<1>4. CASE /\ fetching' = [fetching EXCEPT ![f] =
                  [at |-> IF kind = "embed" THEN "fetching" ELSE "reading",
                   url |-> address, had |-> cached.from, began |-> clock, calm |-> Calm]]
           /\ UNCHANGED shown
  <2> DEFINE new == [at |-> IF kind = "embed" THEN "fetching" ELSE "reading",
                     url |-> address, had |-> cached.from, began |-> clock, calm |-> Calm]
  <2>1. new \in [at : {"reading", "fetching"}, url : Known, had : Known, began : Nat, calm : BOOLEAN]
    BY DEF FadeInv, ClockInv, EntryInv, Calm
  <2>2. new.url = address /\ new.began = clock
    OBVIOUS
  <2>3. \A g \in Fetchers : fetching'[g] = IF g = f THEN new ELSE fetching[g]
    BY <1>4 DEF FadeInv
  <2> HIDE DEF new
  <2>4. FetchInv'
    BY <1>1, <2>1, <2>2, <2>3 DEF FadeInv, FetchInv, ClockInv
  <2>5. OldAddressFadesOut' /\ DOMAIN fetching' = Fetchers
    BY <1>4 DEF FadeInv, OldAddressFadesOut
  <2> QED BY <1>2, <2>4, <2>5 DEF FadeInv
<1> QED BY <1>3, <1>4 DEF Ask

\* The address changes, by an administrator or by a camera's adapter.
LEMMA MoveStep ==
    ASSUME CacheTTL > 0, FadeInv, NEW new \in Known, Move(new), UNCHANGED <<clock, cached, shown>>,
           DOMAIN fetching' = Fetchers,
           \A f \in Fetchers :
              /\ fetching'[f] = Free <=> fetching[f] = Free
              /\ fetching[f] # Free =>
                    /\ fetching'[f] \in [at : {"reading", "fetching"}, url : Known, had : Known,
                                         began : Nat, calm : BOOLEAN]
                    /\ fetching'[f].at = fetching[f].at /\ fetching'[f].url = fetching[f].url
                    /\ fetching'[f].began = fetching[f].began
    PROVE  FadeInv'
<1>1. /\ address' = new /\ clock' = clock
      /\ leftAt' = IF address = NoAddress \/ new = address THEN leftAt
                   ELSE [leftAt EXCEPT ![address] = clock]
  BY DEF Move
<1>2. ClockInv'
  BY <1>1 DEF FadeInv, ClockInv
<1>3. \A u \in Known : u \notin {NoAddress, new} =>
         leftAt'[u] = IF u = address THEN clock ELSE leftAt[u]
  BY <1>1 DEF FadeInv, ClockInv
<1>4. EntryInv'
  BY <1>1, <1>3 DEF FadeInv, EntryInv, ClockInv
<1>5. ASSUME NEW f \in Fetchers, fetching'[f] # Free, fetching'[f].at = "fetching"
      PROVE  /\ fetching'[f].began <= clock' /\ clock' <= fetching'[f].began + FetchTimeout
             /\ fetching'[f].url \notin {NoAddress, address'}
                   => fetching'[f].began <= leftAt'[fetching'[f].url]
  <2>1. /\ fetching[f] # Free /\ fetching[f].at = "fetching"
        /\ fetching'[f].url = fetching[f].url /\ fetching'[f].began = fetching[f].began
    BY <1>5
  <2>2. /\ fetching[f].url \in Known /\ fetching[f].began \in Nat
        /\ fetching[f].began <= clock /\ clock <= fetching[f].began + FetchTimeout
        /\ fetching[f].url \notin {NoAddress, address}
              => fetching[f].began <= leftAt[fetching[f].url]
    BY <2>1 DEF FadeInv, FetchInv
  <2> QED BY <1>1, <1>3, <2>1, <2>2
<1>6. FetchInv'
  BY <1>5 DEF FetchInv
<1> QED BY <1>2, <1>4, <1>6 DEF FadeInv, OldAddressFadesOut

\* The camera's state is read: its value is current at that moment.
LEMMA CameraReadStep ==
    ASSUME CacheTTL > 0, FadeInv, NEW f \in Fetchers, ReadCameraState(f)
    PROVE  FadeInv'
<1>1. fetching[f].at = "reading" /\ fetching[f] # Free
  BY DEF ReadCameraState, Free
<1>2. CASE address \in DataUrls /\ Fetched(f, address)
  BY <1>1, <1>2, FetchedStep
<1>3. CASE Fallback(f)
  BY <1>1, <1>3, FallbackStep
<1>4. CASE /\ address \in Addresses
           /\ fetching' = [fetching EXCEPT ![f] =
                [at |-> "fetching", url |-> address, had |-> fetching[f].had,
                 began |-> clock, calm |-> fetching[f].calm]]
           /\ UNCHANGED <<clock, kind, address, leftAt, moves, saving, cached, tainted, shown>>
  <2> DEFINE new == [at |-> "fetching", url |-> address, had |-> fetching[f].had,
                     began |-> clock, calm |-> fetching[f].calm]
  <2>1. new \in [at : {"reading", "fetching"}, url : Known, had : Known, began : Nat, calm : BOOLEAN]
    BY <1>1 DEF FadeInv, ClockInv, FetchInv
  <2>2. new.url = address /\ new.began = clock
    OBVIOUS
  <2>3. \A g \in Fetchers : fetching'[g] = IF g = f THEN new ELSE fetching[g]
    BY <1>4 DEF FadeInv
  <2> HIDE DEF new
  <2>4. FetchInv'
    BY <1>4, <2>1, <2>2, <2>3 DEF FadeInv, FetchInv, ClockInv
  <2>5. ClockInv' /\ EntryInv' /\ OldAddressFadesOut' /\ DOMAIN fetching' = Fetchers
    BY <1>4 DEF FadeInv, ClockInv, EntryInv, OldAddressFadesOut
  <2> QED BY <2>4, <2>5 DEF FadeInv
<1> QED BY <1>2, <1>3, <1>4 DEF ReadCameraState

\* A fetch ends with what it fetched, or with the fallback.
LEMMA FetchEndStep ==
    ASSUME CacheTTL > 0, FadeInv, NEW f \in Fetchers, FetchSucceeds(f) \/ FetchFails(f)
    PROVE  FadeInv'
<1>1. fetching[f].at = "fetching" /\ fetching[f] # Free
  BY DEF FetchSucceeds, FetchFails, Free
<1>2. CASE FetchSucceeds(f)
  <2>1. fetching[f].url \in Known
    BY <1>1 DEF FadeInv, FetchInv
  <2>2. fetching[f].url \notin {NoAddress, address} => clock <= leftAt[fetching[f].url] + FetchTimeout
    BY <1>1, <2>1 DEF FadeInv, FetchInv, ClockInv
  <2> QED BY <1>1, <1>2, <2>1, <2>2, FetchedStep DEF FetchSucceeds
<1>3. CASE FetchFails(f)
  BY <1>1, <1>3, FallbackStep DEF FetchFails
<1> QED BY <1>2, <1>3

\* An administrator changes or deletes the embed while requests are served.
LEMMA EmbedMoveStep ==
    ASSUME CacheTTL > 0, FadeInv, NEW new \in Known, ChangeEmbed(new)
    PROVE  FadeInv'
<1>1. /\ Move(new) /\ UNCHANGED <<clock, cached, shown>>
      /\ fetching' = [f \in Fetchers |->
            IF fetching[f] = Free THEN Free ELSE [fetching[f] EXCEPT !.calm = FALSE]]
  BY DEF ChangeEmbed
<1>2. ASSUME NEW f \in Fetchers, fetching[f] # Free
      PROVE  /\ fetching'[f] \in [at : {"reading", "fetching"}, url : Known, had : Known,
                                   began : Nat, calm : BOOLEAN]
             /\ fetching'[f].at = fetching[f].at /\ fetching'[f].url = fetching[f].url
             /\ fetching'[f].began = fetching[f].began
  <2>1. fetching'[f] = [fetching[f] EXCEPT !.calm = FALSE]
    BY <1>1, <1>2
  <2>2. fetching[f] \in [at : {"reading", "fetching"}, url : Known, had : Known,
                         began : Nat, calm : BOOLEAN]
    BY <1>2 DEF FadeInv, FetchInv
  <2> QED BY <2>1, <2>2
<1>3. \A f \in Fetchers : fetching'[f] = Free <=> fetching[f] = Free
  <2> SUFFICES ASSUME NEW f \in Fetchers, fetching[f] # Free PROVE fetching'[f] # Free
    BY <1>1
  <2>1. fetching'[f].at \in {"reading", "fetching"}
    BY <1>2
  <2> QED BY <2>1 DEF Free
<1>4. DOMAIN fetching' = Fetchers
  BY <1>1
<1> QED BY <1>1, <1>2, <1>3, <1>4, MoveStep

\* The camera's state changes.
LEMMA CameraMoveStep ==
    ASSUME CacheTTL > 0, FadeInv, NEW new \in Known, CameraMoves(new)
    PROVE  FadeInv'
<1>1. Move(new) /\ UNCHANGED <<clock, cached, shown, fetching>>
  BY DEF CameraMoves
<1>2. \A f \in Fetchers : fetching[f] # Free =>
         fetching[f] \in [at : {"reading", "fetching"}, url : Known, had : Known,
                          began : Nat, calm : BOOLEAN]
  BY DEF FadeInv, FetchInv
<1> QED BY <1>1, <1>2, MoveStep DEF FadeInv

\* Time passes, but no fetch outlives its time-out.
LEMMA TickStep == ASSUME CacheTTL > 0, FadeInv, Tick PROVE FadeInv'
<1>1. /\ clock' = clock + 1 /\ UNCHANGED <<address, leftAt, cached, fetching, shown>>
      /\ \A f \in Fetchers : fetching[f].at = "fetching" => clock - fetching[f].began < FetchTimeout
  BY DEF Tick
<1>2. ClockInv' /\ EntryInv' /\ OldAddressFadesOut' /\ DOMAIN fetching' = Fetchers
  BY <1>1 DEF FadeInv, ClockInv, EntryInv, OldAddressFadesOut
<1>3. FetchInv'
  BY <1>1 DEF FadeInv, FetchInv, ClockInv
<1> QED BY <1>2, <1>3 DEF FadeInv

\* Every step keeps the invariant.
LEMMA FadeStep == ASSUME CacheTTL > 0, FadeInv, [ContentNext]_contentVars PROVE FadeInv'
<1>1. CASE \E f \in Fetchers : Ask(f) \/ ReadCameraState(f) \/ FetchSucceeds(f) \/ FetchFails(f)
  BY <1>1, AskStep, CameraReadStep, FetchEndStep
<1>2. CASE \E a \in Addresses \cup {NoAddress} : ChangeEmbed(a)
  BY <1>2, EmbedMoveStep
<1>3. CASE ChangeSaved
  BY <1>3 DEF ChangeSaved, FadeInv, ClockInv, EntryInv, FetchInv, OldAddressFadesOut, NoEntry
<1>4. CASE ChangeRejected
  BY <1>4 DEF ChangeRejected, FadeInv, ClockInv, EntryInv, FetchInv, OldAddressFadesOut
<1>5. CASE \E a \in Sources \cup {NoAddress} : CameraMoves(a)
  BY <1>5, CameraMoveStep
<1>6. CASE Tick
  BY <1>6, TickStep
<1>7. CASE UNCHANGED contentVars
  BY <1>7 DEF contentVars, FadeInv, ClockInv, EntryInv, FetchInv, OldAddressFadesOut
<1> QED BY <1>1, <1>2, <1>3, <1>4, <1>5, <1>6, <1>7 DEF ContentNext

\* fetchContent and fetchSnapshot: an address an administrator or an adapter
\* took away is served for less than FETCH_TIMEOUT_MS + CACHE_TTL_MS more,
\* whatever overlaps, as long as fetches succeed.
THEOREM OldAddressesFade ==
    ASSUME CacheTTL > 0 PROVE ContentSpec => []OldAddressFadesOut
<1>1. ContentInit => FadeInv
  BY FadeInit
<1>2. FadeInv /\ [ContentNext]_contentVars => FadeInv'
  BY FadeStep
<1>3. FadeInv => OldAddressFadesOut
  BY DEF FadeInv
<1> QED BY <1>1, <1>2, <1>3, PTL DEF ContentSpec

----------------------------------------------------------------------------
\* While no change of an embed is under way and none was spoilt, its cache and
\* all fetches in flight are of its address.  A request that came in such a
\* calm, and saw no change begin, still works on the address of now.
Request == [at : {"reading", "fetching"}, url : Known, had : Known, began : Nat, calm : BOOLEAN]

CalmInv ==
    /\ clock \in Nat /\ address \in Known /\ cached.from \in Known
    /\ saving \in Nat /\ tainted \in BOOLEAN
    /\ DOMAIN fetching = Fetchers
    /\ \A f \in Fetchers : fetching[f] # Free => fetching[f] \in Request
    /\ kind = "embed" =>
          /\ saving = 0 /\ ~tainted =>
                /\ cached.from \in {NoAddress, address}
                /\ \A f \in Fetchers : fetching[f] # Free => fetching[f].url = address
          /\ \A f \in Fetchers : fetching[f] # Free =>
                /\ fetching[f].at = "fetching"
                /\ fetching[f].calm => fetching[f].url = address /\ fetching[f].had \in {NoAddress, address}
    /\ AnswersAreCurrent

\* Nothing is cached, asked or changed yet.
LEMMA CalmInit == ContentInit => CalmInv
<1> SUFFICES ASSUME ContentInit PROVE CalmInv
  OBVIOUS
<1>1. tainted \in BOOLEAN
  BY Zenon DEF ContentInit
<1> QED BY <1>1 DEF ContentInit, CalmInv, AnswersAreCurrent, NoEntry, NoneYet

\* An answer to a calm request is of the address of now.
LEMMA CalmShow ==
    ASSUME NEW how, NEW from, NEW calm \in BOOLEAN, Show(how, from, calm), kind' = kind,
           kind = "embed" /\ calm => from \in {NoAddress, address}
    PROVE  AnswersAreCurrent'
  BY DEF Show, AnswersAreCurrent

\* A request: refused, answered from the cache, or begun in whatever calm.
LEMMA CalmAsk == ASSUME CalmInv, NEW f \in Fetchers, Ask(f) PROVE CalmInv'
<1>1. UNCHANGED <<clock, kind, address, leftAt, moves, saving, cached, tainted>> /\ fetching[f] = Free
  BY DEF Ask
<1>2. Calm \in BOOLEAN /\ (Calm => saving = 0 /\ ~tainted)
  BY DEF Calm
<1>3. CASE UNCHANGED fetching
  <2>1. fetching[f] = Free /\ [at |-> "fetching"].at # Free.at /\ [at |-> "reading"].at # Free.at
    BY <1>1 DEF Free
  <2>2. \/ Show("NOT_FOUND", NoAddress, Calm)
        \/ Show("cached", cached.from, Calm)
    BY <1>3, <2>1 DEF Ask, Free, CalmInv
  <2>3. kind = "embed" /\ Calm => cached.from \in {NoAddress, address}
    BY <1>2 DEF CalmInv
  <2>4. AnswersAreCurrent'
    BY <1>1, <1>2, <2>2, <2>3, CalmShow
  <2> QED BY <1>1, <1>3, <2>4 DEF CalmInv
<1>4. CASE /\ fetching' = [fetching EXCEPT ![f] =
                  [at |-> IF kind = "embed" THEN "fetching" ELSE "reading",
                   url |-> address, had |-> cached.from, began |-> clock, calm |-> Calm]]
           /\ UNCHANGED shown
  <2> DEFINE new == [at |-> IF kind = "embed" THEN "fetching" ELSE "reading",
                     url |-> address, had |-> cached.from, began |-> clock, calm |-> Calm]
  <2>1. new \in Request /\ new.url = address /\ new.had = cached.from
    BY <1>2 DEF Request, CalmInv
  <2>2. new.calm => saving = 0 /\ ~tainted
    BY <1>2
  <2>3. kind = "embed" => new.at = "fetching"
    OBVIOUS
  <2>4. \A g \in Fetchers : fetching'[g] = IF g = f THEN new ELSE fetching[g]
    BY <1>4 DEF CalmInv
  <2>5. DOMAIN fetching' = Fetchers /\ AnswersAreCurrent'
    BY <1>1, <1>4 DEF CalmInv, AnswersAreCurrent
  <2> HIDE DEF new
  <2> QED BY <1>1, <2>1, <2>2, <2>3, <2>4, <2>5 DEF CalmInv
<1> QED BY <1>3, <1>4 DEF Ask

\* A request ends: its content may enter the cache, and is shown.
LEMMA CalmEnd ==
    ASSUME CalmInv, NEW f \in Fetchers, fetching[f] # Free, NEW from \in Known, NEW how,
           Show(how, from, fetching[f].calm),
           fetching' = [fetching EXCEPT ![f] = Free],
           UNCHANGED <<clock, kind, address, saving, tainted>>,
           cached' = cached \/ (cached'.from = from /\ from = fetching[f].url) \/ kind # "embed",
           cached'.from \in Known,
           from \in {fetching[f].url, fetching[f].had, NoAddress} \/ kind # "embed"
    PROVE  CalmInv'
<1>1. fetching[f] \in Request /\ fetching[f].calm \in BOOLEAN
  BY DEF CalmInv, Request
<1>2. kind = "embed" /\ fetching[f].calm => from \in {NoAddress, address}
  BY DEF CalmInv
<1>3. AnswersAreCurrent'
  BY <1>1, <1>2, CalmShow
<1>4. \A g \in Fetchers : fetching'[g] = IF g = f THEN Free ELSE fetching[g]
  BY DEF CalmInv
<1>5. DOMAIN fetching' = Fetchers
  BY DEF CalmInv
<1>6. kind = "embed" /\ saving = 0 /\ ~tainted => cached'.from \in {NoAddress, address}
  BY DEF CalmInv
<1> QED BY <1>3, <1>4, <1>5, <1>6 DEF CalmInv

\* What Fetched and Fallback are: the end of a request.
LEMMA CalmFetched ==
    ASSUME CalmInv, NEW f \in Fetchers, fetching[f] # Free, NEW from \in Known,
           Fetched(f, from), from = fetching[f].url \/ kind # "embed"
    PROVE  CalmInv'
<1>1. /\ cached' = [from |-> from, fetchedAt |-> clock]
      /\ Show("fresh", from, fetching[f].calm)
      /\ fetching' = [fetching EXCEPT ![f] = Free]
      /\ UNCHANGED <<clock, kind, address, saving, tainted>>
  BY DEF Fetched
<1>2. cached'.from = from
  BY <1>1
<1> QED BY <1>1, <1>2, CalmEnd

\* The fallback shows what was cached when the request came.
LEMMA CalmFallback ==
    ASSUME CalmInv, NEW f \in Fetchers, fetching[f] # Free, Fallback(f)
    PROVE  CalmInv'
<1>1. /\ fetching' = [fetching EXCEPT ![f] = Free]
      /\ UNCHANGED <<clock, kind, address, saving, tainted, cached>>
      /\ \/ Show("fallback", fetching[f].had, fetching[f].calm)
         \/ Show("SERVER_UNAVAILABLE", NoAddress, fetching[f].calm)
  BY DEF Fallback
<1>2. fetching[f].had \in Known /\ cached.from \in Known
  BY DEF CalmInv, Request
<1> QED BY <1>1, <1>2, CalmEnd

\* A change begins: no request in flight is calm any more.
LEMMA CalmChange == ASSUME CalmInv, NEW new \in Known, ChangeEmbed(new) PROVE CalmInv'
<1>1. /\ address' = new /\ saving' = saving + 1
      /\ fetching' = [f \in Fetchers |->
            IF fetching[f] = Free THEN Free ELSE [fetching[f] EXCEPT !.calm = FALSE]]
      /\ UNCHANGED <<clock, kind, cached, tainted, shown>>
  BY DEF ChangeEmbed, Move
<1>2. ASSUME NEW f \in Fetchers, fetching'[f] # Free
      PROVE  /\ fetching'[f] \in Request /\ ~fetching'[f].calm
             /\ fetching'[f].at = fetching[f].at /\ fetching[f] # Free
  <2>1. fetching[f] # Free /\ fetching'[f] = [fetching[f] EXCEPT !.calm = FALSE]
    BY <1>1, <1>2
  <2>2. fetching[f] \in Request
    BY <2>1 DEF CalmInv
  <2> QED BY <2>1, <2>2 DEF Request
<1>3. DOMAIN fetching' = Fetchers /\ saving' # 0 /\ saving' \in Nat
  BY <1>1 DEF CalmInv
<1>4. AnswersAreCurrent'
  BY <1>1 DEF CalmInv, AnswersAreCurrent
<1> QED BY <1>1, <1>2, <1>3, <1>4 DEF CalmInv

\* Every step keeps the calm.
LEMMA CalmStep == CalmInv /\ [ContentNext]_contentVars => CalmInv'
<1> SUFFICES ASSUME CalmInv, [ContentNext]_contentVars PROVE CalmInv'
  OBVIOUS
<1>1. ASSUME NEW f \in Fetchers, Ask(f) PROVE CalmInv'
  BY <1>1, CalmAsk
<1>2. ASSUME NEW f \in Fetchers, ReadCameraState(f) PROVE CalmInv'
  <2>1. fetching[f].at = "reading" /\ fetching[f] # Free
    BY <1>2 DEF ReadCameraState, Free
  <2>2. kind # "embed"
    BY <2>1 DEF CalmInv
  <2>3. CASE address \in DataUrls /\ Fetched(f, address)
    BY <2>1, <2>2, <2>3, CalmFetched
  <2>4. CASE Fallback(f)
    BY <2>1, <2>4, CalmFallback
  <2>5. CASE /\ fetching' = [fetching EXCEPT ![f] =
                [at |-> "fetching", url |-> address, had |-> fetching[f].had,
                 began |-> clock, calm |-> fetching[f].calm]]
             /\ UNCHANGED <<clock, kind, address, leftAt, moves, saving, cached, tainted, shown>>
    <3>1. [at |-> "fetching", url |-> address, had |-> fetching[f].had,
           began |-> clock, calm |-> fetching[f].calm] \in Request
      BY <2>1 DEF CalmInv, Request
    <3>2. \A g \in Fetchers : fetching'[g] # Free => fetching'[g] \in Request
      BY <2>5, <3>1 DEF CalmInv
    <3> QED BY <2>2, <2>5, <3>2 DEF CalmInv, AnswersAreCurrent
  <2> QED BY <1>2, <2>3, <2>4, <2>5 DEF ReadCameraState
<1>3. ASSUME NEW f \in Fetchers, FetchSucceeds(f) PROVE CalmInv'
  <2>1. fetching[f] # Free /\ Fetched(f, fetching[f].url)
    BY <1>3 DEF FetchSucceeds, Free
  <2>2. fetching[f].url \in Known
    BY <2>1 DEF CalmInv, Request
  <2> QED BY <2>1, <2>2, CalmFetched
<1>4. ASSUME NEW f \in Fetchers, FetchFails(f) PROVE CalmInv'
  BY <1>4, CalmFallback DEF FetchFails, Free
<1>5. ASSUME NEW a \in Addresses \cup {NoAddress}, ChangeEmbed(a) PROVE CalmInv'
  BY <1>5, CalmChange
<1>6. CASE ChangeSaved
  <2>1. /\ saving' = saving - 1 /\ saving > 0 /\ cached'.from = NoAddress
        /\ UNCHANGED <<clock, kind, address, fetching, shown>>
    BY <1>6 DEF ChangeSaved, NoEntry
  <2>2. tainted' \in BOOLEAN /\ (~tainted' => \A f \in Fetchers : fetching[f] # Free => fetching[f].url = address)
    BY <1>6, Zenon DEF ChangeSaved, LateFetch
  <2> QED BY <2>1, <2>2 DEF CalmInv, AnswersAreCurrent
<1>7. CASE ChangeRejected
  <2>1. /\ saving' = saving - 1 /\ saving > 0
        /\ UNCHANGED <<clock, kind, address, cached, fetching, shown>>
    BY <1>7 DEF ChangeRejected
  <2>2. tainted' \in BOOLEAN /\ tainted'
    BY <1>7, Zenon DEF ChangeRejected
  <2> QED BY <2>1, <2>2 DEF CalmInv, AnswersAreCurrent
<1>8. ASSUME NEW a \in Sources \cup {NoAddress}, CameraMoves(a) PROVE CalmInv'
  BY <1>8 DEF CameraMoves, Move, CalmInv, AnswersAreCurrent
<1>9. CASE Tick
  BY <1>9 DEF Tick, CalmInv, AnswersAreCurrent
<1>10. CASE UNCHANGED contentVars
  BY <1>10 DEF contentVars, CalmInv, AnswersAreCurrent
<1> QED BY <1>1, <1>2, <1>3, <1>4, <1>5, <1>6, <1>7, <1>8, <1>9, <1>10 DEF ContentNext

\* update() and fetchContent: once a change has returned, nothing of the old
\* address is shown to those who ask after it.
THEOREM AnswersStayCurrent == ContentSpec => []AnswersAreCurrent
<1>1. CalmInv => AnswersAreCurrent
  BY DEF CalmInv
<1> QED BY <1>1, CalmInit, CalmStep, PTL DEF ContentSpec

\* What CalmInv leaves to be said of the types: no moment is later than now,
\* and every call of an administrator that is awaited was counted.
MomentsTyped ==
    /\ clock \in 0..MaxClock /\ kind \in {"embed", "camera"}
    /\ leftAt \in [Sources -> 0..clock]
    /\ saving \in Nat /\ moves \in 0..MaxMoves /\ saving <= moves
    /\ cached \in [from : Known, fetchedAt : 0..clock]

\* Nothing has been left, fetched or changed yet.
LEMMA MomentsInit == ContentInit => MomentsTyped
  BY DEF ContentInit, MomentsTyped, NoEntry

\* An item moves, and the address it leaves is left now.
LEMMA MoveTyped ==
    ASSUME MomentsTyped, CalmInv, NEW new \in Known, Move(new),
           clock' = clock, kind' = kind, cached' = cached, saving' \in {saving, saving + 1}
    PROVE  MomentsTyped'
<1>1. /\ moves < MaxMoves /\ moves' = moves + 1
      /\ leftAt' = IF address = NoAddress \/ new = address THEN leftAt
                   ELSE [leftAt EXCEPT ![address] = clock]
  BY DEF Move
<1>2. clock \in 0..MaxClock /\ clock \in 0..clock /\ leftAt \in [Sources -> 0..clock]
  BY DEF MomentsTyped
<1>3. leftAt' \in [Sources -> 0..clock]
  BY <1>1, <1>2
<1>4. saving \in Nat /\ saving <= moves /\ moves \in 0..MaxMoves
  BY DEF MomentsTyped
<1>5. saving' \in Nat /\ moves' \in 0..MaxMoves /\ saving' <= moves'
  BY <1>1, <1>4
<1> QED BY <1>3, <1>5 DEF MomentsTyped

\* A content that enters the cache enters it now.
LEMMA FetchedTyped ==
    ASSUME MomentsTyped, NEW f \in Fetchers, NEW from \in Known, Fetched(f, from)
    PROVE  MomentsTyped'
<1>1. cached' = [from |-> from, fetchedAt |-> clock] /\ UNCHANGED <<clock, kind, leftAt, moves, saving>>
  BY DEF Fetched
<1>2. clock \in 0..clock
  BY DEF MomentsTyped
<1> QED BY <1>1, <1>2 DEF MomentsTyped

\* Every step keeps the types.
LEMMA MomentsStep == CalmInv /\ MomentsTyped /\ [ContentNext]_contentVars => MomentsTyped'
<1> SUFFICES ASSUME CalmInv, MomentsTyped, [ContentNext]_contentVars PROVE MomentsTyped'
  OBVIOUS
<1>1. ASSUME UNCHANGED <<clock, kind, leftAt, moves, saving, cached>> PROVE MomentsTyped'
  BY <1>1 DEF MomentsTyped
<1>2. ASSUME NEW f \in Fetchers, Ask(f) \/ Fallback(f) PROVE MomentsTyped'
  BY <1>1, <1>2 DEF Ask, Fallback
<1>3. ASSUME NEW f \in Fetchers, ReadCameraState(f) PROVE MomentsTyped'
  <2>1. CASE address \in DataUrls /\ Fetched(f, address)
    BY <2>1, FetchedTyped
  <2>2. CASE Fallback(f)
    BY <1>2, <2>2
  <2>3. CASE UNCHANGED <<clock, kind, leftAt, moves, saving, cached>>
    BY <1>1, <2>3
  <2> QED BY <1>3, <2>1, <2>2, <2>3 DEF ReadCameraState
<1>4. ASSUME NEW f \in Fetchers, FetchSucceeds(f) PROVE MomentsTyped'
  <2>1. fetching[f] # Free /\ Fetched(f, fetching[f].url)
    BY <1>4 DEF FetchSucceeds, Free
  <2>2. fetching[f].url \in Known
    BY <2>1 DEF CalmInv, Request
  <2> QED BY <2>1, <2>2, FetchedTyped
<1>5. ASSUME NEW f \in Fetchers, FetchFails(f) PROVE MomentsTyped'
  BY <1>2, <1>5 DEF FetchFails
<1>6. ASSUME NEW a \in Addresses \cup {NoAddress}, ChangeEmbed(a) PROVE MomentsTyped'
  <2>1. Move(a) /\ a \in Known /\ saving' = saving + 1 /\ UNCHANGED <<clock, kind, cached>>
    BY <1>6 DEF ChangeEmbed
  <2> QED BY <2>1, MoveTyped
<1>7. ASSUME NEW a \in Sources \cup {NoAddress}, CameraMoves(a) PROVE MomentsTyped'
  <2>1. Move(a) /\ a \in Known /\ UNCHANGED <<clock, kind, cached, saving>>
    BY <1>7 DEF CameraMoves
  <2> QED BY <2>1, MoveTyped
<1>8. CASE ChangeSaved \/ ChangeRejected
  <2>1. /\ saving > 0 /\ saving' = saving - 1 /\ cached' \in {cached, NoEntry}
        /\ UNCHANGED <<clock, kind, leftAt, moves>>
    BY <1>8 DEF ChangeSaved, ChangeRejected
  <2>2. NoEntry \in [from : Known, fetchedAt : 0..clock]
    BY DEF NoEntry, MomentsTyped
  <2> QED BY <2>1, <2>2 DEF MomentsTyped
<1>9. CASE Tick
  <2>1. clock' = clock + 1 /\ clock < MaxClock /\ UNCHANGED <<kind, leftAt, moves, saving, cached>>
    BY <1>9 DEF Tick
  <2>2. clock' \in 0..MaxClock /\ 0..clock \subseteq 0..clock'
    BY <2>1 DEF MomentsTyped
  <2> QED BY <2>1, <2>2 DEF MomentsTyped
<1>10. CASE UNCHANGED contentVars
  BY <1>1, <1>10 DEF contentVars
<1> QED BY <1>2, <1>3, <1>4, <1>5, <1>6, <1>7, <1>8, <1>9, <1>10 DEF ContentNext

\* The cache entry, the fetches and the changes under way have their types, and
\* nothing is remembered of a later moment than now.
THEOREM ContentTyped == ContentSpec => []ContentTypeOK
<1>1. CalmInv /\ MomentsTyped => ContentTypeOK
  <2> SUFFICES ASSUME CalmInv, MomentsTyped PROVE ContentTypeOK
    OBVIOUS
  <2>1. ASSUME NEW f \in Fetchers PROVE fetching[f].at \in {"idle", "reading", "fetching"}
    BY DEF CalmInv, Request, Free
  <2>2. saving \in 0..moves
    BY DEF MomentsTyped
  <2> QED BY <2>1, <2>2 DEF CalmInv, MomentsTyped, ContentTypeOK
<1> QED BY <1>1, CalmInit, CalmStep, MomentsInit, MomentsStep, PTL DEF ContentSpec

----------------------------------------------------------------------------
(* The catalogue: any states, rules and requests                          *)

\* A state has one public id, and no blocked state has one.
IdsInv ==
    /\ ids \in Nat
    /\ \A m \in mappings.cache : m.id \in 1..ids /\ ~IsBlockedStateId(m.stateId)
    /\ \A m, n \in mappings.cache : m.stateId = n.stateId \/ m.id = n.id => m = n

\* A list of states to go through, for a catalogue or for the alarms.
Walkable(job) ==
    /\ DOMAIN job = {"at", "for", "version", "todo", "got", "permission", "browsed", "skipped", "torn"}
    /\ job.for \in {"catalog", "alarms"}
    /\ job.todo \in Seq(Leafs) /\ job.torn \in BOOLEAN

\* A request between two steps: while a mapping is being stored, it is that of
\* the first state of the list; while the tree is awaited, nothing has begun.
Resting(job) ==
    /\ Walkable(job)
    /\ job.at = "storing" => job.todo # <<>>
    /\ job.at = "tree" => job.for = "catalog" /\ job.got = {} /\ job.skipped = {} /\ ~job.torn

RequestsInv == tree \subseteq Leafs /\ DOMAIN fetch = Clients /\ \A c \in Clients : Resting(fetch[c])

----------------------------------------------------------------------------
\* What stands for a set S of states in an answer under the rules R, when M
\* are the public ids.
IdIn(M, s) == (CHOOSE m \in M : m.stateId = s).id

HasId(M, s) == \E m \in M : m.stateId = s

Readable(R, S, ctx) == {s \in S : CanRead(R, s, ctx)}

Listed(M, R, S, ctx) ==
    {[state |-> s, id |-> IdIn(M, s), permission |-> Resolve(R, s, ctx)] : s \in Readable(R, S, ctx)}

AllHaveIds(M, R, S, ctx) == \A s \in Readable(R, S, ctx) : HasId(M, s)

\* The states of a list.
States(q) == {q[i] : i \in DOMAIN q}

\* A catalogue under way, of the rules as they were when the tree arrived, is
\* exact so far - or they were changed since.
SoFar(job, ctx, M, R, P) ==
    IF job.torn THEN job.version \in P
    ELSE LET seen == (job.browsed \ job.skipped) \ States(job.todo) IN
         /\ job.version = R
         /\ job.got = Listed(M, R, seen, ctx) /\ AllHaveIds(M, R, seen, ctx)
         /\ \A i, j \in DOMAIN job.todo : job.todo[i] = job.todo[j] => i = j
         /\ job.skipped \cap States(job.todo) = {}
         /\ job.browsed \subseteq Leafs

\* The state whose mapping is being stored is one of its entries.
AtEntry(job, ctx, M, R) ==
    /\ Head(job.todo) \in Readable(R, job.browsed, ctx) /\ HasId(M, Head(job.todo))
    /\ job.permission = Resolve(R, Head(job.todo), ctx)

ExactSoFar(job, ctx, M, R, P) ==
    job.for = "catalog" /\ job.at = "storing" =>
        SoFar(job, ctx, M, R, P) /\ (~job.torn => AtEntry(job, ctx, M, R))

\* The objects O are, but for their ids, what a context may read of S.
Exactly(O, R, S, ctx) ==
    /\ {o.state : o \in O} = Readable(R, S, ctx)
    /\ \A o \in O : /\ o.permission = Resolve(R, o.state, ctx)
                    /\ \A p \in O : p.state = o.state => p = o

\* A catalogue an app holds is exact for the rules of its version.
ExactFor(catalog, ctx, P) ==
    IF catalog.torn THEN catalog.version \in P
    ELSE Exactly(catalog.objects, catalog.version, catalog.browsed \ catalog.skipped, ctx)

ExactInv ==
    /\ DOMAIN held = Clients
    /\ \A c \in Clients : ExactSoFar(fetch[c], CtxOf[c], mappings.cache, rules, past)
    /\ \A c \in Clients : held[c] # NoCatalog => ExactFor(held[c], CtxOf[c], past)

----------------------------------------------------------------------------
\* find() finds the first of them.
LEMMA SomeNumberIsLeast ==
    ASSUME NEW S \in SUBSET Nat, S # {}
    PROVE  Earliest(S) \in S /\ \A j \in S : Earliest(S) <= j
<1>1. \E i \in S : \A j \in S : i <= j
  BY LeastExists
<1> QED BY <1>1 DEF Earliest

\* BLOCKED_PREFIXES beats every rule.
LEMMA BlockedIsDenied ==
    ASSUME NEW R, NEW s, NEW ctx, IsBlockedStateId(s)
    PROVE  ~CanRead(R, s, ctx)
<1>1. MatchingRules(R, s) = {}
  BY DEF MatchingRules
<1>2. Deciding(R, MatchingRules(R, s), ctx) = 0
  BY <1>1 DEF Deciding, Applying
<1> QED BY <1>2 DEF CanRead, Resolve, DenyPermission

\* Public ids only come in addition: the one a state has stays.
LEMMA IdStays ==
    ASSUME NEW M, NEW N, M \subseteq N, \A m, n \in N : m.stateId = n.stateId => m = n,
           NEW s, HasId(M, s)
    PROVE  HasId(N, s) /\ IdIn(N, s) = IdIn(M, s)
<1>1. PICK m \in M : m.stateId = s
  BY DEF HasId
<1>2. \A n \in N : n.stateId = s => n = m
  BY <1>1
<1>3. (CHOOSE n \in N : n.stateId = s) = m
  BY <1>1, <1>2
<1>4. (CHOOSE n \in M : n.stateId = s) = m
  BY <1>1, <1>2
<1> QED BY <1>1, <1>3, <1>4 DEF HasId, IdIn

\* What is listed is exact.
LEMMA ListedIsExact ==
    ASSUME NEW M, NEW R, NEW S, NEW ctx, NEW O, O = Listed(M, R, S, ctx)
    PROVE  Exactly(O, R, S, ctx)
<1> DEFINE e(s) == [state |-> s, id |-> IdIn(M, s), permission |-> Resolve(R, s, ctx)]
<1>1. O = {e(s) : s \in Readable(R, S, ctx)}
  BY DEF Listed
<1>2. \A s : e(s).state = s /\ e(s).permission = Resolve(R, s, ctx)
  OBVIOUS
<1> HIDE DEF e
<1> QED BY <1>1, <1>2 DEF Exactly

\* So do the entries they are in.
LEMMA ListedStays ==
    ASSUME NEW M, NEW N, M \subseteq N, \A m, n \in N : m.stateId = n.stateId => m = n,
           NEW R, NEW S, NEW ctx, AllHaveIds(M, R, S, ctx)
    PROVE  Listed(N, R, S, ctx) = Listed(M, R, S, ctx) /\ AllHaveIds(N, R, S, ctx)
<1>1. \A s \in Readable(R, S, ctx) : HasId(N, s) /\ IdIn(N, s) = IdIn(M, s)
  BY IdStays DEF AllHaveIds
<1> QED BY <1>1 DEF Listed, AllHaveIds

\* More of a list: the entries of both parts.
LEMMA ListedTogether ==
    ASSUME NEW M, NEW R, NEW S, NEW T, NEW ctx, AllHaveIds(M, R, S, ctx), AllHaveIds(M, R, T, ctx)
    PROVE  /\ Listed(M, R, S \cup T, ctx) = Listed(M, R, S, ctx) \cup Listed(M, R, T, ctx)
           /\ AllHaveIds(M, R, S \cup T, ctx)
<1>1. Readable(R, S \cup T, ctx) = Readable(R, S, ctx) \cup Readable(R, T, ctx)
  BY DEF Readable
<1> QED BY <1>1 DEF Listed, AllHaveIds

\* A mapping is added for a state that has none.
LEMMA IdAdded ==
    ASSUME IdsInv, NEW s, ~Mapped(s), ~IsBlockedStateId(s), ids' = ids + 1,
           mappings'.cache = mappings.cache \cup {[id |-> ids + 1, stateId |-> s]}
    PROVE  IdsInv' /\ mappings.cache \subseteq mappings'.cache /\ HasId(mappings'.cache, s)
<1> DEFINE new == [id |-> ids + 1, stateId |-> s]
<1>1. new.id = ids + 1 /\ new.stateId = s /\ mappings'.cache = mappings.cache \cup {new} /\ ids \in Nat
  BY DEF IdsInv
<1>2. \A m \in mappings.cache : m.id \in 1..ids /\ m.stateId # s /\ ~IsBlockedStateId(m.stateId)
  BY DEF IdsInv, Mapped
<1> HIDE DEF new
<1>3. \A m \in mappings'.cache : m.id \in 1..ids' /\ ~IsBlockedStateId(m.stateId)
  BY <1>1, <1>2
<1>4. \A m \in mappings.cache : m.id # new.id
  BY <1>1, <1>2
<1>5. \A m, n \in mappings'.cache : m.stateId = n.stateId \/ m.id = n.id => m = n
  BY <1>1, <1>2, <1>4 DEF IdsInv
<1> QED BY <1>1, <1>3, <1>5 DEF IdsInv, HasId

----------------------------------------------------------------------------
\* The loop: what it lists on the way, and where it stops.
Passed(job, n, ctx) ==
    {[state |-> job.todo[k], id |-> IdIn(mappings.cache, job.todo[k]), permission |-> Resolve(rules, job.todo[k], ctx)] :
        k \in {i \in 1..n : job.todo[i] \in job.browsed /\ CanRead(rules, job.todo[i], ctx)}}

Left(job, n) == {job.todo[k] : k \in (n + 1)..Len(job.todo)}

\* The loop passes n entries, each readable one with a public id, and is at the
\* end then, or at an entry that gets its id now.
LEMMA WalkStops ==
    ASSUME NEW c \in Clients, NEW job, Walkable(job), NEW store, store.cache = mappings.cache,
           Walk(c, job, store)
    PROVE  \E n \in 0..Len(job.todo) :
             /\ \A k \in 1..n : job.todo[k] \in job.browsed /\ CanRead(rules, job.todo[k], CtxOf[c])
                                  => HasId(mappings.cache, job.todo[k])
             /\ \/ /\ n = Len(job.todo) /\ mappings' = store /\ ids' = ids
                   /\ AnswerCatalog(c, [job EXCEPT !.got = @ \cup Passed(job, n, CtxOf[c])])
                \/ LET s == job.todo[n + 1] IN
                   /\ n < Len(job.todo)
                   /\ s \in job.browsed /\ CanRead(rules, s, CtxOf[c]) /\ ~Mapped(s)
                   /\ ids' = ids + 1 /\ mappings' = Update(store, c, mappings.cache \cup {[id |-> ids + 1, stateId |-> s]})
                   /\ fetch' = [fetch EXCEPT ![c] =
                         [[job EXCEPT !.got = @ \cup Passed(job, n, CtxOf[c])]
                            EXCEPT !.at = "storing", !.todo = SubSeq(job.todo, n + 1, Len(job.todo)),
                                   !.permission = Resolve(rules, s, CtxOf[c])]]
                   /\ held' = held
<1> DEFINE ctx      == CtxOf[c]
           readable == {i \in DOMAIN job.todo : job.todo[i] \in job.browsed /\ CanRead(rules, job.todo[i], ctx)}
           new      == {i \in readable : ~Mapped(job.todo[i])}
           n        == IF new = {} THEN Len(job.todo) ELSE Earliest(new) - 1
           s        == job.todo[n + 1]
           done     == {Entry(job.todo[i], Resolve(rules, job.todo[i], ctx)) : i \in readable \cap 1..n}
           walked   == [job EXCEPT !.got = @ \cup done]
<1>1. Len(job.todo) \in Nat /\ DOMAIN job.todo = 1..Len(job.todo)
  BY LenProperties DEF Walkable
<1>2. new # {} => Earliest(new) \in new /\ \A j \in new : Earliest(new) <= j
  <2>1. new \in SUBSET Nat
    BY <1>1
  <2> HIDE DEF new
  <2> QED BY <2>1, SomeNumberIsLeast
<1>3. new \subseteq readable /\ readable \subseteq 1..Len(job.todo)
  BY <1>1
<1>4. n \in 0..Len(job.todo) /\ (new # {} => n < Len(job.todo) /\ n + 1 \in new)
  <2> HIDE DEF new, readable
  <2>1. CASE new = {}
    BY <1>1, <2>1
  <2>2. CASE new # {}
    <3>1. Earliest(new) \in 1..Len(job.todo) /\ Earliest(new) \in new /\ n = Earliest(new) - 1
      BY <1>2, <1>3, <2>2
    <3> QED BY <1>1, <2>2, <3>1
  <2> QED BY <2>1, <2>2
<1>5. \A k \in 1..n : job.todo[k] \in job.browsed /\ CanRead(rules, job.todo[k], ctx)
                        => HasId(mappings.cache, job.todo[k])
  <2> SUFFICES ASSUME NEW k \in 1..n, job.todo[k] \in job.browsed, CanRead(rules, job.todo[k], ctx)
               PROVE  HasId(mappings.cache, job.todo[k])
    OBVIOUS
  <2>1. k \in readable
    <3>1. k \in DOMAIN job.todo
      <4> HIDE DEF n
      <4> QED BY <1>1, <1>4
    <3> HIDE DEF n
    <3> QED BY <3>1
  <2>2. k \notin new
    <3> SUFFICES ASSUME k \in new PROVE FALSE
      OBVIOUS
    <3>1. new # {} /\ n = Earliest(new) - 1
      OBVIOUS
    <3> HIDE DEF new, readable, n
    <3>2. Earliest(new) <= k /\ Earliest(new) \in new
      BY <1>2, <3>1
    <3>3. Earliest(new) \in 1..Len(job.todo)
      BY <1>3, <3>2
    <3>4. Earliest(new) \in Nat /\ k \in 1..n
      BY <1>1, <3>3
    <3> QED BY <3>1, <3>2, <3>4
  <2> QED BY <2>1, <2>2 DEF Mapped, HasId
<1>6. done = Passed(job, n, ctx)
  <2>1. readable \cap 1..n = {i \in 1..n : job.todo[i] \in job.browsed /\ CanRead(rules, job.todo[i], ctx)}
    <3> HIDE DEF n
    <3>1. \A i \in 1..n : i \in DOMAIN job.todo
      BY <1>1, <1>4
    <3> QED BY <3>1
  <2> HIDE DEF readable, n
  <2> QED BY <2>1 DEF Passed, Entry, PublicId, IdIn
<1>7. IF new = {} THEN AnswerCatalog(c, walked) /\ mappings' = store /\ ids' = ids
      ELSE /\ ids' = ids + 1 /\ mappings' = Update(store, c, mappings.cache \cup {[id |-> ids + 1, stateId |-> s]})
           /\ fetch' = [fetch EXCEPT ![c] = [walked EXCEPT !.at = "storing",
                           !.todo = SubSeq(job.todo, n + 1, Len(job.todo)),
                           !.permission = Resolve(rules, s, ctx)]]
           /\ held' = held
  BY DEF Walk
<1>8. CASE new = {}
  <2>1. n = Len(job.todo)
    BY <1>8
  <2> HIDE DEF new, done, n
  <2> QED BY <1>4, <1>5, <1>6, <1>7, <1>8, <2>1
<1>9. CASE new # {}
  <2>1. s \in job.browsed /\ CanRead(rules, s, ctx) /\ ~Mapped(s)
    BY <1>4, <1>9
  <2> HIDE DEF new, done, n
  <2> QED BY <1>4, <1>5, <1>6, <1>7, <1>9, <2>1
<1> QED BY <1>8, <1>9

\* What the loop passed is listed with what was.
LEMMA PassedIsListed ==
    ASSUME NEW job, Walkable(job), ~job.torn, NEW n \in 0..Len(job.todo), NEW ctx, NEW P,
           SoFar(job, ctx, mappings.cache, rules, P),
           \A k \in 1..n : job.todo[k] \in job.browsed /\ CanRead(rules, job.todo[k], ctx)
                              => HasId(mappings.cache, job.todo[k])
    PROVE  LET seen == (job.browsed \ job.skipped) \ Left(job, n)
           IN  /\ job.got \cup Passed(job, n, ctx) = Listed(mappings.cache, rules, seen, ctx)
               /\ AllHaveIds(mappings.cache, rules, seen, ctx)
<1> DEFINE q == job.todo
           before == (job.browsed \ job.skipped) \ States(q)
           here   == {q[k] : k \in {i \in 1..n : q[i] \in job.browsed}}
<1>1. q \in Seq(Leafs) /\ Len(q) \in Nat /\ DOMAIN q = 1..Len(q)
  BY LenProperties DEF Walkable
<1>2. /\ job.got = Listed(mappings.cache, rules, before, ctx) /\ AllHaveIds(mappings.cache, rules, before, ctx)
      /\ \A i, j \in DOMAIN q : q[i] = q[j] => i = j
      /\ job.skipped \cap States(q) = {}
  BY DEF SoFar
<1>3. Passed(job, n, ctx) = Listed(mappings.cache, rules, here, ctx) /\ AllHaveIds(mappings.cache, rules, here, ctx)
  BY DEF Passed, Listed, Readable, AllHaveIds
<1>4. (job.browsed \ job.skipped) \ Left(job, n) = before \cup here
  <2>1. ASSUME NEW x, x \in (job.browsed \ job.skipped) \ Left(job, n), x \notin before PROVE x \in here
    <3>1. PICK k \in 1..Len(q) : x = q[k]
      BY <1>1, <2>1 DEF States
    <3>2. ~(k \in (n + 1)..Len(q))
      BY <2>1, <3>1 DEF Left
    <3>3. k \in 1..n
      BY <1>1, <3>2
    <3> QED BY <2>1, <3>1, <3>3
  <2>2. ASSUME NEW x \in before PROVE x \in (job.browsed \ job.skipped) \ Left(job, n)
    <3>1. Left(job, n) \subseteq States(q)
      BY <1>1 DEF Left, States
    <3> QED BY <3>1
  <2>3. ASSUME NEW x \in here PROVE x \in (job.browsed \ job.skipped) \ Left(job, n)
    <3>1. PICK k \in 1..n : x = q[k] /\ x \in job.browsed
      OBVIOUS
    <3>2. k \in DOMAIN q
      BY <1>1
    <3>3. x \notin job.skipped
      BY <1>2, <3>1, <3>2 DEF States
    <3>4. ASSUME x \in Left(job, n) PROVE FALSE
      <4>1. PICK l \in (n + 1)..Len(q) : x = q[l]
        BY <3>4 DEF Left
      <4>2. l \in DOMAIN q /\ l # k
        BY <1>1
      <4> QED BY <1>2, <3>1, <3>2, <4>1, <4>2
    <3> QED BY <3>1, <3>3, <3>4
  <2> QED BY <2>1, <2>2, <2>3
<1>5. job.got = Listed(mappings.cache, rules, before, ctx) /\ AllHaveIds(mappings.cache, rules, before, ctx)
  BY <1>2
<1> HIDE DEF before, here
<1>6. /\ Listed(mappings.cache, rules, before \cup here, ctx)
           = Listed(mappings.cache, rules, before, ctx) \cup Listed(mappings.cache, rules, here, ctx)
      /\ AllHaveIds(mappings.cache, rules, before \cup here, ctx)
  BY <1>3, <1>5, ListedTogether
<1>7. job.got \cup Passed(job, n, ctx) = Listed(mappings.cache, rules, before \cup here, ctx)
  BY <1>3, <1>5, <1>6
<1> QED BY <1>4, <1>6, <1>7

\* The loop was at the first state of its list: it was listed, or its mapping
\* could not be stored, and the loop is at the rest.
LEMMA SoFarAfterFirst ==
    ASSUME NEW job, NEW next, Resting(job), job.at = "storing", NEW ctx, NEW P,
           SoFar(job, ctx, mappings.cache, rules, P), ~job.torn => AtEntry(job, ctx, mappings.cache, rules),
           next.torn = job.torn, next.version = job.version, next.browsed = job.browsed,
           next.todo = Tail(job.todo),
           \/ next.skipped = job.skipped /\ next.got = job.got \cup {Entry(Head(job.todo), job.permission)}
           \/ next.skipped = job.skipped \cup {Head(job.todo)} /\ next.got = job.got
    PROVE  SoFar(next, ctx, mappings.cache, rules, P)
<1>1. CASE job.torn
  BY <1>1 DEF SoFar
<1>2. CASE ~job.torn
  <2> DEFINE q == job.todo
             h == Head(q)
             before == (job.browsed \ job.skipped) \ States(q)
             after  == (next.browsed \ next.skipped) \ States(next.todo)
  <2>1. q \in Seq(Leafs) /\ q # <<>>
    BY DEF Resting, Walkable
  <2>2. /\ Len(q) \in Nat /\ DOMAIN q = 1..Len(q) /\ 1 \in DOMAIN q /\ h = q[1]
        /\ DOMAIN Tail(q) = 1..(Len(q) - 1)
        /\ \A k \in 1..(Len(q) - 1) : Tail(q)[k] = q[k + 1]
    <3>1. Len(q) \in Nat /\ Len(q) # 0 /\ DOMAIN q = 1..Len(q)
      BY <2>1, LenProperties, EmptySeq
    <3>2. Tail(q) \in Seq(Leafs) /\ Len(Tail(q)) = Len(q) - 1
      BY <2>1, HeadTailProperties
    <3> QED BY <2>1, <3>1, <3>2, HeadTailProperties, LenProperties
  <2>3. /\ job.version = rules /\ job.got = Listed(mappings.cache, rules, before, ctx)
        /\ AllHaveIds(mappings.cache, rules, before, ctx)
        /\ \A i, j \in DOMAIN q : q[i] = q[j] => i = j
        /\ job.skipped \cap States(q) = {} /\ job.browsed \subseteq Leafs
    BY <1>2 DEF SoFar
  <2>4. h \in job.browsed /\ CanRead(rules, h, ctx) /\ HasId(mappings.cache, h)
        /\ job.permission = Resolve(rules, h, ctx)
    BY <1>2 DEF AtEntry, Readable
  <2>5. States(q) = States(Tail(q)) \cup {h} /\ h \notin States(Tail(q))
    <3>1. ASSUME NEW x \in States(q) PROVE x \in States(Tail(q)) \cup {h}
      <4>1. PICK k \in DOMAIN q : x = q[k]
        BY DEF States
      <4>2. CASE k = 1
        BY <2>2, <4>1, <4>2
      <4>3. CASE k # 1
        <5>1. k - 1 \in 1..(Len(q) - 1) /\ (k - 1) + 1 = k
          BY <2>2, <4>3
        <5>2. Tail(q)[k - 1] = x
          BY <2>2, <4>1, <5>1
        <5> QED BY <2>2, <5>1, <5>2 DEF States
      <4> QED BY <4>2, <4>3
    <3>2. ASSUME NEW x \in States(Tail(q)) PROVE x \in States(q) /\ x # h
      <4>1. PICK k \in 1..(Len(q) - 1) : x = Tail(q)[k]
        BY <2>2 DEF States
      <4>2. k + 1 \in DOMAIN q /\ k + 1 # 1 /\ x = q[k + 1]
        BY <2>2, <4>1
      <4> QED BY <2>2, <2>3, <4>2 DEF States
    <3>3. h \in States(q)
      BY <2>2 DEF States
    <3> QED BY <3>1, <3>2, <3>3
  <2>6. \A i, j \in DOMAIN Tail(q) : Tail(q)[i] = Tail(q)[j] => i = j
    <3> SUFFICES ASSUME NEW i \in DOMAIN Tail(q), NEW j \in DOMAIN Tail(q), Tail(q)[i] = Tail(q)[j]
                 PROVE  i = j
      OBVIOUS
    <3>1. i + 1 \in DOMAIN q /\ j + 1 \in DOMAIN q /\ q[i + 1] = q[j + 1] /\ i \in Nat /\ j \in Nat
      BY <2>2
    <3>2. i + 1 = j + 1
      BY <2>3, <3>1
    <3> QED BY <3>1, <3>2
  <2>7. h \notin job.skipped
    BY <2>3, <2>5
  <2>8. CASE next.skipped = job.skipped /\ next.got = job.got \cup {Entry(h, job.permission)}
    <3>1. after = before \cup {h}
      BY <2>4, <2>5, <2>7, <2>8
    <3>2. Readable(rules, {h}, ctx) = {h}
      BY <2>4 DEF Readable
    <3>3. Entry(h, job.permission) =
             [state |-> h, id |-> IdIn(mappings.cache, h), permission |-> Resolve(rules, h, ctx)]
      BY <2>4 DEF Entry, PublicId, IdIn
    <3>4. Listed(mappings.cache, rules, {h}, ctx) = {Entry(h, job.permission)} /\ AllHaveIds(mappings.cache, rules, {h}, ctx)
      BY <2>4, <3>2, <3>3 DEF Listed, AllHaveIds
    <3>5. next.skipped \cap States(next.todo) = {}
      BY <2>3, <2>5, <2>8
    <3>6. /\ next.got = Listed(mappings.cache, rules, before \cup {h}, ctx)
          /\ AllHaveIds(mappings.cache, rules, before \cup {h}, ctx)
      <4>1. AllHaveIds(mappings.cache, rules, before, ctx) /\ job.got = Listed(mappings.cache, rules, before, ctx)
        BY <2>3
      <4> HIDE DEF before, h
      <4>2. /\ Listed(mappings.cache, rules, before \cup {h}, ctx)
                  = Listed(mappings.cache, rules, before, ctx) \cup Listed(mappings.cache, rules, {h}, ctx)
            /\ AllHaveIds(mappings.cache, rules, before \cup {h}, ctx)
        BY <3>4, <4>1, ListedTogether
      <4> QED BY <2>8, <3>4, <4>1, <4>2
    <3> QED BY <1>2, <2>3, <2>6, <3>1, <3>5, <3>6 DEF SoFar
  <2>9. CASE next.skipped = job.skipped \cup {h} /\ next.got = job.got
    <3>1. after = before
      BY <2>5, <2>9
    <3>2. next.skipped \cap States(next.todo) = {}
      BY <2>3, <2>5, <2>9
    <3> QED BY <1>2, <2>3, <2>6, <2>9, <3>1, <3>2 DEF SoFar
  <2> QED BY <2>8, <2>9
<1>3. job.torn \in BOOLEAN
  BY DEF Resting, Walkable
<1> QED BY <1>1, <1>2, <1>3

\* New mappings disturb no other request.
LEMMA ExactStays ==
    ASSUME NEW M, NEW N, M \subseteq N, \A m, n \in N : m.stateId = n.stateId => m = n,
           NEW job, NEW ctx, NEW R, NEW P
    PROVE  ExactSoFar(job, ctx, M, R, P) => ExactSoFar(job, ctx, N, R, P)
<1>1. ASSUME SoFar(job, ctx, M, R, P) PROVE SoFar(job, ctx, N, R, P)
  BY <1>1, ListedStays DEF SoFar
<1>2. ASSUME AtEntry(job, ctx, M, R) PROVE AtEntry(job, ctx, N, R)
  BY <1>2, IdStays DEF AtEntry
<1> QED BY <1>1, <1>2 DEF ExactSoFar

\* The loop stops before the state whose mapping it stores: it is the first of
\* what is left.
LEMMA RestOfList ==
    ASSUME NEW q \in Seq(Leafs), NEW n \in Nat, n < Len(q)
    PROVE  LET rest == SubSeq(q, n + 1, Len(q))
           IN  /\ rest \in Seq(Leafs) /\ rest # <<>> /\ Head(rest) = q[n + 1]
               /\ States(rest) = {q[k] : k \in (n + 1)..Len(q)}
               /\ (\A i, j \in DOMAIN q : q[i] = q[j] => i = j)
                     => \A i, j \in DOMAIN rest : rest[i] = rest[j] => i = j
<1> DEFINE rest == SubSeq(q, n + 1, Len(q))
<1>1. Len(q) \in Nat /\ DOMAIN q = 1..Len(q) /\ \A k \in 1..Len(q) : q[k] \in Leafs
  BY LenProperties, ElementOfSeq
<1>2. /\ rest \in Seq(Leafs) /\ Len(rest) = Len(q) - n
      /\ \A i \in 1..(Len(q) - n) : rest[i] = q[n + i]
  <2>1. n + 1 \in Int /\ Len(q) \in Int /\ \A k \in (n + 1)..Len(q) : q[k] \in Leafs
    BY <1>1
  <2>2. /\ rest \in Seq(Leafs)
        /\ Len(rest) = IF n + 1 <= Len(q) THEN Len(q) - (n + 1) + 1 ELSE 0
        /\ \A i \in 1..(Len(q) - (n + 1) + 1) : rest[i] = q[(n + 1) + i - 1]
    BY <2>1, SubSeqProperties
  <2> HIDE DEF rest
  <2>3. ASSUME NEW i \in 1..(Len(q) - n) PROVE rest[i] = q[n + i]
    <3>1. i \in 1..(Len(q) - (n + 1) + 1) /\ (n + 1) + i - 1 = n + i
      BY <1>1
    <3> QED BY <2>2, <3>1
  <2>4. Len(rest) = Len(q) - n
    <3>1. n + 1 <= Len(q) /\ Len(q) - (n + 1) + 1 = Len(q) - n
      BY <1>1
    <3> QED BY <2>2, <3>1
  <2> QED BY <2>2, <2>3, <2>4
<1> HIDE DEF rest
<1>3. DOMAIN rest = 1..(Len(q) - n) /\ rest # <<>> /\ 1 \in 1..(Len(q) - n)
  BY <1>1, <1>2, LenProperties, EmptySeq
<1>4. Head(rest) = q[n + 1]
  BY <1>2, <1>3, HeadTailProperties
<1>5. States(rest) = {q[k] : k \in (n + 1)..Len(q)}
  <2>1. ASSUME NEW x \in States(rest) PROVE x \in {q[k] : k \in (n + 1)..Len(q)}
    <3>1. PICK i \in 1..(Len(q) - n) : x = rest[i]
      BY <1>3 DEF States
    <3>2. n + i \in (n + 1)..Len(q) /\ x = q[n + i]
      BY <1>1, <1>2, <3>1
    <3> QED BY <3>2
  <2>2. ASSUME NEW x \in {q[k] : k \in (n + 1)..Len(q)} PROVE x \in States(rest)
    <3>1. PICK k \in (n + 1)..Len(q) : x = q[k]
      OBVIOUS
    <3>2. k - n \in 1..(Len(q) - n) /\ n + (k - n) = k
      BY <1>1
    <3>3. rest[k - n] = x
      BY <1>2, <3>1, <3>2
    <3> QED BY <1>3, <3>2, <3>3 DEF States
  <2> QED BY <2>1, <2>2
<1>6. ASSUME \A i, j \in DOMAIN q : q[i] = q[j] => i = j,
             NEW i \in DOMAIN rest, NEW j \in DOMAIN rest, rest[i] = rest[j]
      PROVE  i = j
  <2>1. /\ n + i \in DOMAIN q /\ n + j \in DOMAIN q /\ i \in Nat /\ j \in Nat
        /\ q[n + i] = q[n + j]
    BY <1>1, <1>2, <1>3, <1>6
  <2>2. n + i = n + j
    BY <1>6, <2>1
  <2> QED BY <2>1, <2>2
<1> QED BY <1>2, <1>3, <1>4, <1>5, <1>6 DEF rest

\* Whatever the loop does: no state gets a second public id, and what is listed
\* and held stays exact.
LEMMA WalkKeeps ==
    ASSUME IdsInv, RequestsInv, ExactInv, UNCHANGED <<rules, past, tree>>, NEW c \in Clients, NEW job,
           Walkable(job), NEW store, store.cache = mappings.cache, Walk(c, job, store), job.for = "catalog" => SoFar(job, CtxOf[c], mappings.cache, rules, past)
    PROVE  IdsInv' /\ RequestsInv' /\ ExactInv'
<1> DEFINE ctx == CtxOf[c]
           q == job.todo
<1>1. PICK n \in 0..Len(q) :
             /\ \A k \in 1..n : q[k] \in job.browsed /\ CanRead(rules, q[k], ctx) => HasId(mappings.cache, q[k])
             /\ \/ /\ n = Len(q) /\ mappings' = store /\ ids' = ids
                   /\ AnswerCatalog(c, [job EXCEPT !.got = @ \cup Passed(job, n, ctx)])
                \/ LET s == q[n + 1] IN
                   /\ n < Len(q)
                   /\ s \in job.browsed /\ CanRead(rules, s, ctx) /\ ~Mapped(s)
                   /\ ids' = ids + 1 /\ mappings' = Update(store, c, mappings.cache \cup {[id |-> ids + 1, stateId |-> s]})
                   /\ fetch' = [fetch EXCEPT ![c] =
                         [[job EXCEPT !.got = @ \cup Passed(job, n, ctx)]
                            EXCEPT !.at = "storing", !.todo = SubSeq(q, n + 1, Len(q)),
                                   !.permission = Resolve(rules, s, ctx)]]
                   /\ held' = held
  BY WalkStops
<1>2. /\ q \in Seq(Leafs) /\ Len(q) \in Nat /\ DOMAIN q = 1..Len(q) /\ job.torn \in BOOLEAN
      /\ job.for \in {"catalog", "alarms"}
      /\ DOMAIN job = {"at", "for", "version", "todo", "got", "permission", "browsed", "skipped", "torn"}
  BY LenProperties DEF Walkable
<1>3. /\ tree \subseteq Leafs /\ DOMAIN fetch = Clients /\ DOMAIN held = Clients
      /\ \A d \in Clients : Resting(fetch[d])
      /\ \A d \in Clients : ExactSoFar(fetch[d], CtxOf[d], mappings.cache, rules, past)
      /\ \A d \in Clients : held[d] # NoCatalog => ExactFor(held[d], CtxOf[d], past)
  BY DEF RequestsInv, ExactInv
<1>4. ASSUME job.for = "catalog", ~job.torn
      PROVE  LET seen == (job.browsed \ job.skipped) \ Left(job, n)
             IN  /\ job.version = rules
                 /\ job.got \cup Passed(job, n, ctx) = Listed(mappings.cache, rules, seen, ctx)
                 /\ AllHaveIds(mappings.cache, rules, seen, ctx)
                 /\ \A i, j \in DOMAIN q : q[i] = q[j] => i = j
                 /\ job.skipped \cap States(q) = {} /\ job.browsed \subseteq Leafs
  <2>1. SoFar(job, ctx, mappings.cache, rules, past)
    BY <1>4
  <2>2. /\ job.version = rules /\ \A i, j \in DOMAIN q : q[i] = q[j] => i = j
        /\ job.skipped \cap States(q) = {} /\ job.browsed \subseteq Leafs
    BY <1>4, <2>1 DEF SoFar
  <2>3. /\ job.got \cup Passed(job, n, ctx)
              = Listed(mappings.cache, rules, (job.browsed \ job.skipped) \ Left(job, n), ctx)
        /\ AllHaveIds(mappings.cache, rules, (job.browsed \ job.skipped) \ Left(job, n), ctx)
    BY <1>1, <1>4, <2>1, PassedIsListed
  <2> QED BY <2>2, <2>3
<1>5. CASE n = Len(q) /\ mappings' = store /\ ids' = ids /\ AnswerCatalog(c, [job EXCEPT !.got = @ \cup Passed(job, n, ctx)])
  <2>0. mappings'.cache = mappings.cache /\ ids' = ids
    BY <1>5
  <2> DEFINE answer == [version |-> job.version, objects |-> job.got \cup Passed(job, n, ctx),
                        browsed |-> job.browsed, skipped |-> job.skipped, torn |-> job.torn]
  <2>1. /\ fetch' = [fetch EXCEPT ![c] = NoJob]
        /\ \/ held' = held
           \/ job.for # "alarms" /\ held' = [held EXCEPT ![c] = answer]
    BY <1>2, <1>5 DEF AnswerCatalog, AnswerVersion
  <2>2. Resting(NoJob)
    BY DEF Resting, Walkable, NoJob
  <2>3. \A R, P : ExactSoFar(NoJob, ctx, mappings.cache, R, P)
    BY DEF ExactSoFar, NoJob
  <2>4. DOMAIN fetch' = Clients /\ \A d \in Clients : fetch'[d] = fetch[d] \/ (d = c /\ fetch'[d] = NoJob)
    BY <1>3, <2>1
  <2>5. job.for = "catalog" => ExactFor(answer, ctx, past)
    <3> SUFFICES ASSUME job.for = "catalog" PROVE ExactFor(answer, ctx, past)
      OBVIOUS
    <3>1. CASE job.torn
      <4>1. job.version \in past
        BY <3>1 DEF SoFar
      <4> QED BY <3>1, <4>1 DEF ExactFor
    <3>2. CASE ~job.torn
      <4>1. Left(job, n) = {}
        BY <1>2, <1>5 DEF Left
      <4>2. (job.browsed \ job.skipped) \ Left(job, n) = job.browsed \ job.skipped
        BY <4>1
      <4>3. /\ job.version = rules
            /\ job.got \cup Passed(job, n, ctx)
                 = Listed(mappings.cache, rules, job.browsed \ job.skipped, ctx)
            /\ AllHaveIds(mappings.cache, rules, job.browsed \ job.skipped, ctx)
        BY <1>4, <3>2, <4>2
      <4>4. Exactly(job.got \cup Passed(job, n, ctx), rules, job.browsed \ job.skipped, ctx)
        BY <4>3, ListedIsExact
      <4> QED BY <3>2, <4>3, <4>4 DEF ExactFor
    <3> QED BY <1>2, <3>1, <3>2
  <2> HIDE DEF answer
  <2>6. DOMAIN held' = Clients /\ \A d \in Clients :
           held'[d] = held[d] \/ (d = c /\ job.for = "catalog" /\ held'[d] = answer)
    BY <1>2, <1>3, <2>1
  <2>7. /\ \A d \in Clients : ExactSoFar(fetch'[d], CtxOf[d], mappings.cache, rules, past)
        /\ \A d \in Clients : held'[d] # NoCatalog => ExactFor(held'[d], CtxOf[d], past)
        /\ \A d \in Clients : Resting(fetch'[d])
    <3>1. ASSUME NEW d \in Clients PROVE ExactSoFar(fetch'[d], CtxOf[d], mappings.cache, rules, past)
      BY <1>3, <2>3, <2>4
    <3>2. ASSUME NEW d \in Clients, held'[d] # NoCatalog PROVE ExactFor(held'[d], CtxOf[d], past)
      BY <1>3, <2>5, <2>6, <3>2
    <3>3. ASSUME NEW d \in Clients PROVE Resting(fetch'[d])
      BY <1>3, <2>2, <2>4
    <3> QED BY <3>1, <3>2, <3>3
  <2>8. rules' = rules /\ past' = past /\ tree' = tree
    OBVIOUS
  <2>9. IdsInv'
    BY <2>0 DEF IdsInv, IsBlockedStateId
  <2> QED BY <1>3, <2>0, <2>4, <2>6, <2>7, <2>8, <2>9 DEF RequestsInv, ExactInv
<1>6. CASE LET s == q[n + 1] IN
           /\ n < Len(q)
           /\ s \in job.browsed /\ CanRead(rules, s, ctx) /\ ~Mapped(s)
           /\ ids' = ids + 1 /\ mappings' = Update(store, c, mappings.cache \cup {[id |-> ids + 1, stateId |-> s]})
           /\ fetch' = [fetch EXCEPT ![c] =
                 [[job EXCEPT !.got = @ \cup Passed(job, n, ctx)]
                    EXCEPT !.at = "storing", !.todo = SubSeq(q, n + 1, Len(q)),
                           !.permission = Resolve(rules, s, ctx)]]
           /\ held' = held
  <2>a. mappings'.cache = mappings.cache \cup {[id |-> ids + 1, stateId |-> q[n + 1]]}
    BY <1>6 DEF Update
  <2> DEFINE s    == q[n + 1]
             rest == SubSeq(q, n + 1, Len(q))
             next == [[job EXCEPT !.got = @ \cup Passed(job, n, ctx)]
                        EXCEPT !.at = "storing", !.todo = rest, !.permission = Resolve(rules, s, ctx)]
  <2>1. /\ n < Len(q) /\ s \in job.browsed /\ CanRead(rules, s, ctx) /\ ~Mapped(s) /\ ids' = ids + 1
        /\ mappings'.cache = mappings.cache \cup {[id |-> ids + 1, stateId |-> s]}
        /\ fetch' = [fetch EXCEPT ![c] = next] /\ held' = held
    BY <1>6, <2>a
  <2>2. /\ DOMAIN next = DOMAIN job /\ next.at = "storing" /\ next.for = job.for /\ next.version = job.version
        /\ next.todo = rest /\ next.got = job.got \cup Passed(job, n, ctx)
        /\ next.permission = Resolve(rules, s, ctx) /\ next.browsed = job.browsed
        /\ next.skipped = job.skipped /\ next.torn = job.torn
    BY <1>2
  <2>3. /\ rest \in Seq(Leafs) /\ rest # <<>> /\ Head(rest) = s
        /\ States(rest) = Left(job, n)
        /\ (\A i, j \in DOMAIN q : q[i] = q[j] => i = j)
              => \A i, j \in DOMAIN rest : rest[i] = rest[j] => i = j
    <3>1. n \in Nat
      BY <1>2
    <3> QED BY <1>2, <2>1, <3>1, RestOfList DEF Left
  <2> HIDE DEF next, rest, s
  <2>4. ~IsBlockedStateId(s)
    BY <2>1, BlockedIsDenied
  <2>5. IdsInv' /\ mappings.cache \subseteq mappings'.cache /\ HasId(mappings'.cache, s)
    BY <2>1, <2>4, IdAdded
  <2>6. \A m1, m2 \in mappings'.cache : m1.stateId = m2.stateId => m1 = m2
    BY <2>5 DEF IdsInv
  <2>7. Resting(next)
    BY <1>2, <2>2, <2>3 DEF Resting, Walkable
  <2>8. DOMAIN fetch' = Clients /\ \A d \in Clients : fetch'[d] = IF d = c THEN next ELSE fetch[d]
    BY <1>3, <2>1
  <2>9. ExactSoFar(next, ctx, mappings'.cache, rules, past)
    <3> SUFFICES ASSUME job.for = "catalog"
                 PROVE  /\ SoFar(next, ctx, mappings'.cache, rules, past)
                        /\ ~job.torn => AtEntry(next, ctx, mappings'.cache, rules)
      BY <2>2 DEF ExactSoFar
    <3>1. CASE job.torn
      BY <2>2, <3>1 DEF SoFar
    <3>2. CASE ~job.torn
      <4> DEFINE seen == (job.browsed \ job.skipped) \ Left(job, n)
      <4>1. /\ job.version = rules
            /\ next.got = Listed(mappings.cache, rules, seen, ctx) /\ AllHaveIds(mappings.cache, rules, seen, ctx)
            /\ \A i, j \in DOMAIN q : q[i] = q[j] => i = j
            /\ job.skipped \cap States(q) = {} /\ job.browsed \subseteq Leafs
        BY <1>4, <2>2, <3>2
      <4>2. seen = (next.browsed \ next.skipped) \ States(next.todo)
        BY <2>2, <2>3
      <4> HIDE DEF seen
      <4>3. Listed(mappings'.cache, rules, seen, ctx) = Listed(mappings.cache, rules, seen, ctx)
            /\ AllHaveIds(mappings'.cache, rules, seen, ctx)
        <5>1. AllHaveIds(mappings.cache, rules, seen, ctx)
          BY <4>1
        <5>2. PICK M, N : M = mappings.cache /\ N = mappings'.cache
          OBVIOUS
        <5>3. M \subseteq N /\ AllHaveIds(M, rules, seen, ctx)
          BY <2>5, <5>1, <5>2
        <5>4. \A m, n1 \in N : m.stateId = n1.stateId => m = n1
          BY <2>6, <5>2
        <5>5. Listed(N, rules, seen, ctx) = Listed(M, rules, seen, ctx) /\ AllHaveIds(N, rules, seen, ctx)
          BY <5>3, <5>4, ListedStays
        <5> QED BY <5>2, <5>5
      <4>4. Left(job, n) \subseteq States(q)
        BY <1>2 DEF Left, States
      <4>5. next.skipped \cap States(next.todo) = {}
        BY <2>2, <2>3, <4>1, <4>4
      <4>6. SoFar(next, ctx, mappings'.cache, rules, past)
        BY <2>2, <2>3, <3>2, <4>1, <4>2, <4>3, <4>5 DEF SoFar
      <4>7. AtEntry(next, ctx, mappings'.cache, rules)
        BY <2>1, <2>2, <2>3, <2>5 DEF AtEntry, Readable
      <4> QED BY <4>6, <4>7
    <3> QED BY <1>2, <3>1, <3>2
  <2>10. \A d \in Clients : ExactSoFar(fetch'[d], CtxOf[d], mappings'.cache, rules, past)
    <3> SUFFICES ASSUME NEW d \in Clients PROVE ExactSoFar(fetch'[d], CtxOf[d], mappings'.cache, rules, past)
      OBVIOUS
    <3>1. CASE d = c
      BY <2>8, <2>9, <3>1
    <3>2. CASE d # c
      <4>1. fetch'[d] = fetch[d] /\ ExactSoFar(fetch[d], CtxOf[d], mappings.cache, rules, past)
        BY <1>3, <2>8, <3>2
      <4> QED BY <2>5, <2>6, <4>1, ExactStays
    <3> QED BY <3>1, <3>2
  <2>11. \A d \in Clients : held[d] # NoCatalog => ExactFor(held[d], CtxOf[d], past)
    BY <1>3
  <2>12. \A d \in Clients : Resting(fetch'[d])
    BY <1>3, <2>7, <2>8
  <2>13. rules' = rules /\ past' = past /\ tree' = tree /\ held' = held
    BY <2>1
  <2> QED BY <1>3, <2>5, <2>8, <2>10, <2>11, <2>12, <2>13 DEF RequestsInv, ExactInv
<1> QED BY <1>1, <1>5, <1>6

\* The rules change: a catalogue under way is torn, one that is held stays
\* exact for the rules of its version.
LEMMA RulesMayChange ==
    ASSUME RequestsInv, ExactInv, NEW R, RulesBecome(R), UNCHANGED <<tree, mappings, held>>
    PROVE  RequestsInv' /\ ExactInv'
<1>1. /\ past' = past \cup {rules} /\ tree' = tree /\ mappings'.cache = mappings.cache /\ held' = held /\ rules' = R
      /\ fetch' = [c \in Clients |-> [fetch[c] EXCEPT !.torn = @ \/ fetch[c].at = "storing"]]
  BY DEF RulesBecome
<1>2. /\ tree \subseteq Leafs /\ DOMAIN held = Clients
      /\ \A c \in Clients : Resting(fetch[c])
      /\ \A c \in Clients : ExactSoFar(fetch[c], CtxOf[c], mappings.cache, rules, past)
      /\ \A c \in Clients : held[c] # NoCatalog => ExactFor(held[c], CtxOf[c], past)
  BY DEF RequestsInv, ExactInv
<1>3. ASSUME NEW c \in Clients
      PROVE  Resting(fetch'[c]) /\ ExactSoFar(fetch'[c], CtxOf[c], mappings.cache, rules', past')
  <2> DEFINE job == fetch[c]
             next == fetch'[c]
  <2>1. /\ DOMAIN job = {"at", "for", "version", "todo", "got", "permission", "browsed", "skipped", "torn"}
        /\ job.torn \in BOOLEAN
    BY <1>2 DEF Resting, Walkable
  <2>2. /\ DOMAIN next = DOMAIN job /\ next.at = job.at /\ next.for = job.for /\ next.version = job.version
        /\ next.todo = job.todo /\ next.got = job.got /\ next.skipped = job.skipped
        /\ next.torn = (job.torn \/ job.at = "storing")
    BY <1>1, <2>1
  <2> HIDE DEF next
  <2>3. Resting(next)
    <3>1. Resting(job)
      BY <1>2
    <3>2. next.torn \in BOOLEAN /\ (job.at = "tree" => ~next.torn)
      BY <2>1, <2>2, <3>1 DEF Resting
    <3> QED BY <2>1, <2>2, <3>1, <3>2 DEF Resting, Walkable
  <2>4. ASSUME job.for = "catalog", job.at = "storing" PROVE next.torn /\ job.version \in past'
    <3>1. SoFar(job, CtxOf[c], mappings.cache, rules, past)
      BY <1>2, <2>4 DEF ExactSoFar
    <3>2. CASE job.torn
      BY <1>1, <2>2, <3>1, <3>2 DEF SoFar
    <3>3. CASE ~job.torn
      BY <1>1, <2>2, <2>4, <3>1, <3>3 DEF SoFar
    <3> QED BY <2>1, <3>2, <3>3
  <2>5. ExactSoFar(next, CtxOf[c], mappings.cache, rules', past')
    BY <2>2, <2>4 DEF ExactSoFar, SoFar
  <2> QED BY <2>3, <2>5 DEF next
<1>4. ASSUME NEW c \in Clients, held[c] # NoCatalog PROVE ExactFor(held[c], CtxOf[c], past')
  <2>1. ExactFor(held[c], CtxOf[c], past)
    BY <1>2, <1>4
  <2> QED BY <1>1, <2>1 DEF ExactFor
<1>5. DOMAIN fetch' = Clients
  BY <1>1
<1> QED BY <1>1, <1>2, <1>3, <1>4, <1>5 DEF RequestsInv, ExactInv

\* One request begins or ends, and nothing else happens.
LEMMA OneFetchChanges ==
    ASSUME IdsInv, RequestsInv, ExactInv, UNCHANGED <<rules, past, tree, ids, held>>, mappings'.cache = mappings.cache, NEW c \in Clients, NEW job,
           fetch' = [fetch EXCEPT ![c] = job], Resting(job), ExactSoFar(job, CtxOf[c], mappings.cache, rules, past)
    PROVE  IdsInv' /\ RequestsInv' /\ ExactInv'
<1>1. DOMAIN fetch = Clients /\ \A d \in Clients : fetch'[d] = IF d = c THEN job ELSE fetch[d]
  BY DEF RequestsInv
<1>2. \A d \in Clients : Resting(fetch'[d]) /\ ExactSoFar(fetch'[d], CtxOf[d], mappings.cache, rules, past)
  BY <1>1 DEF RequestsInv, ExactInv
<1>3. /\ rules' = rules /\ past' = past /\ tree' = tree /\ mappings'.cache = mappings.cache /\ held' = held
      /\ ids' = ids /\ DOMAIN fetch' = Clients
  BY <1>1
<1>4. IdsInv'
  BY <1>3 DEF IdsInv, IsBlockedStateId
<1> QED BY <1>2, <1>3, <1>4 DEF RequestsInv, ExactInv

\* The walk through the tree begins: nothing is listed yet.
LEMMA TreeArrivesKeeps ==
    ASSUME IdsInv, RequestsInv, ExactInv, NEW c \in Clients, TreeArrives(c)
    PROVE  IdsInv' /\ RequestsInv' /\ ExactInv'
<1> DEFINE job == [fetch[c] EXCEPT !.version = rules, !.todo = Leaves, !.browsed = BrowseObjectTree]
<1>1. /\ Resting(fetch[c]) /\ fetch[c].at = "tree" /\ Walk(c, job, mappings) /\ tree \subseteq Leafs
      /\ rules' = rules /\ past' = past /\ tree' = tree
  BY DEF RequestsInv, TreeArrives, ruleVars
<1>2. /\ DOMAIN fetch[c] = {"at", "for", "version", "todo", "got", "permission", "browsed", "skipped", "torn"}
      /\ fetch[c].for = "catalog" /\ fetch[c].got = {} /\ fetch[c].skipped = {} /\ fetch[c].torn = FALSE
  BY <1>1 DEF Resting, Walkable
<1>3. /\ DOMAIN job = DOMAIN fetch[c] /\ job.for = "catalog" /\ job.got = {} /\ job.skipped = {}
      /\ job.torn = FALSE /\ job.version = rules /\ job.todo = Leaves /\ job.browsed = BrowseObjectTree
  BY <1>2
<1> HIDE DEF job
<1>4. Walkable(job)
  BY <1>2, <1>3, CatalogAssumption DEF Walkable
<1>5. job.browsed \subseteq Leafs /\ States(job.todo) = Leafs
  BY <1>1, <1>3 DEF BrowseObjectTree, States, Leafs
<1>6. SoFar(job, CtxOf[c], mappings.cache, rules, past)
  <2>1. (job.browsed \ job.skipped) \ States(job.todo) = {}
    BY <1>5
  <2>2. /\ Listed(mappings.cache, rules, {}, CtxOf[c]) = {} /\ AllHaveIds(mappings.cache, rules, {}, CtxOf[c])
    BY DEF Listed, AllHaveIds, Readable
  <2>3. \A i, j \in DOMAIN job.todo : job.todo[i] = job.todo[j] => i = j
    BY <1>3, CatalogAssumption
  <2> QED BY <1>3, <1>5, <2>1, <2>2, <2>3 DEF SoFar
<1> QED BY <1>1, <1>4, <1>6, WalkKeeps

\* The walk through the alarms: no catalogue is built, but ids are given.
LEMMA AskAlarmEventsKeeps ==
    ASSUME IdsInv, RequestsInv, ExactInv, NEW c \in Clients, AskAlarmEvents(c)
    PROVE  IdsInv' /\ RequestsInv' /\ ExactInv'
<1> DEFINE job == [NoJob EXCEPT !.for = "alarms", !.todo = AlarmLog, !.browsed = ToSet(AlarmLog)]
<1>1. Walk(c, job, mappings) /\ rules' = rules /\ past' = past /\ tree' = tree
  BY DEF AskAlarmEvents, ruleVars
<1>2. /\ DOMAIN job = {"at", "for", "version", "todo", "got", "permission", "browsed", "skipped", "torn"}
      /\ job.for = "alarms" /\ job.todo = AlarmLog /\ job.torn = FALSE
  BY DEF NoJob
<1> HIDE DEF job
<1>3. Walkable(job)
  BY <1>2, CatalogAssumption DEF Walkable
<1> QED BY <1>1, <1>2, <1>3, WalkKeeps

\* A request that was storing a mapping goes on with the rest.
LEMMA GoesOn ==
    ASSUME IdsInv, RequestsInv, ExactInv, NEW c \in Clients, fetch[c].at = "storing", NEW next, NEW store, store.cache = mappings.cache, Walk(c, next, store),
           UNCHANGED <<rules, past, tree>>,
           DOMAIN next = DOMAIN fetch[c], next.for = fetch[c].for,
           next.torn = fetch[c].torn, next.version = fetch[c].version, next.browsed = fetch[c].browsed,
           next.todo = Tail(fetch[c].todo),
           \/ /\ next.skipped = fetch[c].skipped
              /\ next.got = fetch[c].got \cup {Entry(Head(fetch[c].todo), fetch[c].permission)}
           \/ next.skipped = fetch[c].skipped \cup {Head(fetch[c].todo)} /\ next.got = fetch[c].got
    PROVE  IdsInv' /\ RequestsInv' /\ ExactInv'
<1> DEFINE job == fetch[c]
<1>1. Resting(job) /\ ExactSoFar(job, CtxOf[c], mappings.cache, rules, past)
  BY DEF RequestsInv, ExactInv
<1>2. job.todo \in Seq(Leafs) /\ job.todo # <<>>
  BY <1>1 DEF Resting, Walkable
<1>3. Tail(job.todo) \in Seq(Leafs)
  BY <1>2, HeadTailProperties
<1>4. Walkable(next)
  BY <1>1, <1>3 DEF Resting, Walkable
<1>5. next.for = "catalog" => SoFar(next, CtxOf[c], mappings.cache, rules, past)
  <2> SUFFICES ASSUME job.for = "catalog" PROVE SoFar(next, CtxOf[c], mappings.cache, rules, past)
    OBVIOUS
  <2>1. SoFar(job, CtxOf[c], mappings.cache, rules, past) /\ (~job.torn => AtEntry(job, CtxOf[c], mappings.cache, rules))
    BY <1>1 DEF ExactSoFar
  <2> QED BY <1>1, <2>1, SoFarAfterFirst
<1> QED BY <1>4, <1>5, WalkKeeps

\* The entry of the saved mapping is listed.
LEMMA MappingSavedKeeps ==
    ASSUME IdsInv, RequestsInv, ExactInv, NEW c \in Clients, MappingSaved(c)
    PROVE  IdsInv' /\ RequestsInv' /\ ExactInv'
<1> DEFINE job  == fetch[c]
           next == [job EXCEPT !.todo = Tail(@), !.got = @ \cup {Entry(Head(job.todo), job.permission)}]
<1>1. /\ job.at = "storing" /\ Walk(c, next, Landed(mappings)) /\ rules' = rules /\ past' = past /\ tree' = tree
      /\ Resting(job)
  BY DEF RequestsInv, MappingSaved, ruleVars
<1>2. DOMAIN job = {"at", "for", "version", "todo", "got", "permission", "browsed", "skipped", "torn"}
  BY <1>1 DEF Resting, Walkable
<1>3. /\ DOMAIN next = DOMAIN job /\ next.for = job.for /\ next.torn = job.torn /\ next.version = job.version
      /\ next.browsed = job.browsed /\ next.todo = Tail(job.todo) /\ next.skipped = job.skipped
      /\ next.got = job.got \cup {Entry(Head(job.todo), job.permission)}
  BY <1>2
<1>4. Landed(mappings).cache = mappings.cache
  BY DEF Landed
<1> HIDE DEF next
<1> QED BY <1>1, <1>3, <1>4, GoesOn

\* The entry of the rejected mapping is left out, or the request ends.
LEMMA MappingRejectedKeeps ==
    ASSUME IdsInv, RequestsInv, ExactInv, NEW c \in Clients, MappingRejected(c)
    PROVE  IdsInv' /\ RequestsInv' /\ ExactInv'
<1> DEFINE job  == fetch[c]
           next == [job EXCEPT !.todo = Tail(@), !.skipped = @ \cup {Head(job.todo)}]
<1>1. /\ job.at = "storing" /\ rules' = rules /\ past' = past /\ tree' = tree /\ Resting(job)
  BY DEF RequestsInv, MappingRejected, ruleVars
<1>2. DOMAIN job = {"at", "for", "version", "todo", "got", "permission", "browsed", "skipped", "torn"}
  BY <1>1 DEF Resting, Walkable
<1>0. Rejected(mappings).cache = mappings.cache
  BY DEF Rejected
<1>3. CASE /\ fetch' = [fetch EXCEPT ![c] = NoJob] /\ held' = held
           /\ mappings' = Rejected(mappings) /\ ids' = ids
  <2>1. Resting(NoJob) /\ ExactSoFar(NoJob, CtxOf[c], mappings.cache, rules, past)
    BY DEF Resting, Walkable, NoJob, ExactSoFar
  <2>2. mappings'.cache = mappings.cache
    BY <1>0, <1>3
  <2> QED BY <1>1, <1>3, <2>1, <2>2, OneFetchChanges
<1>4. CASE Walk(c, next, Rejected(mappings))
  <2>1. /\ DOMAIN next = DOMAIN job /\ next.for = job.for /\ next.torn = job.torn /\ next.version = job.version
        /\ next.browsed = job.browsed /\ next.todo = Tail(job.todo) /\ next.got = job.got
        /\ next.skipped = job.skipped \cup {Head(job.todo)}
    BY <1>2
  <2> HIDE DEF next
  <2> QED BY <1>0, <1>1, <1>4, <2>1, GoesOn
<1>5. \/ /\ fetch' = [fetch EXCEPT ![c] = NoJob] /\ held' = held
         /\ mappings' = Rejected(mappings) /\ ids' = ids
      \/ Walk(c, next, Rejected(mappings))
  BY DEF MappingRejected
<1> QED BY <1>3, <1>4, <1>5

\* A restart ends the requests; what is held stays exact for its version.
LEMMA RestartKeepsIds ==
    ASSUME IdsInv, RequestsInv, ExactInv, CatalogRestarts, mappings.disk \subseteq mappings.cache
    PROVE  IdsInv' /\ RequestsInv' /\ ExactInv'
<1>1. /\ past' = past \cup {rules} /\ tree' = tree /\ ids' = ids /\ held' = held
      /\ fetch' = [c \in Clients |-> NoJob] /\ mappings' = Reloaded(mappings)
  BY DEF CatalogRestarts
<1>2. mappings'.cache = mappings.disk
  BY <1>1 DEF Reloaded, Loaded
<1>3. IdsInv'
  BY <1>1, <1>2 DEF IdsInv, IsBlockedStateId
<1>4. RequestsInv'
  <2>1. Resting(NoJob)
    BY DEF Resting, Walkable, NoJob
  <2> QED BY <1>1, <2>1 DEF RequestsInv
<1>5. \A c \in Clients : ExactSoFar(fetch'[c], CtxOf[c], mappings'.cache, rules', past')
  BY <1>1 DEF ExactSoFar, NoJob
<1>6. ASSUME NEW c \in Clients, held[c] # NoCatalog PROVE ExactFor(held[c], CtxOf[c], past')
  <2>1. ExactFor(held[c], CtxOf[c], past)
    BY <1>6 DEF ExactInv
  <2> QED BY <1>1, <2>1 DEF ExactFor
<1> QED BY <1>1, <1>3, <1>4, <1>5, <1>6 DEF ExactInv

\* The three together are inductive, as long as what is saved is in the cache.
LEMMA CatalogStep ==
    ASSUME IdsInv, RequestsInv, ExactInv, CatalogNext, mappings.disk \subseteq mappings.cache
    PROVE  IdsInv' /\ RequestsInv' /\ ExactInv'
<1>1. ASSUME NEW R, RulesBecome(R), UNCHANGED <<tree, mappings, ids, held>>
      PROVE  IdsInv' /\ RequestsInv' /\ ExactInv'
  <2>1. IdsInv'
    BY <1>1 DEF IdsInv, IsBlockedStateId
  <2> QED BY <1>1, <2>1, RulesMayChange
<1>2. ASSUME UNCHANGED <<rules, past, mappings, ids, fetch, held>>, tree' \subseteq Leafs
      PROVE  IdsInv' /\ RequestsInv' /\ ExactInv'
  BY <1>2 DEF IdsInv, IsBlockedStateId, RequestsInv, ExactInv
<1>3. ASSUME NEW body, Create(body) PROVE IdsInv' /\ RequestsInv' /\ ExactInv'
  BY <1>1, <1>3 DEF Create, idVars
<1>4. tree \subseteq Leafs
  BY DEF RequestsInv
<1>5. ASSUME NEW b \in Bodies, CreateRule(b) PROVE IdsInv' /\ RequestsInv' /\ ExactInv'
  BY <1>3, <1>5 DEF CreateRule
<1>6. ASSUME NEW k \in DOMAIN rules, NEW p \in Patches, UpdateRule(k, p) PROVE IdsInv' /\ RequestsInv' /\ ExactInv'
  BY <1>1, <1>6 DEF UpdateRule, idVars
<1>7. ASSUME NEW k \in DOMAIN rules, DeleteRule(k) PROVE IdsInv' /\ RequestsInv' /\ ExactInv'
  BY <1>1, <1>7 DEF DeleteRule, idVars
<1>8. ASSUME NEW o \in Owners, CreateProfile(o) PROVE IdsInv' /\ RequestsInv' /\ ExactInv'
  BY <1>2, <1>4, <1>8 DEF CreateProfile, ruleVars, idVars
<1>9. ASSUME NEW o \in Owners, StartApply(o) PROVE IdsInv' /\ RequestsInv' /\ ExactInv'
  BY <1>3, <1>9 DEF StartApply
<1>10. CASE DeleteProfile
  BY <1>2, <1>4, <1>10 DEF DeleteProfile, ruleVars, idVars
<1>11. CASE ApplyNext
  <2>1. \/ UNCHANGED <<ruleVars, tree, idVars, fetch, held, failures>>
        \/ Create(Spread(Head(applying.left), applying.owner))
    BY <1>11 DEF ApplyNext
  <2>2. CASE UNCHANGED <<ruleVars, tree, idVars, fetch, held, failures>>
    BY <1>2, <1>4, <2>2 DEF ruleVars, idVars
  <2> QED BY <1>3, <2>1, <2>2
<1>12. CASE ApplyFails
  BY <1>2, <1>4, <1>12 DEF ApplyFails, ruleVars, idVars
<1>13. ASSUME NEW c \in Clients, AskCatalog(c) PROVE IdsInv' /\ RequestsInv' /\ ExactInv'
  <2> DEFINE job == [NoJob EXCEPT !.at = "tree"]
  <2>1. Resting(job) /\ ExactSoFar(job, CtxOf[c], mappings.cache, rules, past)
    BY DEF Resting, Walkable, NoJob, ExactSoFar
  <2>2. /\ fetch' = [fetch EXCEPT ![c] = job] /\ rules' = rules /\ past' = past /\ tree' = tree
        /\ mappings' = mappings /\ ids' = ids /\ held' = held
    BY <1>13 DEF AskCatalog, ruleVars, idVars
  <2> HIDE DEF job
  <2> QED BY <2>1, <2>2, OneFetchChanges
<1>14. ASSUME NEW s \in Leafs, LeafAppears(s) PROVE IdsInv' /\ RequestsInv' /\ ExactInv'
  BY <1>2, <1>4, <1>14 DEF LeafAppears, ruleVars, idVars
<1>15. CASE CatalogRestarts
  BY <1>15, RestartKeepsIds
<1> QED BY <1>5, <1>6, <1>7, <1>8, <1>9, <1>10, <1>11, <1>12, <1>13, <1>14, <1>15,
           TreeArrivesKeeps, AskAlarmEventsKeeps, MappingSavedKeeps, MappingRejectedKeeps DEF CatalogNext

----------------------------------------------------------------------------
(* The ids that are handed out, and those that are saved                  *)

\* An entry names its state, or its id was lost before it was saved.
Given(o) == Means(o.id, o.state) \/ o.id \in Lost \ savedIds

NamesInv == \A c \in Clients :
    /\ \A o \in fetch[c].got : Means(o.id, o.state)
    /\ held[c] # NoCatalog => \A o \in held[c].objects : Given(o)

Pair == [id : Nat, stateId : Leafs]

PairSets == SUBSET Pair

Knows(i) == {M \in PairSets : \E m \in M : m.id = i}

\* The mapping that c stores, as the first of its list, is in every version
\* from c's write on.
Storing(store, c, s) == \E m \in store.cache : m.stateId = s /\ Since(store, c, {M \in PairSets : m \in M})

\* A store of mappings that W are waiting for: it only grows, and the ids I
\* are saved for good.
Growing(store, W, I) ==
    /\ store \in Collections(PairSets, Clients) /\ Single(store, Clients) /\ Waiting(store) = W
    /\ Everywhere(store, SUBSET store.cache)
    /\ \A i \in I : Everywhere(store, Knows(i))

StoringClients == {c \in Clients : fetch[c].at = "storing"}

StoreInv ==
    /\ Growing(mappings, StoringClients, savedIds)
    /\ \A c \in StoringClients : Storing(mappings, c, Head(fetch[c].todo))

\* What is saved is in the cache.
LEMMA GrowingFacts ==
    ASSUME NEW store, NEW W, NEW I, Growing(store, W, I)
    PROVE  /\ store.disk \subseteq store.cache /\ store.cache \in PairSets /\ store.disk \in PairSets
           /\ \A i \in I : \E m \in store.disk : m.id = i
<1>1. store \in Collections(PairSets, Clients)
  BY DEF Growing
<1>2. /\ store.cache \in PairSets /\ store.disk \in PairSets
      /\ \A S : Everywhere(store, S) => store.disk \in S
  BY <1>1, VersionFacts
<1>3. store.disk \in SUBSET store.cache
  BY <1>2 DEF Growing
<1>4. ASSUME NEW i \in I PROVE store.disk \in Knows(i)
  BY <1>2, <1>4 DEF Growing
<1> QED BY <1>2, <1>3, <1>4 DEF Knows, PairSets

\* What an update of the mappings keeps.
LEMMA MappingPut ==
    ASSUME NEW store \in Collections(PairSets, Clients), NEW c \in Clients, NEW C \in PairSets,
           Single(store, Clients), c \notin Waiting(store), NEW to, to = Update(store, c, C)
    PROVE  /\ to \in Collections(PairSets, Clients) /\ to.cache = C /\ Waiting(to) = Waiting(store) \cup {c}
           /\ \A S : Everywhere(store, S) /\ C \in S => Everywhere(to, S)
           /\ \A S, d : Since(store, d, S) /\ (d = c => C \in S) /\ (store.cache \in S => C \in S)
                            => Since(to, d, S)
           /\ Single(to, Clients)
<1>1. /\ to \in Collections(PairSets, Clients) /\ to.cache = C /\ to.disk = store.disk
      /\ Waiting(to) = Waiting(store) \cup {c}
      /\ \A S : Everywhere(store, S) /\ C \in S => Everywhere(to, S)
      /\ \A S, b : /\ Since(store, b, S)
                   /\ b = c => C \in S
                   /\ store.cache \in S => C \in S
                   => Since(to, b, S)
      /\ \A H : Single(store, H) /\ (c \in H => c \notin Waiting(store)) => Single(to, H)
  BY UpdateFacts
<1> QED BY <1>1

\* c puts the mapping p, and others go on storing theirs.
Adds(store, c, p, to) == to = Update(store, c, store.cache \cup {p})

OthersStore(store, to, c) == \A d, s : Storing(store, d, s) /\ d # c => Storing(to, d, s)

\* A new mapping is put.
LEMMA GrowingPut ==
    ASSUME NEW store, NEW W, NEW I, Growing(store, W, I), NEW c \in Clients, c \notin W,
           NEW p \in Pair, NEW to, Adds(store, c, p, to)
    PROVE  /\ Growing(to, W \cup {c}, I)
           /\ Storing(to, c, p.stateId)
           /\ OthersStore(store, to, c)
<1> DEFINE C == store.cache \cup {p}
<1>1. /\ store \in Collections(PairSets, Clients) /\ Single(store, Clients) /\ Waiting(store) = W
      /\ Everywhere(store, SUBSET store.cache)
  BY DEF Growing
<1>2. store.cache \in PairSets /\ C \in PairSets
  <2>1. store.cache \in PairSets
    BY <1>1, VersionFacts
  <2> QED BY <2>1 DEF PairSets
<1> HIDE DEF C
<1>3. /\ to \in Collections(PairSets, Clients) /\ to.cache = C /\ Waiting(to) = W \cup {c}
      /\ \A S : Everywhere(store, S) /\ C \in S => Everywhere(to, S)
      /\ \A S, d : Since(store, d, S) /\ (d = c => C \in S) /\ (store.cache \in S => C \in S)
                       => Since(to, d, S)
      /\ Single(to, Clients)
  <2>1. to = Update(store, c, C)
    BY DEF C, Adds
  <2> QED BY <1>1, <1>2, <2>1, MappingPut
<1>4. Everywhere(to, SUBSET C)
  <2>1. SUBSET store.cache \subseteq SUBSET C
    BY DEF C
  <2>2. Everywhere(store, SUBSET C)
    BY <1>1, <2>1, VersionFacts
  <2>3. C \in SUBSET C
    OBVIOUS
  <2> QED BY <1>3, <2>2, <2>3
<1>5. ASSUME NEW i \in I PROVE Everywhere(to, Knows(i))
  <2>1. Everywhere(store, Knows(i))
    BY <1>5 DEF Growing
  <2>2. store.cache \in Knows(i)
    BY <1>1, <2>1, VersionFacts
  <2>3. C \in Knows(i)
    BY <1>2, <2>2 DEF Knows, C, PairSets
  <2> QED BY <1>3, <2>1, <2>3
<1>6. Growing(to, W \cup {c}, I)
  BY <1>3, <1>4, <1>5 DEF Growing
<1>7. Storing(to, c, p.stateId)
  <2> DEFINE S == {M \in PairSets : p \in M}
  <2>1. Since(store, c, S)
    BY <1>1, VersionFacts
  <2>2. C \in S
    BY <1>2 DEF C
  <2>3. Since(to, c, S)
    BY <1>3, <2>1, <2>2
  <2>4. p \in to.cache
    BY <1>3 DEF C
  <2> QED BY <2>3, <2>4 DEF Storing
<1>8. ASSUME NEW d, NEW s, Storing(store, d, s), d # c PROVE Storing(to, d, s)
  <2>1. PICK m \in store.cache : m.stateId = s /\ Since(store, d, {M \in PairSets : m \in M})
    BY <1>8 DEF Storing
  <2> DEFINE S == {M \in PairSets : m \in M}
  <2>2. store.cache \in S => C \in S
    BY <1>2 DEF C
  <2>3. Since(to, d, S)
    BY <1>3, <1>8, <2>1, <2>2
  <2>4. m \in to.cache
    BY <1>3 DEF C
  <2> QED BY <2>1, <2>3, <2>4 DEF Storing
<1> QED BY <1>6, <1>7, <1>8 DEF OthersStore

\* The oldest write settles: if it lands, the mapping is saved for good.
LEMMA GrowingSettles ==
    ASSUME NEW store, NEW W, NEW I, Growing(store, W, I), NEW c, Settles(store, c),
           NEW to, to \in {Landed(store), Rejected(store)}
    PROVE  /\ Growing(to, W \ {c}, I) /\ to.cache = store.cache
           /\ \A d, s : Storing(store, d, s) => Storing(to, d, s)
           /\ \A i : to = Landed(store) /\ Since(store, c, Knows(i)) => Everywhere(to, Knows(i))
<1>1. /\ store \in Collections(PairSets, Clients) /\ Single(store, Clients) /\ Waiting(store) = W
      /\ Everywhere(store, SUBSET store.cache)
  BY DEF Growing
<1>2. /\ store.writes # <<>> /\ Head(store.writes).by = c
      /\ to \in Collections(PairSets, Clients) /\ c \in Clients /\ to.cache = store.cache
      /\ Waiting(to) \subseteq Waiting(store) /\ Single(to, Clients) /\ c \notin Waiting(to)
      /\ \A b \in Waiting(store) : b # c => b \in Waiting(to)
      /\ \A S : to = Landed(store) /\ Since(store, c, S) => Everywhere(to, S)
  BY <1>1, OldestFacts DEF Settles
<1>3. /\ \A S : Everywhere(store, S) => Everywhere(to, S)
      /\ \A S, b : Since(store, b, S) => Since(to, b, S)
  <2>1. CASE to = Landed(store)
    BY <1>1, <1>2, <2>1, LandedFacts
  <2>2. CASE to = Rejected(store)
    BY <1>1, <1>2, <2>2, RejectedFacts
  <2> QED BY <2>1, <2>2
<1>4. Waiting(to) = W \ {c}
  BY <1>1, <1>2
<1>5. Growing(to, W \ {c}, I)
  BY <1>1, <1>2, <1>3, <1>4 DEF Growing
<1>6. \A d, s : Storing(store, d, s) => Storing(to, d, s)
  BY <1>2, <1>3 DEF Storing
<1> QED BY <1>2, <1>5, <1>6

\* More mappings, or more of them saved: what was named stays so.
LEMMA NamesStay ==
    ASSUME IdsInv, savedIds' \subseteq savedIds \cup {m.id : m \in mappings.cache},
           \/ ids' = ids /\ mappings'.cache = mappings.cache
           \/ /\ ids' = ids + 1
              /\ \E s : mappings'.cache = mappings.cache \cup {[id |-> ids + 1, stateId |-> s]}
    PROVE  /\ \A i, s : Means(i, s) => Means(i, s)'
           /\ \A o : Given(o) => Given(o)'
<1>1. mappings.cache \subseteq mappings'.cache
  OBVIOUS
<1>2. \A i, s : Means(i, s) => Means(i, s)'
  BY <1>1 DEF Means
<1>3. ASSUME NEW i \in Lost \ savedIds PROVE i \in Lost' \ savedIds'
  <2>1. i \in 1..ids /\ ids \in Nat /\ \A m \in mappings.cache : m.id # i
    BY <1>3 DEF Lost, IdsInv
  <2>2. i \in 1..ids' /\ i # ids + 1
    BY <2>1
  <2>3. \A m \in mappings'.cache : m \in mappings.cache \/ m.id = ids + 1
    OBVIOUS
  <2>4. \A m \in mappings'.cache : m.id # i
    BY <2>1, <2>2, <2>3
  <2>5. i \notin savedIds'
    BY <1>3, <2>1
  <2> QED BY <2>2, <2>4, <2>5 DEF Lost
<1>4. ASSUME NEW o, Given(o) PROVE Given(o)'
  BY <1>2, <1>3, <1>4 DEF Given
<1> QED BY <1>2, <1>4

\* What the loop passed has its ids.
LEMMA PassedIsNamed ==
    ASSUME NEW job, NEW n, NEW ctx,
           \A k \in 1..n : job.todo[k] \in job.browsed /\ CanRead(rules, job.todo[k], ctx)
                              => HasId(mappings.cache, job.todo[k])
    PROVE  \A o \in Passed(job, n, ctx) : Means(o.id, o.state)
<1> SUFFICES ASSUME NEW o \in Passed(job, n, ctx) PROVE Means(o.id, o.state)
  OBVIOUS
<1>1. PICK k \in 1..n : /\ job.todo[k] \in job.browsed /\ CanRead(rules, job.todo[k], ctx)
                        /\ o.state = job.todo[k] /\ o.id = IdIn(mappings.cache, job.todo[k])
  BY DEF Passed
<1>2. \E m \in mappings.cache : m.stateId = job.todo[k]
  BY <1>1 DEF HasId
<1>3. IdIn(mappings.cache, job.todo[k]) = (CHOOSE m \in mappings.cache : m.stateId = job.todo[k]).id
  BY DEF IdIn
<1> QED BY <1>1, <1>2, <1>3 DEF Means

\* Whatever the loop does, its ids are good ones.
LEMMA WalkNames ==
    ASSUME IdsInv, RequestsInv, ExactInv, NamesInv, NEW c \in Clients, NEW job, Walkable(job),
           NEW store, store.cache = mappings.cache, Walk(c, job, store),
           \A o \in job.got : Means(o.id, o.state),
           savedIds' \subseteq savedIds \cup {m.id : m \in mappings.cache}
    PROVE  NamesInv'
<1> DEFINE ctx == CtxOf[c]
           q == job.todo
<1>1. PICK n \in 0..Len(q) :
             /\ \A k \in 1..n : q[k] \in job.browsed /\ CanRead(rules, q[k], ctx) => HasId(mappings.cache, q[k])
             /\ \/ /\ n = Len(q) /\ mappings' = store /\ ids' = ids
                   /\ AnswerCatalog(c, [job EXCEPT !.got = @ \cup Passed(job, n, ctx)])
                \/ LET s == q[n + 1] IN
                   /\ n < Len(q)
                   /\ s \in job.browsed /\ CanRead(rules, s, ctx) /\ ~Mapped(s)
                   /\ ids' = ids + 1 /\ mappings' = Update(store, c, mappings.cache \cup {[id |-> ids + 1, stateId |-> s]})
                   /\ fetch' = [fetch EXCEPT ![c] =
                         [[job EXCEPT !.got = @ \cup Passed(job, n, ctx)]
                            EXCEPT !.at = "storing", !.todo = SubSeq(q, n + 1, Len(q)),
                                   !.permission = Resolve(rules, s, ctx)]]
                   /\ held' = held
  BY WalkStops
<1>2. DOMAIN job = {"at", "for", "version", "todo", "got", "permission", "browsed", "skipped", "torn"}
  BY DEF Walkable
<1>3. \A o \in job.got \cup Passed(job, n, ctx) : Means(o.id, o.state)
  BY <1>1, PassedIsNamed
<1>4. /\ \A i, s : Means(i, s) => Means(i, s)'
      /\ \A o : Given(o) => Given(o)'
  <2>1. \/ ids' = ids /\ mappings'.cache = mappings.cache
        \/ ids' = ids + 1 /\ \E s : mappings'.cache = mappings.cache \cup {[id |-> ids + 1, stateId |-> s]}
    <3>1. CASE ids' = ids /\ mappings' = store
      BY <3>1
    <3>2. CASE /\ ids' = ids + 1
               /\ mappings' = Update(store, c, mappings.cache \cup {[id |-> ids + 1, stateId |-> q[n + 1]]})
      <4>1. mappings'.cache = mappings.cache \cup {[id |-> ids + 1, stateId |-> q[n + 1]]}
        BY <3>2 DEF Update
      <4> QED BY <3>2, <4>1
    <3> QED BY <1>1, <3>1, <3>2
  <2> QED BY <2>1, NamesStay
<1>5. DOMAIN fetch = Clients /\ DOMAIN held = Clients
  BY DEF RequestsInv, ExactInv
<1>6. /\ \A d \in Clients : fetch'[d] = fetch[d] \/ fetch'[d].got \subseteq job.got \cup Passed(job, n, ctx)
      /\ \A d \in Clients : held'[d] = held[d] \/ held'[d].objects = job.got \cup Passed(job, n, ctx)
  <2> DEFINE walked == [job EXCEPT !.got = @ \cup Passed(job, n, ctx)]
             next == [walked EXCEPT !.at = "storing", !.todo = SubSeq(q, n + 1, Len(q)),
                                    !.permission = Resolve(rules, q[n + 1], ctx)]
  <2>1. walked.got = job.got \cup Passed(job, n, ctx) /\ DOMAIN walked = DOMAIN job
    BY <1>2
  <2>2. AnswerCatalog(c, walked) \/ (fetch' = [fetch EXCEPT ![c] = next] /\ held' = held)
    BY <1>1
  <2> HIDE DEF walked
  <2>3. next.got = walked.got
    BY <1>2, <2>1
  <2> HIDE DEF next
  <2>4. NoJob.got = {}
    BY DEF NoJob
  <2>5. CASE AnswerCatalog(c, walked)
    BY <1>5, <2>1, <2>4, <2>5 DEF AnswerCatalog
  <2>6. CASE fetch' = [fetch EXCEPT ![c] = next] /\ held' = held
    BY <1>5, <2>1, <2>3, <2>6
  <2> QED BY <2>2, <2>5, <2>6
<1>7. ASSUME NEW d \in Clients PROVE \A o \in fetch'[d].got : Means(o.id, o.state)'
  <2>1. \A o \in fetch'[d].got : Means(o.id, o.state)
    BY <1>3, <1>6 DEF NamesInv
  <2> QED BY <1>4, <2>1
<1>8. ASSUME NEW d \in Clients, held'[d] # NoCatalog PROVE \A o \in held'[d].objects : Given(o)'
  <2>1. \A o \in held'[d].objects : Given(o)
    BY <1>3, <1>6, <1>8 DEF NamesInv, Given
  <2> QED BY <1>4, <2>1
<1> QED BY <1>7, <1>8 DEF NamesInv

\* Whatever the loop does: the store grows by what c stores.
LEMMA WalkStores ==
    ASSUME IdsInv, RequestsInv, NEW c \in Clients, NEW job, Walkable(job),
           NEW store, store.cache = mappings.cache, Walk(c, job, store),
           Growing(store, StoringClients \ {c}, savedIds'),
           \A d \in StoringClients \ {c} : Storing(store, d, Head(fetch[d].todo))
    PROVE  StoreInv'
<1> DEFINE ctx == CtxOf[c]
           q == job.todo
<1>1. PICK n \in 0..Len(q) :
             /\ \A k \in 1..n : q[k] \in job.browsed /\ CanRead(rules, q[k], ctx) => HasId(mappings.cache, q[k])
             /\ \/ /\ n = Len(q) /\ mappings' = store /\ ids' = ids
                   /\ AnswerCatalog(c, [job EXCEPT !.got = @ \cup Passed(job, n, ctx)])
                \/ LET s == q[n + 1] IN
                   /\ n < Len(q)
                   /\ s \in job.browsed /\ CanRead(rules, s, ctx) /\ ~Mapped(s)
                   /\ ids' = ids + 1 /\ mappings' = Update(store, c, mappings.cache \cup {[id |-> ids + 1, stateId |-> s]})
                   /\ fetch' = [fetch EXCEPT ![c] =
                         [[job EXCEPT !.got = @ \cup Passed(job, n, ctx)]
                            EXCEPT !.at = "storing", !.todo = SubSeq(q, n + 1, Len(q)),
                                   !.permission = Resolve(rules, s, ctx)]]
                   /\ held' = held
  BY WalkStops
<1>2. /\ q \in Seq(Leafs) /\ Len(q) \in Nat /\ DOMAIN q = 1..Len(q)
      /\ DOMAIN job = {"at", "for", "version", "todo", "got", "permission", "browsed", "skipped", "torn"}
  BY LenProperties DEF Walkable
<1>3. DOMAIN fetch = Clients
  BY DEF RequestsInv
<1>4. ASSUME mappings' = store, AnswerCatalog(c, [job EXCEPT !.got = @ \cup Passed(job, n, ctx)])
      PROVE  StoreInv'
  <2>1. fetch' = [fetch EXCEPT ![c] = NoJob]
    BY <1>4 DEF AnswerCatalog
  <2>2. NoJob.at = "idle"
    BY DEF NoJob
  <2>3. \A d \in Clients : fetch'[d] = IF d = c THEN NoJob ELSE fetch[d]
    BY <1>3, <2>1
  <2>4. StoringClients' = StoringClients \ {c}
    BY <2>2, <2>3 DEF StoringClients
  <2>5. \A d \in StoringClients \ {c} : fetch'[d] = fetch[d]
    BY <2>3 DEF StoringClients
  <2>6. Growing(mappings', StoringClients', savedIds')
    BY <1>4, <2>4
  <2>7. \A d \in StoringClients' : Storing(mappings', d, Head(fetch'[d].todo))
    BY <1>4, <2>4, <2>5
  <2> QED BY <2>6, <2>7 DEF StoreInv
<1>5. ASSUME n < Len(q),
             mappings' = Update(store, c, mappings.cache \cup {[id |-> ids + 1, stateId |-> q[n + 1]]}),
             fetch' = [fetch EXCEPT ![c] =
                      [[job EXCEPT !.got = @ \cup Passed(job, n, ctx)]
                         EXCEPT !.at = "storing", !.todo = SubSeq(q, n + 1, Len(q)),
                                !.permission = Resolve(rules, q[n + 1], ctx)]]
      PROVE  StoreInv'
  <2> DEFINE first == [job EXCEPT !.got = @ \cup Passed(job, n, ctx)]
             next  == [first EXCEPT !.at = "storing", !.todo = SubSeq(q, n + 1, Len(q)),
                                    !.permission = Resolve(rules, q[n + 1], ctx)]
             p == [id |-> ids + 1, stateId |-> q[n + 1]]
  <2>1. fetch' = [fetch EXCEPT ![c] = next] /\ mappings' = Update(store, c, store.cache \cup {p})
    BY <1>5
  <2>2. DOMAIN first = DOMAIN job
    BY <1>2
  <2> HIDE DEF first
  <2>3. next.at = "storing" /\ next.todo = SubSeq(q, n + 1, Len(q))
    BY <1>2, <2>2
  <2> HIDE DEF next
  <2>4. Head(SubSeq(q, n + 1, Len(q))) = q[n + 1]
    <3>1. n \in Nat
      BY <1>2
    <3> QED BY <1>2, <1>5, <3>1, RestOfList
  <2>5. p \in Pair /\ p.stateId = q[n + 1]
    <3>1. q[n + 1] \in Leafs /\ ids + 1 \in Nat
      BY <1>2, <1>5 DEF IdsInv
    <3> QED BY <3>1 DEF Pair
  <2> HIDE DEF p
  <2>6. PICK to : to = mappings'
    OBVIOUS
  <2>7. /\ Growing(to, (StoringClients \ {c}) \cup {c}, savedIds') /\ Storing(to, c, p.stateId)
        /\ \A d, s : Storing(store, d, s) /\ d # c => Storing(to, d, s)
    <3>1. to = Update(store, c, store.cache \cup {p}) /\ c \notin StoringClients \ {c}
      BY <2>1, <2>6
    <3>2. PICK W, I : W = StoringClients \ {c} /\ I = savedIds'
      OBVIOUS
    <3>3. Growing(store, W, I) /\ c \notin W
      BY <3>1, <3>2
    <3>4. PICK r \in Pair : r = p
      BY <2>5
    <3>5. Adds(store, c, r, to)
      BY <3>1, <3>4 DEF Adds
    <3>6. /\ Growing(to, W \cup {c}, I)
          /\ Storing(to, c, r.stateId)
          /\ OthersStore(store, to, c)
      BY <3>3, <3>5, GrowingPut
    <3> QED BY <3>2, <3>4, <3>6 DEF OthersStore
  <2>8. \A d \in Clients : fetch'[d] = IF d = c THEN next ELSE fetch[d]
    BY <1>3, <2>1
  <2>9. StoringClients' = (StoringClients \ {c}) \cup {c}
    BY <2>3, <2>8 DEF StoringClients
  <2>10. ASSUME NEW d \in StoringClients' PROVE Storing(to, d, Head(fetch'[d].todo))
    <3>1. CASE d = c
      BY <2>3, <2>4, <2>5, <2>7, <2>8, <3>1
    <3>2. CASE d # c
      <4>1. d \in StoringClients \ {c} /\ fetch'[d] = fetch[d]
        BY <2>8, <2>9, <2>10, <3>2 DEF StoringClients
      <4> QED BY <2>7, <3>2, <4>1
    <3> QED BY <3>1, <3>2
  <2> QED BY <2>6, <2>7, <2>9, <2>10 DEF StoreInv
<1> QED BY <1>1, <1>4, <1>5

\* Nothing of this happens: what is named and stored stays so.
LEMMA NothingStored ==
    ASSUME NamesInv, StoreInv, UNCHANGED <<mappings, ids, savedIds, held>>,
           \A c \in Clients : /\ fetch'[c].got \subseteq fetch[c].got
                              /\ fetch'[c].at = "storing" <=> fetch[c].at = "storing"
                              /\ fetch'[c].at = "storing" => fetch'[c].todo = fetch[c].todo
    PROVE  NamesInv' /\ StoreInv'
<1>1. mappings' = mappings /\ ids' = ids /\ savedIds' = savedIds /\ held' = held
  OBVIOUS
<1>2. NamesInv'
  <2>1. ASSUME NEW c \in Clients PROVE \A o \in fetch'[c].got : Means(o.id, o.state)'
    BY <1>1, <2>1 DEF NamesInv, Means
  <2>2. ASSUME NEW c \in Clients, held'[c] # NoCatalog PROVE \A o \in held'[c].objects : Given(o)'
    BY <1>1, <2>2 DEF NamesInv, Given, Means, Lost
  <2> QED BY <2>1, <2>2 DEF NamesInv
<1>3. StoringClients' = StoringClients
  BY DEF StoringClients
<1>4. \A c \in StoringClients : fetch'[c].todo = fetch[c].todo
  BY DEF StoringClients
<1>5. StoreInv'
  BY <1>1, <1>3, <1>4 DEF StoreInv
<1> QED BY <1>2, <1>5

\* A catalogue under way is torn, if at all.
LEMMA RulesNameNothing ==
    ASSUME RequestsInv, NamesInv, StoreInv, NEW R, RulesBecome(R), UNCHANGED <<idVars, held>>
    PROVE  NamesInv' /\ StoreInv'
<1>1. fetch' = [c \in Clients |-> [fetch[c] EXCEPT !.torn = @ \/ fetch[c].at = "storing"]]
  BY DEF RulesBecome
<1>2. \A c \in Clients : fetch'[c].got = fetch[c].got /\ fetch'[c].at = fetch[c].at /\ fetch'[c].todo = fetch[c].todo
  BY <1>1 DEF RequestsInv, Resting, Walkable
<1>3. UNCHANGED <<mappings, ids, savedIds, held>>
  BY DEF idVars
<1> QED BY <1>2, <1>3, NothingStored

\* A request begins with an empty list, and with the store as it is.
LEMMA FirstWalk ==
    ASSUME IdsInv, RequestsInv, ExactInv, NamesInv, StoreInv, NEW c \in Clients, fetch[c].at # "storing",
           NEW job, Walkable(job), job.got = {}, Walk(c, job, mappings), savedIds' = savedIds
    PROVE  NamesInv' /\ StoreInv'
<1>1. StoringClients \ {c} = StoringClients
  BY DEF StoringClients
<1>2. Growing(mappings, StoringClients \ {c}, savedIds')
  BY <1>1 DEF StoreInv
<1>3. \A d \in StoringClients \ {c} : Storing(mappings, d, Head(fetch[d].todo))
  BY DEF StoreInv
<1>4. StoreInv'
  BY <1>2, <1>3, WalkStores
<1>5. \A o \in job.got : Means(o.id, o.state)
  OBVIOUS
<1>6. savedIds' \subseteq savedIds \cup {m.id : m \in mappings.cache}
  OBVIOUS
<1>7. NamesInv'
  BY <1>5, <1>6, WalkNames
<1> QED BY <1>4, <1>7

\* The tree has arrived: the first walk of a catalogue.
LEMMA TreeArrivesStores ==
    ASSUME IdsInv, RequestsInv, ExactInv, NamesInv, StoreInv, NEW c \in Clients, TreeArrives(c)
    PROVE  NamesInv' /\ StoreInv'
<1> DEFINE job == [fetch[c] EXCEPT !.version = rules, !.todo = Leaves, !.browsed = BrowseObjectTree]
<1>1. Resting(fetch[c]) /\ fetch[c].at = "tree" /\ Walk(c, job, mappings) /\ savedIds' = savedIds
  BY DEF RequestsInv, TreeArrives
<1>2. /\ DOMAIN fetch[c] = {"at", "for", "version", "todo", "got", "permission", "browsed", "skipped", "torn"}
      /\ fetch[c].got = {} /\ fetch[c].for = "catalog" /\ fetch[c].torn = FALSE
  BY <1>1 DEF Resting, Walkable
<1>3. /\ DOMAIN job = DOMAIN fetch[c] /\ job.got = {} /\ job.for = "catalog" /\ job.torn = FALSE
      /\ job.todo = Leaves
  BY <1>2
<1> HIDE DEF job
<1>4. Walkable(job)
  BY <1>2, <1>3, CatalogAssumption DEF Walkable
<1>5. fetch[c].at # "storing"
  BY <1>1
<1> QED BY <1>1, <1>3, <1>4, <1>5, FirstWalk

\* A list of alarms walks at once.
LEMMA AskAlarmEventsStores ==
    ASSUME IdsInv, RequestsInv, ExactInv, NamesInv, StoreInv, NEW c \in Clients, AskAlarmEvents(c)
    PROVE  NamesInv' /\ StoreInv'
<1> DEFINE job == [NoJob EXCEPT !.for = "alarms", !.todo = AlarmLog, !.browsed = ToSet(AlarmLog)]
<1>1. Walk(c, job, mappings) /\ savedIds' = savedIds /\ fetch[c].at # "storing"
  BY DEF AskAlarmEvents
<1>2. /\ DOMAIN job = {"at", "for", "version", "todo", "got", "permission", "browsed", "skipped", "torn"}
      /\ job.for = "alarms" /\ job.todo = AlarmLog /\ job.torn = FALSE /\ job.got = {}
  BY DEF NoJob
<1> HIDE DEF job
<1>3. Walkable(job)
  BY <1>2, CatalogAssumption DEF Walkable
<1> QED BY <1>1, <1>2, <1>3, FirstWalk

\* The mapping that c has been storing, and the rest of its list.
LEMMA StoredMapping ==
    ASSUME IdsInv, RequestsInv, StoreInv, NEW c \in Clients, fetch[c].at = "storing"
    PROVE  /\ \E m \in mappings.cache :
                 /\ m.stateId = Head(fetch[c].todo) /\ m.id = PublicId(Head(fetch[c].todo))
                 /\ Since(mappings, c, Knows(m.id))
           /\ Tail(fetch[c].todo) \in Seq(Leafs)
<1> DEFINE s == Head(fetch[c].todo)
<1>1. Resting(fetch[c])
  BY DEF RequestsInv
<1>2. Tail(fetch[c].todo) \in Seq(Leafs)
  <2>1. fetch[c].todo \in Seq(Leafs) /\ fetch[c].todo # <<>>
    BY <1>1 DEF Resting, Walkable
  <2> QED BY <2>1, HeadTailProperties
<1>3. Storing(mappings, c, s)
  BY DEF StoreInv, StoringClients
<1>4. PICK m \in mappings.cache : m.stateId = s /\ Since(mappings, c, {M \in PairSets : m \in M})
  BY <1>3 DEF Storing
<1>5. m.id = PublicId(s)
  <2>1. \A n \in mappings.cache : n.stateId = s => n = m
    BY <1>4 DEF IdsInv
  <2>2. (CHOOSE n \in mappings.cache : n.stateId = s) = m
    BY <1>4, <2>1
  <2> QED BY <2>2 DEF PublicId
<1>6. Since(mappings, c, Knows(m.id))
  <2>1. {M \in PairSets : m \in M} \subseteq Knows(m.id)
    BY DEF Knows
  <2>2. mappings \in Collections(PairSets, Clients)
    BY DEF StoreInv, Growing
  <2>3. PICK S : S = {M \in PairSets : m \in M}
    OBVIOUS
  <2>4. Since(mappings, c, S) /\ S \subseteq Knows(m.id)
    BY <1>4, <2>1, <2>3
  <2> QED BY <2>2, <2>4, VersionFacts
<1> QED BY <1>2, <1>4, <1>5, <1>6

\* The oldest write settles, and the request goes on.
LEMMA SettledWalk ==
    ASSUME IdsInv, RequestsInv, ExactInv, NamesInv, StoreInv, NEW c \in Clients, Settles(mappings, c),
           NEW to, to \in {Landed(mappings), Rejected(mappings)},
           NEW job, Walkable(job), Walk(c, job, to), \A o \in job.got : Means(o.id, o.state),
           \A i \in savedIds' : i \in savedIds \/ (to = Landed(mappings) /\ Since(mappings, c, Knows(i))
                                                     /\ \E m \in mappings.cache : m.id = i)
    PROVE  NamesInv' /\ StoreInv'
<1>1. Growing(mappings, StoringClients, savedIds)
  BY DEF StoreInv
<1>2. /\ Growing(to, StoringClients \ {c}, savedIds) /\ to.cache = mappings.cache
      /\ \A d, s : Storing(mappings, d, s) => Storing(to, d, s)
      /\ \A i : to = Landed(mappings) /\ Since(mappings, c, Knows(i)) => Everywhere(to, Knows(i))
  BY <1>1, GrowingSettles
<1>3. \A i \in savedIds' : Everywhere(to, Knows(i))
  BY <1>2 DEF Growing
<1>4. Growing(to, StoringClients \ {c}, savedIds')
  BY <1>2, <1>3 DEF Growing
<1>5. \A d \in StoringClients \ {c} : Storing(to, d, Head(fetch[d].todo))
  BY <1>2 DEF StoreInv
<1>6. StoreInv'
  BY <1>2, <1>4, <1>5, WalkStores
<1>7. savedIds' \subseteq savedIds \cup {m.id : m \in mappings.cache}
  OBVIOUS
<1>8. NamesInv'
  BY <1>2, <1>7, WalkNames
<1> QED BY <1>6, <1>8

\* A mapping of its own is saved: the walk goes on with its id.
LEMMA MappingSavedStores ==
    ASSUME IdsInv, RequestsInv, ExactInv, NamesInv, StoreInv, NEW c \in Clients, MappingSaved(c)
    PROVE  NamesInv' /\ StoreInv'
<1> DEFINE job  == fetch[c]
           next == [job EXCEPT !.todo = Tail(@), !.got = @ \cup {Entry(Head(job.todo), job.permission)}]
<1>1. /\ job.at = "storing" /\ Settles(mappings, c) /\ Walk(c, next, Landed(mappings)) /\ Resting(job)
      /\ savedIds' = savedIds \cup {PublicId(Head(job.todo))}
  BY DEF RequestsInv, MappingSaved
<1>2. PICK m \in mappings.cache :
         /\ m.stateId = Head(job.todo) /\ m.id = PublicId(Head(job.todo)) /\ Since(mappings, c, Knows(m.id))
  BY <1>1, StoredMapping
<1>3. Tail(job.todo) \in Seq(Leafs)
  BY <1>1, StoredMapping
<1>4. /\ DOMAIN job = {"at", "for", "version", "todo", "got", "permission", "browsed", "skipped", "torn"}
      /\ job.for \in {"catalog", "alarms"} /\ job.torn \in BOOLEAN
  BY <1>1 DEF Resting, Walkable
<1>5. /\ DOMAIN next = DOMAIN job /\ next.for = job.for /\ next.torn = job.torn /\ next.todo = Tail(job.todo)
      /\ next.got = job.got \cup {Entry(Head(job.todo), job.permission)}
  BY <1>4
<1> HIDE DEF next
<1>6. Walkable(next)
  BY <1>3, <1>4, <1>5 DEF Walkable
<1>7. \A o \in next.got : Means(o.id, o.state)
  <2>1. \A o \in job.got : Means(o.id, o.state)
    BY DEF NamesInv
  <2>2. PICK e : e = Entry(Head(job.todo), job.permission)
    OBVIOUS
  <2>3. e.id = m.id /\ e.state = m.stateId
    BY <1>2, <2>2 DEF Entry
  <2>4. Means(e.id, e.state)
    BY <2>3 DEF Means
  <2> QED BY <1>5, <2>1, <2>2, <2>4
<1>8. PICK to : to = Landed(mappings)
  OBVIOUS
<1>9. \A i \in savedIds' : i \in savedIds \/ (to = Landed(mappings) /\ Since(mappings, c, Knows(i))
                                                /\ \E n \in mappings.cache : n.id = i)
  BY <1>1, <1>2, <1>8
<1>10. to \in {Landed(mappings), Rejected(mappings)} /\ Walk(c, next, to) /\ Settles(mappings, c)
  BY <1>1, <1>8
<1> QED BY <1>6, <1>7, <1>9, <1>10, SettledWalk

\* The write of a mapping is rejected: the walk goes on without the entry.
LEMMA MappingRejectedStores ==
    ASSUME IdsInv, RequestsInv, ExactInv, NamesInv, StoreInv, NEW c \in Clients, MappingRejected(c)
    PROVE  NamesInv' /\ StoreInv'
<1> DEFINE job  == fetch[c]
           next == [job EXCEPT !.todo = Tail(@), !.skipped = @ \cup {Head(job.todo)}]
<1>1. job.at = "storing" /\ Settles(mappings, c) /\ Resting(job) /\ savedIds' = savedIds
  BY DEF RequestsInv, MappingRejected
<1>2. PICK to : to = Rejected(mappings)
  OBVIOUS
<1>3. \/ fetch' = [fetch EXCEPT ![c] = NoJob] /\ held' = held /\ mappings' = to /\ ids' = ids
      \/ Walk(c, next, to)
  BY <1>2 DEF MappingRejected
<1>4. DOMAIN job = {"at", "for", "version", "todo", "got", "permission", "browsed", "skipped", "torn"}
  BY <1>1 DEF Resting, Walkable
<1>5. CASE Walk(c, next, to)
  <2>1. Tail(job.todo) \in Seq(Leafs)
    BY <1>1, StoredMapping
  <2>2. /\ DOMAIN next = DOMAIN job /\ next.for = job.for /\ next.torn = job.torn /\ next.todo = Tail(job.todo)
        /\ next.got = job.got
    BY <1>4
  <2> HIDE DEF next
  <2>3. Walkable(next)
    BY <1>1, <1>4, <2>1, <2>2 DEF Resting, Walkable
  <2>4. \A o \in next.got : Means(o.id, o.state)
    BY <2>2 DEF NamesInv
  <2>5. to \in {Landed(mappings), Rejected(mappings)}
    BY <1>2
  <2>6. \A i \in savedIds' : i \in savedIds \/ (to = Landed(mappings) /\ Since(mappings, c, Knows(i))
                                                  /\ \E n \in mappings.cache : n.id = i)
    BY <1>1
  <2> QED BY <1>1, <1>5, <2>3, <2>4, <2>5, <2>6, SettledWalk
<1>6. CASE fetch' = [fetch EXCEPT ![c] = NoJob] /\ held' = held /\ mappings' = to /\ ids' = ids
  <2>1. Growing(mappings, StoringClients, savedIds) /\ to \in {Landed(mappings), Rejected(mappings)}
    BY <1>2 DEF StoreInv
  <2>2. /\ Growing(to, StoringClients \ {c}, savedIds) /\ to.cache = mappings.cache
        /\ \A d, s : Storing(mappings, d, s) => Storing(to, d, s)
    BY <1>1, <2>1, GrowingSettles
  <2>3. \A d \in Clients : fetch'[d] = IF d = c THEN NoJob ELSE fetch[d]
    BY <1>6 DEF RequestsInv
  <2>4. NoJob.at = "idle" /\ NoJob.got = {}
    BY DEF NoJob
  <2>5. StoringClients' = StoringClients \ {c}
    BY <2>3, <2>4 DEF StoringClients
  <2>6. \A d \in StoringClients \ {c} : fetch'[d] = fetch[d]
    BY <2>3 DEF StoringClients
  <2>7. Growing(mappings', StoringClients', savedIds')
    BY <1>1, <1>6, <2>2, <2>5
  <2>8. \A d \in StoringClients' : Storing(mappings', d, Head(fetch'[d].todo))
    BY <1>6, <2>2, <2>5, <2>6 DEF StoreInv
  <2>9. mappings'.cache = mappings.cache /\ ids' = ids /\ savedIds' = savedIds /\ held' = held
    BY <1>1, <1>6, <2>2
  <2>10. ASSUME NEW d \in Clients PROVE \A o \in fetch'[d].got : Means(o.id, o.state)'
    BY <2>3, <2>4, <2>9 DEF NamesInv, Means
  <2>11. ASSUME NEW d \in Clients, held'[d] # NoCatalog PROVE \A o \in held'[d].objects : Given(o)'
    BY <2>9, <2>11 DEF NamesInv, Given, Means, Lost
  <2> QED BY <2>7, <2>8, <2>10, <2>11 DEF NamesInv, StoreInv
<1> QED BY <1>3, <1>5, <1>6

\* A restart: the mappings that were saved are all there are, and the id of
\* every other one is forgotten.
LEMMA RestartStores ==
    ASSUME IdsInv, RequestsInv, ExactInv, NamesInv, StoreInv, CatalogRestarts
    PROVE  NamesInv' /\ StoreInv'
<1>1. /\ fetch' = [c \in Clients |-> NoJob] /\ mappings' = Loaded(mappings.disk)
      /\ ids' = ids /\ savedIds' = savedIds /\ held' = held
  BY DEF CatalogRestarts, Reloaded
<1>2. PICK D : D = mappings.disk
  OBVIOUS
<1>3. /\ D \subseteq mappings.cache /\ D \in PairSets /\ \A i \in savedIds : \E m \in D : m.id = i
  BY <1>2, GrowingFacts DEF StoreInv
<1>4. PICK to : to = mappings'
  OBVIOUS
<1>5. /\ to \in Collections(PairSets, Clients) /\ to.cache = D /\ Waiting(to) = {}
      /\ \A S : D \in S => Everywhere(to, S)
      /\ Single(to, Clients)
  <2>1. to = Loaded(D)
    BY <1>1, <1>2, <1>4
  <2>2. /\ to \in Collections(PairSets, Clients) /\ to.cache = D /\ to.disk = D
        /\ Waiting(to) = {}
        /\ \A S : D \in S => Everywhere(to, S)
        /\ \A S, b : Since(to, b, S)
        /\ \A H : Single(to, H)
    BY <1>3, <2>1, LoadedFacts
  <2> QED BY <2>2
<1>6. NoJob.at = "idle" /\ NoJob.got = {}
  BY DEF NoJob
<1>7. StoringClients' = {}
  BY <1>1, <1>6 DEF StoringClients
<1>8. ASSUME NEW i \in savedIds PROVE Everywhere(to, Knows(i))
  BY <1>3, <1>5, <1>8 DEF Knows
<1>9. Growing(to, {}, savedIds)
  BY <1>5, <1>8 DEF Growing
<1>10. StoreInv'
  BY <1>1, <1>4, <1>7, <1>9 DEF StoreInv
<1>11. ASSUME NEW o, Given(o) PROVE Given(o)'
  <2>1. \A m \in D : m \in mappings'.cache
    BY <1>4, <1>5
  <2>2. \A m \in mappings'.cache : m \in D /\ m \in mappings.cache
    BY <1>3, <1>4, <1>5
  <2>3. CASE Means(o.id, o.state)
    <3>1. PICK m \in mappings.cache : m.id = o.id /\ m.stateId = o.state
      BY <2>3 DEF Means
    <3>2. m.id \in 1..ids /\ \A n \in mappings.cache : n.id = m.id => n = m
      BY DEF IdsInv
    <3>3. CASE m \in D
      BY <2>1, <3>1, <3>3 DEF Given, Means
    <3>4. CASE m \notin D
      <4>1. \A n \in mappings'.cache : n.id # m.id
        BY <2>2, <3>2, <3>4
      <4>2. m.id \notin savedIds
        BY <1>3, <3>2, <3>4
      <4> QED BY <1>1, <3>1, <3>2, <4>1, <4>2 DEF Given, Lost
    <3> QED BY <3>3, <3>4
  <2>4. CASE o.id \in Lost \ savedIds
    <3>1. o.id \in 1..ids /\ \A n \in mappings.cache : n.id # o.id
      BY <2>4 DEF Lost
    <3>2. \A n \in mappings'.cache : n.id # o.id
      BY <2>2, <3>1
    <3> QED BY <1>1, <2>4, <3>1, <3>2 DEF Given, Lost
  <2> QED BY <1>11, <2>3, <2>4 DEF Given
<1>12. \A c \in Clients : fetch'[c].got = {}
  BY <1>1, <1>6
<1>13. NamesInv'
  BY <1>1, <1>11, <1>12 DEF NamesInv
<1> QED BY <1>10, <1>13

\* The two are inductive, given what a catalogue lists.
LEMMA NamesStep ==
    ASSUME IdsInv, RequestsInv, ExactInv, NamesInv, StoreInv, CatalogNext
    PROVE  NamesInv' /\ StoreInv'
<1>1. ASSUME NEW R, RulesBecome(R), UNCHANGED <<idVars, held>> PROVE NamesInv' /\ StoreInv'
  BY <1>1, RulesNameNothing
<1>2. ASSUME UNCHANGED <<idVars, fetch, held>> PROVE NamesInv' /\ StoreInv'
  <2>1. UNCHANGED <<mappings, ids, savedIds, held>> /\ fetch' = fetch
    BY <1>2 DEF idVars
  <2>2. \A c \in Clients : /\ fetch'[c].got \subseteq fetch[c].got
                           /\ fetch'[c].at = "storing" <=> fetch[c].at = "storing"
                           /\ fetch'[c].at = "storing" => fetch'[c].todo = fetch[c].todo
    BY <2>1
  <2> QED BY <2>1, <2>2, NothingStored
<1>3. ASSUME NEW body, Create(body) PROVE NamesInv' /\ StoreInv'
  BY <1>1, <1>3 DEF Create
<1>4. ASSUME NEW b \in Bodies, CreateRule(b) PROVE NamesInv' /\ StoreInv'
  BY <1>3, <1>4 DEF CreateRule
<1>5. ASSUME NEW k \in DOMAIN rules, NEW p \in Patches, UpdateRule(k, p) PROVE NamesInv' /\ StoreInv'
  BY <1>1, <1>5 DEF UpdateRule
<1>6. ASSUME NEW k \in DOMAIN rules, DeleteRule(k) PROVE NamesInv' /\ StoreInv'
  BY <1>1, <1>6 DEF DeleteRule
<1>7. ASSUME NEW o \in Owners, CreateProfile(o) PROVE NamesInv' /\ StoreInv'
  BY <1>2, <1>7 DEF CreateProfile
<1>8. ASSUME NEW o \in Owners, StartApply(o) PROVE NamesInv' /\ StoreInv'
  BY <1>3, <1>8 DEF StartApply
<1>9. CASE DeleteProfile
  BY <1>2, <1>9 DEF DeleteProfile
<1>10. CASE ApplyNext
  <2>1. \/ UNCHANGED <<ruleVars, tree, idVars, fetch, held, failures>>
        \/ Create(Spread(Head(applying.left), applying.owner))
    BY <1>10 DEF ApplyNext
  <2>2. CASE UNCHANGED <<ruleVars, tree, idVars, fetch, held, failures>>
    BY <1>2, <2>2
  <2> QED BY <1>3, <2>1, <2>2
<1>11. CASE ApplyFails
  BY <1>2, <1>11 DEF ApplyFails
<1>12. ASSUME NEW c \in Clients, AskCatalog(c) PROVE NamesInv' /\ StoreInv'
  <2> DEFINE job == [NoJob EXCEPT !.at = "tree"]
  <2>1. job.at = "tree" /\ job.got = {}
    BY DEF NoJob
  <2>2. /\ fetch' = [fetch EXCEPT ![c] = job] /\ fetch[c].at = "idle"
        /\ UNCHANGED <<mappings, ids, savedIds, held>>
    BY <1>12 DEF AskCatalog, idVars
  <2> HIDE DEF job
  <2>3. \A d \in Clients : fetch'[d] = IF d = c THEN job ELSE fetch[d]
    BY <2>2 DEF RequestsInv
  <2>4. \A d \in Clients : /\ fetch'[d].got \subseteq fetch[d].got
                           /\ fetch'[d].at = "storing" <=> fetch[d].at = "storing"
                           /\ fetch'[d].at = "storing" => fetch'[d].todo = fetch[d].todo
    <3> SUFFICES ASSUME NEW d \in Clients
                 PROVE  /\ fetch'[d].got \subseteq fetch[d].got
                        /\ fetch'[d].at = "storing" <=> fetch[d].at = "storing"
                        /\ fetch'[d].at = "storing" => fetch'[d].todo = fetch[d].todo
      OBVIOUS
    <3>1. CASE d = c
      BY <2>1, <2>2, <2>3, <3>1
    <3>2. CASE d # c
      BY <2>3, <3>2
    <3> QED BY <3>1, <3>2
  <2> QED BY <2>2, <2>4, NothingStored
<1>13. ASSUME NEW s \in Leafs, LeafAppears(s) PROVE NamesInv' /\ StoreInv'
  BY <1>2, <1>13 DEF LeafAppears
<1> QED BY <1>4, <1>5, <1>6, <1>7, <1>8, <1>9, <1>10, <1>11, <1>12, <1>13, TreeArrivesStores,
           AskAlarmEventsStores, MappingSavedStores, MappingRejectedStores, RestartStores DEF CatalogNext

CatalogInv == IdsInv /\ RequestsInv /\ ExactInv /\ NamesInv /\ StoreInv

\* Nothing is asked for, nothing stored.
LEMMA CatalogStart == CatalogInit => CatalogInv
<1> SUFFICES ASSUME CatalogInit PROVE CatalogInv
  OBVIOUS
<1>1. /\ fetch = [c \in Clients |-> NoJob] /\ held = [c \in Clients |-> NoCatalog]
      /\ mappings = Loaded({}) /\ ids = 0 /\ savedIds = {} /\ tree = FirstLeaves
  BY DEF CatalogInit
<1>2. mappings.cache = {}
  BY <1>1 DEF Loaded
<1>3. IdsInv
  BY <1>1, <1>2 DEF IdsInv
<1>4. Resting(NoJob) /\ (\A ctx, R, P : ExactSoFar(NoJob, ctx, {}, R, P)) /\ NoJob.at = "idle" /\ NoJob.got = {}
  BY DEF Resting, Walkable, NoJob, ExactSoFar
<1>5. RequestsInv
  BY <1>1, <1>4, CatalogAssumption DEF RequestsInv
<1>6. ExactInv
  BY <1>1, <1>2, <1>4 DEF ExactInv
<1>7. NamesInv
  BY <1>1, <1>4 DEF NamesInv
<1>8. StoreInv
  <2>1. PICK to, D : to = mappings /\ D = {}
    OBVIOUS
  <2>2. to = Loaded(D) /\ D \in PairSets
    BY <1>1, <2>1 DEF PairSets
  <2>3. /\ to \in Collections(PairSets, Clients) /\ to.cache = D /\ to.disk = D
        /\ Waiting(to) = {}
        /\ \A S : D \in S => Everywhere(to, S)
        /\ \A S, b : Since(to, b, S)
        /\ \A H : Single(to, H)
    BY <2>2, LoadedFacts
  <2>4. StoringClients = {}
    BY <1>1, <1>4 DEF StoringClients
  <2>5. Growing(to, {}, {})
    BY <2>3 DEF Growing
  <2> QED BY <1>1, <2>1, <2>4, <2>5 DEF StoreInv
<1> QED BY <1>3, <1>5, <1>6, <1>7, <1>8 DEF CatalogInv

\* The invariant goes through every step of the catalogue.
LEMMA CatalogInvStep == CatalogInv /\ [CatalogNext]_catalogVars => CatalogInv'
<1>1. ASSUME CatalogInv, CatalogNext PROVE CatalogInv'
  <2>1. mappings.disk \subseteq mappings.cache
    BY <1>1, GrowingFacts DEF CatalogInv, StoreInv
  <2>2. IdsInv' /\ RequestsInv' /\ ExactInv'
    BY <1>1, <2>1, CatalogStep DEF CatalogInv
  <2>3. NamesInv' /\ StoreInv'
    BY <1>1, NamesStep DEF CatalogInv
  <2> QED BY <2>2, <2>3 DEF CatalogInv
<1>2. ASSUME CatalogInv, UNCHANGED catalogVars PROVE CatalogInv'
  <2>1. IdsInv' /\ RequestsInv' /\ ExactInv'
    BY <1>2 DEF CatalogInv, catalogVars, ruleVars, idVars, IdsInv, IsBlockedStateId, RequestsInv, ExactInv
  <2>2. UNCHANGED <<mappings, ids, savedIds, held>> /\ fetch' = fetch
    BY <1>2 DEF catalogVars, idVars
  <2>3. \A c \in Clients : /\ fetch'[c].got \subseteq fetch[c].got
                           /\ fetch'[c].at = "storing" <=> fetch[c].at = "storing"
                           /\ fetch'[c].at = "storing" => fetch'[c].todo = fetch[c].todo
    BY <2>2
  <2>4. NamesInv' /\ StoreInv'
    BY <1>2, <2>2, <2>3, NothingStored DEF CatalogInv
  <2> QED BY <2>1, <2>4 DEF CatalogInv
<1> QED BY <1>1, <1>2

\* The inductive invariant of the catalogue (src/catalog/index.ts), over
\* rejected writes and restarts: what is listed and under way is exact for
\* its version; the store of the mappings only grows until a restart, and
\* then back to what contains every id whose own write had returned.
THEOREM CatalogInvariant == CatalogSpec => []CatalogInv
<1> QED BY CatalogStart, CatalogInvStep, PTL DEF CatalogSpec

\* Distinct states have distinct ids, for good once they are saved.
LEMMA IdsAreUnique == CatalogInv => OneIdPerState
<1> SUFFICES ASSUME CatalogInv PROVE OneIdPerState
  OBVIOUS
<1>1. /\ \A m, n \in mappings.cache : m.stateId = n.stateId \/ m.id = n.id => m = n
      /\ \A m \in mappings.cache : ~IsBlockedStateId(m.stateId)
  BY DEF CatalogInv, IdsInv
<1>2. savedIds \subseteq {m.id : m \in mappings.disk \cap mappings.cache}
  <2>1. mappings.disk \subseteq mappings.cache /\ \A i \in savedIds : \E m \in mappings.disk : m.id = i
    BY GrowingFacts DEF CatalogInv, StoreInv
  <2> QED BY <2>1
<1>3. ASSUME NEW c \in Clients, held[c] # NoCatalog, NEW o \in held[c].objects,
             NEW m \in mappings.cache, m.id = o.id
      PROVE  m.stateId = o.state
  <2>1. Given(o)
    BY <1>3 DEF CatalogInv, NamesInv
  <2>2. o.id \notin Lost
    BY <1>3 DEF Lost
  <2>3. PICK n \in mappings.cache : n.id = o.id /\ n.stateId = o.state
    BY <2>1, <2>2 DEF Given, Means
  <2> QED BY <1>1, <1>3, <2>3
<1> QED BY <1>1, <1>2, <1>3 DEF OneIdPerState

\* OneIdPerState, for any states, rules and requests, whichever writes are
\* rejected and whenever the adapter stops: a state never has two public ids,
\* one whose own write has returned is never lost, one an app holds is never
\* given to another state, and nothing under a blocked prefix gets one.
THEOREM IdsStayUnique == CatalogSpec => []OneIdPerState
<1> QED BY IdsAreUnique, CatalogInvariant, PTL

\* What an app holds whose version is the current one.
LEMMA HeldIsExact == CatalogInv => UnchangedIsExact
<1> SUFFICES ASSUME CatalogInv, NEW c \in Clients, UpToDate(c)
             PROVE  /\ {o.state : o \in held[c].objects} = MayRead(c, held[c].browsed)
                    /\ \A o \in held[c].objects :
                          /\ o.permission = Resolve(rules, o.state, CtxOf[c])
                          /\ \A p \in held[c].objects : p.state = o.state => p = o
                          /\ \/ Means(o.id, o.state) /\ ResolveAuthorized(o.id, c, "read")
                             \/ o.id \in Lost \ savedIds
  BY DEF UnchangedIsExact
<1> DEFINE ctx  == CtxOf[c]
           seen == held[c].browsed \ held[c].skipped
<1>1. /\ held[c] # NoCatalog /\ held[c].version = rules /\ ~(held[c].torn /\ rules \in past)
      /\ ExactFor(held[c], ctx, past)
  BY DEF UpToDate, CatalogInv, ExactInv
<1>2. Exactly(held[c].objects, rules, seen, ctx)
  BY <1>1 DEF ExactFor
<1>3. {o.state : o \in held[c].objects} = Readable(rules, seen, ctx)
  BY <1>2 DEF Exactly
<1>4. Readable(rules, seen, ctx) = MayRead(c, held[c].browsed)
  BY DEF Readable, MayRead
<1>5. ASSUME NEW o \in held[c].objects
      PROVE  /\ o.permission = Resolve(rules, o.state, CtxOf[c])
             /\ \A p \in held[c].objects : p.state = o.state => p = o
             /\ \/ Means(o.id, o.state) /\ ResolveAuthorized(o.id, c, "read")
                \/ o.id \in Lost \ savedIds
  <2>1. /\ o.permission = Resolve(rules, o.state, ctx)
        /\ \A p \in held[c].objects : p.state = o.state => p = o
    BY <1>2 DEF Exactly
  <2>2. Given(o)
    BY <1>1 DEF CatalogInv, NamesInv
  <2>3. ASSUME Means(o.id, o.state) PROVE ResolveAuthorized(o.id, c, "read")
    <3>1. PICK m \in mappings.cache : m.id = o.id /\ m.stateId = o.state
      BY <2>3 DEF Means
    <3>2. o.state \in Readable(rules, seen, ctx)
      BY <1>3
    <3>3. "read" \in Resolve(rules, m.stateId, CtxOf[c]).rights
      BY <3>1, <3>2 DEF Readable, CanRead
    <3> QED BY <3>1, <3>3 DEF ResolveAuthorized
  <2> QED BY <2>1, <2>2, <2>3 DEF Given
<1> QED BY <1>3, <1>4, <1>5

\* UnchangedIsExact, for any states, rules, clients and requests: a catalogue
\* whose version is the current one lists, of the tree as it was read, what
\* its holder may read now, and an id in it fails only if a restart has
\* forgotten it before its own write had returned.
THEOREM UnchangedMeansExact == CatalogSpec => []UnchangedIsExact
<1> QED BY HeldIsExact, CatalogInvariant, PTL

----------------------------------------------------------------------------
(* New rules: any states, rules and clients                               *)

\* A later place is not the first one.
LEMMA LaterIsNotEarliest ==
    ASSUME NEW S \in SUBSET Nat, S # {}, NEW n \in Nat, \A j \in S : j < n
    PROVE  Earliest(S \cup {n}) = Earliest(S)
<1>1. Earliest(S) \in S /\ \A j \in S : Earliest(S) <= j
  BY SomeNumberIsLeast
<1>2. Earliest(S \cup {n}) \in S \cup {n} /\ \A j \in S \cup {n} : Earliest(S \cup {n}) <= j
  <2>1. S \cup {n} \in SUBSET Nat /\ S \cup {n} # {}
    OBVIOUS
  <2> QED BY <2>1, SomeNumberIsLeast
<1> DEFINE e == Earliest(S)
           m == Earliest(S \cup {n})
<1>3. e \in S /\ e \in Nat /\ e < n /\ m \in Nat /\ m <= e /\ (m \in S => e <= m)
  BY <1>1, <1>2
<1>4. m # n
  <2> HIDE DEF e, m
  <2> QED BY <1>3
<1>5. m \in S
  BY <1>2, <1>4
<1>6. m = e
  <2> HIDE DEF e, m
  <2> QED BY <1>3, <1>5
<1> QED BY <1>6

\* The ranks of a rule, the closest first.
LEMMA RankFacts ==
    ASSUME NEW r, NEW ctx
    PROVE  /\ Rank(r, ctx) \in 0..3
           /\ ForDevice(r, ctx) <=> Rank(r, ctx) = 3
           /\ Rank(r, ctx) = 2 <=> ForUser(r, ctx) /\ ~ForDevice(r, ctx)
           /\ Rank(r, ctx) = 1 <=> ForRole(r, ctx) /\ ~ForUser(r, ctx) /\ ~ForDevice(r, ctx)
  BY DEF Rank

\* The lists Q and P agree on the places K.  After them, P has the place n: its
\* rule does not deny, and ranks no higher than that of the place o among K.
Outranked(Q, P, K, L, n, o, ctx) ==
    /\ n \in Nat /\ K \in SUBSET Nat /\ L \in {K, K \cup {n}} /\ o \in K
    /\ \A k \in K : k < n /\ P[k] = Q[k]
    /\ ~P[n].deny
    /\ Rank(Q[o], ctx) > 0 /\ Rank(Q[o], ctx) >= Rank(P[n], ctx)

\* Then the older rules go on deciding.
LEMMA OlderRuleDecides ==
    ASSUME NEW Q, NEW P, NEW K, NEW L, NEW n, NEW o, NEW ctx, Outranked(Q, P, K, L, n, o, ctx)
    PROVE  /\ Deciding(P, L, ctx) = Deciding(Q, K, ctx)
           /\ Deciding(Q, K, ctx) # 0 => Deciding(Q, K, ctx) \in K
<1> DEFINE A == Applying(Q, K, ctx)
           D == {k \in A : ForDevice(Q[k], ctx)}
           U == {k \in A : ForUser(Q[k], ctx)}
           R == {k \in A : ForRole(Q[k], ctx)}
           B == Applying(P, L, ctx)
           E == {k \in B : ForDevice(P[k], ctx)}
           V == {k \in B : ForUser(P[k], ctx)}
           W == {k \in B : ForRole(P[k], ctx)}
<1> USE DEF Outranked
<1>1. n \notin K /\ o \in A /\ A # {} /\ A \subseteq B /\ B \subseteq A \cup {n} /\ A \subseteq K
  <2>1. ForDevice(Q[o], ctx) \/ ForUser(Q[o], ctx) \/ ForRole(Q[o], ctx)
    BY DEF Rank
  <2>2. n \notin K
    OBVIOUS
  <2>3. o \in A
    BY <2>1 DEF Applying
  <2> QED BY <2>2, <2>3 DEF Applying
<1>2. (\E k \in A : Q[k].deny) <=> (\E k \in B : P[k].deny)
  <2>1. \A k \in A : P[k] = Q[k]
    BY <1>1
  <2> HIDE DEF A, B
  <2> QED BY <1>1, <2>1
<1>3. /\ Deciding(Q, K, ctx) = IF \E k \in A : Q[k].deny THEN 0
                               ELSE IF D # {} THEN Earliest(D) ELSE IF U # {} THEN Earliest(U) ELSE Earliest(R)
      /\ Deciding(P, L, ctx) = IF \E k \in A : Q[k].deny THEN 0
                               ELSE IF E # {} THEN Earliest(E) ELSE IF V # {} THEN Earliest(V) ELSE Earliest(W)
  <2>1. B # {}
    BY <1>1
  <2> QED BY <1>1, <1>2, <2>1 DEF Deciding
<1>4. /\ E = D \/ (E = D \cup {n} /\ ForDevice(P[n], ctx))
      /\ V = U \/ (V = U \cup {n} /\ ForUser(P[n], ctx))
      /\ W = R \/ (W = R \cup {n} /\ ForRole(P[n], ctx))
  <2>1. \A k \in A : P[k] = Q[k] /\ k # n
    BY <1>1
  <2>2. B = A \/ B = A \cup {n}
    BY <1>1
  <2> HIDE DEF A, B
  <2> QED BY <2>1, <2>2
<1>5. /\ D \in SUBSET Nat /\ U \in SUBSET Nat /\ R \in SUBSET Nat
      /\ D \subseteq K /\ U \subseteq K /\ R \subseteq K
  BY <1>1
<1>6. /\ ForDevice(Q[o], ctx) => D # {}
      /\ ForUser(Q[o], ctx) => U # {}
      /\ ForRole(Q[o], ctx) => R # {}
  BY <1>1
<1> HIDE DEF A, B, D, U, R, E, V, W
<1>7. \A S \in SUBSET K : S # {} => Earliest(S) \in K /\ Earliest(S \cup {n}) = Earliest(S)
  <2> SUFFICES ASSUME NEW S \in SUBSET K, S # {} PROVE Earliest(S) \in K /\ Earliest(S \cup {n}) = Earliest(S)
    OBVIOUS
  <2>1. S \in SUBSET Nat /\ \A j \in S : j < n
    OBVIOUS
  <2> QED BY <2>1, SomeNumberIsLeast, LaterIsNotEarliest
<1>8. CASE D # {}
  <2>1. E # {} /\ Earliest(E) = Earliest(D) /\ Earliest(D) \in K
    BY <1>4, <1>5, <1>7, <1>8
  <2> QED BY <1>3, <1>8, <2>1
<1>9. CASE D = {} /\ U # {}
  <2>1. ~ForDevice(P[n], ctx)
    BY <1>6, <1>9, RankFacts
  <2>2. E = {} /\ V # {} /\ Earliest(V) = Earliest(U) /\ Earliest(U) \in K
    BY <1>4, <1>5, <1>7, <1>9, <2>1
  <2> QED BY <1>3, <1>9, <2>2
<1>10. CASE D = {} /\ U = {}
  <2>1. Rank(Q[o], ctx) = 1 /\ R # {}
    BY <1>6, <1>10, RankFacts
  <2>2. ~ForDevice(P[n], ctx) /\ ~ForUser(P[n], ctx)
    BY <2>1, RankFacts
  <2>3. E = {} /\ V = {} /\ Earliest(W) = Earliest(R) /\ Earliest(R) \in K
    BY <1>4, <1>5, <1>7, <1>10, <2>1, <2>2
  <2> QED BY <1>3, <1>10, <2>3
<1> QED BY <1>8, <1>9, <1>10

Lists(R) == R \in Seq(ToSet(R))

\* The rules are a list, of whatever they are made of, and so is what the
\* state may hold.
Listing == Lists(rules) /\ (\A R \in onDisk : Lists(R)) /\ ruleIds \in Nat

\* A list is one of its own elements.
LEMMA ListFacts ==
    ASSUME NEW S, NEW s \in Seq(S)
    PROVE  s \in Seq(ToSet(s))
  BY DEF ToSet

\* What the list of rules can become.
LEMMA ListStep ==
    ASSUME [CatalogNext]_catalogVars
    PROVE  \/ UNCHANGED <<rules, onDisk, ruleIds>>
           \/ ruleIds' = ruleIds + 1 /\ onDisk' = onDisk \cup {rules'} /\ \E r : rules' = Append(rules, r)
           \/ /\ ruleIds' = ruleIds /\ onDisk' = onDisk \cup {rules'}
              /\ \E k \in DOMAIN rules : rules' = RemoveAt(rules, k) \/ \E r : rules' = ReplaceAt(rules, k, r)
           \/ ruleIds' = ruleIds /\ rules' \in onDisk /\ onDisk' = {rules'}
<1> DEFINE Longer == ruleIds' = ruleIds + 1 /\ onDisk' = onDisk \cup {rules'} /\ \E r : rules' = Append(rules, r)
           Same   == UNCHANGED <<rules, onDisk, ruleIds>>
<1>1. ASSUME NEW b, Create(b) PROVE Longer
  BY <1>1 DEF Create, RulesBecome
<1>2. ASSUME NEW k \in DOMAIN rules, NEW p, UpdateRule(k, p)
      PROVE  ruleIds' = ruleIds /\ onDisk' = onDisk \cup {rules'} /\ \E r : rules' = ReplaceAt(rules, k, r)
  BY <1>2 DEF UpdateRule, RulesBecome
<1>3. ASSUME NEW k \in DOMAIN rules, DeleteRule(k)
      PROVE  ruleIds' = ruleIds /\ onDisk' = onDisk \cup {rules'} /\ rules' = RemoveAt(rules, k)
  BY <1>3 DEF DeleteRule, RulesBecome
<1>4. CASE \/ \E o \in Owners : CreateProfile(o)
           \/ DeleteProfile \/ ApplyFails
           \/ \E c \in Clients : \/ AskCatalog(c) \/ TreeArrives(c) \/ AskAlarmEvents(c)
                                 \/ MappingSaved(c) \/ MappingRejected(c)
           \/ \E s \in Leafs : LeafAppears(s)
           \/ UNCHANGED catalogVars
  <2>1. UNCHANGED ruleVars
    BY <1>4 DEF CreateProfile, DeleteProfile, ApplyFails, AskCatalog, TreeArrives, AskAlarmEvents, MappingSaved,
              MappingRejected, LeafAppears, catalogVars
  <2> QED BY <2>1 DEF ruleVars
<1>5. ASSUME NEW o \in Owners, StartApply(o) PROVE Longer
  BY <1>1, <1>5 DEF StartApply
<1>6. CASE ApplyNext
  <2>1. CASE applying.left = <<>>
    BY <1>6, <2>1 DEF ApplyNext, ruleVars
  <2>2. CASE applying.left # <<>>
    <3>1. \E b : Create(b)
      BY <1>6, <2>2 DEF ApplyNext
    <3> QED BY <1>1, <3>1
  <2> QED BY <2>1, <2>2
<1>7. ASSUME CatalogRestarts PROVE ruleIds' = ruleIds /\ rules' \in onDisk /\ onDisk' = {rules'}
  BY <1>7 DEF CatalogRestarts
<1> QED BY <1>1, <1>2, <1>3, <1>4, <1>5, <1>6, <1>7 DEF CatalogNext, CreateRule

\* A list stays a list, and a new rule goes to its end.
LEMMA ListGrows ==
    ASSUME Listing, [CatalogNext]_catalogVars
    PROVE  Listing' /\ (ruleIds' > ruleIds => \E r : rules' = Append(rules, r))
<1>a. Lists(rules) /\ (\A R \in onDisk : Lists(R)) /\ ruleIds \in Nat
  BY DEF Listing
<1>b. ASSUME onDisk' = onDisk \cup {rules'}, Lists(rules'), ruleIds' \in Nat PROVE Listing'
  BY <1>a, <1>b DEF Listing
<1>1. CASE UNCHANGED <<rules, onDisk, ruleIds>>
  BY <1>1, <1>a DEF Listing
<1>2. CASE ruleIds' = ruleIds + 1 /\ onDisk' = onDisk \cup {rules'} /\ \E r : rules' = Append(rules, r)
  <2>1. PICK r : rules' = Append(rules, r)
    BY <1>2
  <2>2. rules \in Seq(ToSet(rules) \cup {r})
    BY <1>a DEF Lists
  <2>3. rules' \in Seq(ToSet(rules) \cup {r})
    BY <2>1, <2>2
  <2>4. Lists(rules')
    BY <2>3, ListFacts DEF Lists
  <2>5. ruleIds' \in Nat
    BY <1>2, <1>a
  <2> QED BY <1>2, <1>b, <2>1, <2>4, <2>5
<1>3. ASSUME ruleIds' = ruleIds, onDisk' = onDisk \cup {rules'},
             NEW k \in DOMAIN rules, rules' = RemoveAt(rules, k)
      PROVE  Listing'
  <2>1. rules' \in Seq(ToSet(rules)) /\ DOMAIN rules' = 1..(Len(rules) - 1)
    BY <1>3, <1>a, RemovedAt DEF Lists
  <2>2. Lists(rules')
    BY <2>1, ListFacts DEF Lists
  <2> QED BY <1>3, <1>a, <1>b, <2>2
<1>4. ASSUME ruleIds' = ruleIds, onDisk' = onDisk \cup {rules'},
             NEW k \in DOMAIN rules, NEW r, rules' = ReplaceAt(rules, k, r)
      PROVE  Listing'
  <2>1. rules \in Seq(ToSet(rules) \cup {r})
    BY <1>a DEF Lists
  <2>2. rules' = [rules EXCEPT ![k] = r]
    BY <1>4 DEF ReplaceAt
  <2>3. rules' \in Seq(ToSet(rules) \cup {r})
    BY <2>1, <2>2
  <2>4. Lists(rules')
    BY <2>3, ListFacts DEF Lists
  <2> QED BY <1>4, <1>a, <1>b, <2>4
<1>5. CASE ruleIds' = ruleIds /\ rules' \in onDisk /\ onDisk' = {rules'}
  BY <1>5, <1>a DEF Listing
<1>6. ruleIds' = ruleIds => ~(ruleIds' > ruleIds)
  BY <1>a
<1> QED BY <1>1, <1>2, <1>3, <1>4, <1>5, <1>6, ListStep

\* The step of GrantsOnlyFillGaps.
LEMMA GrantStep ==
    ASSUME Listing, NEW r, rules' = Append(rules, r), NEW ctx, NEW s, ~r.deny,
           NEW o \in MatchingRules(rules, s), Rank(rules[o], ctx) > 0, Rank(rules[o], ctx) >= Rank(r, ctx)
    PROVE  Resolve(rules', s, ctx) = Resolve(rules, s, ctx)
<1> DEFINE n == Len(rules) + 1
           K == MatchingRules(rules, s)
           L == MatchingRules(rules', s)
<1>1. /\ n \in Nat /\ DOMAIN rules = 1..Len(rules) /\ DOMAIN rules' = DOMAIN rules \cup {n} /\ rules'[n] = r
      /\ \A k \in DOMAIN rules : k \in Nat /\ k < n /\ rules'[k] = rules[k]
  <2>1. rules \in Seq(ToSet(rules) \cup {r})
    BY DEF Listing, Lists
  <2> QED BY <2>1
<1> HIDE DEF n
<1>2. K \subseteq DOMAIN rules /\ (L = K \/ L = K \cup {n})
  BY <1>1 DEF MatchingRules
<1>3. K \in SUBSET Nat /\ \A k \in K : k < n /\ rules'[k] = rules[k]
  BY <1>1, <1>2
<1> HIDE DEF K, L
<1>4. o \in K
  BY DEF K
<1> DEFINE d == Deciding(rules, K, ctx)
<1>5. Deciding(rules', L, ctx) = d /\ (d # 0 => d \in K)
  <2>1. Outranked(rules, rules', K, L, n, o, ctx)
    BY <1>1, <1>2, <1>3, <1>4 DEF Outranked
  <2> QED BY <2>1, OlderRuleDecides
<1>6. d # 0 => rules'[d] = rules[d]
  BY <1>3, <1>5
<1> HIDE DEF d
<1>7. /\ Resolve(rules', s, ctx) = IF d = 0 THEN DenyPermission ELSE ToPermission(rules'[d])
      /\ Resolve(rules, s, ctx) = IF d = 0 THEN DenyPermission ELSE ToPermission(rules[d])
  BY <1>5 DEF Resolve, K, L, d
<1> QED BY <1>6, <1>7

\* GrantsOnlyFillGaps, for any rules, states and clients: where an older rule
\* of the same level or a closer one speaks, a new one that does not deny
\* changes nothing (src/authorization/index.ts resolve, the find of each level).
THEOREM NewRulesFillGaps == CatalogSpec => GrantsOnlyFillGaps
<1>1. CatalogInit => Listing
  BY DEF CatalogInit, Listing, Lists, ToSet
<1>2. Listing /\ [CatalogNext]_catalogVars => Listing'
  BY ListGrows
<1> DEFINE Fills == ruleIds' > ruleIds =>
                       LET new == Last(rules') IN
                       \A c \in Clients, s \in Leafs :
                          (/\ ~new.deny
                           /\ \E k \in MatchingRules(rules, s) :
                                 Rank(rules[k], CtxOf[c]) > 0 /\ Rank(rules[k], CtxOf[c]) >= Rank(new, CtxOf[c]))
                          => Resolve(rules', s, CtxOf[c]) = Resolve(rules, s, CtxOf[c])
<1>3. Listing /\ [CatalogNext]_catalogVars => Fills
  <2> SUFFICES ASSUME Listing, [CatalogNext]_catalogVars, ruleIds' > ruleIds,
                      NEW c \in Clients, NEW s \in Leafs, ~Last(rules').deny,
                      NEW k \in MatchingRules(rules, s),
                      Rank(rules[k], CtxOf[c]) > 0, Rank(rules[k], CtxOf[c]) >= Rank(Last(rules'), CtxOf[c])
               PROVE  Resolve(rules', s, CtxOf[c]) = Resolve(rules, s, CtxOf[c])
    OBVIOUS
  <2>1. PICK r : rules' = Append(rules, r)
    BY ListGrows
  <2>2. Last(rules') = r
    <3>1. rules \in Seq(ToSet(rules) \cup {r})
      BY DEF Listing, Lists
    <3> QED BY <2>1, <3>1 DEF Last
  <2> QED BY <2>1, <2>2, GrantStep
<1> QED BY <1>1, <1>2, <1>3, PTL DEF CatalogSpec, GrantsOnlyFillGaps

----------------------------------------------------------------------------
(* Types of the catalogue                                                  *)

\* A rule has an id that was given, and one owner.
RuleInOrder(r, n) == "id" \in DOMAIN r /\ r.id \in 1..n /\ ValidSingleOwner(r)

ListInOrder(R, n) == Lists(R) /\ Len(R) <= n /\ \A k \in DOMAIN R : RuleInOrder(R[k], n)

RulesInOrder ==
    /\ ruleIds \in 0..MaxRules /\ edits \in 0..MaxEdits /\ failures \in 0..MaxFailures
    /\ ListInOrder(rules, ruleIds)
    /\ \A R \in onDisk : ListInOrder(R, ruleIds)

TemplatesInOrder(p) == p \in Seq(ToSet(p)) /\ Len(p) <= MaxRules

\* A list of templates is no longer than the list of rules can be, and goes
\* to someone.
ProfilesInOrder ==
    /\ TemplatesInOrder(profile)
    /\ \A p \in profiles : TemplatesInOrder(p)
    /\ DOMAIN applying = {"left", "owner"}
    /\ applying.left \in Seq(ToSet(applying.left)) /\ Len(applying.left) < MaxRules
    /\ applying # NoApply => OwnerFields \subseteq DOMAIN applying.owner

\* What a request goes through was in the tree it has read.
JobInOrder(job) ==
    /\ job.at \in {"idle", "tree", "storing"}
    /\ job.skipped \subseteq job.browsed
    /\ job.at = "storing" => Head(job.todo) \in job.browsed

JobsInOrder ==
    /\ \A m \in mappings.cache : m.stateId \in Leafs
    /\ \A c \in Clients : JobInOrder(fetch[c])

\* A field of what a spread gives.
LEMMA SpreadFields ==
    ASSUME NEW r, NEW p, NEW f \in DOMAIN r \cup DOMAIN p
    PROVE  /\ DOMAIN Spread(r, p) = DOMAIN r \cup DOMAIN p
           /\ Spread(r, p)[f] = IF f \in DOMAIN p THEN p[f] ELSE r[f]
BY DEF Spread

\* A new rule goes to the end of the list, under a new id and with its owner.
LEMMA CreateInOrder ==
    ASSUME RulesInOrder, NEW body, Create(body), OwnerFields \subseteq DOMAIN body
    PROVE  RulesInOrder'
<1> DEFINE r == Spread(body, [id |-> ruleIds'])
<1>1. /\ ruleIds < MaxRules /\ ValidSingleOwner(body) /\ ruleIds' = ruleIds + 1
      /\ rules' = Append(rules, r) /\ onDisk' = onDisk \cup {rules'}
      /\ edits' = edits /\ failures' = failures
  BY DEF Create, RulesBecome
<1>2. MaxRules \in Nat /\ ruleIds \in Nat /\ Len(rules) <= ruleIds
  BY CatalogAssumption DEF RulesInOrder, ListInOrder
<1>3. DOMAIN [id |-> ruleIds'] = {"id"} /\ [id |-> ruleIds'].id = ruleIds'
  OBVIOUS
<1>4. "id" \in DOMAIN r /\ r.id = ruleIds' /\ \A f \in OwnerFields : r[f] = body[f]
  <2>1. DOMAIN r = DOMAIN body \cup {"id"} /\ r.id = ruleIds'
    BY <1>3, SpreadFields
  <2>2. ASSUME NEW f \in OwnerFields PROVE r[f] = body[f]
    <3>1. f \in DOMAIN body /\ f \notin {"id"}
      BY DEF OwnerFields
    <3> QED BY <1>3, <3>1, SpreadFields
  <2> QED BY <2>1, <2>2
<1> HIDE DEF r
<1>5. RuleInOrder(r, ruleIds')
  <2>1. ValidSingleOwner(r)
    BY <1>1, <1>4 DEF ValidSingleOwner
  <2>2. r.id \in 1..ruleIds'
    BY <1>1, <1>2, <1>4
  <2> QED BY <1>4, <2>1, <2>2 DEF RuleInOrder
<1>6. rules \in Seq(ToSet(rules) \cup {r})
  BY DEF RulesInOrder, ListInOrder, Lists
<1>7. /\ rules' \in Seq(ToSet(rules) \cup {r}) /\ Len(rules') = Len(rules) + 1 /\ Len(rules) \in Nat
      /\ \A k \in DOMAIN rules' : (k \in DOMAIN rules /\ rules'[k] = rules[k]) \/ rules'[k] = r
  BY <1>1, <1>6
<1>a. ASSUME NEW R, ListInOrder(R, ruleIds) PROVE ListInOrder(R, ruleIds')
  <2>1. Lists(R) /\ Len(R) <= ruleIds /\ \A k \in DOMAIN R : RuleInOrder(R[k], ruleIds)
    BY <1>a DEF ListInOrder
  <2>2. \A k \in DOMAIN R : RuleInOrder(R[k], ruleIds')
    BY <1>1, <1>2, <2>1 DEF RuleInOrder
  <2>3. Len(R) <= ruleIds'
    <3>1. Len(R) \in Nat
      BY <2>1 DEF Lists
    <3> QED BY <1>1, <1>2, <2>1, <3>1
  <2> QED BY <2>1, <2>2, <2>3 DEF ListInOrder
<1>8. \A k \in DOMAIN rules' : RuleInOrder(rules'[k], ruleIds')
  <2>1. \A k \in DOMAIN rules : RuleInOrder(rules[k], ruleIds')
    BY <1>a DEF RulesInOrder, ListInOrder
  <2> QED BY <1>5, <1>7, <2>1
<1>9. Lists(rules')
  BY <1>7, ListFacts DEF Lists
<1>10. ruleIds' \in 0..MaxRules /\ Len(rules') <= ruleIds'
  BY <1>1, <1>2, <1>7
<1>11. ListInOrder(rules', ruleIds')
  BY <1>8, <1>9, <1>10 DEF ListInOrder
<1>12. \A R \in onDisk' : ListInOrder(R, ruleIds')
  BY <1>1, <1>a, <1>11 DEF RulesInOrder
<1> QED BY <1>1, <1>10, <1>11, <1>12 DEF RulesInOrder

\* A change keeps the id of the rule, and is refused without one owner.
LEMMA UpdateInOrder ==
    ASSUME RulesInOrder, NEW k \in DOMAIN rules, NEW p \in Patches, UpdateRule(k, p)
    PROVE  RulesInOrder'
<1> DEFINE r == Spread(rules[k], p)
<1>1. /\ edits < MaxEdits /\ edits' = edits + 1 /\ ValidSingleOwner(r)
      /\ rules' = ReplaceAt(rules, k, r) /\ ruleIds' = ruleIds /\ failures' = failures
      /\ onDisk' = onDisk \cup {rules'}
  BY DEF UpdateRule, RulesBecome
<1>2. RuleInOrder(rules[k], ruleIds) /\ "id" \notin DOMAIN p
  BY CatalogAssumption DEF RulesInOrder, ListInOrder
<1>3. "id" \in DOMAIN r /\ r.id = rules[k].id
  <2>1. "id" \in DOMAIN rules[k] \cup DOMAIN p
    BY <1>2 DEF RuleInOrder
  <2>2. DOMAIN r = DOMAIN rules[k] \cup DOMAIN p
    BY <2>1, SpreadFields
  <2>3. r["id"] = IF "id" \in DOMAIN p THEN p["id"] ELSE rules[k]["id"]
    BY <2>1, SpreadFields
  <2> HIDE DEF r
  <2> QED BY <1>2, <2>1, <2>2, <2>3
<1> HIDE DEF r
<1>4. RuleInOrder(r, ruleIds)
  BY <1>1, <1>2, <1>3 DEF RuleInOrder
<1>5. rules' = [rules EXCEPT ![k] = r] /\ rules \in Seq(ToSet(rules) \cup {r})
  BY <1>1 DEF ReplaceAt, RulesInOrder, ListInOrder, Lists
<1>6. /\ rules' \in Seq(ToSet(rules) \cup {r}) /\ Len(rules') = Len(rules)
      /\ \A l \in DOMAIN rules' : l \in DOMAIN rules /\ (rules'[l] = rules[l] \/ rules'[l] = r)
  BY <1>5
<1>7. \A l \in DOMAIN rules' : RuleInOrder(rules'[l], ruleIds)
  BY <1>4, <1>6 DEF RulesInOrder, ListInOrder
<1>8. Lists(rules') /\ Len(rules') <= ruleIds
  BY <1>6, ListFacts DEF Lists, RulesInOrder, ListInOrder
<1>9. edits' \in 0..MaxEdits
  BY <1>1, CatalogAssumption DEF RulesInOrder
<1>10. ListInOrder(rules', ruleIds')
  BY <1>1, <1>7, <1>8 DEF ListInOrder
<1>11. \A R \in onDisk' : ListInOrder(R, ruleIds')
  BY <1>1, <1>10 DEF RulesInOrder
<1> QED BY <1>1, <1>9, <1>10, <1>11 DEF RulesInOrder

\* The rules that are left are in order.
LEMMA DeleteInOrder ==
    ASSUME RulesInOrder, NEW k \in DOMAIN rules, DeleteRule(k)
    PROVE  RulesInOrder'
<1>1. /\ edits < MaxEdits /\ edits' = edits + 1
      /\ rules' = RemoveAt(rules, k) /\ ruleIds' = ruleIds /\ failures' = failures
      /\ onDisk' = onDisk \cup {rules'}
  BY DEF DeleteRule, RulesBecome
<1>2. /\ rules' \in Seq(ToSet(rules)) /\ DOMAIN rules' = 1..(Len(rules) - 1)
      /\ \A l \in 1..(Len(rules) - 1) : rules'[l] = IF l < k THEN rules[l] ELSE rules[l + 1]
  BY <1>1, RemovedAt DEF RulesInOrder, ListInOrder, Lists
<1>3. DOMAIN rules = 1..Len(rules) /\ Len(rules) \in Nat /\ ruleIds \in Nat /\ k \in 1..Len(rules)
  BY DEF RulesInOrder, ListInOrder, Lists
<1>4. Len(rules') <= ruleIds
  <2>1. Len(rules') = Len(rules) - 1
    <3>1. DOMAIN rules' = 1..Len(rules') /\ Len(rules') \in Nat
      BY <1>2
    <3>2. Len(rules) - 1 \in Nat
      BY <1>3
    <3>3. 1..Len(rules') = 1..(Len(rules) - 1)
      BY <1>2, <3>1
    <3> QED BY <3>1, <3>2, <3>3
  <2> QED BY <1>3, <2>1 DEF RulesInOrder, ListInOrder
<1>5. ASSUME NEW l \in DOMAIN rules' PROVE RuleInOrder(rules'[l], ruleIds)
  <2>1. PICK m \in DOMAIN rules : rules'[l] = rules[m]
    <3>1. l \in DOMAIN rules /\ l + 1 \in DOMAIN rules
      BY <1>2, <1>3
    <3> QED BY <1>2, <3>1
  <2> QED BY <2>1 DEF RulesInOrder, ListInOrder
<1>6. Lists(rules')
  BY <1>2, ListFacts DEF Lists
<1>7. edits' \in 0..MaxEdits
  BY <1>1, CatalogAssumption DEF RulesInOrder
<1>8. ListInOrder(rules', ruleIds')
  BY <1>1, <1>4, <1>5, <1>6 DEF ListInOrder
<1>9. \A R \in onDisk' : ListInOrder(R, ruleIds')
  BY <1>1, <1>8 DEF RulesInOrder
<1> QED BY <1>1, <1>7, <1>8, <1>9 DEF RulesInOrder

\* As many places as a set has, each in it.
LEMMA ManyPlaces ==
    ASSUME NEW n \in Nat, NEW K, K \subseteq 1..n
    PROVE  Cardinality(K) \in Nat /\ Cardinality(K) <= n
<1>1. IsFiniteSet(1..n) /\ Cardinality(1..n) = n
  <2>1. 1 \in Int /\ n \in Int /\ (IF 1 > n THEN 0 ELSE n - 1 + 1) = n
    OBVIOUS
  <2> QED BY <2>1, FS_Interval
<1> QED BY <1>1, FS_Subset, FS_CardinalityType

\* A profile is made, left or applied; a list of templates gets shorter.
LEMMA ProfilesKeep ==
    ASSUME RulesInOrder, ProfilesInOrder, [CatalogNext]_catalogVars
    PROVE  ProfilesInOrder'
<1>a. ASSUME UNCHANGED profileVars PROVE ProfilesInOrder'
  BY <1>a DEF profileVars, ProfilesInOrder, NoApply
<1>n. <<>> \in Seq(ToSet(<<>>)) /\ Len(<<>>) = 0 /\ MaxRules \in Nat \ {0}
  BY CatalogAssumption DEF ToSet
<1>b. ASSUME applying' = NoApply, profile' = profile, profiles' = profiles PROVE ProfilesInOrder'
  BY <1>b, <1>n DEF ProfilesInOrder, NoApply
<1>c. ASSUME NEW q, q \in Seq(ToSet(q)), q # <<>>
      PROVE  /\ Tail(q) \in Seq(ToSet(Tail(q))) /\ Len(Tail(q)) = Len(q) - 1 /\ Len(q) \in Nat
  <2>1. Tail(q) \in Seq(ToSet(q)) /\ Len(Tail(q)) = Len(q) - 1 /\ Len(q) \in Nat
    BY <1>c, HeadTailProperties
  <2> QED BY <2>1, ListFacts
<1>1. ASSUME NEW o \in Owners, CreateProfile(o) PROVE ProfilesInOrder'
  <2> DEFINE K == {k \in DOMAIN rules : \A f \in OwnerFields : o[f] # NoOwner => rules[k][f] = o[f]}
             v == [i \in 1..Cardinality(K) |-> ToTemplate(rules[Nth(K, i)])]
  <2>1. profile' = v /\ profiles' = profiles \cup {profile'} /\ applying' = applying
    BY <1>1 DEF CreateProfile
  <2>2. K \subseteq 1..Len(rules) /\ Len(rules) \in Nat /\ Len(rules) <= ruleIds /\ ruleIds \in 0..MaxRules
    BY DEF RulesInOrder, ListInOrder, Lists
  <2> HIDE DEF K
  <2>3. Cardinality(K) \in Nat /\ Cardinality(K) <= MaxRules
    <3>1. Cardinality(K) \in Nat /\ Cardinality(K) <= Len(rules)
      BY <2>2, ManyPlaces
    <3> QED BY <1>n, <2>2, <3>1
  <2>4. v \in Seq(ToSet(v)) /\ Len(v) = Cardinality(K)
    BY <2>3 DEF ToSet
  <2> HIDE DEF v
  <2>5. TemplatesInOrder(v)
    BY <2>3, <2>4 DEF TemplatesInOrder
  <2> QED BY <2>1, <2>5 DEF ProfilesInOrder, NoApply
<1>2. CASE DeleteProfile
  <2>1. profile' = <<>> /\ profiles' = profiles \cup {<<>>} /\ applying' = applying
    BY <1>2 DEF DeleteProfile
  <2>2. TemplatesInOrder(<<>>)
    BY <1>n DEF TemplatesInOrder
  <2> QED BY <2>1, <2>2 DEF ProfilesInOrder, NoApply
<1>3. ASSUME NEW o \in Owners, StartApply(o) PROVE ProfilesInOrder'
  <2>1. /\ profile # <<>> /\ applying' = [left |-> Tail(profile), owner |-> o]
        /\ profile' = profile /\ profiles' = profiles
    BY <1>3 DEF StartApply
  <2>2. profile \in Seq(ToSet(profile)) /\ Len(profile) <= MaxRules
    BY DEF ProfilesInOrder, TemplatesInOrder
  <2>3. Tail(profile) \in Seq(ToSet(Tail(profile))) /\ Len(Tail(profile)) < MaxRules
    BY <1>c, <1>n, <2>1, <2>2
  <2>4. OwnerFields \subseteq DOMAIN o
    BY CatalogAssumption
  <2>5. DOMAIN applying' = {"left", "owner"} /\ applying'.left = Tail(profile) /\ applying'.owner = o
    BY <2>1
  <2> QED BY <2>1, <2>2, <2>3, <2>4, <2>5 DEF ProfilesInOrder
<1>4. CASE ApplyNext
  <2>1. applying # NoApply /\ profile' = profile /\ profiles' = profiles
    BY <1>4 DEF ApplyNext
  <2>2. CASE applying.left = <<>>
    BY <1>4, <1>b, <2>1, <2>2 DEF ApplyNext
  <2>3. CASE applying.left # <<>>
    <3>1. applying' = [applying EXCEPT !.left = Tail(@)]
      BY <1>4, <2>3 DEF ApplyNext
    <3>2. /\ DOMAIN applying = {"left", "owner"} /\ applying.left \in Seq(ToSet(applying.left))
          /\ Len(applying.left) < MaxRules /\ OwnerFields \subseteq DOMAIN applying.owner
      BY <2>1 DEF ProfilesInOrder
    <3>3. /\ DOMAIN applying' = {"left", "owner"} /\ applying'.left = Tail(applying.left)
          /\ applying'.owner = applying.owner
      BY <3>1, <3>2
    <3>4. Tail(applying.left) \in Seq(ToSet(Tail(applying.left))) /\ Len(Tail(applying.left)) < MaxRules
      BY <1>c, <1>n, <2>3, <3>2
    <3> QED BY <2>1, <3>2, <3>3, <3>4 DEF ProfilesInOrder
  <2> QED BY <2>2, <2>3
<1>5. CASE ApplyFails
  BY <1>5, <1>b DEF ApplyFails
<1>6. CASE \/ \E b \in Bodies : CreateRule(b)
           \/ \E k \in DOMAIN rules : (\E p \in Patches : UpdateRule(k, p)) \/ DeleteRule(k)
           \/ \E c \in Clients : \/ AskCatalog(c) \/ TreeArrives(c) \/ AskAlarmEvents(c)
                                 \/ MappingSaved(c) \/ MappingRejected(c)
           \/ \E s \in Leafs : LeafAppears(s)
           \/ UNCHANGED catalogVars
  <2>1. UNCHANGED profileVars
    BY <1>6 DEF CreateRule, UpdateRule, DeleteRule, AskCatalog, TreeArrives, AskAlarmEvents, MappingSaved,
                MappingRejected, LeafAppears, catalogVars
  <2> QED BY <1>a, <2>1
<1>7. CASE CatalogRestarts
  <2>1. profile' \in profiles /\ profiles' = {profile'} /\ applying' = NoApply
    BY <1>7 DEF CatalogRestarts
  <2> QED BY <1>n, <2>1 DEF ProfilesInOrder, NoApply
<1> QED BY <1>1, <1>2, <1>3, <1>4, <1>5, <1>6, <1>7 DEF CatalogNext

\* Every rule is in order after every step.
LEMMA RulesKeep ==
    ASSUME RulesInOrder, ProfilesInOrder, [CatalogNext]_catalogVars
    PROVE  RulesInOrder'
<1>a. ASSUME UNCHANGED <<ruleVars, failures>> PROVE RulesInOrder'
  BY <1>a DEF ruleVars, RulesInOrder
<1>b. ASSUME UNCHANGED ruleVars, failures < MaxFailures, failures' = failures + 1 PROVE RulesInOrder'
  <2>1. failures' \in 0..MaxFailures
    BY <1>b, CatalogAssumption DEF RulesInOrder
  <2> QED BY <1>b, <2>1 DEF ruleVars, RulesInOrder
<1>c. ASSUME NEW t, NEW o, OwnerFields \subseteq DOMAIN o PROVE OwnerFields \subseteq DOMAIN Spread(t, o)
  BY <1>c DEF Spread
<1>1. ASSUME NEW b \in Bodies, CreateRule(b) PROVE RulesInOrder'
  <2>1. Create(b) /\ OwnerFields \subseteq DOMAIN b
    BY <1>1, CatalogAssumption DEF CreateRule
  <2> QED BY <2>1, CreateInOrder
<1>2. ASSUME NEW k \in DOMAIN rules, (\E p \in Patches : UpdateRule(k, p)) \/ DeleteRule(k) PROVE RulesInOrder'
  BY <1>2, UpdateInOrder, DeleteInOrder
<1>3. ASSUME NEW o \in Owners, StartApply(o) PROVE RulesInOrder'
  <2>1. Create(Spread(Head(profile), o)) /\ OwnerFields \subseteq DOMAIN o
    BY <1>3, CatalogAssumption DEF StartApply
  <2> QED BY <1>c, <2>1, CreateInOrder
<1>4. CASE ApplyNext
  <2>1. CASE applying.left = <<>>
    BY <1>4, <1>a, <2>1 DEF ApplyNext
  <2>2. CASE applying.left # <<>>
    <3>1. Create(Spread(Head(applying.left), applying.owner)) /\ applying # NoApply
      BY <1>4, <2>2 DEF ApplyNext
    <3>2. OwnerFields \subseteq DOMAIN applying.owner
      BY <3>1 DEF ProfilesInOrder
    <3> QED BY <1>c, <3>1, <3>2, CreateInOrder
  <2> QED BY <2>1, <2>2
<1>5. CASE ApplyFails
  BY <1>5, <1>b DEF ApplyFails
<1>6. ASSUME NEW c \in Clients, MappingRejected(c) PROVE RulesInOrder'
  BY <1>6, <1>b DEF MappingRejected
<1>7. CASE \/ \E o \in Owners : CreateProfile(o)
           \/ DeleteProfile
           \/ \E c \in Clients : AskCatalog(c) \/ TreeArrives(c) \/ AskAlarmEvents(c) \/ MappingSaved(c)
           \/ \E s \in Leafs : LeafAppears(s)
           \/ UNCHANGED catalogVars
  <2>1. UNCHANGED <<ruleVars, failures>>
    BY <1>7 DEF CreateProfile, DeleteProfile, AskCatalog, TreeArrives, AskAlarmEvents, MappingSaved,
                LeafAppears, catalogVars
  <2> QED BY <1>a, <2>1
<1>8. CASE CatalogRestarts
  <2>1. /\ rules' \in onDisk /\ onDisk' = {rules'} /\ ruleIds' = ruleIds /\ edits' = edits
        /\ failures < MaxFailures /\ failures' = failures + 1
    BY <1>8 DEF CatalogRestarts
  <2>2. failures' \in 0..MaxFailures
    BY <2>1, CatalogAssumption DEF RulesInOrder
  <2> QED BY <2>1, <2>2 DEF RulesInOrder
<1> QED BY <1>1, <1>2, <1>3, <1>4, <1>5, <1>6, <1>7, <1>8 DEF CatalogNext

\* Whatever the loop does, it stops in order.
LEMMA WalkInOrder ==
    ASSUME JobsInOrder, DOMAIN fetch = Clients, NEW c \in Clients, NEW job, Walkable(job),
           NEW store, store.cache = mappings.cache, Walk(c, job, store),
           job.skipped \subseteq job.browsed
    PROVE  JobsInOrder'
<1> DEFINE ctx == CtxOf[c]
           q == job.todo
<1>1. PICK n \in 0..Len(q) :
             /\ \A k \in 1..n : q[k] \in job.browsed /\ CanRead(rules, q[k], ctx) => HasId(mappings.cache, q[k])
             /\ \/ /\ n = Len(q) /\ mappings' = store /\ ids' = ids
                   /\ AnswerCatalog(c, [job EXCEPT !.got = @ \cup Passed(job, n, ctx)])
                \/ LET s == q[n + 1] IN
                   /\ n < Len(q)
                   /\ s \in job.browsed /\ CanRead(rules, s, ctx) /\ ~Mapped(s)
                   /\ ids' = ids + 1 /\ mappings' = Update(store, c, mappings.cache \cup {[id |-> ids + 1, stateId |-> s]})
                   /\ fetch' = [fetch EXCEPT ![c] =
                         [[job EXCEPT !.got = @ \cup Passed(job, n, ctx)]
                            EXCEPT !.at = "storing", !.todo = SubSeq(q, n + 1, Len(q)),
                                   !.permission = Resolve(rules, s, ctx)]]
                   /\ held' = held
  BY WalkStops
<1>2. /\ q \in Seq(Leafs) /\ Len(q) \in Nat /\ DOMAIN q = 1..Len(q)
      /\ DOMAIN job = {"at", "for", "version", "todo", "got", "permission", "browsed", "skipped", "torn"}
  BY LenProperties DEF Walkable
<1>3. \A m \in mappings.cache : m.stateId \in Leafs
  BY DEF JobsInOrder
<1>a. ASSUME NEW next, fetch' = [fetch EXCEPT ![c] = next], JobInOrder(next)
      PROVE  \A x \in Clients : JobInOrder(fetch'[x])
  <2>1. \A x \in Clients : fetch'[x] = IF x = c THEN next ELSE fetch[x]
    BY <1>a
  <2> QED BY <1>a, <2>1 DEF JobsInOrder
<1>4. ASSUME mappings' = store, AnswerCatalog(c, [job EXCEPT !.got = @ \cup Passed(job, n, ctx)])
      PROVE  JobsInOrder'
  <2>1. fetch' = [fetch EXCEPT ![c] = NoJob]
    BY <1>4 DEF AnswerCatalog
  <2>2. JobInOrder(NoJob)
    BY DEF JobInOrder, NoJob
  <2>3. \A x \in Clients : JobInOrder(fetch'[x])
    BY <1>a, <2>1, <2>2
  <2> QED BY <1>3, <1>4, <2>3 DEF JobsInOrder
<1>5. ASSUME n < Len(q), q[n + 1] \in job.browsed,
             mappings' = Update(store, c, mappings.cache \cup {[id |-> ids + 1, stateId |-> q[n + 1]]}),
             fetch' = [fetch EXCEPT ![c] =
                      [[job EXCEPT !.got = @ \cup Passed(job, n, ctx)]
                         EXCEPT !.at = "storing", !.todo = SubSeq(q, n + 1, Len(q)),
                                !.permission = Resolve(rules, q[n + 1], ctx)]]
      PROVE  JobsInOrder'
  <2> DEFINE first == [job EXCEPT !.got = @ \cup Passed(job, n, ctx)]
             next  == [first EXCEPT !.at = "storing", !.todo = SubSeq(q, n + 1, Len(q)),
                                    !.permission = Resolve(rules, q[n + 1], ctx)]
  <2>1. fetch' = [fetch EXCEPT ![c] = next]
    BY <1>5
  <2>2. /\ DOMAIN first = DOMAIN job /\ first.browsed = job.browsed /\ first.skipped = job.skipped
    BY <1>2
  <2> HIDE DEF first
  <2>3. /\ next.at = "storing" /\ next.todo = SubSeq(q, n + 1, Len(q))
        /\ next.browsed = job.browsed /\ next.skipped = job.skipped
    BY <1>2, <2>2
  <2> HIDE DEF next
  <2>4. q[n + 1] \in Leafs /\ Head(SubSeq(q, n + 1, Len(q))) = q[n + 1]
    BY <1>2, <1>5
  <2>5. JobInOrder(next)
    BY <1>5, <2>3, <2>4 DEF JobInOrder
  <2>6. \A x \in Clients : JobInOrder(fetch'[x])
    BY <1>a, <2>1, <2>5
  <2>7. \A m \in mappings'.cache : m.stateId \in Leafs
    BY <1>3, <1>5, <2>4 DEF Update
  <2> QED BY <2>6, <2>7 DEF JobsInOrder
<1> QED BY <1>1, <1>4, <1>5

\* The requests are in order after every step.
LEMMA JobsKeep ==
    ASSUME RequestsInv, JobsInOrder, mappings.disk \subseteq mappings.cache, [CatalogNext]_catalogVars
    PROVE  JobsInOrder'
<1>d. DOMAIN fetch = Clients /\ \A c \in Clients : Resting(fetch[c]) /\ JobInOrder(fetch[c])
  BY DEF RequestsInv, JobsInOrder
<1>a. ASSUME UNCHANGED <<mappings, fetch>> PROVE JobsInOrder'
  BY <1>a DEF JobsInOrder
<1>b. ASSUME NEW R, RulesBecome(R), UNCHANGED mappings PROVE JobsInOrder'
  <2>1. ASSUME NEW c \in Clients PROVE JobInOrder(fetch'[c])
    <3>1. fetch'[c] = [fetch[c] EXCEPT !.torn = @ \/ fetch[c].at = "storing"]
      BY <1>b DEF RulesBecome
    <3>2. DOMAIN fetch[c] = {"at", "for", "version", "todo", "got", "permission", "browsed", "skipped", "torn"}
      BY <1>d DEF Resting, Walkable
    <3>3. /\ fetch'[c].at = fetch[c].at /\ fetch'[c].todo = fetch[c].todo
          /\ fetch'[c].browsed = fetch[c].browsed /\ fetch'[c].skipped = fetch[c].skipped
      BY <3>1, <3>2
    <3> QED BY <1>d, <3>3 DEF JobInOrder
  <2> QED BY <1>b, <2>1 DEF JobsInOrder
<1>c. ASSUME NEW body, Create(body) PROVE JobsInOrder'
  BY <1>b, <1>c DEF Create, idVars
<1>e. ASSUME NEW c \in Clients, NEW next, fetch' = [fetch EXCEPT ![c] = next], JobInOrder(next),
             mappings'.cache = mappings.cache
      PROVE  JobsInOrder'
  <2>1. \A x \in Clients : fetch'[x] = IF x = c THEN next ELSE fetch[x]
    BY <1>d, <1>e
  <2> QED BY <1>d, <1>e, <2>1 DEF JobsInOrder
<1>1. ASSUME NEW b \in Bodies, CreateRule(b) PROVE JobsInOrder'
  BY <1>1, <1>c DEF CreateRule
<1>2. ASSUME NEW k \in DOMAIN rules, (\E p \in Patches : UpdateRule(k, p)) \/ DeleteRule(k) PROVE JobsInOrder'
  BY <1>2, <1>b DEF UpdateRule, DeleteRule, idVars
<1>3. ASSUME NEW o \in Owners, StartApply(o) PROVE JobsInOrder'
  BY <1>3, <1>c DEF StartApply
<1>4. CASE ApplyNext
  <2>1. UNCHANGED <<mappings, fetch>> \/ Create(Spread(Head(applying.left), applying.owner))
    BY <1>4 DEF ApplyNext, idVars
  <2> QED BY <1>a, <1>c, <2>1
<1>5. CASE \/ \E o \in Owners : CreateProfile(o)
           \/ DeleteProfile \/ ApplyFails
           \/ \E s \in Leafs : LeafAppears(s)
           \/ UNCHANGED catalogVars
  <2>1. UNCHANGED <<mappings, fetch>>
    BY <1>5 DEF CreateProfile, DeleteProfile, ApplyFails, LeafAppears, catalogVars, idVars
  <2> QED BY <1>a, <2>1
<1>6. ASSUME NEW c \in Clients, AskCatalog(c) PROVE JobsInOrder'
  <2> DEFINE next == [NoJob EXCEPT !.at = "tree"]
  <2>1. fetch' = [fetch EXCEPT ![c] = next] /\ UNCHANGED mappings
    BY <1>6 DEF AskCatalog, idVars
  <2>2. JobInOrder(next)
    BY DEF JobInOrder, NoJob
  <2> HIDE DEF next
  <2> QED BY <1>e, <2>1, <2>2
<1>7. ASSUME NEW c \in Clients, TreeArrives(c) PROVE JobsInOrder'
  <2> DEFINE job == [fetch[c] EXCEPT !.version = rules, !.todo = Leaves, !.browsed = BrowseObjectTree]
  <2>1. Walk(c, job, mappings) /\ Resting(fetch[c]) /\ fetch[c].at = "tree"
    BY <1>7, <1>d DEF TreeArrives
  <2>2. /\ DOMAIN fetch[c] = {"at", "for", "version", "todo", "got", "permission", "browsed", "skipped", "torn"}
        /\ fetch[c].skipped = {} /\ fetch[c].for \in {"catalog", "alarms"} /\ fetch[c].torn \in BOOLEAN
    BY <2>1 DEF Resting, Walkable
  <2>3. /\ DOMAIN job = DOMAIN fetch[c] /\ job.for = fetch[c].for /\ job.skipped = {}
        /\ job.torn = fetch[c].torn /\ job.todo = Leaves
    BY <2>2
  <2> HIDE DEF job
  <2>4. Walkable(job) /\ job.skipped \subseteq job.browsed
    BY <2>2, <2>3, CatalogAssumption DEF Walkable
  <2> QED BY <1>d, <2>1, <2>4, WalkInOrder
<1>8. ASSUME NEW c \in Clients, AskAlarmEvents(c) PROVE JobsInOrder'
  <2> DEFINE job == [NoJob EXCEPT !.for = "alarms", !.todo = AlarmLog, !.browsed = ToSet(AlarmLog)]
  <2>1. Walk(c, job, mappings)
    BY <1>8 DEF AskAlarmEvents
  <2>2. /\ DOMAIN job = {"at", "for", "version", "todo", "got", "permission", "browsed", "skipped", "torn"}
        /\ job.for = "alarms" /\ job.todo = AlarmLog /\ job.torn = FALSE /\ job.skipped = {}
    BY DEF NoJob
  <2> HIDE DEF job
  <2>3. Walkable(job) /\ job.skipped \subseteq job.browsed
    BY <2>2, CatalogAssumption DEF Walkable
  <2> QED BY <1>d, <2>1, <2>3, WalkInOrder
<1>f. ASSUME NEW c \in Clients, fetch[c].at = "storing", NEW next,
             NEW store, store.cache = mappings.cache, Walk(c, next, store),
             DOMAIN next = DOMAIN fetch[c], next.for = fetch[c].for, next.torn = fetch[c].torn,
             next.browsed = fetch[c].browsed, next.todo = Tail(fetch[c].todo),
             next.skipped \subseteq fetch[c].skipped \cup {Head(fetch[c].todo)}
      PROVE  JobsInOrder'
  <2>1. Resting(fetch[c]) /\ JobInOrder(fetch[c])
    BY <1>d
  <2>2. Tail(fetch[c].todo) \in Seq(Leafs)
    BY <1>f, <2>1, HeadTailProperties DEF Resting, Walkable
  <2>3. Walkable(next)
    BY <1>f, <2>1, <2>2 DEF Resting, Walkable
  <2>4. next.skipped \subseteq next.browsed
    BY <1>f, <2>1 DEF JobInOrder
  <2> QED BY <1>d, <1>f, <2>3, <2>4, WalkInOrder
<1>9. ASSUME NEW c \in Clients, MappingSaved(c) PROVE JobsInOrder'
  <2> DEFINE job  == fetch[c]
             next == [job EXCEPT !.todo = Tail(@), !.got = @ \cup {Entry(Head(job.todo), job.permission)}]
  <2>1. job.at = "storing" /\ Walk(c, next, Landed(mappings)) /\ Landed(mappings).cache = mappings.cache
    BY <1>9 DEF MappingSaved, Landed
  <2>2. DOMAIN job = {"at", "for", "version", "todo", "got", "permission", "browsed", "skipped", "torn"}
    BY <1>d DEF Resting, Walkable
  <2>3. /\ DOMAIN next = DOMAIN job /\ next.for = job.for /\ next.torn = job.torn
        /\ next.browsed = job.browsed /\ next.todo = Tail(job.todo) /\ next.skipped = job.skipped
    BY <2>2
  <2> HIDE DEF next
  <2> QED BY <1>f, <2>1, <2>3
<1>10. ASSUME NEW c \in Clients, MappingRejected(c) PROVE JobsInOrder'
  <2> DEFINE job  == fetch[c]
             next == [job EXCEPT !.todo = Tail(@), !.skipped = @ \cup {Head(job.todo)}]
  <2>1. /\ job.at = "storing"
        /\ \/ fetch' = [fetch EXCEPT ![c] = NoJob] /\ mappings' = Rejected(mappings)
           \/ Walk(c, next, Rejected(mappings))
        /\ Rejected(mappings).cache = mappings.cache
    BY <1>10 DEF MappingRejected, Rejected
  <2>2. DOMAIN job = {"at", "for", "version", "todo", "got", "permission", "browsed", "skipped", "torn"}
    BY <1>d DEF Resting, Walkable
  <2>3. /\ DOMAIN next = DOMAIN job /\ next.for = job.for /\ next.torn = job.torn
        /\ next.browsed = job.browsed /\ next.todo = Tail(job.todo)
        /\ next.skipped = job.skipped \cup {Head(job.todo)}
    BY <2>2
  <2> HIDE DEF next
  <2>4. JobInOrder(NoJob)
    BY DEF JobInOrder, NoJob
  <2>5. CASE fetch' = [fetch EXCEPT ![c] = NoJob] /\ mappings' = Rejected(mappings)
    BY <1>e, <2>1, <2>4, <2>5
  <2>6. CASE Walk(c, next, Rejected(mappings))
    BY <1>f, <2>1, <2>3, <2>6
  <2> QED BY <2>1, <2>5, <2>6
<1>11. CASE CatalogRestarts
  <2>1. fetch' = [c \in Clients |-> NoJob] /\ mappings'.cache = mappings.disk
    BY <1>11 DEF CatalogRestarts, Reloaded, Loaded
  <2>2. JobInOrder(NoJob)
    BY DEF JobInOrder, NoJob
  <2> QED BY <2>1, <2>2 DEF JobsInOrder
<1> QED BY <1>1, <1>2, <1>3, <1>4, <1>5, <1>6, <1>7, <1>8, <1>9, <1>10, <1>11 DEF CatalogNext

\* CatalogTypeOK, for any states, rules and requests: every rule has an id
\* that was given and exactly one owner, whichever way it was made or changed
\* (src/exposure/index.ts validateSingleOwner); every public id belongs to a
\* state; a catalogue leaves out only what was in its tree.
THEOREM CatalogTyped == CatalogSpec => []CatalogTypeOK
<1> DEFINE Order == RulesInOrder /\ ProfilesInOrder /\ JobsInOrder
<1>1. CatalogInit => Order
  <2> SUFFICES ASSUME CatalogInit PROVE Order
    OBVIOUS
  <2>1. /\ rules = <<>> /\ ruleIds = 0 /\ edits = 0 /\ failures = 0 /\ profile = <<>> /\ applying = NoApply
        /\ mappings.cache = {} /\ fetch = [c \in Clients |-> NoJob] /\ onDisk = {<<>>} /\ profiles = {<<>>}
    BY DEF CatalogInit, Loaded
  <2>2. MaxRules \in Nat \ {0} /\ MaxEdits \in Nat /\ MaxFailures \in Nat
    BY CatalogAssumption
  <2>3. <<>> \in Seq(ToSet(<<>>)) /\ Len(<<>>) = 0 /\ DOMAIN <<>> = {}
    BY DEF ToSet
  <2>4. RulesInOrder
    BY <2>1, <2>2, <2>3 DEF RulesInOrder, ListInOrder, Lists
  <2>5. DOMAIN NoApply = {"left", "owner"} /\ NoApply.left = <<>>
    BY DEF NoApply
  <2>6. ProfilesInOrder
    BY <2>1, <2>2, <2>3, <2>5 DEF ProfilesInOrder, TemplatesInOrder
  <2>7. JobInOrder(NoJob)
    BY DEF JobInOrder, NoJob
  <2>8. JobsInOrder
    BY <2>1, <2>7 DEF JobsInOrder
  <2> QED BY <2>4, <2>6, <2>8
<1>2. CatalogInv /\ Order /\ [CatalogNext]_catalogVars => Order'
  <2> SUFFICES ASSUME CatalogInv, Order, [CatalogNext]_catalogVars PROVE Order'
    OBVIOUS
  <2>1. RequestsInv /\ mappings.disk \subseteq mappings.cache
    BY GrowingFacts DEF CatalogInv, StoreInv
  <2> QED BY <2>1, RulesKeep, ProfilesKeep, JobsKeep
<1>3. CatalogInv /\ Order => CatalogTypeOK
  <2> SUFFICES ASSUME CatalogInv, Order PROVE CatalogTypeOK
    OBVIOUS
  <2>1. ids \in Nat /\ \A m \in mappings.cache : m.stateId \in Leafs /\ m.id \in 1..ids
    BY DEF CatalogInv, IdsInv, JobsInOrder
  <2>2. \A k \in DOMAIN rules : rules[k].id \in 1..ruleIds /\ ValidSingleOwner(rules[k])
    BY DEF RulesInOrder, ListInOrder, RuleInOrder
  <2>4. Waiting(mappings) = {c \in Clients : fetch[c].at = "storing"}
    BY DEF CatalogInv, StoreInv, Growing, StoringClients
  <2>3. ASSUME NEW c \in Clients
        PROVE  /\ fetch[c].at \in {"idle", "tree", "storing"} /\ fetch[c].for \in {"catalog", "alarms"}
               /\ fetch[c].todo \in Seq(Leafs) /\ fetch[c].skipped \subseteq fetch[c].browsed
               /\ fetch[c].torn \in BOOLEAN
    BY DEF CatalogInv, RequestsInv, Resting, Walkable, JobsInOrder, JobInOrder
  <2> QED BY <2>1, <2>2, <2>3, <2>4 DEF CatalogTypeOK, RulesInOrder, ProfilesInOrder, CatalogInv, RequestsInv
<1>4. CatalogSpec => []CatalogInv
  BY CatalogInvariant
<1> QED BY <1>1, <1>2, <1>3, <1>4, PTL DEF CatalogSpec

----------------------------------------------------------------------------
(* Dashboards: any screens, users, widgets and dashboards                 *)

\* What a collection of dashboards holds.
Plain == [userId : Users, revision : Nat, layouts : SUBSET Widgets]

Contents == [DashIds -> Plain \cup {NoBoard}]

\* A revision of a dashboard has one layout: L is that of r, in every version
\* of the collection, and no later one than the cache's is known.
Agreeing(d, r, L) == {V \in Contents : V[d] # NoBoard /\ V[d].revision = r => V[d].layouts = L}

Current(store, d, r, L) ==
    /\ Everywhere(store, Agreeing(d, r, L))
    /\ store.cache[d] # NoBoard => r <= store.cache[d].revision

\* So it is with the dashboard d of the versions themselves.
Recorded(store, d) == {V \in Contents : V[d] # NoBoard => Current(store, d, V[d].revision, V[d].layouts)}

Absent(d) == {V \in Contents : V[d] = NoBoard}

\* With the copy r of a dashboard d on screen c, with what its editor e was
\* opened on, and with what an answer to its request q will bring.
CopiesFit(store, ph, r, e, q, c, d) ==
    /\ <<c, d>> \notin ph =>
          /\ r # NoBoard => Current(store, d, r.revision, r.layouts)
          /\ e.open /\ e.dash = d => Current(store, d, e.revision, Either(e.layouts, e.changed))
    /\ q.at \in {"storing", "auditing"} /\ q.verb # "delete" /\ q.dash = d =>
          Current(store, d, q.saved.revision, q.saved.layouts)

EditorShape(e) ==
    e.open =>
        /\ DOMAIN e = {"open", "dash", "revision", "layouts", "changed", "conflict"}
        /\ e.dash \in DashIds /\ e.revision \in Nat
        /\ e.layouts \in SUBSET Widgets /\ e.changed \in SUBSET Widgets

\* A PUT is what the editor shows; any other request is made without one.
AskShape(q, e) ==
    /\ q.at = "sent" /\ q.verb = "put" =>
          /\ e.open /\ q.dash = e.dash /\ q.layouts \in SUBSET Widgets
          /\ ~q.forced => q.revision = e.revision /\ q.layouts = e.layouts
    /\ q.at = "sent" /\ q.verb # "put" => ~e.open /\ (q.verb = "delete" => q.dash \in DashIds)
    /\ q.at \in {"storing", "auditing"} =>
          /\ q.dash \in DashIds
          /\ q.verb # "delete" => DOMAIN q = {"at", "verb", "dash", "saved"} /\ q.saved \in Plain
          /\ IF q.verb = "put" THEN e.open /\ e.dash = q.dash ELSE ~e.open

BoardsTyped ==
    /\ boards \in Collections(Contents, Screens)
    /\ DOMAIN room = Screens /\ DOMAIN editor = Screens /\ DOMAIN asked = Screens
    /\ DOMAIN accepted = DashIds
    /\ \A c \in Screens : room[c] \in Contents /\ EditorShape(editor[c]) /\ AskShape(asked[c], editor[c])

\* What a screen has is in order; of an id that was not given to a dashboard
\* yet it has nothing.
ScreenFits(store, ph, r, e, q, c, B) ==
    \A d \in DashIds :
        /\ CopiesFit(store, ph, r[d], e, q, c, d)
        /\ d \notin B =>
              /\ r[d] = NoBoard /\ ~(e.open /\ e.dash = d)
              /\ ~(q.at \in {"storing", "auditing"} /\ q.dash = d)

AllRecorded(store) == \A d \in DashIds : Everywhere(store, Recorded(store, d))

AllAbsent(store, changes, B) ==
    \A d \in DashIds : d \notin B => Everywhere(store, Absent(d)) /\ changes[d] = {}

BoardsInv ==
    /\ BoardsTyped
    /\ AllRecorded(boards) /\ AllAbsent(boards, accepted, born)
    /\ \A c \in Screens : ScreenFits(boards, phantom, room[c], editor[c], asked[c], c, born)
    /\ NoLostUpdate

----------------------------------------------------------------------------
\* What is known of a dashboard d stays so when store becomes to.
Goes(store, to, d) == \A r \in Nat : \A L : Current(store, d, r, L) => Current(to, d, r, L)

AllGo(store, to, B) == \A d \in DashIds : d \in B => Goes(store, to, d)

\* The versions of a dashboard that were recorded stay so.
LEMMA RecordedGoes ==
    ASSUME NEW d \in DashIds, NEW store, NEW to \in Collections(Contents, Screens), Goes(store, to, d),
           Everywhere(to, Recorded(store, d))
    PROVE  Everywhere(to, Recorded(to, d))
<1>1. ASSUME NEW V \in Recorded(store, d) PROVE V \in Recorded(to, d)
  <2>1. V \in Contents /\ (V[d] # NoBoard => Current(store, d, V[d].revision, V[d].layouts))
    BY DEF Recorded
  <2>2. V[d] # NoBoard => V[d] \in Plain
    BY <2>1 DEF Contents
  <2>3. V[d] # NoBoard => V[d].revision \in Nat
    BY <2>2 DEF Plain
  <2>4. V[d] # NoBoard => Current(to, d, V[d].revision, V[d].layouts)
    BY <2>1, <2>3 DEF Goes
  <2> QED BY <2>1, <2>4 DEF Recorded
<1>2. Recorded(store, d) \subseteq Recorded(to, d)
  BY <1>1
<1> QED BY <1>2, VersionFacts

\* A write lands or is rejected: there are fewer versions.
LEMMA WriteGoes ==
    ASSUME NEW store \in Collections(Contents, Screens), store.writes # <<>>,
           NEW to, to = Landed(store) \/ to = Rejected(store), NEW changes, NEW B
    PROVE  /\ to \in Collections(Contents, Screens) /\ to.cache = store.cache
           /\ Head(store.writes).by \in Screens
           /\ AllGo(store, to, B)
           /\ AllRecorded(store) => AllRecorded(to)
           /\ AllAbsent(store, changes, B) => AllAbsent(to, changes, B)
<1>1. /\ to \in Collections(Contents, Screens) /\ to.cache = store.cache
      /\ Head(store.writes).by \in Waiting(store)
      /\ \A S : Everywhere(store, S) => Everywhere(to, S)
  <2>1. CASE to = Landed(store)
    BY <2>1, LandedFacts
  <2>2. CASE to = Rejected(store)
    BY <2>2, RejectedFacts
  <2> QED BY <2>1, <2>2
<1>2. Head(store.writes).by \in Screens
  BY <1>1, VersionFacts
<1>3. ASSUME NEW d \in DashIds PROVE Goes(store, to, d)
  BY <1>1 DEF Goes, Current
<1>4. ASSUME AllRecorded(store) PROVE AllRecorded(to)
  BY <1>1, <1>3, <1>4, RecordedGoes DEF AllRecorded
<1>5. ASSUME AllAbsent(store, changes, B) PROVE AllAbsent(to, changes, B)
  BY <1>1, <1>5 DEF AllAbsent
<1> QED BY <1>1, <1>2, <1>3, <1>4, <1>5 DEF AllGo

\* One dashboard is written; the others are as they were.
LEMMA OthersGo ==
    ASSUME NEW store \in Collections(Contents, Screens), NEW by \in Screens, NEW d \in DashIds,
           NEW C \in Contents, OnlyAt(d, DashIds, store.cache, C),
           NEW to, to = Update(store, by, C), NEW e \in DashIds, e # d
    PROVE  /\ Goes(store, to, e)
           /\ Everywhere(store, Recorded(store, e)) => Everywhere(to, Recorded(to, e))
           /\ Everywhere(store, Absent(e)) => Everywhere(to, Absent(e))
<1>1. /\ to \in Collections(Contents, Screens) /\ to.cache = C
      /\ \A S : Everywhere(store, S) /\ C \in S => Everywhere(to, S)
  BY UpdateFacts
<1>2. C[e] = store.cache[e] /\ store.cache \in Contents
  BY VersionFacts DEF OnlyAt
<1>3. \A S : Everywhere(store, S) => store.cache \in S
  BY VersionFacts
<1>4. ASSUME NEW r \in Nat, NEW L, Current(store, e, r, L) PROVE Current(to, e, r, L)
  <2>1. Everywhere(store, Agreeing(e, r, L)) /\ (store.cache[e] # NoBoard => r <= store.cache[e].revision)
    BY <1>4 DEF Current
  <2>2. C \in Agreeing(e, r, L)
    BY <1>2, <1>3, <2>1 DEF Agreeing
  <2>3. Everywhere(to, Agreeing(e, r, L))
    BY <1>1, <2>1, <2>2
  <2> QED BY <1>1, <1>2, <2>1, <2>3 DEF Current
<1>5. Goes(store, to, e)
  BY <1>4 DEF Goes
<1>6. ASSUME Everywhere(store, Recorded(store, e)) PROVE Everywhere(to, Recorded(to, e))
  <2>1. C \in Recorded(store, e)
    BY <1>2, <1>3, <1>6 DEF Recorded
  <2>2. Everywhere(to, Recorded(store, e))
    BY <1>1, <1>6, <2>1
  <2> QED BY <1>1, <1>5, <2>2, RecordedGoes
<1>7. ASSUME Everywhere(store, Absent(e)) PROVE Everywhere(to, Absent(e))
  <2>1. C \in Absent(e)
    BY <1>2, <1>3, <1>7 DEF Absent
  <2> QED BY <1>1, <1>7, <2>1
<1> QED BY <1>5, <1>6, <1>7

\* The dashboard d goes.
LEMMA DeletedGoes ==
    ASSUME NEW store \in Collections(Contents, Screens), NEW by \in Screens, NEW d \in DashIds,
           NEW C \in Contents, C[d] = NoBoard, NEW to, to = Update(store, by, C)
    PROVE  /\ Goes(store, to, d)
           /\ Everywhere(store, Recorded(store, d)) => Everywhere(to, Recorded(to, d))
<1>1. /\ to \in Collections(Contents, Screens) /\ to.cache = C
      /\ \A S : Everywhere(store, S) /\ C \in S => Everywhere(to, S)
  BY UpdateFacts
<1>2. \A r, L : C \in Agreeing(d, r, L)
  BY DEF Agreeing
<1>3. Goes(store, to, d)
  BY <1>1, <1>2 DEF Goes, Current
<1>4. C \in Recorded(store, d)
  BY DEF Recorded
<1> QED BY <1>1, <1>3, <1>4, RecordedGoes

\* The dashboard d gets its next revision.
LEMMA RevisedGoes ==
    ASSUME NEW store \in Collections(Contents, Screens), NEW by \in Screens, NEW d \in DashIds,
           NEW C \in Contents, store.cache[d] # NoBoard, C[d] \in Plain,
           C[d].revision = store.cache[d].revision + 1, Everywhere(store, Recorded(store, d)),
           NEW to, to = Update(store, by, C)
    PROVE  /\ Goes(store, to, d)
           /\ Current(to, d, C[d].revision, C[d].layouts)
           /\ Everywhere(to, Recorded(to, d))
<1> DEFINE n == store.cache[d].revision
<1>1. /\ to \in Collections(Contents, Screens) /\ to.cache = C
      /\ \A S : Everywhere(store, S) /\ C \in S => Everywhere(to, S)
  BY UpdateFacts
<1>2. store.cache \in Contents
  BY VersionFacts
<1>3. store.cache[d] \in Plain
  BY <1>2 DEF Contents
<1>4. n \in Nat /\ C[d].revision = n + 1
  BY <1>3 DEF Plain
<1> HIDE DEF n
<1>5. ASSUME NEW r \in Nat, NEW L, Current(store, d, r, L) PROVE Current(to, d, r, L)
  <2>1. Everywhere(store, Agreeing(d, r, L)) /\ r <= n
    BY <1>5 DEF Current, n
  <2>2. C[d].revision # r /\ r <= C[d].revision
    BY <1>4, <2>1
  <2>3. C \in Agreeing(d, r, L)
    BY <2>2 DEF Agreeing
  <2>4. Everywhere(to, Agreeing(d, r, L))
    BY <1>1, <2>1, <2>3
  <2> QED BY <1>1, <2>2, <2>4 DEF Current
<1>6. Goes(store, to, d)
  BY <1>5 DEF Goes
<1>7. Current(to, d, C[d].revision, C[d].layouts)
  <2> DEFINE S == Agreeing(d, C[d].revision, C[d].layouts)
  <2>1. ASSUME NEW V \in Recorded(store, d) PROVE V \in S
    <3>1. V \in Contents /\ (V[d] # NoBoard => Current(store, d, V[d].revision, V[d].layouts))
      BY DEF Recorded
    <3>2. V[d] # NoBoard => V[d] \in Plain
      BY <3>1 DEF Contents
    <3>3. V[d] # NoBoard => V[d].revision \in Nat /\ V[d].revision <= n
      BY <3>1, <3>2 DEF Current, Plain, n
    <3>4. V[d] # NoBoard => V[d].revision # C[d].revision
      BY <1>4, <3>3
    <3> QED BY <3>1, <3>4 DEF Agreeing
  <2>2. C \in S
    BY DEF Agreeing
  <2> HIDE DEF S
  <2>3. Recorded(store, d) \subseteq S
    BY <2>1
  <2>4. Everywhere(store, S)
    BY <2>3, VersionFacts
  <2>5. Everywhere(to, S)
    BY <1>1, <2>2, <2>4
  <2> QED BY <1>1, <1>4, <2>5 DEF Current, S
<1>8. Everywhere(to, Recorded(to, d))
  <2> DEFINE S == Recorded(store, d) \cup {C}
  <2>1. Everywhere(store, S)
    <3>1. Recorded(store, d) \subseteq S
      OBVIOUS
    <3> HIDE DEF S
    <3> QED BY <3>1, VersionFacts
  <2>2. Everywhere(to, S)
    BY <1>1, <2>1
  <2>3. ASSUME NEW V \in Recorded(store, d) PROVE V \in Recorded(to, d)
    <3>1. V \in Contents /\ (V[d] # NoBoard => Current(store, d, V[d].revision, V[d].layouts))
      BY DEF Recorded
    <3>2. V[d] # NoBoard => V[d] \in Plain
      BY <3>1 DEF Contents
    <3>3. V[d] # NoBoard => V[d].revision \in Nat
      BY <3>2 DEF Plain
    <3> QED BY <1>6, <3>1, <3>3 DEF Recorded, Goes
  <2>4. C \in Recorded(to, d)
    BY <1>7 DEF Recorded
  <2>5. S \subseteq Recorded(to, d)
    BY <2>3, <2>4
  <2> HIDE DEF S
  <2> QED BY <1>1, <2>2, <2>5, VersionFacts
<1> QED BY <1>6, <1>7, <1>8

\* The dashboard d is new.
LEMMA CreatedGoes ==
    ASSUME NEW store \in Collections(Contents, Screens), NEW by \in Screens, NEW d \in DashIds,
           NEW C \in Contents, C[d] \in Plain, Everywhere(store, Absent(d)),
           NEW to, to = Update(store, by, C)
    PROVE  /\ Current(to, d, C[d].revision, C[d].layouts)
           /\ Everywhere(to, Recorded(to, d))
<1>1. /\ to \in Collections(Contents, Screens) /\ to.cache = C
      /\ \A S : Everywhere(store, S) /\ C \in S => Everywhere(to, S)
  BY UpdateFacts
<1>2. Current(to, d, C[d].revision, C[d].layouts)
  <2> DEFINE S == Agreeing(d, C[d].revision, C[d].layouts)
  <2>1. Absent(d) \subseteq S /\ C \in S
    BY DEF Agreeing, Absent
  <2> HIDE DEF S
  <2>2. Everywhere(to, S)
    BY <1>1, <2>1, VersionFacts
  <2>3. C[d].revision \in Nat
    BY DEF Plain
  <2> QED BY <1>1, <2>2, <2>3 DEF Current, S
<1>3. Everywhere(to, Recorded(to, d))
  <2>1. Absent(d) \subseteq Recorded(to, d)
    BY DEF Recorded, Absent
  <2>2. C \in Recorded(to, d)
    BY <1>2 DEF Recorded
  <2>3. Everywhere(store, Recorded(to, d))
    BY <2>1, VersionFacts
  <2> QED BY <1>1, <2>2, <2>3
<1> QED BY <1>2, <1>3

\* The adapter starts again: what is no later than the saved revision stays.
LEMMA RestartGoes ==
    ASSUME NEW store \in Collections(Contents, Screens), NEW to, to = Reloaded(store), NEW d \in DashIds
    PROVE  /\ \A r \in Nat : \A L :
                 Current(store, d, r, L) /\ (store.disk[d] # NoBoard => r <= store.disk[d].revision)
                    => Current(to, d, r, L)
           /\ Everywhere(store, Recorded(store, d)) => Everywhere(to, Recorded(to, d))
           /\ Everywhere(store, Absent(d)) => Everywhere(to, Absent(d))
<1>1. /\ to \in Collections(Contents, Screens) /\ to.cache = store.disk /\ to.disk = store.disk
      /\ \A S : Everywhere(store, S) => Everywhere(to, S)
  BY ReloadedFacts
<1>2. ASSUME NEW r \in Nat, NEW L, Current(store, d, r, L),
             store.disk[d] # NoBoard => r <= store.disk[d].revision
      PROVE  Current(to, d, r, L)
  BY <1>1, <1>2 DEF Current
<1>3. ASSUME Everywhere(store, Recorded(store, d)) PROVE Everywhere(to, Recorded(to, d))
  <2>1. store.disk \in Recorded(store, d)
    BY <1>3, VersionFacts
  <2>2. store.disk \in Contents /\ (store.disk[d] # NoBoard => store.disk[d] \in Plain)
    BY <2>1 DEF Recorded, Contents
  <2>3. store.disk[d] # NoBoard =>
           store.disk[d].revision \in Nat /\ store.disk[d].revision <= store.disk[d].revision
    BY <2>2 DEF Plain
  <2>4. store.disk[d] # NoBoard => Current(to, d, store.disk[d].revision, store.disk[d].layouts)
    BY <1>2, <2>1, <2>3 DEF Recorded
  <2>5. store.disk \in Recorded(to, d)
    BY <2>2, <2>4 DEF Recorded
  <2>6. to = Loaded(store.disk)
    BY DEF Reloaded
  <2> QED BY <2>2, <2>5, <2>6, LoadedFacts
<1> QED BY <1>1, <1>2, <1>3

----------------------------------------------------------------------------
\* One screen gets r, e and q for its copies, its editor and its request.
Turns(f, g, c, v) == DOMAIN g = Screens /\ g[c] = v /\ \A x \in Screens : x # c => g[x] = f[x]

Spares(ph, to, c) == \A x \in Screens, d \in DashIds : x # c /\ <<x, d>> \notin to => <<x, d>> \notin ph

Moves(c, r, e, q) ==
    /\ r \in Contents /\ EditorShape(e) /\ AskShape(q, e)
    /\ Turns(room, room', c, r) /\ Turns(editor, editor', c, e) /\ Turns(asked, asked', c, q)
    /\ Spares(phantom, phantom', c)
    /\ ScreenFits(boards', phantom', r, e, q, c, born')

\* What a screen has stays in order.
LEMMA ScreenGoes ==
    ASSUME NEW store, NEW to, NEW ph, NEW more, NEW B, NEW B2, B \subseteq B2, AllGo(store, to, B),
           NEW r \in Contents, NEW e, EditorShape(e), NEW q, AskShape(q, e), NEW c,
           \A d \in DashIds : <<c, d>> \notin more => <<c, d>> \notin ph,
           ScreenFits(store, ph, r, e, q, c, B)
    PROVE  ScreenFits(to, more, r, e, q, c, B2)
<1> SUFFICES ASSUME NEW d \in DashIds
             PROVE  /\ CopiesFit(to, more, r[d], e, q, c, d)
                    /\ d \notin B2 =>
                          /\ r[d] = NoBoard /\ ~(e.open /\ e.dash = d)
                          /\ ~(q.at \in {"storing", "auditing"} /\ q.dash = d)
  BY DEF ScreenFits
<1>1. /\ CopiesFit(store, ph, r[d], e, q, c, d)
      /\ d \notin B =>
            /\ r[d] = NoBoard /\ ~(e.open /\ e.dash = d)
            /\ ~(q.at \in {"storing", "auditing"} /\ q.dash = d)
  BY DEF ScreenFits
<1>2. CASE d \in B
  <2>1. Goes(store, to, d)
    BY <1>2 DEF AllGo
  <2>2. r[d] # NoBoard => r[d].revision \in Nat
    BY DEF Contents, Plain
  <2>3. e.open => e.revision \in Nat
    BY DEF EditorShape
  <2>4. q.at \in {"storing", "auditing"} /\ q.verb # "delete" => q.saved.revision \in Nat
    BY DEF AskShape, Plain
  <2>5. r[d] # NoBoard /\ Current(store, d, r[d].revision, r[d].layouts)
           => Current(to, d, r[d].revision, r[d].layouts)
    BY <2>1, <2>2 DEF Goes
  <2>6. e.open /\ Current(store, d, e.revision, Either(e.layouts, e.changed))
           => Current(to, d, e.revision, Either(e.layouts, e.changed))
    BY <2>1, <2>3 DEF Goes
  <2>7. q.at \in {"storing", "auditing"} /\ q.verb # "delete"
           /\ Current(store, d, q.saved.revision, q.saved.layouts)
           => Current(to, d, q.saved.revision, q.saved.layouts)
    BY <2>1, <2>4 DEF Goes
  <2> QED BY <1>1, <1>2, <2>5, <2>6, <2>7 DEF CopiesFit
<1>3. CASE d \notin B
  BY <1>1, <1>3 DEF CopiesFit
<1> QED BY <1>2, <1>3

\* One screen moves, and the collection with it.
LEMMA MoveKeeps ==
    ASSUME BoardsInv, NEW c \in Screens, NEW r, NEW e, NEW q, Moves(c, r, e, q),
           boards' \in Collections(Contents, Screens), AllGo(boards, boards', born), AllRecorded(boards'),
           AllAbsent(boards', accepted', born'), born \subseteq born', DOMAIN accepted' = DashIds, NoLostUpdate'
    PROVE  BoardsInv'
<1>1. /\ DOMAIN room' = Screens /\ DOMAIN editor' = Screens /\ DOMAIN asked' = Screens
      /\ room'[c] = r /\ editor'[c] = e /\ asked'[c] = q
      /\ \A x \in Screens : x # c => room'[x] = room[x] /\ editor'[x] = editor[x] /\ asked'[x] = asked[x]
  BY DEF Moves, Turns
<1>2. ASSUME NEW x \in Screens
      PROVE  /\ room'[x] \in Contents /\ EditorShape(editor'[x]) /\ AskShape(asked'[x], editor'[x])
             /\ ScreenFits(boards', phantom', room'[x], editor'[x], asked'[x], x, born')
  <2>1. CASE x = c
    BY <1>1, <2>1 DEF Moves
  <2>2. CASE x # c
    <3>1. /\ room'[x] = room[x] /\ editor'[x] = editor[x] /\ asked'[x] = asked[x]
      BY <1>1, <2>2
    <3>2. /\ room[x] \in Contents /\ EditorShape(editor[x]) /\ AskShape(asked[x], editor[x])
          /\ ScreenFits(boards, phantom, room[x], editor[x], asked[x], x, born)
      BY DEF BoardsInv, BoardsTyped
    <3>3. \A d \in DashIds : <<x, d>> \notin phantom' => <<x, d>> \notin phantom
      BY <2>2 DEF Moves, Spares
    <3>4. ScreenFits(boards', phantom', room[x], editor[x], asked[x], x, born')
      BY <3>2, <3>3, ScreenGoes
    <3> QED BY <3>1, <3>2, <3>4
  <2> QED BY <2>1, <2>2
<1>4. BoardsTyped'
  BY <1>1, <1>2 DEF BoardsTyped
<1> QED BY <1>2, <1>4 DEF BoardsInv

\* One screen moves, the collection does not.
LEMMA AppKeeps ==
    ASSUME BoardsInv, NEW c \in Screens, NEW r, NEW e, NEW q, Moves(c, r, e, q),
           boards' = boards, born' = born, accepted' = accepted
    PROVE  BoardsInv'
<1>1. AllGo(boards, boards', born)
  BY DEF AllGo, Goes
<1>2. /\ boards' \in Collections(Contents, Screens) /\ AllRecorded(boards')
      /\ AllAbsent(boards', accepted', born') /\ DOMAIN accepted' = DashIds
  BY DEF BoardsInv, BoardsTyped
<1>3. NoLostUpdate'
  BY DEF BoardsInv, NoLostUpdate
<1> QED BY <1>1, <1>2, <1>3, MoveKeeps

\* Turns of one screen, and of none.
LEMMA TurnFacts ==
    ASSUME NEW f, DOMAIN f = Screens, NEW c \in Screens
    PROVE  Turns(f, f, c, f[c]) /\ \A v : Turns(f, [f EXCEPT ![c] = v], c, v)
BY DEF Turns

\* What is known of each screen.
LEMMA ScreenFacts ==
    ASSUME BoardsInv, NEW c \in Screens
    PROVE  /\ DOMAIN room = Screens /\ DOMAIN editor = Screens /\ DOMAIN asked = Screens
           /\ room[c] \in Contents /\ EditorShape(editor[c]) /\ AskShape(asked[c], editor[c])
           /\ ScreenFits(boards, phantom, room[c], editor[c], asked[c], c, born)
BY DEF BoardsInv, BoardsTyped

\* A dashboard is in the cache as it is known.
LEMMA CacheFacts ==
    ASSUME BoardsInv, NEW d \in DashIds
    PROVE  /\ boards.cache \in Contents
           /\ boards.cache[d] # NoBoard =>
                 /\ boards.cache[d] \in Plain /\ d \in born
                 /\ Current(boards, d, boards.cache[d].revision, boards.cache[d].layouts)
<1>1. boards \in Collections(Contents, Screens) /\ Everywhere(boards, Recorded(boards, d))
  BY DEF BoardsInv, BoardsTyped, AllRecorded
<1>2. boards.cache \in Contents /\ boards.cache \in Recorded(boards, d)
  BY <1>1, VersionFacts
<1>3. ASSUME d \notin born PROVE boards.cache[d] = NoBoard
  <2>1. Everywhere(boards, Absent(d))
    BY <1>3 DEF BoardsInv, AllAbsent
  <2>2. boards.cache \in Absent(d)
    BY <1>1, <2>1, VersionFacts
  <2> QED BY <2>2 DEF Absent
<1> QED BY <1>2, <1>3 DEF Recorded, Contents

\* The app takes the caller's dashboards as its copy.
LEMMA RefreshKeeps ==
    ASSUME BoardsInv, NEW c \in Screens, RefreshDashboards(c)
    PROVE  BoardsInv'
<1> DEFINE r == [d \in DashIds |->
                    IF boards.cache[d] # NoBoard /\ boards.cache[d].userId = UserOf[c]
                    THEN boards.cache[d] ELSE NoBoard]
           e == editor[c]
           q == asked[c]
<1>1. /\ room' = [room EXCEPT ![c] = r] /\ editor' = editor /\ asked' = asked
      /\ phantom' = (IF e.open THEN phantom ELSE phantom \ ({c} \X DashIds))
      /\ boards' = boards /\ born' = born /\ accepted' = accepted
  BY DEF RefreshDashboards
<1>2. \A d \in DashIds : r[d] = NoBoard \/ (r[d] = boards.cache[d] /\ boards.cache[d] # NoBoard)
  OBVIOUS
<1>3. r \in Contents
  <2>1. \A d \in DashIds : r[d] \in Plain \cup {NoBoard}
    BY <1>2, CacheFacts
  <2> QED BY <2>1 DEF Contents
<1>4. /\ Turns(room, room', c, r) /\ Turns(editor, editor', c, e) /\ Turns(asked, asked', c, q)
  BY <1>1, ScreenFacts, TurnFacts
<1> HIDE DEF r
<1>5. Spares(phantom, phantom', c)
  BY <1>1 DEF Spares
<1>6. ScreenFits(boards, phantom', r, e, q, c, born)
  <2> SUFFICES ASSUME NEW d \in DashIds
               PROVE  /\ CopiesFit(boards, phantom', r[d], e, q, c, d)
                      /\ d \notin born =>
                            /\ r[d] = NoBoard /\ ~(e.open /\ e.dash = d)
                            /\ ~(q.at \in {"storing", "auditing"} /\ q.dash = d)
    BY DEF ScreenFits
  <2>1. /\ CopiesFit(boards, phantom, room[c][d], e, q, c, d)
        /\ d \notin born =>
              /\ ~(e.open /\ e.dash = d) /\ ~(q.at \in {"storing", "auditing"} /\ q.dash = d)
    BY ScreenFacts DEF ScreenFits
  <2>2. r[d] # NoBoard => d \in born /\ Current(boards, d, r[d].revision, r[d].layouts)
    BY <1>2, CacheFacts
  <2>3. <<c, d>> \notin phantom' => <<c, d>> \notin phantom \/ ~e.open
    BY <1>1
  <2> QED BY <2>1, <2>2, <2>3 DEF CopiesFit
<1>7. EditorShape(e) /\ AskShape(q, e)
  BY ScreenFacts
<1>8. Moves(c, r, e, q)
  BY <1>1, <1>3, <1>4, <1>5, <1>6, <1>7 DEF Moves
<1> QED BY <1>1, <1>8, AppKeeps

\* The app opens, changes or closes its editor, or sends a request: nothing it
\* has or is waiting for becomes anything else.
LEMMA EditKeeps ==
    ASSUME BoardsInv, NEW c \in Screens, NEW e, NEW q, EditorShape(e), AskShape(q, e),
           Turns(editor, editor', c, e), Turns(asked, asked', c, q),
           room' = room, phantom' = phantom, boards' = boards, born' = born, accepted' = accepted,
           ~(q.at \in {"storing", "auditing"}),
           \/ ~e.open
           \/ /\ room[c][e.dash] # NoBoard /\ e.revision = room[c][e.dash].revision
              /\ Either(e.layouts, e.changed) = room[c][e.dash].layouts
           \/ /\ editor[c].open /\ e.dash = editor[c].dash /\ e.revision = editor[c].revision
              /\ Either(e.layouts, e.changed) = Either(editor[c].layouts, editor[c].changed)
    PROVE  BoardsInv'
<1>1. ScreenFits(boards, phantom, room[c], e, q, c, born)
  <2> SUFFICES ASSUME NEW d \in DashIds
               PROVE  /\ CopiesFit(boards, phantom, room[c][d], e, q, c, d)
                      /\ d \notin born =>
                            /\ room[c][d] = NoBoard /\ ~(e.open /\ e.dash = d)
                            /\ ~(q.at \in {"storing", "auditing"} /\ q.dash = d)
    BY DEF ScreenFits
  <2>1. /\ CopiesFit(boards, phantom, room[c][d], editor[c], asked[c], c, d)
        /\ d \notin born => room[c][d] = NoBoard /\ ~(editor[c].open /\ editor[c].dash = d)
    BY ScreenFacts DEF ScreenFits
  <2>2. CASE ~e.open
    BY <2>1, <2>2 DEF CopiesFit
  <2>3. CASE /\ room[c][e.dash] # NoBoard /\ e.revision = room[c][e.dash].revision
             /\ Either(e.layouts, e.changed) = room[c][e.dash].layouts
    BY <2>1, <2>3 DEF CopiesFit
  <2>4. CASE /\ editor[c].open /\ e.dash = editor[c].dash /\ e.revision = editor[c].revision
             /\ Either(e.layouts, e.changed) = Either(editor[c].layouts, editor[c].changed)
    BY <2>1, <2>4 DEF CopiesFit
  <2> QED BY <2>2, <2>3, <2>4
<1>2. room[c] \in Contents /\ Turns(room, room', c, room[c]) /\ Spares(phantom, phantom', c)
  BY ScreenFacts, TurnFacts DEF Spares
<1>3. Moves(c, room[c], e, q)
  BY <1>1, <1>2 DEF Moves
<1> QED BY <1>3, AppKeeps

\* An editor opens on the app's copy, or closes.
LEMMA EditorKeeps ==
    ASSUME BoardsInv, NEW c \in Screens,
           \/ \E d \in DashIds : OpenEditor(c, d)
           \/ CloseEditor(c)
    PROVE  BoardsInv'
<1>1. DOMAIN editor = Screens /\ DOMAIN asked = Screens /\ room[c] \in Contents
  BY ScreenFacts
<1>2. ASSUME NEW d \in DashIds, OpenEditor(c, d) PROVE BoardsInv'
  <2> DEFINE e == [open |-> TRUE, dash |-> d, revision |-> room[c][d].revision,
                   layouts |-> room[c][d].layouts, changed |-> {}, conflict |-> FALSE]
  <2>1. /\ asked[c] = NoAsk /\ room[c][d] # NoBoard /\ editor' = [editor EXCEPT ![c] = e] /\ asked' = asked
        /\ room' = room /\ phantom' = phantom /\ boards' = boards /\ born' = born /\ accepted' = accepted
    BY <1>2 DEF OpenEditor
  <2>2. /\ e.open /\ e.dash = d /\ e.revision = room[c][d].revision /\ e.layouts = room[c][d].layouts
        /\ e.changed = {} /\ DOMAIN e = {"open", "dash", "revision", "layouts", "changed", "conflict"}
    OBVIOUS
  <2> HIDE DEF e
  <2>3. room[c][d].revision \in Nat /\ room[c][d].layouts \in SUBSET Widgets
    <3>1. room[c][d] \in Plain
      BY <1>1, <2>1 DEF Contents
    <3> QED BY <3>1 DEF Plain
  <2>4. EditorShape(e) /\ AskShape(NoAsk, e)
    BY <2>2, <2>3 DEF EditorShape, AskShape, NoAsk
  <2>5. Either(e.layouts, e.changed) = room[c][d].layouts
    BY <2>2 DEF Either
  <2>6. Turns(editor, editor', c, e) /\ Turns(asked, asked', c, NoAsk)
    BY <1>1, <2>1, TurnFacts
  <2>7. ~(NoAsk.at \in {"storing", "auditing"})
    BY DEF NoAsk
  <2> QED BY <2>1, <2>2, <2>4, <2>5, <2>6, <2>7, EditKeeps
<1>3. CASE CloseEditor(c)
  <2>1. /\ asked[c] = NoAsk /\ editor' = [editor EXCEPT ![c] = NoEditor] /\ asked' = asked
        /\ room' = room /\ phantom' = phantom /\ boards' = boards /\ born' = born /\ accepted' = accepted
    BY <1>3 DEF CloseEditor
  <2>2. EditorShape(NoEditor) /\ AskShape(NoAsk, NoEditor) /\ ~NoEditor.open
        /\ ~(NoAsk.at \in {"storing", "auditing"})
    BY DEF EditorShape, AskShape, NoAsk, NoEditor
  <2>3. Turns(editor, editor', c, NoEditor) /\ Turns(asked, asked', c, NoAsk)
    BY <1>1, <2>1, TurnFacts
  <2> QED BY <2>1, <2>2, <2>3, EditKeeps
<1> QED BY <1>2, <1>3

\* The user changes widgets and the app sends what the editor shows.
LEMMA SaveKeeps ==
    ASSUME BoardsInv, NEW c \in Screens, NEW W \in SUBSET Widgets, Save(c, W)
    PROVE  BoardsInv'
<1> DEFINE e0 == editor[c]
           e  == [e0 EXCEPT !.layouts = Either(@, W), !.changed = Either(@, W)]
           q  == [at |-> "sent", verb |-> "put", dash |-> e0.dash, revision |-> e0.revision,
                  layouts |-> Either(e0.layouts, W), forced |-> FALSE]
<1>1. DOMAIN editor = Screens /\ DOMAIN asked = Screens /\ EditorShape(e0)
  BY ScreenFacts
<1>2. /\ e0.open /\ asked' = [asked EXCEPT ![c] = q]
      /\ editor' = [editor EXCEPT ![c].layouts = Either(@, W), ![c].changed = Either(@, W)]
      /\ room' = room /\ phantom' = phantom /\ boards' = boards /\ born' = born /\ accepted' = accepted
  BY DEF Save
<1>3. Turns(editor, editor', c, e)
  BY <1>1, <1>2 DEF Turns
<1>4. Turns(asked, asked', c, q)
  BY <1>1, <1>2, TurnFacts
<1>5. /\ DOMAIN e0 = {"open", "dash", "revision", "layouts", "changed", "conflict"}
      /\ e0.dash \in DashIds /\ e0.revision \in Nat
      /\ e0.layouts \in SUBSET Widgets /\ e0.changed \in SUBSET Widgets
  BY <1>1, <1>2 DEF EditorShape
<1>6. /\ DOMAIN e = DOMAIN e0 /\ e.open = e0.open /\ e.dash = e0.dash /\ e.revision = e0.revision
      /\ e.layouts = Either(e0.layouts, W) /\ e.changed = Either(e0.changed, W)
  BY <1>5
<1>7. /\ q.at = "sent" /\ q.verb = "put" /\ q.dash = e0.dash /\ q.revision = e0.revision
      /\ q.layouts = Either(e0.layouts, W) /\ q.forced = FALSE
  OBVIOUS
<1> HIDE DEF e, q
<1>8. Either(e0.layouts, W) \in SUBSET Widgets /\ Either(e0.changed, W) \in SUBSET Widgets
  BY <1>5 DEF Either
<1>9. Either(e.layouts, e.changed) = Either(e0.layouts, e0.changed)
  BY <1>6 DEF Either
<1>10. EditorShape(e) /\ AskShape(q, e)
  BY <1>2, <1>5, <1>6, <1>7, <1>8 DEF EditorShape, AskShape
<1> QED BY <1>2, <1>3, <1>4, <1>6, <1>7, <1>9, <1>10, EditKeeps

\* After a conflict the app sends its layout under the next revision of its
\* copy: what it was shown is overwritten, and says so.
LEMMA OverwriteKeeps ==
    ASSUME BoardsInv, NEW c \in Screens, Overwrite(c)
    PROVE  BoardsInv'
<1> DEFINE e0 == editor[c]
           e  == [e0 EXCEPT !.conflict = FALSE]
           q  == [at |-> "sent", verb |-> "put", dash |-> e0.dash, revision |-> room[c][e0.dash].revision + 1,
                  layouts |-> e0.layouts, forced |-> TRUE]
<1>1. DOMAIN editor = Screens /\ DOMAIN asked = Screens /\ EditorShape(e0)
  BY ScreenFacts
<1>2. /\ e0.open /\ asked' = [asked EXCEPT ![c] = q]
      /\ editor' = [editor EXCEPT ![c].conflict = FALSE]
      /\ room' = room /\ phantom' = phantom /\ boards' = boards /\ born' = born /\ accepted' = accepted
  BY DEF Overwrite
<1>3. Turns(editor, editor', c, e)
  BY <1>1, <1>2 DEF Turns
<1>4. Turns(asked, asked', c, q)
  BY <1>1, <1>2, TurnFacts
<1>5. /\ DOMAIN e0 = {"open", "dash", "revision", "layouts", "changed", "conflict"}
      /\ e0.dash \in DashIds /\ e0.revision \in Nat
      /\ e0.layouts \in SUBSET Widgets /\ e0.changed \in SUBSET Widgets
  BY <1>1, <1>2 DEF EditorShape
<1>6. /\ DOMAIN e = DOMAIN e0 /\ e.open = e0.open /\ e.dash = e0.dash /\ e.revision = e0.revision
      /\ e.layouts = e0.layouts /\ e.changed = e0.changed
  BY <1>5
<1>7. /\ q.at = "sent" /\ q.verb = "put" /\ q.dash = e0.dash /\ q.layouts = e0.layouts /\ q.forced = TRUE
  OBVIOUS
<1> HIDE DEF e, q
<1>8. EditorShape(e) /\ AskShape(q, e)
  BY <1>2, <1>5, <1>6, <1>7 DEF EditorShape, AskShape
<1> QED BY <1>2, <1>3, <1>4, <1>6, <1>7, <1>8, EditKeeps

\* A request for a new dashboard, or to delete one.
LEMMA AskKeeps ==
    ASSUME BoardsInv, NEW c \in Screens, AskNew(c) \/ \E d \in DashIds : AskDelete(c, d)
    PROVE  BoardsInv'
<1>1. DOMAIN editor = Screens /\ DOMAIN asked = Screens /\ EditorShape(editor[c])
  BY ScreenFacts
<1>2. ASSUME NEW q, asked' = [asked EXCEPT ![c] = q], q.at = "sent", q.verb # "put",
             q.verb = "delete" => q.dash \in DashIds, ~editor[c].open,
             UNCHANGED <<boards, born, room, editor, accepted, phantom>>
      PROVE  BoardsInv'
  <2>1. AskShape(q, editor[c]) /\ ~(q.at \in {"storing", "auditing"})
    BY <1>2 DEF AskShape
  <2>2. Turns(asked, asked', c, q) /\ Turns(editor, editor', c, editor[c])
    BY <1>1, <1>2, TurnFacts
  <2> QED BY <1>1, <1>2, <2>1, <2>2, EditKeeps
<1>3. CASE AskNew(c)
  <2> DEFINE q == [at |-> "sent", verb |-> "post"]
  <2>1. /\ asked' = [asked EXCEPT ![c] = q] /\ ~editor[c].open
        /\ UNCHANGED <<boards, born, room, editor, accepted, phantom>>
    BY <1>3 DEF AskNew
  <2>2. q.at = "sent" /\ q.verb = "post"
    OBVIOUS
  <2> HIDE DEF q
  <2> QED BY <1>2, <2>1, <2>2
<1>4. ASSUME NEW d \in DashIds, AskDelete(c, d) PROVE BoardsInv'
  <2> DEFINE q == [at |-> "sent", verb |-> "delete", dash |-> d]
  <2>1. /\ asked' = [asked EXCEPT ![c] = q] /\ ~editor[c].open
        /\ UNCHANGED <<boards, born, room, editor, accepted, phantom>>
    BY <1>4 DEF AskDelete
  <2>2. q.at = "sent" /\ q.verb = "delete" /\ q.dash \in DashIds
    OBVIOUS
  <2> HIDE DEF q
  <2> QED BY <1>2, <2>1, <2>2
<1> QED BY <1>3, <1>4

----------------------------------------------------------------------------
\* An error comes back: the editor keeps what it shows.
LEMMA RefusedMoves ==
    ASSUME BoardsInv, NEW c \in Screens, NEW k, Refused(c, k), room' = room, phantom' = phantom, born' = born,
           AllGo(boards, boards', born)
    PROVE  \E e : Moves(c, room[c], e, NoAsk)
<1> DEFINE e0 == editor[c]
<1>1. /\ DOMAIN room = Screens /\ DOMAIN editor = Screens /\ DOMAIN asked = Screens
      /\ room[c] \in Contents /\ EditorShape(e0)
      /\ ScreenFits(boards, phantom, room[c], e0, asked[c], c, born)
  BY ScreenFacts
<1>2. PICK e : /\ Turns(editor, editor', c, e) /\ EditorShape(e) /\ (e.open <=> e0.open)
               /\ e.open => /\ e.dash = e0.dash /\ e.revision = e0.revision
                            /\ e.layouts = e0.layouts /\ e.changed = e0.changed
  <2>1. CASE e0.open
    <3> DEFINE e == [e0 EXCEPT !.conflict = k]
    <3>1. editor' = [editor EXCEPT ![c].conflict = k]
      BY <2>1 DEF Refused
    <3>2. Turns(editor, editor', c, e)
      BY <1>1, <3>1 DEF Turns
    <3>3. /\ DOMAIN e0 = {"open", "dash", "revision", "layouts", "changed", "conflict"}
      BY <1>1, <2>1 DEF EditorShape
    <3>4. /\ DOMAIN e = DOMAIN e0 /\ e.open = e0.open /\ e.dash = e0.dash /\ e.revision = e0.revision
          /\ e.layouts = e0.layouts /\ e.changed = e0.changed
      BY <3>3
    <3> HIDE DEF e
    <3>5. EditorShape(e)
      BY <1>1, <3>4 DEF EditorShape
    <3> QED BY <3>2, <3>4, <3>5
  <2>2. CASE ~e0.open
    <3>1. editor' = editor
      BY <2>2 DEF Refused
    <3>2. Turns(editor, editor', c, e0)
      BY <1>1, <3>1, TurnFacts
    <3> QED BY <1>1, <3>2
  <2> QED BY <2>1, <2>2
<1>3. Turns(asked, asked', c, NoAsk)
  BY <1>1, TurnFacts DEF Refused
<1>4. /\ AskShape(NoAsk, e) /\ ~(NoAsk.at \in {"storing", "auditing"})
  BY DEF AskShape, NoAsk
<1>5. ScreenFits(boards, phantom, room[c], e, NoAsk, c, born)
  BY <1>1, <1>2, <1>4 DEF ScreenFits, CopiesFit
<1>6. ScreenFits(boards', phantom', room[c], e, NoAsk, c, born')
  BY <1>1, <1>2, <1>4, <1>5, ScreenGoes
<1>7. Turns(room, room', c, room[c]) /\ Spares(phantom, phantom', c)
  BY <1>1, TurnFacts DEF Spares
<1> QED BY <1>1, <1>2, <1>3, <1>4, <1>6, <1>7 DEF Moves

\* The answer comes: what it brought is the copy, and what the editor is open on.
LEMMA AnsweredMoves ==
    ASSUME BoardsInv, NEW c \in Screens, asked[c].at \in {"storing", "auditing"}, Answered(c, asked[c]),
           born' = born, AllGo(boards, boards', born)
    PROVE  \E r, e : Moves(c, r, e, NoAsk)
<1> DEFINE q  == asked[c]
           e0 == editor[c]
           d  == q.dash
           r  == [room[c] EXCEPT ![d] = IF q.verb = "delete" THEN NoBoard ELSE q.saved]
<1>1. /\ DOMAIN room = Screens /\ DOMAIN editor = Screens /\ DOMAIN asked = Screens
      /\ room[c] \in Contents /\ EditorShape(e0) /\ AskShape(q, e0)
      /\ ScreenFits(boards, phantom, room[c], e0, q, c, born)
  BY ScreenFacts
<1>2. /\ asked' = [asked EXCEPT ![c] = NoAsk]
      /\ room' = [room EXCEPT ![c][d] = IF q.verb = "delete" THEN NoBoard ELSE q.saved]
      /\ phantom' = phantom \ {<<c, d>>}
  BY DEF Answered
<1>3. /\ d \in DashIds /\ (q.verb # "delete" => q.saved \in Plain)
      /\ IF q.verb = "put" THEN e0.open /\ e0.dash = d ELSE ~e0.open
  BY <1>1 DEF AskShape
<1>4. /\ d \in born /\ (q.verb # "delete" => Current(boards, d, q.saved.revision, q.saved.layouts))
  BY <1>1, <1>3 DEF ScreenFits, CopiesFit
<1>5. /\ r \in Contents /\ Turns(room, room', c, r)
      /\ r[d] = (IF q.verb = "delete" THEN NoBoard ELSE q.saved)
      /\ \A x \in DashIds : x # d => r[x] = room[c][x]
  <2>1. room[c] \in [DashIds -> Plain \cup {NoBoard}]
    BY <1>1 DEF Contents
  <2>2. Turns(room, room', c, r)
    BY <1>1, <1>2 DEF Turns
  <2> QED BY <1>3, <2>1, <2>2 DEF Contents
<1>6. PICK e : /\ Turns(editor, editor', c, e) /\ EditorShape(e)
               /\ e.open => /\ q.verb = "put" /\ e.dash = d /\ e.revision = q.saved.revision
                            /\ Either(e.layouts, e.changed) = q.saved.layouts
  <2>1. CASE q.verb = "put"
    <3> DEFINE e == [e0 EXCEPT !.revision = q.saved.revision, !.layouts = q.saved.layouts,
                        !.changed = {}, !.conflict = FALSE]
    <3>1. editor' = [editor EXCEPT ![c].revision = q.saved.revision, ![c].layouts = q.saved.layouts,
                        ![c].changed = {}, ![c].conflict = FALSE]
      BY <2>1 DEF Answered
    <3>2. Turns(editor, editor', c, e)
      BY <1>1, <3>1 DEF Turns
    <3>3. /\ DOMAIN e0 = {"open", "dash", "revision", "layouts", "changed", "conflict"} /\ e0.dash = d
      BY <1>1, <1>3, <2>1 DEF EditorShape
    <3>4. /\ DOMAIN e = DOMAIN e0 /\ e.dash = d /\ e.revision = q.saved.revision
          /\ e.layouts = q.saved.layouts /\ e.changed = {}
      BY <3>3
    <3>5. q.saved.revision \in Nat /\ q.saved.layouts \in SUBSET Widgets
      BY <1>3, <2>1 DEF Plain
    <3> HIDE DEF e
    <3>6. EditorShape(e)
      BY <1>3, <3>3, <3>4, <3>5 DEF EditorShape
    <3>7. Either(e.layouts, e.changed) = q.saved.layouts
      BY <3>4 DEF Either
    <3> QED BY <2>1, <3>2, <3>4, <3>6, <3>7
  <2>2. CASE q.verb # "put"
    <3>1. editor' = editor /\ ~e0.open
      BY <1>3, <2>2 DEF Answered
    <3>2. Turns(editor, editor', c, e0)
      BY <1>1, <3>1, TurnFacts
    <3> QED BY <1>1, <3>1, <3>2
  <2> QED BY <2>1, <2>2
<1> HIDE DEF r
<1>7. /\ AskShape(NoAsk, e) /\ ~(NoAsk.at \in {"storing", "auditing"}) /\ Turns(asked, asked', c, NoAsk)
  BY <1>1, <1>2, TurnFacts DEF AskShape, NoAsk
<1>8. ScreenFits(boards, phantom', r, e, NoAsk, c, born)
  <2> SUFFICES ASSUME NEW x \in DashIds
               PROVE  /\ CopiesFit(boards, phantom', r[x], e, NoAsk, c, x)
                      /\ x \notin born => r[x] = NoBoard /\ ~(e.open /\ e.dash = x)
    BY <1>7 DEF ScreenFits
  <2>1. CASE x = d
    BY <1>4, <1>5, <1>6, <1>7, <2>1 DEF CopiesFit
  <2>2. CASE x # d
    <3>1. /\ CopiesFit(boards, phantom, room[c][x], e0, q, c, x)
          /\ x \notin born => room[c][x] = NoBoard
      BY <1>1 DEF ScreenFits
    <3>2. r[x] = room[c][x] /\ ~(e.open /\ e.dash = x) /\ (<<c, x>> \notin phantom' => <<c, x>> \notin phantom)
      BY <1>2, <1>5, <1>6, <2>2
    <3> QED BY <1>7, <3>1, <3>2 DEF CopiesFit
  <2> QED BY <2>1, <2>2
<1>9. ScreenFits(boards', phantom', r, e, NoAsk, c, born')
  BY <1>5, <1>6, <1>7, <1>8, ScreenGoes
<1>10. Spares(phantom, phantom', c)
  BY <1>2 DEF Spares
<1> QED BY <1>5, <1>6, <1>7, <1>9, <1>10 DEF Moves

\* A dashboard is written: what the collection says of the others stays.
LEMMA PutsKeep ==
    ASSUME BoardsInv, NEW c \in Screens, NEW d \in DashIds, NEW C \in Contents,
           OnlyAt(d, DashIds, boards.cache, C), boards' = Update(boards, c, C),
           d \in born => Goes(boards, boards', d),
           Everywhere(boards', Recorded(boards', d)),
           born' = born \cup {d}, DOMAIN accepted' = DashIds,
           \A x \in DashIds : x # d => accepted'[x] = accepted[x],
           C[d] # NoBoard => C[d].layouts = accepted'[d]
    PROVE  /\ boards' \in Collections(Contents, Screens) /\ AllGo(boards, boards', born)
           /\ AllRecorded(boards') /\ AllAbsent(boards', accepted', born') /\ NoLostUpdate'
<1>1. boards \in Collections(Contents, Screens)
  BY DEF BoardsInv, BoardsTyped
<1>2. boards' \in Collections(Contents, Screens) /\ boards'.cache = C
  BY <1>1, UpdateFacts
<1>3. ASSUME NEW x \in DashIds, x # d
      PROVE  /\ Goes(boards, boards', x) /\ Everywhere(boards', Recorded(boards', x))
             /\ x \notin born => Everywhere(boards', Absent(x))
  <2>1. /\ Everywhere(boards, Recorded(boards, x)) /\ (x \notin born => Everywhere(boards, Absent(x)))
    BY DEF BoardsInv, AllRecorded, AllAbsent
  <2> QED BY <1>1, <1>3, <2>1, OthersGo
<1>4. AllGo(boards, boards', born)
  BY <1>3 DEF AllGo
<1>5. AllRecorded(boards')
  BY <1>3 DEF AllRecorded
<1>6. AllAbsent(boards', accepted', born')
  <2> SUFFICES ASSUME NEW x \in DashIds, x \notin born'
               PROVE  Everywhere(boards', Absent(x)) /\ accepted'[x] = {}
    BY DEF AllAbsent
  <2>1. x # d /\ x \notin born
    OBVIOUS
  <2>2. accepted[x] = {}
    BY <2>1 DEF BoardsInv, AllAbsent
  <2> QED BY <1>3, <2>1, <2>2
<1>7. NoLostUpdate'
  <2> SUFFICES ASSUME NEW x \in DashIds, boards'.cache[x] # NoBoard
               PROVE  boards'.cache[x].layouts = accepted'[x]
    BY DEF NoLostUpdate
  <2>1. CASE x = d
    BY <1>2, <2>1
  <2>2. CASE x # d
    <3>1. boards'.cache[x] = boards.cache[x] /\ accepted'[x] = accepted[x]
      BY <1>2, <2>2 DEF OnlyAt
    <3> QED BY <3>1 DEF BoardsInv, NoLostUpdate
  <2> QED BY <2>1, <2>2
<1> QED BY <1>2, <1>4, <1>5, <1>6, <1>7

\* A request that was refused, or taken: what the screen has is in order if the
\* answer that is to come will be.
LEMMA StoringFits ==
    ASSUME BoardsInv, NEW c \in Screens, AllGo(boards, boards', born), born \subseteq born',
           room' = room, editor' = editor, phantom' = phantom, NEW q, asked' = [asked EXCEPT ![c] = q],
           AskShape(q, editor[c]), q.at = "storing",
           q.dash \in born',
           q.verb # "delete" => Current(boards', q.dash, q.saved.revision, q.saved.layouts)
    PROVE  Moves(c, room[c], editor[c], q)
<1>1. /\ DOMAIN room = Screens /\ DOMAIN editor = Screens /\ DOMAIN asked = Screens
      /\ room[c] \in Contents /\ EditorShape(editor[c])
      /\ ScreenFits(boards, phantom, room[c], editor[c], asked[c], c, born)
  BY ScreenFacts
<1>2. AskShape(NoAsk, editor[c]) /\ ~(NoAsk.at \in {"storing", "auditing"})
  BY DEF AskShape, NoAsk
<1>3. ScreenFits(boards, phantom, room[c], editor[c], NoAsk, c, born)
  BY <1>1, <1>2 DEF ScreenFits, CopiesFit
<1>4. ScreenFits(boards', phantom', room[c], editor[c], NoAsk, c, born')
  BY <1>1, <1>2, <1>3, ScreenGoes
<1>5. ScreenFits(boards', phantom', room[c], editor[c], q, c, born')
  BY <1>2, <1>4 DEF ScreenFits, CopiesFit
<1>6. /\ Turns(room, room', c, room[c]) /\ Turns(editor, editor', c, editor[c]) /\ Turns(asked, asked', c, q)
      /\ Spares(phantom, phantom', c)
  BY <1>1, TurnFacts DEF Spares
<1> QED BY <1>1, <1>5, <1>6 DEF Moves

\* A PUT is taken: it carries the revision of the cache, so that what it was
\* edited on is what has been accepted.
LEMMA TakeUpdateKeeps ==
    ASSUME BoardsInv, NEW c \in Screens, asked[c].at = "sent", asked[c].verb = "put",
           Owned(c, asked[c].dash), boards.cache[asked[c].dash].revision = asked[c].revision,
           TakeUpdate(c), UNCHANGED <<born, room, phantom>>
    PROVE  BoardsInv'
<1> DEFINE q  == asked[c]
           e0 == editor[c]
           d  == q.dash
           b0 == boards.cache[d]
           b  == [b0 EXCEPT !.revision = @ + 1, !.layouts = q.layouts]
           C  == [boards.cache EXCEPT ![d] = b]
           q2 == [at |-> "storing", verb |-> "put", dash |-> d, saved |-> b]
           known == IF q.forced \/ <<c, d>> \in phantom THEN q.layouts ELSE Either(accepted[d], e0.changed)
<1>1. /\ EditorShape(e0) /\ AskShape(q, e0) /\ ScreenFits(boards, phantom, room[c], e0, q, c, born)
  BY ScreenFacts
<1>2. /\ e0.open /\ d = e0.dash /\ d \in DashIds /\ q.layouts \in SUBSET Widgets
      /\ e0.layouts \in SUBSET Widgets /\ e0.changed \in SUBSET Widgets
      /\ ~q.forced => q.revision = e0.revision /\ q.layouts = e0.layouts
  BY <1>1 DEF AskShape, EditorShape
<1>3. /\ boards.cache \in Contents /\ b0 # NoBoard /\ b0 \in Plain /\ d \in born
      /\ Everywhere(boards, Recorded(boards, d))
  BY <1>2, CacheFacts DEF Owned, BoardsInv, AllRecorded
<1>4. /\ boards.cache \in [DashIds -> Plain \cup {NoBoard}]
      /\ b0.revision \in Nat /\ b0.userId \in Users /\ DOMAIN b0 = {"userId", "revision", "layouts"}
      /\ b0 = [userId |-> b0.userId, revision |-> b0.revision, layouts |-> b0.layouts]
  BY <1>3 DEF Contents, Plain
<1>5. /\ b = [x \in {"userId", "revision", "layouts"} |-> b[x]]
      /\ b.userId = b0.userId /\ b.revision = b0.revision + 1 /\ b.layouts = q.layouts
  <2> HIDE DEF b0, q
  <2> QED BY <1>3 DEF Plain
<1>6. b \in Plain
  <2> HIDE DEF b
  <2> QED BY <1>2, <1>4, <1>5 DEF Plain
<1> HIDE DEF b
<1>7. C \in Contents /\ C[d] = b /\ OnlyAt(d, DashIds, boards.cache, C)
  BY <1>2, <1>4, <1>6 DEF Contents, OnlyAt
<1>8. boards' = Update(boards, c, C)
  BY DEF TakeUpdate, Stored, b
<1> HIDE DEF C
<1>9. boards \in Collections(Contents, Screens)
  BY DEF BoardsInv, BoardsTyped
<1>10. boards' \in Collections(Contents, Screens) /\ boards'.cache = C
  BY <1>7, <1>8, <1>9, UpdateFacts
<1>11. asked' = [asked EXCEPT ![c] = q2]
  BY <1>7, <1>10 DEF TakeUpdate
<1>12. /\ accepted' = [accepted EXCEPT ![d] = known] /\ editor' = editor
       /\ born' = born /\ room' = room /\ phantom' = phantom
  BY DEF TakeUpdate
<1>13. /\ Goes(boards, boards', d) /\ Current(boards', d, C[d].revision, C[d].layouts)
       /\ Everywhere(boards', Recorded(boards', d))
  <2>1. C[d] \in Plain /\ C[d].revision = boards.cache[d].revision + 1
    BY <1>5, <1>6, <1>7
  <2> QED BY <1>2, <1>3, <1>7, <1>8, <1>9, <2>1, RevisedGoes
<1>14. known = q.layouts
  <2>1. CASE q.forced \/ <<c, d>> \in phantom
    BY <2>1
  <2>2. CASE ~(q.forced \/ <<c, d>> \in phantom)
    <3>1. Current(boards, d, e0.revision, Either(e0.layouts, e0.changed))
      BY <1>1, <1>2, <2>2 DEF ScreenFits, CopiesFit
    <3>2. boards.cache \in Agreeing(d, e0.revision, Either(e0.layouts, e0.changed))
      BY <1>9, <3>1, VersionFacts DEF Current
    <3>3. b0.layouts = Either(e0.layouts, e0.changed)
      BY <1>2, <1>3, <2>2, <3>2 DEF Agreeing
    <3>4. accepted[d] = b0.layouts
      BY <1>2, <1>3 DEF BoardsInv, NoLostUpdate
    <3>5. Either(accepted[d], e0.changed) = e0.layouts
      BY <3>3, <3>4 DEF Either
    <3> QED BY <1>2, <2>2, <3>5
  <2> QED BY <2>1, <2>2
<1> HIDE DEF known
<1>15. DOMAIN accepted = DashIds
  BY DEF BoardsInv, BoardsTyped
<1>16. /\ DOMAIN accepted' = DashIds /\ accepted'[d] = q.layouts
       /\ \A x \in DashIds : x # d => accepted'[x] = accepted[x]
  BY <1>2, <1>12, <1>14, <1>15
<1>17. born' = born \cup {d}
  BY <1>3, <1>12
<1>18. C[d].layouts = accepted'[d]
  BY <1>5, <1>7, <1>16
<1>19. /\ AllGo(boards, boards', born) /\ AllRecorded(boards') /\ AllAbsent(boards', accepted', born')
       /\ NoLostUpdate'
  BY <1>2, <1>7, <1>8, <1>13, <1>16, <1>17, <1>18, PutsKeep
<1>20. /\ q2.at = "storing" /\ q2.verb = "put" /\ q2.dash = d /\ q2.saved = b
       /\ DOMAIN q2 = {"at", "verb", "dash", "saved"}
  OBVIOUS
<1> HIDE DEF q2
<1>21. AskShape(q2, e0)
  BY <1>2, <1>6, <1>20 DEF AskShape
<1>22. Current(boards', q2.dash, q2.saved.revision, q2.saved.layouts)
  BY <1>7, <1>13, <1>20
<1>23. Moves(c, room[c], editor[c], q2)
  BY <1>11, <1>12, <1>17, <1>19, <1>20, <1>21, <1>22, <1>3, StoringFits
<1> QED BY <1>10, <1>12, <1>16, <1>19, <1>23, MoveKeeps

\* A PUT is taken, or refused, with or without a conflict.
LEMMA UpdateBoardKeeps ==
    ASSUME BoardsInv, NEW c \in Screens, UpdateBoard(c)
    PROVE  BoardsInv'
<1> DEFINE q == asked[c]
           conflict == Owned(c, q.dash) /\ boards.cache[q.dash].revision # q.revision
<1>1. /\ q.at = "sent" /\ q.verb = "put" /\ born' = born /\ room' = room /\ phantom' = phantom
      /\ IF Owned(c, q.dash) /\ ~conflict /\ WidgetsVisible(c, q.layouts) THEN TakeUpdate(c)
         ELSE Refused(c, conflict) /\ boards' = boards /\ accepted' = accepted
  BY DEF UpdateBoard
<1>2. CASE Owned(c, q.dash) /\ ~conflict /\ TakeUpdate(c)
  BY <1>1, <1>2, TakeUpdateKeeps
<1>3. CASE Refused(c, conflict) /\ boards' = boards /\ accepted' = accepted
  <2>1. AllGo(boards, boards', born)
    BY <1>3 DEF AllGo, Goes
  <2> HIDE DEF conflict
  <2>2. \E e : Moves(c, room[c], e, NoAsk)
    BY <1>1, <1>3, <2>1, RefusedMoves
  <2> QED BY <1>1, <1>3, <2>2, AppKeeps
<1> QED BY <1>1, <1>2, <1>3

\* A POST is taken: no version of the collection holds its id.
LEMMA CreateBoardKeeps ==
    ASSUME BoardsInv, NEW c \in Screens, NEW d \in DashIds, CreateBoard(c, d)
    PROVE  BoardsInv'
<1> DEFINE b  == [userId |-> UserOf[c], revision |-> 1, layouts |-> {}]
           C  == [boards.cache EXCEPT ![d] = b]
           q2 == [at |-> "storing", verb |-> "post", dash |-> d, saved |-> b]
<1>1. /\ EditorShape(editor[c]) /\ AskShape(asked[c], editor[c])
      /\ asked[c].at = "sent" /\ asked[c].verb = "post" /\ d \notin born
      /\ born' = born \cup {d} /\ room' = room /\ editor' = editor /\ accepted' = accepted /\ phantom' = phantom
  BY ScreenFacts DEF CreateBoard
<1>2. ~editor[c].open
  BY <1>1 DEF AskShape
<1>3. b \in Plain /\ b.revision = 1 /\ b.layouts = {}
  BY DEF Plain, Users
<1> HIDE DEF b
<1>4. boards \in Collections(Contents, Screens) /\ boards.cache \in [DashIds -> Plain \cup {NoBoard}]
  <2>1. boards \in Collections(Contents, Screens)
    BY DEF BoardsInv, BoardsTyped
  <2> QED BY <2>1, VersionFacts DEF Contents
<1>5. C \in Contents /\ C[d] = b /\ OnlyAt(d, DashIds, boards.cache, C)
  BY <1>3, <1>4 DEF Contents, OnlyAt
<1>6. boards' = Update(boards, c, C)
  BY DEF CreateBoard, Stored, b
<1> HIDE DEF C
<1>7. boards' \in Collections(Contents, Screens) /\ boards'.cache = C
  BY <1>4, <1>5, <1>6, UpdateFacts
<1>8. asked' = [asked EXCEPT ![c] = q2]
  BY <1>5, <1>7 DEF CreateBoard
<1>9. Everywhere(boards, Absent(d)) /\ accepted[d] = {} /\ DOMAIN accepted = DashIds
  BY <1>1 DEF BoardsInv, BoardsTyped, AllAbsent
<1>10. Current(boards', d, C[d].revision, C[d].layouts) /\ Everywhere(boards', Recorded(boards', d))
  BY <1>3, <1>4, <1>5, <1>6, <1>9, CreatedGoes
<1>11. /\ AllGo(boards, boards', born) /\ AllRecorded(boards') /\ AllAbsent(boards', accepted', born')
       /\ NoLostUpdate'
  <2>1. C[d].layouts = accepted'[d]
    BY <1>1, <1>3, <1>5, <1>9
  <2>2. DOMAIN accepted' = DashIds /\ \A x \in DashIds : x # d => accepted'[x] = accepted[x]
    BY <1>1, <1>9
  <2>3. d \in born => Goes(boards, boards', d)
    BY <1>1
  <2> QED BY <1>1, <1>5, <1>6, <1>10, <2>1, <2>2, <2>3, PutsKeep
<1>12. /\ q2.at = "storing" /\ q2.verb = "post" /\ q2.dash = d /\ q2.saved = b
       /\ DOMAIN q2 = {"at", "verb", "dash", "saved"}
  OBVIOUS
<1> HIDE DEF q2
<1>13. AskShape(q2, editor[c])
  BY <1>2, <1>3, <1>12 DEF AskShape
<1>14. Current(boards', q2.dash, q2.saved.revision, q2.saved.layouts)
  BY <1>5, <1>10, <1>12
<1>15. q2.dash \in born' /\ born \subseteq born'
  BY <1>1, <1>12
<1>16. Moves(c, room[c], editor[c], q2)
  BY <1>1, <1>8, <1>11, <1>12, <1>13, <1>14, <1>15, StoringFits
<1> QED BY <1>1, <1>7, <1>9, <1>11, <1>15, <1>16, MoveKeeps

\* A DELETE is taken, or refused.
LEMMA DeleteBoardKeeps ==
    ASSUME BoardsInv, NEW c \in Screens, DeleteBoard(c)
    PROVE  BoardsInv'
<1> DEFINE q  == asked[c]
           d  == q.dash
           C  == [boards.cache EXCEPT ![d] = NoBoard]
           q2 == [at |-> "storing", verb |-> "delete", dash |-> d]
<1>1. /\ AskShape(q, editor[c]) /\ q.at = "sent" /\ q.verb = "delete"
      /\ born' = born /\ room' = room /\ accepted' = accepted /\ phantom' = phantom
  BY ScreenFacts DEF DeleteBoard
<1>2. ~editor[c].open /\ d \in DashIds
  BY <1>1 DEF AskShape
<1>3. CASE ~Owned(c, d)
  <2>1. Refused(c, FALSE) /\ boards' = boards
    BY <1>3 DEF DeleteBoard
  <2>2. AllGo(boards, boards', born)
    BY <2>1 DEF AllGo, Goes
  <2>3. \E e : Moves(c, room[c], e, NoAsk)
    BY <1>1, <2>1, <2>2, RefusedMoves
  <2> QED BY <1>1, <2>1, <2>3, AppKeeps
<1>4. CASE Owned(c, d)
  <2>1. /\ boards' = Update(boards, c, C) /\ asked' = [asked EXCEPT ![c] = q2] /\ editor' = editor
    BY <1>4 DEF DeleteBoard, Stored
  <2>2. d \in born
    BY <1>2, <1>4, CacheFacts DEF Owned
  <2>3. boards \in Collections(Contents, Screens) /\ boards.cache \in [DashIds -> Plain \cup {NoBoard}]
    <3>1. boards \in Collections(Contents, Screens)
      BY DEF BoardsInv, BoardsTyped
    <3> QED BY <3>1, VersionFacts DEF Contents
  <2>4. C \in Contents /\ C[d] = NoBoard /\ OnlyAt(d, DashIds, boards.cache, C)
    BY <1>2, <2>3 DEF Contents, OnlyAt
  <2> HIDE DEF C
  <2>5. boards' \in Collections(Contents, Screens)
    BY <2>1, <2>3, <2>4, UpdateFacts
  <2>6. Goes(boards, boards', d) /\ Everywhere(boards', Recorded(boards', d))
    <3>1. Everywhere(boards, Recorded(boards, d))
      BY <1>2 DEF BoardsInv, AllRecorded
    <3> QED BY <1>2, <2>1, <2>3, <2>4, <3>1, DeletedGoes
  <2>7. DOMAIN accepted' = DashIds /\ \A x \in DashIds : accepted'[x] = accepted[x]
    BY <1>1 DEF BoardsInv, BoardsTyped
  <2>8. born' = born \cup {d}
    BY <1>1, <2>2
  <2>9. /\ AllGo(boards, boards', born) /\ AllRecorded(boards') /\ AllAbsent(boards', accepted', born')
        /\ NoLostUpdate'
    BY <1>2, <2>1, <2>4, <2>6, <2>7, <2>8, PutsKeep
  <2>10. /\ q2.at = "storing" /\ q2.verb = "delete" /\ q2.dash = d
    OBVIOUS
  <2> HIDE DEF q2
  <2>11. AskShape(q2, editor[c])
    BY <1>2, <2>10 DEF AskShape
  <2>12. q2.dash \in born' /\ born \subseteq born'
    BY <2>2, <2>8, <2>10
  <2>13. Moves(c, room[c], editor[c], q2)
    BY <1>1, <2>1, <2>9, <2>10, <2>11, <2>12, StoringFits
  <2> QED BY <2>5, <2>7, <2>9, <2>12, <2>13, MoveKeeps
<1> QED BY <1>3, <1>4

\* A write lands or is rejected: its request goes on, is answered, or fails.
LEMMA BoardWriteKeeps ==
    ASSUME BoardsInv, BoardSaved \/ BoardRejected
    PROVE  BoardsInv'
<1> DEFINE c == Head(boards.writes).by
           q == asked[c]
<1>1. /\ boards.writes # <<>> /\ (boards' = Landed(boards) \/ boards' = Rejected(boards))
      /\ born' = born /\ accepted' = accepted
  BY DEF BoardSaved, BoardRejected
<1>2. /\ boards \in Collections(Contents, Screens) /\ AllRecorded(boards) /\ AllAbsent(boards, accepted, born)
      /\ DOMAIN accepted = DashIds /\ NoLostUpdate
  BY DEF BoardsInv, BoardsTyped
<1>3. /\ boards' \in Collections(Contents, Screens) /\ boards'.cache = boards.cache /\ c \in Screens
      /\ AllGo(boards, boards', born) /\ AllRecorded(boards') /\ AllAbsent(boards', accepted', born')
  BY <1>1, <1>2, WriteGoes
<1>4. DOMAIN accepted' = DashIds /\ NoLostUpdate'
  BY <1>1, <1>2, <1>3 DEF NoLostUpdate
<1>5. /\ DOMAIN room = Screens /\ DOMAIN editor = Screens /\ DOMAIN asked = Screens
      /\ room[c] \in Contents /\ EditorShape(editor[c]) /\ AskShape(q, editor[c])
      /\ ScreenFits(boards, phantom, room[c], editor[c], q, c, born)
  BY <1>3, ScreenFacts
<1>6. SUFFICES \E r, e, q2 : Moves(c, r, e, q2)
  BY <1>1, <1>3, <1>4, MoveKeeps
<1>7. CASE UNCHANGED <<asked, room, editor, phantom>>
  <2>1. ScreenFits(boards', phantom', room[c], editor[c], q, c, born')
    BY <1>1, <1>3, <1>5, <1>7, ScreenGoes
  <2>2. /\ Turns(room, room', c, room[c]) /\ Turns(editor, editor', c, editor[c]) /\ Turns(asked, asked', c, q)
        /\ Spares(phantom, phantom', c)
    BY <1>3, <1>5, <1>7, TurnFacts DEF Spares
  <2> QED BY <1>5, <2>1, <2>2 DEF Moves
<1>8. CASE /\ q.at = "storing" /\ q.verb = "put" /\ asked' = [asked EXCEPT ![c].at = "auditing"]
           /\ UNCHANGED <<room, editor, phantom>>
  <2> DEFINE q2 == [q EXCEPT !.at = "auditing"]
  <2>1. DOMAIN q = {"at", "verb", "dash", "saved"}
    BY <1>5, <1>8 DEF AskShape
  <2>2. /\ DOMAIN q2 = DOMAIN q /\ q2.at = "auditing" /\ q2.verb = "put" /\ q2.dash = q.dash /\ q2.saved = q.saved
    BY <1>8, <2>1
  <2>3. Turns(asked, asked', c, q2)
    <3> HIDE DEF c
    <3> QED BY <1>3, <1>5, <1>8 DEF Turns
  <2> HIDE DEF q2
  <2>4. AskShape(q2, editor[c])
    BY <1>5, <1>8, <2>1, <2>2 DEF AskShape
  <2>5. ScreenFits(boards, phantom, room[c], editor[c], q2, c, born)
    BY <1>5, <1>8, <2>2 DEF ScreenFits, CopiesFit
  <2>6. ScreenFits(boards', phantom', room[c], editor[c], q2, c, born')
    BY <1>1, <1>3, <1>5, <1>8, <2>4, <2>5, ScreenGoes
  <2>7. /\ Turns(room, room', c, room[c]) /\ Turns(editor, editor', c, editor[c]) /\ Spares(phantom, phantom', c)
    BY <1>3, <1>5, <1>8, TurnFacts DEF Spares
  <2> QED BY <1>5, <2>3, <2>4, <2>6, <2>7 DEF Moves
<1>9. CASE q.at = "storing" /\ Answered(c, q)
  BY <1>1, <1>3, <1>9, AnsweredMoves
<1>10. CASE Refused(c, FALSE) /\ UNCHANGED <<room, phantom>>
  BY <1>1, <1>3, <1>10, RefusedMoves
<1>11. \/ UNCHANGED <<asked, room, editor, phantom>>
       \/ /\ q.at = "storing" /\ q.verb = "put" /\ asked' = [asked EXCEPT ![c].at = "auditing"]
          /\ UNCHANGED <<room, editor, phantom>>
       \/ q.at = "storing" /\ Answered(c, q)
       \/ Refused(c, FALSE) /\ UNCHANGED <<room, phantom>>
  BY DEF BoardSaved, BoardRejected
<1> QED BY <1>7, <1>8, <1>9, <1>10, <1>11

\* The audit entry of a request is written, or throws.
LEMMA AuditKeeps ==
    ASSUME BoardsInv, NEW c \in Screens, AuditWritten(c) \/ AuditThrows(c)
    PROVE  BoardsInv'
<1>1. boards' = boards /\ born' = born /\ accepted' = accepted
  BY DEF AuditWritten, AuditThrows
<1>2. AllGo(boards, boards', born)
  BY <1>1 DEF AllGo, Goes
<1>3. CASE AuditWritten(c)
  <2>1. asked[c].at \in {"storing", "auditing"} /\ Answered(c, asked[c])
    BY <1>3 DEF AuditWritten
  <2>2. \E r, e : Moves(c, r, e, NoAsk)
    BY <1>1, <1>2, <2>1, AnsweredMoves
  <2> QED BY <1>1, <2>2, AppKeeps
<1>4. CASE AuditThrows(c)
  <2>1. Refused(c, FALSE) /\ room' = room /\ phantom' = phantom
    BY <1>4 DEF AuditThrows
  <2>2. \E e : Moves(c, room[c], e, NoAsk)
    BY <1>1, <1>2, <2>1, RefusedMoves
  <2> QED BY <1>1, <2>2, AppKeeps
<1> QED BY <1>3, <1>4

\* The adapter starts again from the file: the copies that are ahead of it are
\* phantoms from then on.
LEMMA RestartKeeps ==
    ASSUME BoardsInv, AdapterRestarts
    PROVE  BoardsInv'
<1> DEFINE saved(d) == IF boards.disk[d] = NoBoard THEN 0 ELSE boards.disk[d].revision
           holds(c, d) == \/ room[c][d] # NoBoard /\ room[c][d].revision > saved(d)
                          \/ editor[c].open /\ editor[c].dash = d /\ editor[c].revision > saved(d)
<1>1. /\ boards' = Reloaded(boards) /\ asked' = [c \in Screens |-> NoAsk]
      /\ accepted' = [d \in DashIds |-> IF boards.disk[d] = NoBoard THEN {} ELSE boards.disk[d].layouts]
      /\ phantom' = phantom \cup {p \in Screens \X DashIds : holds(p[1], p[2])}
      /\ born' = born /\ room' = room /\ editor' = editor
  BY DEF AdapterRestarts
<1>2. /\ boards \in Collections(Contents, Screens) /\ AllRecorded(boards) /\ AllAbsent(boards, accepted, born)
  BY DEF BoardsInv, BoardsTyped
<1>3. /\ boards' \in Collections(Contents, Screens) /\ boards'.cache = boards.disk /\ boards.disk \in Contents
  BY <1>1, <1>2, ReloadedFacts, VersionFacts
<1>4. AllRecorded(boards')
  BY <1>1, <1>2, RestartGoes DEF AllRecorded
<1>5. AllAbsent(boards', accepted', born')
  <2> SUFFICES ASSUME NEW d \in DashIds, d \notin born
               PROVE  Everywhere(boards', Absent(d)) /\ accepted'[d] = {}
    BY <1>1 DEF AllAbsent
  <2>1. Everywhere(boards, Absent(d))
    BY <1>2 DEF AllAbsent
  <2>2. Everywhere(boards', Absent(d))
    BY <1>1, <1>2, <2>1, RestartGoes
  <2>3. boards.disk \in Absent(d)
    BY <1>2, <2>1, VersionFacts
  <2> QED BY <1>1, <2>2, <2>3 DEF Absent
<1>6. NoLostUpdate'
  BY <1>1, <1>3 DEF NoLostUpdate
<1>7. ASSUME NEW c \in Screens
      PROVE  /\ room'[c] \in Contents /\ EditorShape(editor'[c]) /\ AskShape(asked'[c], editor'[c])
             /\ ScreenFits(boards', phantom', room'[c], editor'[c], asked'[c], c, born')
  <2>1. /\ room[c] \in Contents /\ EditorShape(editor[c])
        /\ ScreenFits(boards, phantom, room[c], editor[c], asked[c], c, born)
    BY ScreenFacts
  <2>2. asked'[c] = NoAsk /\ AskShape(NoAsk, editor[c]) /\ ~(NoAsk.at \in {"storing", "auditing"})
    BY <1>1 DEF AskShape, NoAsk
  <2>3. ASSUME NEW d \in DashIds
        PROVE  /\ CopiesFit(boards', phantom', room[c][d], editor[c], NoAsk, c, d)
               /\ d \notin born =>
                     room[c][d] = NoBoard /\ ~(editor[c].open /\ editor[c].dash = d)
    <3>1. /\ CopiesFit(boards, phantom, room[c][d], editor[c], asked[c], c, d)
          /\ d \notin born => room[c][d] = NoBoard /\ ~(editor[c].open /\ editor[c].dash = d)
      BY <2>1 DEF ScreenFits
    <3>2. <<c, d>> \notin phantom' => <<c, d>> \notin phantom /\ ~holds(c, d)
      BY <1>1
    <3>3. boards.disk[d] # NoBoard => saved(d) = boards.disk[d].revision /\ saved(d) \in Nat
      BY <1>3 DEF Contents, Plain
    <3>4. ASSUME <<c, d>> \notin phantom', room[c][d] # NoBoard
          PROVE  Current(boards', d, room[c][d].revision, room[c][d].layouts)
      <4>1. Current(boards, d, room[c][d].revision, room[c][d].layouts) /\ room[c][d].revision \in Nat
        BY <2>1, <3>1, <3>2, <3>4 DEF CopiesFit, Contents, Plain
      <4>2. ~(room[c][d].revision > saved(d))
        BY <3>2, <3>4
      <4> HIDE DEF saved
      <4>3. boards.disk[d] # NoBoard => room[c][d].revision <= boards.disk[d].revision
        BY <3>3, <4>1, <4>2
      <4> QED BY <1>1, <1>2, <4>1, <4>3, RestartGoes
    <3>5. ASSUME <<c, d>> \notin phantom', editor[c].open, editor[c].dash = d
          PROVE  Current(boards', d, editor[c].revision, Either(editor[c].layouts, editor[c].changed))
      <4>1. /\ Current(boards, d, editor[c].revision, Either(editor[c].layouts, editor[c].changed))
            /\ editor[c].revision \in Nat
        BY <2>1, <3>1, <3>2, <3>5 DEF CopiesFit, EditorShape
      <4>2. ~(editor[c].revision > saved(d))
        BY <3>2, <3>5
      <4> HIDE DEF saved
      <4>3. boards.disk[d] # NoBoard => editor[c].revision <= boards.disk[d].revision
        BY <3>3, <4>1, <4>2
      <4> QED BY <1>1, <1>2, <4>1, <4>3, RestartGoes
    <3> QED BY <2>2, <3>1, <3>4, <3>5 DEF CopiesFit
  <2> QED BY <1>1, <2>1, <2>2, <2>3 DEF ScreenFits
<1>8. BoardsTyped'
  <2>1. /\ DOMAIN room' = Screens /\ DOMAIN editor' = Screens /\ DOMAIN asked' = Screens
        /\ DOMAIN accepted' = DashIds
    BY <1>1 DEF BoardsInv, BoardsTyped
  <2> QED BY <1>3, <1>7, <2>1 DEF BoardsTyped
<1> QED BY <1>4, <1>5, <1>6, <1>7, <1>8 DEF BoardsInv

\* No dashboard exists yet.
LEMMA BoardsStart == DashboardsInit => BoardsInv
<1> SUFFICES ASSUME DashboardsInit PROVE BoardsInv
  OBVIOUS
<1> DEFINE empty == [d \in DashIds |-> NoBoard]
<1>1. /\ boards = Loaded(empty) /\ born = {} /\ room = [c \in Screens |-> empty]
      /\ editor = [c \in Screens |-> NoEditor] /\ asked = [c \in Screens |-> NoAsk]
      /\ accepted = [d \in DashIds |-> {}] /\ phantom = {}
  BY DEF DashboardsInit
<1>2. empty \in Contents /\ \A d \in DashIds : empty[d] = NoBoard
  BY DEF Contents
<1> HIDE DEF empty
<1>3. /\ boards \in Collections(Contents, Screens) /\ boards.cache = empty
      /\ \A S : empty \in S => Everywhere(boards, S)
  BY <1>1, <1>2, LoadedFacts
<1>4. /\ EditorShape(NoEditor) /\ AskShape(NoAsk, NoEditor) /\ ~NoEditor.open
      /\ ~(NoAsk.at \in {"storing", "auditing"})
  BY DEF EditorShape, AskShape, NoAsk, NoEditor
<1>5. BoardsTyped
  BY <1>1, <1>2, <1>3, <1>4 DEF BoardsTyped
<1>6. AllRecorded(boards) /\ AllAbsent(boards, accepted, born)
  <2>1. ASSUME NEW d \in DashIds PROVE empty \in Recorded(boards, d) /\ empty \in Absent(d)
    BY <1>2 DEF Recorded, Absent
  <2> QED BY <1>1, <1>3, <2>1 DEF AllRecorded, AllAbsent
<1>7. \A c \in Screens : ScreenFits(boards, phantom, room[c], editor[c], asked[c], c, born)
  BY <1>1, <1>2, <1>4 DEF ScreenFits, CopiesFit
<1>8. NoLostUpdate
  BY <1>2, <1>3 DEF NoLostUpdate
<1> QED BY <1>5, <1>6, <1>7, <1>8 DEF BoardsInv

\* Every step keeps the dashboards in order.
LEMMA BoardsStep == BoardsInv /\ [BoardsNext]_boardVars => BoardsInv'
<1> SUFFICES ASSUME BoardsInv, [BoardsNext]_boardVars PROVE BoardsInv'
  OBVIOUS
<1>1. CASE UNCHANGED <<boards, born, room, editor, asked, accepted, phantom>>
  BY <1>1 DEF BoardsInv, BoardsTyped, NoLostUpdate
<1>2. ASSUME NEW c \in Screens, NEW d \in DashIds, OpenEditor(c, d) \/ AskDelete(c, d) \/ CreateBoard(c, d)
      PROVE  BoardsInv'
  BY <1>2, EditorKeeps, AskKeeps, CreateBoardKeeps
<1>3. ASSUME NEW c \in Screens, NEW W \in SUBSET Widgets, Save(c, W) PROVE BoardsInv'
  BY <1>3, SaveKeeps
<1>4. ASSUME NEW c \in Screens,
             \/ RefreshDashboards(c) \/ AskNew(c) \/ CloseEditor(c) \/ Overwrite(c)
             \/ UpdateBoard(c) \/ DeleteBoard(c) \/ AuditWritten(c) \/ AuditThrows(c)
      PROVE  BoardsInv'
  BY <1>4, RefreshKeeps, AskKeeps, EditorKeeps, OverwriteKeeps, UpdateBoardKeeps, DeleteBoardKeeps, AuditKeeps
<1>5. CASE BoardSaved \/ BoardRejected
  BY <1>5, BoardWriteKeeps
<1>6. CASE AdapterRestarts
  BY <1>6, RestartKeeps
<1>7. ASSUME NEW u \in Users, NEW r \in RoleNames \cup {NoRole}, SetUserRole(u, r) PROVE BoardsInv'
  BY <1>1, <1>7 DEF SetUserRole
<1>8. CASE UNCHANGED boardVars
  BY <1>1, <1>8 DEF boardVars
<1> QED BY <1>2, <1>3, <1>4, <1>5, <1>6, <1>7, <1>8 DEF BoardsNext

\* NoLostUpdate, for any screens, users, widgets and dashboards: what the
\* collection holds is every accepted change (src/dashboards/index.ts update).
THEOREM UpdatesAreKept == BoardsSpec => []NoLostUpdate
<1>1. BoardsInv => NoLostUpdate
  BY DEF BoardsInv
<1> QED BY <1>1, BoardsStart, BoardsStep, PTL DEF BoardsSpec

----------------------------------------------------------------------------
(* Types of the dashboards                                                 *)

\* A screen has copies of its user's dashboards only, and of no revision
\* that was not made.
OwnCopies(r, c) == r \in Copies /\ \A d \in DashIds : r[d] # NoBoard => r[d].userId = UserOf[c]

EditorRange(e) == e.open => e.revision \in 1..MaxRevision

AskRange(q, c) ==
    /\ q.at \in {"idle", "sent", "storing", "auditing"}
    /\ q.at \in {"storing", "auditing"} /\ q.verb # "delete" => q.saved \in Board /\ q.saved.userId = UserOf[c]

BoardRanges ==
    /\ Everywhere(boards, Copies) /\ born \subseteq DashIds
    /\ userRole \in [Users -> RoleNames \cup {NoRole}]
    /\ accepted \in [DashIds -> SUBSET Widgets]
    /\ phantom \subseteq Screens \X DashIds
    /\ \A c \in Screens : OwnCopies(room[c], c) /\ EditorRange(editor[c]) /\ AskRange(asked[c], c)

\* There are no dashboards, copies, editors and requests yet.
LEMMA RangesStart == DashboardsInit => BoardRanges
<1> SUFFICES ASSUME DashboardsInit PROVE BoardRanges
  OBVIOUS
<1> DEFINE empty == [d \in DashIds |-> NoBoard]
<1>1. /\ boards = Loaded(empty) /\ born = {} /\ room = [c \in Screens |-> empty]
      /\ userRole = [u \in Users |-> FirstRole]
      /\ editor = [c \in Screens |-> NoEditor] /\ asked = [c \in Screens |-> NoAsk]
      /\ accepted = [d \in DashIds |-> {}] /\ phantom = {}
  BY DEF DashboardsInit
<1>2. empty \in Copies /\ \A d \in DashIds : empty[d] = NoBoard
  BY DEF Copies
<1> HIDE DEF empty
<1>3. Everywhere(boards, Copies)
  BY <1>1, <1>2, LoadedFacts
<1>4. ~NoEditor.open /\ NoAsk.at = "idle"
  BY DEF NoEditor, NoAsk
<1>5. \A c \in Screens : OwnCopies(room[c], c) /\ EditorRange(editor[c]) /\ AskRange(asked[c], c)
  BY <1>1, <1>2, <1>4 DEF OwnCopies, EditorRange, AskRange
<1>6. userRole \in [Users -> RoleNames \cup {NoRole}]
  BY <1>1, DashboardsAssumption
<1> QED BY <1>1, <1>3, <1>5, <1>6 DEF BoardRanges

\* One screen gets r, e and q, and all is in range.
LEMMA RangesTurn ==
    ASSUME BoardRanges, NEW c \in Screens, NEW r, NEW e, NEW q,
           Turns(room, room', c, r), Turns(editor, editor', c, e), Turns(asked, asked', c, q),
           OwnCopies(r, c), EditorRange(e), AskRange(q, c),
           Everywhere(boards', Copies), born' \subseteq DashIds, userRole' = userRole,
           accepted' \in [DashIds -> SUBSET Widgets], phantom' \subseteq Screens \X DashIds
    PROVE  BoardRanges'
<1>1. ASSUME NEW x \in Screens
      PROVE  OwnCopies(room'[x], x) /\ EditorRange(editor'[x]) /\ AskRange(asked'[x], x)
  <2>1. CASE x = c
    BY <2>1 DEF Turns
  <2>2. CASE x # c
    BY <2>2 DEF Turns, BoardRanges
  <2> QED BY <2>1, <2>2
<1> QED BY <1>1 DEF BoardRanges, OwnCopies

\* What is in range of one screen.
LEMMA RangeFacts ==
    ASSUME BoardsInv, BoardRanges, NEW c \in Screens
    PROVE  /\ OwnCopies(room[c], c) /\ EditorRange(editor[c]) /\ AskRange(asked[c], c)
           /\ Turns(room, room, c, room[c]) /\ Turns(editor, editor, c, editor[c])
           /\ Turns(asked, asked, c, asked[c])
           /\ Everywhere(boards, Copies) /\ boards.cache \in Copies /\ boards.disk \in Copies
           /\ boards \in Collections(Contents, Screens)
           /\ born \subseteq DashIds /\ accepted \in [DashIds -> SUBSET Widgets]
           /\ phantom \subseteq Screens \X DashIds
<1>1. boards \in Collections(Contents, Screens) /\ Everywhere(boards, Copies)
  BY DEF BoardsInv, BoardsTyped, BoardRanges
<1>2. boards.cache \in Copies /\ boards.disk \in Copies
  BY <1>1, VersionFacts
<1>3. DOMAIN room = Screens /\ DOMAIN editor = Screens /\ DOMAIN asked = Screens
  BY ScreenFacts
<1>4. /\ Turns(room, room, c, room[c]) /\ Turns(editor, editor, c, editor[c])
      /\ Turns(asked, asked, c, asked[c])
  BY <1>3, TurnFacts
<1> QED BY <1>1, <1>2, <1>4 DEF BoardRanges

\* The app takes the list, or opens, closes and saves its editor.
LEMMA AppRanges ==
    ASSUME BoardsInv, BoardRanges, NEW c \in Screens,
           \/ RefreshDashboards(c) \/ AskNew(c) \/ CloseEditor(c) \/ Overwrite(c)
           \/ \E d \in DashIds : OpenEditor(c, d) \/ AskDelete(c, d)
           \/ \E W \in SUBSET Widgets : Save(c, W)
    PROVE  BoardRanges'
<1>f. /\ OwnCopies(room[c], c) /\ EditorRange(editor[c]) /\ AskRange(asked[c], c)
      /\ Turns(room, room, c, room[c]) /\ Turns(editor, editor, c, editor[c])
      /\ Turns(asked, asked, c, asked[c])
      /\ Everywhere(boards, Copies) /\ boards.cache \in Copies
      /\ born \subseteq DashIds /\ accepted \in [DashIds -> SUBSET Widgets]
      /\ phantom \subseteq Screens \X DashIds
  BY RangeFacts
<1>d. DOMAIN room = Screens /\ DOMAIN editor = Screens /\ DOMAIN asked = Screens /\ EditorShape(editor[c])
  BY ScreenFacts
<1>a. ASSUME UNCHANGED <<boards, born, userRole, accepted, phantom, room>>,
             NEW e, Turns(editor, editor', c, e), EditorRange(e),
             NEW q, Turns(asked, asked', c, q), AskRange(q, c)
      PROVE  BoardRanges'
  BY <1>a, <1>f, RangesTurn
<1>1. CASE RefreshDashboards(c)
  <2> DEFINE r == [d \in DashIds |-> IF boards.cache[d] # NoBoard /\ boards.cache[d].userId = UserOf[c]
                                     THEN boards.cache[d] ELSE NoBoard]
  <2>1. /\ room' = [room EXCEPT ![c] = r] /\ phantom' \subseteq phantom
        /\ UNCHANGED <<boards, born, userRole, editor, asked, accepted>>
    BY <1>1 DEF RefreshDashboards
  <2>2. OwnCopies(r, c)
    BY <1>f DEF OwnCopies, Copies
  <2> HIDE DEF r
  <2>3. Turns(room, room', c, r)
    BY <1>d, <2>1, TurnFacts
  <2> QED BY <1>f, <2>1, <2>2, <2>3, RangesTurn
<1>2. CASE AskNew(c)
  <2> DEFINE q == [at |-> "sent", verb |-> "post"]
  <2>1. asked' = [asked EXCEPT ![c] = q] /\ UNCHANGED <<boards, born, userRole, room, editor, accepted, phantom>>
    BY <1>2 DEF AskNew
  <2>2. AskRange(q, c)
    BY DEF AskRange
  <2> HIDE DEF q
  <2>3. Turns(asked, asked', c, q)
    BY <1>d, <2>1, TurnFacts
  <2> QED BY <1>a, <1>f, <2>1, <2>2, <2>3
<1>3. ASSUME NEW d \in DashIds, AskDelete(c, d) PROVE BoardRanges'
  <2> DEFINE q == [at |-> "sent", verb |-> "delete", dash |-> d]
  <2>1. asked' = [asked EXCEPT ![c] = q] /\ UNCHANGED <<boards, born, userRole, room, editor, accepted, phantom>>
    BY <1>3 DEF AskDelete
  <2>2. AskRange(q, c)
    BY DEF AskRange
  <2> HIDE DEF q
  <2>3. Turns(asked, asked', c, q)
    BY <1>d, <2>1, TurnFacts
  <2> QED BY <1>a, <1>f, <2>1, <2>2, <2>3
<1>4. CASE CloseEditor(c)
  <2>1. editor' = [editor EXCEPT ![c] = NoEditor] /\ UNCHANGED <<boards, born, userRole, room, asked, accepted, phantom>>
    BY <1>4 DEF CloseEditor
  <2>2. EditorRange(NoEditor)
    BY DEF EditorRange, NoEditor
  <2>3. Turns(editor, editor', c, NoEditor)
    BY <1>d, <2>1, TurnFacts
  <2> QED BY <1>a, <1>f, <2>1, <2>2, <2>3
<1>5. ASSUME NEW d \in DashIds, OpenEditor(c, d) PROVE BoardRanges'
  <2> DEFINE e == [open |-> TRUE, dash |-> d, revision |-> room[c][d].revision,
                   layouts |-> room[c][d].layouts, changed |-> {}, conflict |-> FALSE]
  <2>1. /\ room[c][d] # NoBoard /\ editor' = [editor EXCEPT ![c] = e]
        /\ UNCHANGED <<boards, born, userRole, room, asked, accepted, phantom>>
    BY <1>5 DEF OpenEditor
  <2>2. room[c][d] \in Board
    BY <1>f, <2>1 DEF OwnCopies, Copies
  <2>3. e.revision \in 1..MaxRevision
    BY <2>2 DEF Board
  <2> HIDE DEF e
  <2>4. EditorRange(e)
    BY <2>3 DEF EditorRange
  <2>5. Turns(editor, editor', c, e)
    BY <1>d, <2>1, TurnFacts
  <2> QED BY <1>a, <1>f, <2>1, <2>4, <2>5
<1>6. CASE Overwrite(c)
  <2> DEFINE e == [editor[c] EXCEPT !.conflict = FALSE]
             q == [at |-> "sent", verb |-> "put", dash |-> editor[c].dash,
                   revision |-> room[c][editor[c].dash].revision + 1,
                   layouts |-> editor[c].layouts, forced |-> TRUE]
  <2>1. /\ editor[c].open /\ editor' = [editor EXCEPT ![c].conflict = FALSE]
        /\ asked' = [asked EXCEPT ![c] = q]
        /\ UNCHANGED <<boards, born, userRole, room, accepted, phantom>>
    BY <1>6 DEF Overwrite
  <2>2. AskRange(q, c)
    BY DEF AskRange
  <2> HIDE DEF q
  <2>3. Turns(asked, asked', c, q) /\ Turns(editor, editor', c, e)
    BY <1>d, <2>1, TurnFacts DEF Turns
  <2>4. e.revision = editor[c].revision
    BY <1>d, <2>1 DEF EditorShape
  <2>5. EditorRange(e)
    BY <1>f, <2>1, <2>4 DEF EditorRange
  <2> HIDE DEF e
  <2> QED BY <1>a, <2>1, <2>2, <2>3, <2>5
<1>7. ASSUME NEW W \in SUBSET Widgets, Save(c, W) PROVE BoardRanges'
  <2> DEFINE e0 == editor[c]
             e  == [e0 EXCEPT !.layouts = Either(@, W), !.changed = Either(@, W)]
             q  == [at |-> "sent", verb |-> "put", dash |-> e0.dash, revision |-> e0.revision,
                    layouts |-> Either(e0.layouts, W), forced |-> FALSE]
  <2>1. /\ e0.open /\ asked' = [asked EXCEPT ![c] = q]
        /\ editor' = [editor EXCEPT ![c].layouts = Either(@, W), ![c].changed = Either(@, W)]
        /\ UNCHANGED <<boards, born, userRole, room, accepted, phantom>>
    BY <1>7 DEF Save
  <2>2. AskRange(q, c)
    BY DEF AskRange
  <2> HIDE DEF q
  <2>3. Turns(asked, asked', c, q)
    BY <1>d, <2>1, TurnFacts
  <2>4. Turns(editor, editor', c, e)
    BY <1>d, <2>1 DEF Turns
  <2>5. e.revision = e0.revision
    <3>1. DOMAIN e0 = {"open", "dash", "revision", "layouts", "changed", "conflict"}
      BY <1>d, <2>1 DEF EditorShape
    <3> QED BY <3>1
  <2>6. EditorRange(e)
    BY <1>f, <2>1, <2>5 DEF EditorRange
  <2> HIDE DEF e
  <2> QED BY <1>a, <2>1, <2>2, <2>3, <2>4, <2>6
<1> QED BY <1>1, <1>2, <1>3, <1>4, <1>5, <1>6, <1>7

\* A request is refused: the editor keeps its revision.
LEMMA RefusedRanges ==
    ASSUME BoardsInv, BoardRanges, NEW c \in Screens, NEW k, Refused(c, k),
           UNCHANGED <<born, userRole, room, accepted, phantom>>, Everywhere(boards', Copies)
    PROVE  BoardRanges'
<1>f. /\ OwnCopies(room[c], c) /\ EditorRange(editor[c]) /\ Turns(room, room, c, room[c])
      /\ Turns(editor, editor, c, editor[c])
      /\ born \subseteq DashIds /\ accepted \in [DashIds -> SUBSET Widgets]
      /\ phantom \subseteq Screens \X DashIds
  BY RangeFacts
<1>d. DOMAIN editor = Screens /\ DOMAIN asked = Screens /\ EditorShape(editor[c])
  BY ScreenFacts
<1>1. Turns(asked, asked', c, NoAsk)
  BY <1>d, TurnFacts DEF Refused
<1>2. AskRange(NoAsk, c)
  BY DEF AskRange, NoAsk
<1>3. CASE editor[c].open
  <2> DEFINE e == [editor[c] EXCEPT !.conflict = k]
  <2>1. editor' = [editor EXCEPT ![c].conflict = k]
    BY <1>3 DEF Refused
  <2>2. Turns(editor, editor', c, e)
    BY <1>d, <2>1 DEF Turns
  <2>3. e.revision = editor[c].revision
    BY <1>3, <1>d DEF EditorShape
  <2>4. EditorRange(e)
    BY <1>3, <1>f, <2>3 DEF EditorRange
  <2> HIDE DEF e
  <2> QED BY <1>f, <1>1, <1>2, <2>2, <2>4, RangesTurn
<1>4. CASE ~editor[c].open
  <2>1. editor' = editor
    BY <1>4 DEF Refused
  <2> QED BY <1>f, <1>1, <1>2, <2>1, RangesTurn
<1> QED BY <1>3, <1>4

\* The answer comes: what it brought is the user's and was made.
LEMMA AnsweredRanges ==
    ASSUME BoardsInv, BoardRanges, NEW c \in Screens, asked[c].at \in {"storing", "auditing"},
           Answered(c, asked[c]), UNCHANGED <<born, userRole, accepted>>, Everywhere(boards', Copies)
    PROVE  BoardRanges'
<1> DEFINE q  == asked[c]
           e0 == editor[c]
           d  == q.dash
           r  == [room[c] EXCEPT ![d] = IF q.verb = "delete" THEN NoBoard ELSE q.saved]
<1>f. /\ OwnCopies(room[c], c) /\ EditorRange(e0) /\ AskRange(q, c)
      /\ Turns(editor, editor, c, e0)
      /\ born \subseteq DashIds /\ accepted \in [DashIds -> SUBSET Widgets]
      /\ phantom \subseteq Screens \X DashIds
  BY RangeFacts
<1>d. /\ DOMAIN room = Screens /\ DOMAIN editor = Screens /\ DOMAIN asked = Screens
      /\ EditorShape(e0) /\ AskShape(q, e0)
  BY ScreenFacts
<1>1. /\ asked' = [asked EXCEPT ![c] = NoAsk]
      /\ room' = [room EXCEPT ![c][d] = IF q.verb = "delete" THEN NoBoard ELSE q.saved]
      /\ phantom' = phantom \ {<<c, d>>}
  BY DEF Answered
<1>2. /\ d \in DashIds /\ (q.verb # "delete" => q.saved \in Board /\ q.saved.userId = UserOf[c])
      /\ q.verb = "put" => e0.open
  BY <1>d, <1>f DEF AskShape, AskRange
<1>3. Turns(room, room', c, r)
  BY <1>d, <1>1 DEF Turns
<1>4. OwnCopies(r, c)
  <2>1. room[c] \in [DashIds -> Board \cup {NoBoard}] /\ \A x \in DashIds : room[c][x] # NoBoard => room[c][x].userId = UserOf[c]
    BY <1>f DEF OwnCopies, Copies
  <2> QED BY <1>2, <2>1 DEF OwnCopies, Copies
<1> HIDE DEF r
<1>5. Turns(asked, asked', c, NoAsk) /\ AskRange(NoAsk, c)
  BY <1>d, <1>1, TurnFacts DEF AskRange, NoAsk
<1>6. phantom' \subseteq Screens \X DashIds
  BY <1>f, <1>1
<1>7. CASE q.verb = "put"
  <2> DEFINE e == [e0 EXCEPT !.revision = q.saved.revision, !.layouts = q.saved.layouts,
                      !.changed = {}, !.conflict = FALSE]
  <2>1. editor' = [editor EXCEPT ![c].revision = q.saved.revision, ![c].layouts = q.saved.layouts,
                      ![c].changed = {}, ![c].conflict = FALSE]
    BY <1>7 DEF Answered
  <2>2. Turns(editor, editor', c, e)
    BY <1>d, <2>1 DEF Turns
  <2>3. DOMAIN e0 = {"open", "dash", "revision", "layouts", "changed", "conflict"}
    BY <1>d, <1>2, <1>7 DEF EditorShape
  <2>4. e.revision = q.saved.revision
    BY <2>3
  <2>5. q.saved.revision \in 1..MaxRevision
    BY <1>2, <1>7 DEF Board
  <2>6. EditorRange(e)
    BY <2>4, <2>5 DEF EditorRange
  <2> HIDE DEF e
  <2> QED BY <1>f, <1>3, <1>4, <1>5, <1>6, <2>2, <2>6, RangesTurn
<1>8. CASE q.verb # "put"
  <2>1. editor' = editor
    BY <1>8 DEF Answered
  <2> QED BY <1>f, <1>3, <1>4, <1>5, <1>6, <2>1, RangesTurn
<1> QED BY <1>7, <1>8

\* A dashboard of the caller, or none, is stored under an id.
LEMMA StoredRanges ==
    ASSUME BoardsInv, BoardRanges, NEW c \in Screens, NEW d \in DashIds, NEW b \in Board \cup {NoBoard},
           boards' = Update(boards, c, [boards.cache EXCEPT ![d] = b]), boards' \in Collections(Contents, Screens)
    PROVE  Everywhere(boards', Copies) /\ boards'.cache[d] = b
<1> DEFINE C == [boards.cache EXCEPT ![d] = b]
<1>1. /\ boards \in Collections(Contents, Screens) /\ Everywhere(boards, Copies)
      /\ boards.cache \in [DashIds -> Board \cup {NoBoard}]
  BY RangeFacts DEF Copies
<1>2. C \in Copies /\ C[d] = b
  BY <1>1 DEF Copies
<1> HIDE DEF C
<1>3. boards' = Update(boards, c, C)
  BY DEF C
<1>4. boards'.cache = C
  BY <1>3 DEF Update
<1>5. C \in Contents
  BY <1>4, VersionFacts
<1>6. Everywhere(boards', Copies)
  BY <1>1, <1>2, <1>3, <1>5, UpdateFacts
<1> QED BY <1>2, <1>4, <1>6

\* A request reaches the server: it is stored for the one who asks, or refused.
LEMMA RequestRanges ==
    ASSUME BoardsInv, BoardsInv', BoardRanges, NEW c \in Screens,
           UpdateBoard(c) \/ DeleteBoard(c) \/ \E d \in DashIds : CreateBoard(c, d)
    PROVE  BoardRanges'
<1> DEFINE q == asked[c]
<1>f. /\ OwnCopies(room[c], c) /\ EditorRange(editor[c])
      /\ Turns(room, room, c, room[c]) /\ Turns(editor, editor, c, editor[c])
      /\ Everywhere(boards, Copies) /\ boards.cache \in Copies
      /\ born \subseteq DashIds /\ accepted \in [DashIds -> SUBSET Widgets]
      /\ phantom \subseteq Screens \X DashIds
  BY RangeFacts
<1>d. DOMAIN asked = Screens /\ EditorShape(editor[c]) /\ AskShape(q, editor[c])
  BY ScreenFacts
<1>n. boards' \in Collections(Contents, Screens)
  BY DEF BoardsInv, BoardsTyped
<1>1. CASE UpdateBoard(c)
  <2>1. /\ q.at = "sent" /\ q.verb = "put" /\ UNCHANGED <<born, userRole, room, phantom>>
        /\ \/ Owned(c, q.dash) /\ TakeUpdate(c)
           \/ (\E k : Refused(c, k)) /\ UNCHANGED <<boards, accepted>>
    BY <1>1 DEF UpdateBoard
  <2>2. CASE Owned(c, q.dash) /\ TakeUpdate(c)
    <3> DEFINE d  == q.dash
               b0 == boards.cache[d]
               b  == [b0 EXCEPT !.revision = @ + 1, !.layouts = q.layouts]
               q2 == [at |-> "storing", verb |-> "put", dash |-> d, saved |-> b]
    <3>1. d \in DashIds /\ q.layouts \in SUBSET Widgets /\ editor[c].changed \in SUBSET Widgets
      BY <1>d, <2>1 DEF AskShape, EditorShape
    <3>2. b0 \in Board /\ b0.userId = UserOf[c] /\ b0.revision < MaxRevision
      BY <1>f, <2>2, <3>1 DEF Owned, Copies, TakeUpdate
    <3>3. /\ b = [x \in {"userId", "revision", "layouts"} |-> b[x]]
          /\ b.userId = b0.userId /\ b.revision = b0.revision + 1 /\ b.layouts = q.layouts
      <4> HIDE DEF b0, q
      <4> QED BY <3>2 DEF Board
    <3>5. b0.userId \in Users /\ b0.revision + 1 \in 1..MaxRevision
      BY <3>2, DashboardsAssumption DEF Board
    <3> HIDE DEF b
    <3>6. b \in Board
      BY <3>1, <3>3, <3>5 DEF Board
    <3>7. boards' = Update(boards, c, [boards.cache EXCEPT ![d] = b])
      BY <2>2 DEF TakeUpdate, Stored, b
    <3>8. Everywhere(boards', Copies) /\ boards'.cache[d] = b
      BY <1>n, <3>1, <3>6, <3>7, StoredRanges
    <3>9. asked' = [asked EXCEPT ![c] = q2] /\ editor' = editor
      BY <2>2, <3>8 DEF TakeUpdate
    <3>10. /\ q2.at = "storing" /\ q2.saved = b
      OBVIOUS
    <3> HIDE DEF q2
    <3>11. AskRange(q2, c) /\ Turns(asked, asked', c, q2)
      BY <1>d, <3>2, <3>3, <3>6, <3>9, <3>10, TurnFacts DEF AskRange
    <3>12. accepted' \in [DashIds -> SUBSET Widgets]
      <4>1. accepted' = [accepted EXCEPT ![d] =
               IF q.forced \/ <<c, d>> \in phantom THEN q.layouts ELSE Either(accepted[d], editor[c].changed)]
        BY <2>2 DEF TakeUpdate
      <4>2. Either(accepted[d], editor[c].changed) \in SUBSET Widgets
        BY <1>f, <3>1 DEF Either
      <4> QED BY <1>f, <3>1, <4>1, <4>2
    <3> QED BY <1>f, <2>1, <3>8, <3>9, <3>11, <3>12, RangesTurn
  <2>3. CASE (\E k : Refused(c, k)) /\ UNCHANGED <<boards, accepted>>
    BY <1>f, <2>1, <2>3, RefusedRanges
  <2> QED BY <2>1, <2>2, <2>3
<1>2. CASE DeleteBoard(c)
  <2>1. /\ q.at = "sent" /\ q.verb = "delete" /\ UNCHANGED <<born, userRole, room, accepted, phantom>>
        /\ \/ /\ Stored(c, q.dash, NoBoard) /\ UNCHANGED editor
              /\ asked' = [asked EXCEPT ![c] = [at |-> "storing", verb |-> "delete", dash |-> q.dash]]
           \/ Refused(c, FALSE) /\ UNCHANGED boards
    BY <1>2 DEF DeleteBoard
  <2>2. CASE /\ Stored(c, q.dash, NoBoard) /\ UNCHANGED editor
             /\ asked' = [asked EXCEPT ![c] = [at |-> "storing", verb |-> "delete", dash |-> q.dash]]
    <3> DEFINE q2 == [at |-> "storing", verb |-> "delete", dash |-> q.dash]
    <3>1. q.dash \in DashIds
      BY <1>d, <2>1 DEF AskShape
    <3>2. Everywhere(boards', Copies)
      BY <1>n, <2>2, <3>1, StoredRanges DEF Stored
    <3>3. q2.at = "storing" /\ q2.verb = "delete"
      OBVIOUS
    <3>4. asked' = [asked EXCEPT ![c] = q2]
      BY <2>2
    <3> HIDE DEF q2
    <3>5. AskRange(q2, c) /\ Turns(asked, asked', c, q2)
      BY <1>d, <3>3, <3>4, TurnFacts DEF AskRange
    <3> QED BY <1>f, <2>1, <2>2, <3>2, <3>5, RangesTurn
  <2>3. CASE Refused(c, FALSE) /\ UNCHANGED boards
    BY <1>f, <2>1, <2>3, RefusedRanges
  <2> QED BY <2>1, <2>2, <2>3
<1>3. ASSUME NEW d \in DashIds, CreateBoard(c, d) PROVE BoardRanges'
  <2> DEFINE b  == [userId |-> UserOf[c], revision |-> 1, layouts |-> {}]
             q2 == [at |-> "storing", verb |-> "post", dash |-> d, saved |-> b]
  <2>1. /\ born' = born \cup {d} /\ boards' = Update(boards, c, [boards.cache EXCEPT ![d] = b])
        /\ asked' = [asked EXCEPT ![c] = [at |-> "storing", verb |-> "post", dash |-> d,
                                          saved |-> boards'.cache[d]]]
        /\ UNCHANGED <<userRole, room, editor, accepted, phantom>>
    BY <1>3 DEF CreateBoard, Stored
  <2>2. b \in Board /\ b.userId = UserOf[c]
    BY DashboardsAssumption DEF Board, Users
  <2> HIDE DEF b
  <2>3. Everywhere(boards', Copies) /\ boards'.cache[d] = b
    BY <1>n, <2>1, <2>2, StoredRanges
  <2>4. asked' = [asked EXCEPT ![c] = q2] /\ q2.at = "storing" /\ q2.saved = b
    BY <2>1, <2>3
  <2> HIDE DEF q2
  <2>5. AskRange(q2, c) /\ Turns(asked, asked', c, q2)
    BY <1>d, <2>2, <2>4, TurnFacts DEF AskRange
  <2> QED BY <1>f, <2>1, <2>3, <2>5, RangesTurn
<1> QED BY <1>1, <1>2, <1>3

\* The oldest write of the collection lands or is rejected.
LEMMA BoardWriteRanges ==
    ASSUME BoardsInv, BoardRanges, BoardSaved \/ BoardRejected
    PROVE  BoardRanges'
<1> DEFINE c == Head(boards.writes).by
           q == asked[c]
<1>1. /\ boards.writes # <<>> /\ (boards' = Landed(boards) \/ boards' = Rejected(boards))
      /\ UNCHANGED <<born, userRole, accepted>>
  BY DEF BoardSaved, BoardRejected
<1>2. boards \in Collections(Contents, Screens) /\ Everywhere(boards, Copies)
  BY DEF BoardsInv, BoardsTyped, BoardRanges
<1>3. c \in Screens /\ Everywhere(boards', Copies)
  <2>1. c \in Waiting(boards) /\ Everywhere(boards', Copies)
    BY <1>1, <1>2, LandedFacts, RejectedFacts
  <2> QED BY <1>2, <2>1, VersionFacts
<1>4. \/ UNCHANGED <<asked, room, editor, phantom>>
      \/ /\ q.at = "storing" /\ q.verb = "put" /\ asked' = [asked EXCEPT ![c].at = "auditing"]
         /\ UNCHANGED <<room, editor, phantom>>
      \/ q.at = "storing" /\ Answered(c, q)
      \/ Refused(c, FALSE) /\ UNCHANGED <<room, phantom>>
  BY DEF BoardSaved, BoardRejected
<1>f. /\ OwnCopies(room[c], c) /\ EditorRange(editor[c]) /\ AskRange(q, c)
      /\ Turns(room, room, c, room[c]) /\ Turns(editor, editor, c, editor[c]) /\ Turns(asked, asked, c, q)
      /\ born \subseteq DashIds /\ accepted \in [DashIds -> SUBSET Widgets]
      /\ phantom \subseteq Screens \X DashIds
  BY <1>3, RangeFacts
<1>d. DOMAIN asked = Screens /\ AskShape(q, editor[c])
  BY <1>3, ScreenFacts
<1>5. CASE UNCHANGED <<asked, room, editor, phantom>>
  BY <1>1, <1>3, <1>5 DEF BoardRanges, OwnCopies
<1>6. CASE /\ q.at = "storing" /\ q.verb = "put" /\ asked' = [asked EXCEPT ![c].at = "auditing"]
           /\ UNCHANGED <<room, editor, phantom>>
  <2> DEFINE q2 == [q EXCEPT !.at = "auditing"]
  <2>1. DOMAIN q = {"at", "verb", "dash", "saved"}
    BY <1>6, <1>d DEF AskShape
  <2>2. q2.at = "auditing" /\ q2.verb = "put" /\ q2.saved = q.saved
    BY <1>6, <2>1
  <2>3. Turns(asked, asked', c, q2)
    <3> HIDE DEF c
    <3> QED BY <1>3, <1>6, <1>d DEF Turns
  <2> HIDE DEF q2
  <2>4. AskRange(q2, c)
    BY <1>6, <1>f, <2>2 DEF AskRange
  <2> QED BY <1>1, <1>3, <1>6, <1>f, <2>3, <2>4, RangesTurn
<1>7. CASE q.at = "storing" /\ Answered(c, q)
  BY <1>1, <1>3, <1>7, AnsweredRanges
<1>8. CASE Refused(c, FALSE) /\ UNCHANGED <<room, phantom>>
  BY <1>1, <1>3, <1>8, RefusedRanges
<1> QED BY <1>4, <1>5, <1>6, <1>7, <1>8

\* Every step keeps all of it in range.
LEMMA RangesStep == BoardsInv /\ BoardsInv' /\ BoardRanges /\ [BoardsNext]_boardVars => BoardRanges'
<1> SUFFICES ASSUME BoardsInv, BoardsInv', BoardRanges, [BoardsNext]_boardVars PROVE BoardRanges'
  OBVIOUS
<1>1. ASSUME NEW c \in Screens,
             \/ RefreshDashboards(c) \/ AskNew(c) \/ CloseEditor(c) \/ Overwrite(c)
             \/ \E d \in DashIds : OpenEditor(c, d) \/ AskDelete(c, d)
             \/ \E W \in SUBSET Widgets : Save(c, W)
      PROVE  BoardRanges'
  BY <1>1, AppRanges
<1>2. ASSUME NEW c \in Screens, UpdateBoard(c) \/ DeleteBoard(c) \/ \E d \in DashIds : CreateBoard(c, d)
      PROVE  BoardRanges'
  BY <1>2, RequestRanges
<1>3. ASSUME NEW c \in Screens, AuditWritten(c) PROVE BoardRanges'
  <2>1. /\ asked[c].at \in {"storing", "auditing"} /\ Answered(c, asked[c])
        /\ UNCHANGED <<boards, born, userRole, accepted>>
    BY <1>3 DEF AuditWritten
  <2>2. Everywhere(boards', Copies)
    BY <2>1 DEF BoardRanges
  <2> QED BY <2>1, <2>2, AnsweredRanges
<1>4. ASSUME NEW c \in Screens, AuditThrows(c) PROVE BoardRanges'
  <2>1. Refused(c, FALSE) /\ UNCHANGED <<boards, born, userRole, room, accepted, phantom>>
    BY <1>4 DEF AuditThrows
  <2>2. Everywhere(boards', Copies)
    BY <2>1 DEF BoardRanges
  <2> QED BY <2>1, <2>2, RefusedRanges
<1>5. CASE BoardSaved \/ BoardRejected
  BY <1>5, BoardWriteRanges
<1>6. CASE AdapterRestarts
  <2>1. /\ boards' = Loaded(boards.disk) /\ asked' = [c \in Screens |-> NoAsk]
        /\ accepted' = [d \in DashIds |-> IF boards.disk[d] = NoBoard THEN {} ELSE boards.disk[d].layouts]
        /\ phantom' \subseteq phantom \cup (Screens \X DashIds)
        /\ UNCHANGED <<born, userRole, room, editor>>
    BY <1>6 DEF AdapterRestarts, Reloaded
  <2>2. /\ boards \in Collections(Contents, Screens) /\ Everywhere(boards, Copies)
    BY DEF BoardsInv, BoardsTyped, BoardRanges
  <2>3. boards.disk \in Copies /\ boards.disk \in Contents
    BY <2>2, VersionFacts
  <2>4. Everywhere(boards', Copies)
    BY <2>1, <2>3, LoadedFacts
  <2>5. accepted' \in [DashIds -> SUBSET Widgets]
    <3>1. \A d \in DashIds : boards.disk[d] # NoBoard => boards.disk[d].layouts \in SUBSET Widgets
      BY <2>3 DEF Copies, Board
    <3> QED BY <2>1, <3>1
  <2>6. \A c \in Screens : OwnCopies(room'[c], c) /\ EditorRange(editor'[c]) /\ AskRange(asked'[c], c)
    BY <2>1 DEF BoardRanges, AskRange, NoAsk
  <2>7. phantom' \subseteq Screens \X DashIds
    BY <2>1 DEF BoardRanges
  <2> QED BY <2>1, <2>4, <2>5, <2>6, <2>7 DEF BoardRanges, OwnCopies
<1>7. ASSUME NEW u \in Users, NEW r \in RoleNames \cup {NoRole}, SetUserRole(u, r) PROVE BoardRanges'
  <2>1. /\ userRole' = [userRole EXCEPT ![u] = r]
        /\ UNCHANGED <<boards, born, room, editor, asked, accepted, phantom>>
    BY <1>7 DEF SetUserRole
  <2>2. userRole' \in [Users -> RoleNames \cup {NoRole}]
    BY <2>1 DEF BoardRanges
  <2> QED BY <2>1, <2>2 DEF BoardRanges, OwnCopies
<1>8. CASE UNCHANGED boardVars
  BY <1>8 DEF boardVars, BoardRanges, OwnCopies
<1> QED BY <1>1, <1>2, <1>3, <1>4, <1>5, <1>6, <1>7, <1>8 DEF BoardsNext

\* The copies of all screens are one map.
CopiesMap == room = [c \in Screens |-> room[c]]

\* An answer puts one dashboard into one screen's copies, a refresh all of them.
LEMMA CopiesStayAMap == BoardsInv /\ CopiesMap /\ [BoardsNext]_boardVars => CopiesMap'
<1> SUFFICES ASSUME BoardsInv, CopiesMap, [BoardsNext]_boardVars PROVE CopiesMap'
  OBVIOUS
<1>d. DOMAIN room = Screens
  BY DEF BoardsInv, BoardsTyped
<1>a. ASSUME UNCHANGED room PROVE CopiesMap'
  BY <1>a DEF CopiesMap
<1>b. ASSUME NEW c, NEW q, Answered(c, q) PROVE CopiesMap'
  <2> DEFINE v == IF q.verb = "delete" THEN NoBoard ELSE q.saved
  <2>1. room' = [room EXCEPT ![c][q.dash] = v]
    BY <1>b DEF Answered
  <2> HIDE DEF v
  <2> QED BY <1>d, <2>1 DEF CopiesMap
<1>1. ASSUME NEW c \in Screens,
             \/ AskNew(c) \/ CloseEditor(c) \/ Overwrite(c)
             \/ \E d \in DashIds : OpenEditor(c, d) \/ AskDelete(c, d)
             \/ \E W \in SUBSET Widgets : Save(c, W)
      PROVE  UNCHANGED room
  BY <1>1 DEF AskNew, CloseEditor, Overwrite, OpenEditor, AskDelete, Save
<1>2. ASSUME NEW c \in Screens, RefreshDashboards(c) PROVE CopiesMap'
  <2> DEFINE r == [d \in DashIds |-> IF boards.cache[d] # NoBoard /\ boards.cache[d].userId = UserOf[c]
                                     THEN boards.cache[d] ELSE NoBoard]
  <2>1. room' = [room EXCEPT ![c] = r]
    BY <1>2 DEF RefreshDashboards
  <2> HIDE DEF r
  <2> QED BY <1>d, <2>1 DEF CopiesMap
<1>3. ASSUME NEW c \in Screens, UpdateBoard(c) \/ DeleteBoard(c) \/ \E d \in DashIds : CreateBoard(c, d)
      PROVE  UNCHANGED room
  BY <1>3 DEF UpdateBoard, DeleteBoard, CreateBoard
<1>4. ASSUME NEW c \in Screens, AuditWritten(c) PROVE CopiesMap'
  BY <1>4, <1>b DEF AuditWritten
<1>5. ASSUME NEW c \in Screens, AuditThrows(c) PROVE UNCHANGED room
  BY <1>5 DEF AuditThrows
<1>6. CASE BoardSaved \/ BoardRejected
  <2> DEFINE c == Head(boards.writes).by
  <2>1. UNCHANGED room \/ Answered(c, asked[c])
    BY <1>6 DEF BoardSaved, BoardRejected
  <2> QED BY <1>a, <1>b, <2>1
<1>7. ASSUME AdapterRestarts \/ \E u \in Users, r \in RoleNames \cup {NoRole} : SetUserRole(u, r)
      PROVE  UNCHANGED room
  BY <1>7 DEF AdapterRestarts, SetUserRole
<1>8. CASE UNCHANGED boardVars
  BY <1>8, <1>a DEF boardVars
<1> QED BY <1>a, <1>1, <1>2, <1>3, <1>4, <1>5, <1>6, <1>7, <1>8 DEF BoardsNext

\* Every variable of the dashboards, of the requests and of the apps' copies
\* has its type: no revision is known that was not made, no screen has a
\* copy of another user's dashboard, and no id was given twice.
THEOREM DashboardsTyped == BoardsSpec => []DashboardsTypeOK
<1>1. BoardsInv /\ BoardRanges /\ CopiesMap => DashboardsTypeOK
  <2> SUFFICES ASSUME BoardsInv, BoardRanges, CopiesMap PROVE DashboardsTypeOK
    OBVIOUS
  <2>1. boards \in Collections(Contents, Screens) /\ Everywhere(boards, Copies)
    BY DEF BoardsInv, BoardsTyped, BoardRanges
  <2>2. boards.cache \in Copies /\ boards.disk \in Copies
    BY <2>1, VersionFacts
  <2>3. \A d \in DashIds \ born : boards.cache[d] = NoBoard
    BY CacheFacts
  <2>4. room \in [Screens -> Copies]
    BY DEF CopiesMap, BoardRanges, OwnCopies
  <2>5. ASSUME NEW c \in Screens
        PROVE  /\ editor[c].open => /\ editor[c].dash \in DashIds /\ editor[c].revision \in 1..MaxRevision
                                    /\ {editor[c].layouts, editor[c].changed} \subseteq SUBSET Widgets
               /\ asked[c].at \in {"idle", "sent", "storing", "auditing"}
               /\ \A d \in DashIds : room[c][d] # NoBoard => room[c][d].userId = UserOf[c]
    BY ScreenFacts, RangeFacts DEF EditorShape, EditorRange, AskRange, OwnCopies
  <2> QED BY <2>2, <2>3, <2>4, <2>5 DEF BoardRanges, DashboardsTypeOK
<1>2. DashboardsInit => BoardsInv /\ BoardRanges /\ CopiesMap
  <2>1. DashboardsInit => CopiesMap
    BY DEF DashboardsInit, CopiesMap
  <2> QED BY <2>1, BoardsStart, RangesStart
<1>3. BoardsInv /\ BoardRanges /\ CopiesMap /\ [BoardsNext]_boardVars => (BoardsInv /\ BoardRanges /\ CopiesMap)'
  BY BoardsStep, RangesStep, CopiesStayAMap
<1> QED BY <1>1, <1>2, <1>3, PTL DEF BoardsSpec

=============================================================================
