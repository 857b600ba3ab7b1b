---------------------------- MODULE ContentCache ----------------------------
(***************************************************************************)
(* The content a widget shows of an address behind the adapter: URL embeds *)
(* (src/urlEmbeds/index.ts) and camera snapshots (src/camera/index.ts).    *)
(* Both keep the last content per item, serve it for CacheTTL, and serve   *)
(* it again when a new fetch fails.  An administrator changes and deletes  *)
(* embeds meanwhile, which empties the cache; a camera's address is the    *)
(* value of its state and changes without notice.  The entries of two      *)
(* items do not touch each other: the module follows one, of either kind.  *)
(*                                                                         *)
(* A content is known by the address it was fetched from.  The timers run  *)
(* on time: a fetch is over FetchTimeout after it began.                   *)
(*                                                                         *)
(* A definition named Action_Fault is the action with one plausible fault  *)
(* in it; no specification uses it, it shows that a property notices.      *)
(***************************************************************************)
EXTENDS Naturals

CONSTANTS
    Addresses,      \* http and https URLs
    DataUrls,       \* values of a camera state that hold the picture itself
    NoAddress,      \* a deleted embed, a camera state without a usable value
    Fetchers,       \* bound: requests served at a time
    CacheTTL,       \* CACHE_TTL_MS
    FetchTimeout,   \* FETCH_TIMEOUT_MS
    MaxClock,       \* bound: the last instant
    MaxMoves        \* bound: changes of the address

ASSUME CacheAssumption ==
    /\ {CacheTTL, FetchTimeout, MaxClock, MaxMoves} \subseteq Nat
    /\ NoAddress \notin Addresses \cup DataUrls

VARIABLES
    clock,
    kind,     \* "embed" or "camera"
    address,  \* UrlEmbed.url in the store, or the value of the camera's state
    leftAt,   \* history: when the item last left an address
    moves,    \* changes made
    saving,   \* update() and delete() calls awaiting their write
    cached,   \* the entry in the cache
    fetching, \* what each request is in
    tainted,  \* history: a late or a failed step may have spoilt the cache
    shown     \* history: the last answer

contentVars == <<clock, kind, address, leftAt, moves, saving, cached, fetching, tainted, shown>>

Sources == Addresses \cup DataUrls

NoEntry == [from |-> NoAddress, fetchedAt |-> 0]
Free    == [at |-> "idle"]
NoneYet == [how |-> "none"]

ContentTypeOK ==
    /\ clock \in 0..MaxClock
    /\ kind \in {"embed", "camera"}
    /\ address \in Sources \cup {NoAddress}
    /\ leftAt \in [Sources -> 0..clock]
    /\ saving \in 0..moves /\ moves \in 0..MaxMoves
    /\ cached \in [from : Sources \cup {NoAddress}, fetchedAt : 0..clock]
    /\ \A f \in Fetchers : fetching[f].at \in {"idle", "reading", "fetching"}
    /\ tainted \in BOOLEAN

ContentInit ==
    /\ clock = 0
    /\ kind \in {"embed", "camera"}
    /\ address \in Addresses
    /\ leftAt = [a \in Sources |-> 0]
    /\ moves = 0
    /\ saving = 0
    /\ cached = NoEntry
    /\ fetching = [f \in Fetchers |-> Free]
    /\ tainted = FALSE
    /\ shown = NoneYet

----------------------------------------------------------------------------
(* Answers.                                                                *)

\* What the widget gets, how, and from which address; `calm`: no change of
\* the item was under way when the request came or came since, and nothing
\* had spoilt its cache.
Show(how, from, calm) ==
    shown' = [how |-> how, from |-> from, calm |-> calm, url |-> address,
              late |-> IF from \in {NoAddress, address} THEN 0 ELSE clock - leftAt[from]]

\* cached && Date.now() - cached.fetchedAt < cacheTtlMs
IsFresh_AsLongAsItIsThere(entry) == entry.from # NoAddress

IsFresh(entry) == entry.from # NoAddress /\ clock - entry.fetchedAt < CacheTTL

Calm == saving = 0 /\ ~tainted

\* fetchContent and fetchSnapshot up to their first await
Ask(f) ==
    /\ fetching[f] = Free
    /\ IF kind = "embed" /\ address = NoAddress
       THEN Show("NOT_FOUND", NoAddress, Calm) /\ UNCHANGED fetching
       ELSE IF IsFresh(cached)
       THEN Show("cached", cached.from, Calm) /\ UNCHANGED fetching
       ELSE /\ fetching' = [fetching EXCEPT ![f] =
                  [at |-> IF kind = "embed" THEN "fetching" ELSE "reading",
                   url |-> address, had |-> cached.from, began |-> clock, calm |-> Calm]]
            /\ UNCHANGED shown
    /\ UNCHANGED <<clock, kind, address, leftAt, moves, saving, cached, tainted>>

\* catch: the content that was cached when the request came, or the error
Fallback(f) ==
    LET r == fetching[f] IN
    /\ IF r.had # NoAddress
       THEN Show("fallback", r.had, r.calm)
       ELSE Show("SERVER_UNAVAILABLE", NoAddress, r.calm)
    /\ fetching' = [fetching EXCEPT ![f] = Free]
    /\ UNCHANGED <<clock, kind, address, leftAt, moves, saving, cached, tainted>>

\* The new content enters the cache, whatever has become of the item.
Fetched(f, from) ==
    LET r == fetching[f] IN
    /\ cached' = [from |-> from, fetchedAt |-> clock]
    /\ Show("fresh", from, r.calm)
    /\ fetching' = [fetching EXCEPT ![f] = Free]
    /\ UNCHANGED <<clock, kind, address, leftAt, moves, saving, tainted>>

\* getForeignStateAsync returns: the picture itself, an address to fetch it
\* from, or nothing of use.
ReadCameraState(f) ==
    /\ fetching[f].at = "reading"
    /\ \/ address \in DataUrls /\ Fetched(f, address)
       \/ address = NoAddress /\ Fallback(f)
       \/ /\ address \in Addresses
          /\ fetching' = [fetching EXCEPT ![f] =
                [at |-> "fetching", url |-> address, had |-> fetching[f].had,
                 began |-> clock, calm |-> fetching[f].calm]]
          /\ UNCHANGED <<clock, kind, address, leftAt, moves, saving, cached, tainted, shown>>

\* fetch() and arrayBuffer() return something that is neither empty nor too
\* large; or an HTTP error, bad content, a lost connection, or the timer's
\* abort.
FetchSucceeds(f) == fetching[f].at = "fetching" /\ Fetched(f, fetching[f].url)
FetchFails(f)    == fetching[f].at = "fetching" /\ Fallback(f)

----------------------------------------------------------------------------
(* Changes of the address.                                                 *)

Move(new) ==
    /\ moves < MaxMoves
    /\ moves' = moves + 1
    /\ address' = new
    /\ leftAt' = IF address = NoAddress \/ new = address THEN leftAt
                 ELSE [leftAt EXCEPT ![address] = clock]

\* update() with a valid url, or with the same one and another name, and
\* delete(): the store changes and its write is awaited.
ChangeEmbed(new) ==
    /\ kind = "embed" /\ address # NoAddress
    /\ Move(new)
    /\ saving' = saving + 1
    /\ fetching' = [f \in Fetchers |->
          IF fetching[f] = Free THEN Free ELSE [fetching[f] EXCEPT !.calm = FALSE]]
    /\ UNCHANGED <<clock, kind, cached, tainted, shown>>

\* Some request still fetches from an address that is not the item's any more.
LateFetch == \E f \in Fetchers : fetching[f] # Free /\ fetching[f].url # address

\* The write returns: the cache is emptied.
ChangeSaved_CacheKept ==
    /\ saving > 0
    /\ saving' = saving - 1
    /\ tainted' = LateFetch
    /\ UNCHANGED <<clock, kind, address, leftAt, moves, cached, fetching, shown>>

ChangeSaved ==
    /\ saving > 0
    /\ saving' = saving - 1
    /\ cached' = NoEntry
    /\ tainted' = LateFetch
    /\ UNCHANGED <<clock, kind, address, leftAt, moves, fetching, shown>>

\* The write is rejected: update() throws before it empties the cache, and
\* the store keeps the new address.
ChangeRejected ==
    /\ saving > 0
    /\ saving' = saving - 1
    /\ tainted' = TRUE
    /\ UNCHANGED <<clock, kind, address, leftAt, moves, cached, fetching, shown>>

\* Another adapter writes the camera's state (external).
CameraMoves(new) ==
    /\ kind = "camera" /\ new # address
    /\ Move(new)
    /\ UNCHANGED <<clock, kind, saving, cached, fetching, tainted, shown>>

\* Time passes, but not past the abort of a fetch.
Tick ==
    /\ clock < MaxClock
    /\ \A f \in Fetchers : fetching[f].at = "fetching" => clock - fetching[f].began < FetchTimeout
    /\ clock' = clock + 1
    /\ UNCHANGED <<kind, address, leftAt, moves, saving, cached, fetching, tainted, shown>>

ContentNext ==
    \/ \E f \in Fetchers : Ask(f) \/ ReadCameraState(f) \/ FetchSucceeds(f) \/ FetchFails(f)
    \/ \E a \in Addresses \cup {NoAddress} : ChangeEmbed(a)
    \/ ChangeSaved
    \/ ChangeRejected
    \/ \E a \in Sources \cup {NoAddress} : CameraMoves(a)
    \/ Tick

ContentSpec == ContentInit /\ [][ContentNext]_contentVars

----------------------------------------------------------------------------
(* Properties                                                              *)

\* Once update() has returned, no request that comes after it is answered
\* with content of the old address - unless a fetch from there was still
\* under way then, or the write had been rejected.
AnswersAreCurrent ==
    shown # NoneYet /\ kind = "embed" /\ shown.calm /\ shown.from # NoAddress =>
        shown.from = shown.url

\* An address that was left is served for less than FetchTimeout + CacheTTL
\* more, however fetches, updates and other requests overlap, as long as
\* fetches succeed (a fallback may be as old as it likes).
OldAddressFadesOut ==
    shown.how \in {"cached", "fresh"} => shown.late < FetchTimeout + CacheTTL
=============================================================================
