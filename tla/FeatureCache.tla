---------------------------- MODULE FeatureCache ----------------------------
(***************************************************************************)
(* The features of a tenant: the record DataCore keeps and versions        *)
(* (features.ts saveConfig, the features route of app.ts) and the cache    *)
(* that AgentCore keeps of it (features/gate.ts).  A lookup that finds no  *)
(* fresh entry asks DataCore with the ETag of the entry it has; lookups    *)
(* overlap, and so may saves.                                              *)
(*                                                                         *)
(* What a save wrote is known by its number; the clock ticks as often as   *)
(* the answers that are under way allow.  The other cache that AgentCore   *)
(* keeps of DataCore, of LLM providers, is LlmDirectory: the two share no  *)
(* state, but one promise.                                                 *)
(***************************************************************************)
EXTENDS LlmDirectory

CONSTANTS
    Savers, Lookups, \* requests that may overlap
    MaxSaves,        \* bound: how often the record is saved
    FeatureTTL,      \* ttlMs, in ticks
    FetchLatency,    \* an answer arrives within so many ticks
    MaxClock         \* bound on the clock

ASSUME FeatureAssumption == {MaxSaves, FeatureTTL, FetchLatency, MaxClock} \subseteq Nat

VARIABLES
    fcRow,     \* the record: configVersion and what was saved
    fcSaves,   \* per saver: the version it is about to put, and what; 0 when it is idle
    fcGone,    \* when each content ceased to be current
    fcEntry,   \* the cached entry of the tenant
    fcFetches, \* per lookup: the fetch under way
    fcClock

featureVars == <<fcRow, fcSaves, fcGone, fcEntry, fcFetches, fcClock>>

Contents == 0..MaxSaves
Versions == 0..MaxSaves
NoEntry == [cached |-> FALSE, content |-> 0, version |-> 0, fetchedAt |-> 0]
Entry == [cached : BOOLEAN, content : Contents, version : Versions, fetchedAt : Nat]

\* etag: the entry whose ETag was sent, if any; held: that entry is still the one in the cache;
\* got: what the answer holds.
NoFetch == [pc |-> "idle", entry |-> NoEntry, held |-> FALSE, sentAt |-> 0, content |-> 0, version |-> 0]
Fetch == [pc : {"idle", "sent", "unchanged", "body"}, entry : Entry, held : BOOLEAN,
          sentAt : Nat, content : Contents, version : Versions]

FeatureTypeOK ==
    /\ fcRow \in [version : Versions, content : Contents]
    /\ fcSaves \in [Savers -> [version : Versions, content : Contents]]
    /\ fcGone \in [Contents -> 0..MaxClock + 1]
    /\ fcEntry \in Entry /\ fcFetches \in [Lookups -> Fetch]
    /\ fcClock \in 0..MaxClock

Never == MaxClock + 1

FeatureInit ==
    /\ fcRow = [version |-> 0, content |-> 0]
    /\ fcSaves = [s \in Savers |-> [version |-> 0, content |-> 0]]
    /\ fcGone = [n \in Contents |-> Never]
    /\ fcEntry = NoEntry
    /\ fcFetches = [c \in Lookups |-> NoFetch]
    /\ fcClock = 0

-----------------------------------------------------------------------------
(* DataCore *)

\* How many contents there are: the one at first, those saved and those about to be.
Begun ==
    Cardinality({0, fcRow.content} \cup {fcSaves[s].content : s \in Savers}
                \cup {n \in Contents : fcGone[n] # Never})

\* saveConfig lists the records: the new version is one more than the highest.
SaveReads(s) ==
    /\ fcSaves[s].content = 0 /\ Begun <= MaxSaves
    /\ fcSaves' = [fcSaves EXCEPT ![s] = [version |-> fcRow.version + 1, content |-> Begun]]
    /\ UNCHANGED <<fcRow, fcGone, fcEntry, fcFetches, fcClock>>

\* saveConfig puts the record.
SavePuts(s) ==
    /\ fcSaves[s].content # 0
    /\ fcRow' = fcSaves[s]
    /\ fcGone' = [fcGone EXCEPT ![fcRow.content] = fcClock]
    /\ fcSaves' = [fcSaves EXCEPT ![s] = [version |-> 0, content |-> 0]]
    /\ UNCHANGED <<fcEntry, fcFetches, fcClock>>

\* The features route resolves the record: 304 when the version is that of the ETag.
FeaturesAnswered(c) ==
    /\ fcFetches[c].pc = "sent"
    /\ fcFetches' = [fcFetches EXCEPT
         ![c].pc = IF fcFetches[c].entry.cached /\ fcFetches[c].entry.version = fcRow.version
                    THEN "unchanged" ELSE "body",
         ![c].content = fcRow.content, ![c].version = fcRow.version]
    /\ UNCHANGED <<fcRow, fcSaves, fcGone, fcEntry, fcClock>>

-----------------------------------------------------------------------------
(* AgentCore *)

Fresh == fcEntry.cached /\ fcClock < fcEntry.fetchedAt + FeatureTTL

\* enabledSet without a fresh entry: DataCore is asked.
FetchSent(c) ==
    /\ fcFetches[c].pc = "idle" /\ ~Fresh
    /\ fcFetches' = [fcFetches EXCEPT ![c] =
         [NoFetch EXCEPT !.pc = "sent", !.entry = fcEntry, !.held = fcEntry.cached, !.sentAt = fcClock]]
    /\ UNCHANGED <<fcRow, fcSaves, fcGone, fcEntry, fcClock>>

\* The other fetches no longer hold the entry that is in the cache.
Replaced(c) ==
    [d \in Lookups |-> IF d = c THEN NoFetch ELSE [fcFetches[d] EXCEPT !.held = FALSE]]

\* A body: stored under the present time, whatever has been stored or invalidated meanwhile.
FetchStored(c) ==
    /\ fcFetches[c].pc = "body"
    /\ fcEntry' = [cached |-> TRUE, content |-> fcFetches[c].content,
                   version |-> fcFetches[c].version, fetchedAt |-> fcClock]
    /\ fcFetches' = Replaced(c)
    /\ UNCHANGED <<fcRow, fcSaves, fcGone, fcClock>>

\* 304: the entry whose ETag was sent is good for another TTL, if it is still the cached one.
FetchNotModified(c) ==
    /\ fcFetches[c].pc = "unchanged"
    /\ fcEntry' = IF fcFetches[c].held THEN [fcEntry EXCEPT !.fetchedAt = fcClock] ELSE fcEntry
    /\ fcFetches' = [fcFetches EXCEPT ![c] = NoFetch]
    /\ UNCHANGED <<fcRow, fcSaves, fcGone, fcClock>>

\* DataCore cannot be reached or answers an error: the old entry is served, or everything is on.
FetchFails(c) ==
    /\ fcFetches[c].pc # "idle"
    /\ fcFetches' = [fcFetches EXCEPT ![c] = NoFetch]
    /\ UNCHANGED <<fcRow, fcSaves, fcGone, fcEntry, fcClock>>

\* The webhook of an event feature...: the entry is dropped.
FeaturesInvalidated ==
    /\ fcEntry.cached
    /\ fcEntry' = NoEntry
    /\ fcFetches' = [c \in Lookups |-> [fcFetches[c] EXCEPT !.held = FALSE]]
    /\ UNCHANGED <<fcRow, fcSaves, fcGone, fcClock>>

\* Time passes, while every answer under way is within its latency.
FeatureTick ==
    /\ fcClock < MaxClock
    /\ \A c \in Lookups : fcFetches[c].pc # "idle" => fcClock < fcFetches[c].sentAt + FetchLatency
    /\ fcClock' = fcClock + 1
    /\ UNCHANGED <<fcRow, fcSaves, fcGone, fcEntry, fcFetches>>

FeatureNext ==
    \/ \E s \in Savers : SaveReads(s) \/ SavePuts(s)
    \/ \E c \in Lookups :
        \/ FeaturesAnswered(c) \/ FetchSent(c) \/ FetchStored(c) \/ FetchNotModified(c) \/ FetchFails(c)
    \/ FeaturesInvalidated \/ FeatureTick

FeatureSpec == FeatureInit /\ [][FeatureNext]_featureVars

-----------------------------------------------------------------------------
(* Properties *)

\* The promise of the cache: what a lookup is served from it was the tenant's configuration
\* within the last TTL and latency, however fetches, 304s and invalidations overlap.
Propagates ==
    Fresh => fcGone[fcEntry.content] + FeatureTTL + FetchLatency > fcClock

\* What AgentCore caches of DataCore, the features of a tenant and the LLM providers, follows the record
\* within its time to live.
CachesFollow == Propagates /\ RecordIsRecent

=============================================================================
