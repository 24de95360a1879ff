---------------------------- MODULE LlmDirectory ----------------------------
(***************************************************************************)
(* One LLM provider of a tenant: the record DataCore keeps, its key among  *)
(* it (llmproviders.ts), and what AgentCore keeps of it: the list of       *)
(* providers and the key, each with its TTL (llm/datacore-directory.ts),   *)
(* and the adapters it builds of the two, one per updatedAt and for good   *)
(* (llm/providers.ts).  A saved record announces itself through the        *)
(* outbox, whose webhook empties the directory.                            *)
(*                                                                         *)
(* A state of the record, its updatedAt and its key are one number; the    *)
(* clock ticks as often as the requests under way allow.                   *)
(***************************************************************************)
EXTENDS Naturals, FiniteSets

CONSTANTS
    LlmCalls,      \* calls of the model that may overlap
    MaxRecords,    \* bound: how often the record is saved
    ListTTL,       \* CONFIG_TTL_MS, in ticks
    KeyTTL,        \* CREDENTIAL_TTL_MS, in ticks
    LlmLatency,    \* a request of the directory is answered within so many ticks
    LlmClockBound  \* bound on the clock

ASSUME LlmAssumption ==
    /\ {MaxRecords, ListTTL, KeyTTL, LlmLatency, LlmClockBound} \subseteq Nat
    /\ MaxRecords > 0 /\ ListTTL > 0

VARIABLES
    llmSaved,   \* the record
    llmGone,    \* when each record ceased to be current
    llmEvents,  \* announcements the outbox has still to deliver
    llmList,    \* providersCache: the record and when it was stored
    llmKey,     \* credentialCache: the key and when it was stored
    adapters,   \* per updatedAt: the key the adapter speaks with
    llmCalls,
    llmClock

llmVars == <<llmSaved, llmGone, llmEvents, llmList, llmKey, adapters, llmCalls, llmClock>>

RecordNos == 1..MaxRecords
NoKeyYet == 0
KnownLlmKeys == RecordNos \cup {NoKeyYet}
Absent == MaxRecords + 1
NotCached == [value |-> Absent, at |-> 0]
CachedValue == [value : KnownLlmKeys \cup {Absent}, at : 0..LlmClockBound]
NoLlmCall == [pc |-> "idle", record |-> Absent, key |-> NoKeyYet, since |-> 0]
LlmCall == [pc : {"idle", "lists", "listed", "adapts", "asks", "answered", "speaks"}, record : RecordNos \cup {Absent}, key : KnownLlmKeys,
            since : 0..LlmClockBound]

LlmTypeOK ==
    /\ llmSaved \in RecordNos /\ llmGone \in [RecordNos -> 0..LlmClockBound + 1] /\ llmEvents \in 0..MaxRecords
    /\ llmList \in CachedValue /\ llmKey \in CachedValue /\ adapters \in [RecordNos -> KnownLlmKeys \cup {Absent}]
    /\ llmCalls \in [LlmCalls -> LlmCall] /\ llmClock \in 0..LlmClockBound

LlmInit ==
    /\ llmSaved = 1 /\ llmGone = [r \in RecordNos |-> LlmClockBound + 1] /\ llmEvents = 0
    /\ llmList = NotCached /\ llmKey = NotCached /\ adapters = [r \in RecordNos |-> Absent]
    /\ llmCalls = [c \in LlmCalls |-> NoLlmCall] /\ llmClock = 0

-----------------------------------------------------------------------------
(* DataCore *)

\* update puts the record, with a new key and a new updatedAt, and emits llm_provider.updated.
ProviderUpdated ==
    /\ llmSaved < MaxRecords
    /\ llmSaved' = llmSaved + 1 /\ llmEvents' = llmEvents + 1
    /\ llmGone' = [llmGone EXCEPT ![llmSaved] = llmClock]
    /\ UNCHANGED <<llmList, llmKey, adapters, llmCalls, llmClock>>

\* The webhook of the event empties the directory; the adapters stay.
DirectoryInvalidated ==
    /\ llmEvents > 0
    /\ llmEvents' = llmEvents - 1 /\ llmList' = NotCached /\ llmKey' = NotCached
    /\ UNCHANGED <<llmSaved, llmGone, adapters, llmCalls, llmClock>>

\* The outbox gives up on the event.
AnnouncementLost ==
    /\ llmEvents > 0
    /\ llmEvents' = llmEvents - 1
    /\ UNCHANGED <<llmSaved, llmGone, llmList, llmKey, adapters, llmCalls, llmClock>>

-----------------------------------------------------------------------------
(* AgentCore *)

\* Mutant of Current: an entry is good until the key would be.
CurrentTooLong(entry, ttl) == entry # NotCached /\ llmClock - entry.at < ttl + KeyTTL

Current(entry, ttl) == entry # NotCached /\ llmClock - entry.at < ttl

LlmGoes(c, call) == llmCalls' = [llmCalls EXCEPT ![c] = call]

\* A call needs the provider: out of the cache, or a request is sent.
ProviderSought(c) ==
    /\ llmCalls[c].pc = "idle"
    /\ LlmGoes(c, IF Current(llmList, ListTTL) THEN [NoLlmCall EXCEPT !.pc = "adapts", !.record = llmList.value, !.since = llmClock]
                  ELSE [NoLlmCall EXCEPT !.pc = "lists", !.since = llmClock])
    /\ UNCHANGED <<llmSaved, llmGone, llmEvents, llmList, llmKey, adapters, llmClock>>

\* DataCore answers with its record; the list is stored when the answer is there.
ProviderRead(c) ==
    /\ llmCalls[c].pc = "lists"
    /\ LlmGoes(c, [llmCalls[c] EXCEPT !.pc = "listed", !.record = llmSaved])
    /\ UNCHANGED <<llmSaved, llmGone, llmEvents, llmList, llmKey, adapters, llmClock>>

ProviderStored(c) ==
    /\ llmCalls[c].pc = "listed"
    /\ llmList' = [value |-> llmCalls[c].record, at |-> llmClock]
    /\ LlmGoes(c, [llmCalls[c] EXCEPT !.pc = "adapts", !.since = llmClock])
    /\ UNCHANGED <<llmSaved, llmGone, llmEvents, llmKey, adapters, llmClock>>

\* The adapter of this updatedAt is there, or the key is, of which one is built; or a request is sent.
AdapterSought(c) == LET r == llmCalls[c].record IN
    /\ llmCalls[c].pc = "adapts"
    /\ IF adapters[r] # Absent
         THEN LlmGoes(c, [llmCalls[c] EXCEPT !.pc = "speaks", !.key = adapters[r]]) /\ UNCHANGED adapters
         ELSE IF Current(llmKey, KeyTTL)
         THEN /\ LlmGoes(c, [llmCalls[c] EXCEPT !.pc = "speaks", !.key = llmKey.value])
              /\ adapters' = [adapters EXCEPT ![r] = llmKey.value]
         ELSE LlmGoes(c, [llmCalls[c] EXCEPT !.pc = "asks", !.since = llmClock]) /\ UNCHANGED adapters
    /\ UNCHANGED <<llmSaved, llmGone, llmEvents, llmList, llmKey, llmClock>>

\* DataCore decrypts the key it has, or answers with an error.
KeyRead(c) == \E key \in {llmSaved, NoKeyYet} :
    /\ llmCalls[c].pc = "asks"
    /\ LlmGoes(c, [llmCalls[c] EXCEPT !.pc = "answered", !.key = key])
    /\ UNCHANGED <<llmSaved, llmGone, llmEvents, llmList, llmKey, adapters, llmClock>>

\* Key or none, it is stored and the adapter is built.
KeyStored(c) == LET call == llmCalls[c] IN
    /\ call.pc = "answered"
    /\ llmKey' = [value |-> call.key, at |-> llmClock]
    /\ adapters' = [adapters EXCEPT ![call.record] = call.key]
    /\ LlmGoes(c, [call EXCEPT !.pc = "speaks"])
    /\ UNCHANGED <<llmSaved, llmGone, llmEvents, llmList, llmClock>>

\* The model has been asked through the adapter; or no answer came from DataCore.
LlmCallEnds(c) ==
    /\ llmCalls[c].pc \in {"lists", "speaks"}
    /\ LlmGoes(c, NoLlmCall)
    /\ UNCHANGED <<llmSaved, llmGone, llmEvents, llmList, llmKey, adapters, llmClock>>

\* Time passes, but no request takes longer than LlmLatency and a call speaks at once.
LlmTick ==
    /\ llmClock < LlmClockBound
    /\ \A c \in LlmCalls : /\ llmCalls[c].pc \notin {"adapts", "speaks"}
                           /\ llmCalls[c].pc # "idle" => llmClock - llmCalls[c].since < LlmLatency
    /\ llmClock' = llmClock + 1
    /\ UNCHANGED <<llmSaved, llmGone, llmEvents, llmList, llmKey, adapters, llmCalls>>

LlmNext ==
    \/ ProviderUpdated \/ DirectoryInvalidated \/ AnnouncementLost \/ LlmTick
    \/ \E c \in LlmCalls : \/ ProviderSought(c) \/ ProviderRead(c) \/ ProviderStored(c) \/ AdapterSought(c)
                           \/ KeyRead(c) \/ KeyStored(c) \/ LlmCallEnds(c)

LlmSpec == LlmInit /\ [][LlmNext]_llmVars

-----------------------------------------------------------------------------
(* Properties *)

\* The record a call goes by was current less than a TTL and two requests ago, also when its
\* announcement was lost, came late or overtook an answer.
RecordIsRecent ==
    \A c \in LlmCalls : llmCalls[c].pc = "speaks" =>
        llmClock - llmGone[llmCalls[c].record] < ListTTL + 2 * LlmLatency \/ llmGone[llmCalls[c].record] > llmClock

\* A new key reaches the calls as the rest of the record does: at the latest after the TTL of the
\* key and two requests no call speaks with the one before.
KeyIsRecent ==
    \A c \in LlmCalls : llmCalls[c].pc = "speaks" /\ llmCalls[c].key # NoKeyYet =>
        llmClock - llmGone[llmCalls[c].key] < KeyTTL + 2 * LlmLatency \/ llmGone[llmCalls[c].key] > llmClock

=============================================================================
