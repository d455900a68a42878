---------------------------- MODULE SigningKeys ----------------------------
(* The signing keys of the login provider as one server knows them.  A token*)
(* names its key; the server keeps what it fetched last, fetches again when *)
(* that is old or the key is not in it, and holds one mutex all the while.  *)
(* The provider rotates its keys, and at times does not answer.             *)
EXTENDS Naturals

CONSTANTS
  Kids,       \* key identifiers
  TTL,        \* defaultOIDCKeyTTL
  Cooldown,   \* defaultOIDCRefreshCooldown
  FetchTime,  \* timeout of the HTTP client
  MaxKeyTime, \* bound on keyClock
  NoKey       \* no key

\* What a configuration must give; assumed where the module is instantiated.
\* The code waits for a while, and no longer than it would keep a key.
KeysParameters ==
  /\ {TTL, Cooldown, FetchTime, MaxKeyTime} \subseteq Nat
  /\ 0 < Cooldown /\ Cooldown <= TTL
  /\ NoKey \notin Kids

VARIABLES
  keyClock,   \* now; the clock starts at 1
  published,  \* keys in the provider's JWKS document
  keys,       \* provider.keys
  fetched,    \* provider.keysFetched, 0 before the first fetch
  attempt,    \* provider.lastRefreshAttempt, 0 for the zero time
  call,       \* the call of key() that holds the mutex
  verdict,    \* the answer key() has just given
  changed,    \* history: when each key was published or withdrawn last
  failed      \* history: when a fetch failed last, 0 for never

keysVars == <<keyClock, published, keys, fetched, attempt, call, verdict, changed, failed>>
environment == <<keyClock, published, changed>>

Call == [pc : {"idle", "asked", "answered"}, kid : Kids \cup {NoKey}, doc : SUBSET Kids, began : Nat]
NoCall == [pc |-> "idle", kid |-> NoKey, doc |-> {}, began |-> 0]
Verdict == [kid : Kids \cup {NoKey}, found : BOOLEAN]
NoVerdict == [kid |-> NoKey, found |-> FALSE]

Verify(kid, found) == verdict' = [kid |-> kid, found |-> found]

----------------------------------------------------------------------------
Fresh(kid) == kid \in keys /\ keyClock < fetched + TTL

\* An attempt that did not succeed is less than the cooldown ago.
Cooling == attempt # 0 /\ keyClock < attempt + Cooldown

\* Mutant of UseCache: a refused token starts the cooldown again.
UseCacheRestarting(kid) ==
  /\ call = NoCall
  /\ Fresh(kid) \/ Cooling
  /\ Verify(kid, kid \in keys)
  /\ attempt' = IF kid \in keys THEN attempt ELSE keyClock
  /\ UNCHANGED <<keys, fetched, call, failed>> /\ UNCHANGED environment

\* key() from the cache: a fresh key, or while cooling whatever is there.
UseCache(kid) ==
  /\ call = NoCall
  /\ Fresh(kid) \/ Cooling
  /\ Verify(kid, kid \in keys)
  /\ UNCHANGED <<keys, fetched, attempt, call, failed>> /\ UNCHANGED environment

BeginRefresh(kid) ==
  /\ call = NoCall
  /\ ~Fresh(kid) /\ ~Cooling
  /\ attempt' = keyClock
  /\ call' = [NoCall EXCEPT !.pc = "asked", !.kid = kid, !.began = keyClock]
  /\ verdict' = NoVerdict
  /\ UNCHANGED <<keys, fetched, failed>> /\ UNCHANGED environment

\* The provider reads its document; the answer takes its time.
ProviderAnswers ==
  /\ call.pc = "asked"
  /\ published # {}
  /\ call' = [call EXCEPT !.pc = "answered", !.doc = published]
  /\ verdict' = NoVerdict
  /\ UNCHANGED <<keys, fetched, attempt, failed>> /\ UNCHANGED environment

\* refreshKeysLocked replaces the cache; the attempt is forgotten if the key is there.
TakeKeys ==
  /\ call.pc = "answered"
  /\ keys' = call.doc
  /\ fetched' = keyClock
  /\ attempt' = IF call.kid \in call.doc THEN 0 ELSE attempt
  /\ Verify(call.kid, call.kid \in call.doc)
  /\ call' = NoCall
  /\ UNCHANGED failed /\ UNCHANGED environment

\* No usable answer, a timeout, or the request that asked was canceled: a key
\* that is cached is used although it is old.
RefreshFails ==
  /\ call.pc # "idle"
  /\ Verify(call.kid, call.kid \in keys)
  /\ failed' = keyClock
  /\ call' = NoCall
  /\ UNCHANGED <<keys, fetched, attempt>> /\ UNCHANGED environment

----------------------------------------------------------------------------
Rotate(kid) ==
  /\ published' = IF kid \in published THEN published \ {kid} ELSE published \cup {kid}
  /\ changed' = [changed EXCEPT ![kid] = keyClock]
  /\ verdict' = NoVerdict
  /\ UNCHANGED <<keyClock, keys, fetched, attempt, call, failed>>

\* A fetch does not outlast its timeout.
KeyTick ==
  /\ keyClock < MaxKeyTime
  /\ call # NoCall => keyClock < call.began + FetchTime
  /\ keyClock' = keyClock + 1
  /\ verdict' = NoVerdict
  /\ UNCHANGED <<published, keys, fetched, attempt, call, changed, failed>>

KeysInit ==
  /\ keyClock = 1
  /\ published \in SUBSET Kids
  /\ keys = {}
  /\ fetched = 0
  /\ attempt = 0
  /\ call = NoCall
  /\ verdict = NoVerdict
  /\ changed = [kid \in Kids |-> 0]
  /\ failed = 0

KeysNext ==
  \/ \E kid \in Kids : UseCache(kid) \/ BeginRefresh(kid) \/ Rotate(kid)
  \/ ProviderAnswers \/ TakeKeys \/ RefreshFails \/ KeyTick

KeysSpec == KeysInit /\ [][KeysNext]_keysVars

----------------------------------------------------------------------------
\* The cache, the call and the histories hold values of their types.
KeysTypeOK ==
  /\ keyClock \in Nat /\ fetched \in Nat /\ attempt \in Nat /\ failed \in Nat
  /\ published \subseteq Kids /\ keys \subseteq Kids
  /\ call \in Call
  /\ verdict \in Verdict
  /\ changed \in [Kids -> Nat]

FailedLately == failed # 0 /\ keyClock < failed + Cooldown

\* A key the provider withdrew is still accepted no longer than the cache may
\* be old, unless a fetch has failed less than a cooldown ago.
OldKeysOnlyInOutages ==
  verdict.found /\ verdict.kid \notin published =>
    keyClock < changed[verdict.kid] + TTL + FetchTime \/ FailedLately

\* A key the provider publishes is refused no longer than a cooldown and a
\* fetch, unless a fetch has failed since: tokens signed with other keys, or
\* with keys nobody knows, do not put it off any further.
NewKeysSoonFound ==
  verdict.kid \in published /\ ~verdict.found =>
    keyClock < changed[verdict.kid] + Cooldown + FetchTime \/ FailedLately

\* The cache follows the provider but for its outages.
KeysFollowTheProvider == OldKeysOnlyInOutages /\ NewKeysSoonFound
============================================================================
