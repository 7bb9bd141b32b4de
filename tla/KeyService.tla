----------------------------- MODULE KeyService -----------------------------
(***************************************************************************)
(* The PASETO key service (internal/infrastructure/paseto_key_service.go): *)
(* the public key is read from Vault, cached for a while, and the fallback *)
(* key of the configuration stands in for one that cannot be had.  Keys    *)
(* are numbered in the order Vault got them; 0 is the fallback key, and no *)
(* key in the cache.                                                       *)
(*                                                                         *)
(* The callers are the requests being authenticated.  RWMutex: the fast    *)
(* path reads while nobody writes, a load holds the lock throughout.       *)
(***************************************************************************)
EXTENDS HttpRequests

CONSTANT MaxKeys    \* how many keys Vault gets

ASSUME MaxKeysAssumption == MaxKeys \in Nat \ {0}

VARIABLES useVault,    \* UseVaultKeys
          vaultKey,    \* the key in Vault
          cachedKey,
          unexpired,   \* cachedKeyExpiry is not over
          keyLock,     \* the requests that hold s.mu for writing
          keyStage,    \* the progress of GetPublicKey
          key          \* the key a request has been given

keyVars == <<useVault, vaultKey, cachedKey, unexpired, keyLock, keyStage, key>>

Fallback == 0
Cached == cachedKey # 0 /\ unexpired

\* GetPublicKey returns k to r.
Give(r, k) ==
  /\ key' = [key EXCEPT ![r] = k]
  /\ keyStage' = [keyStage EXCEPT ![r] = "given"]

\* The read of the cache under RLock; loadFallbackKey when Vault is not used.
GetPublicKey(r) ==
  /\ keyStage[r] = "none"
  /\ useVault => keyLock = {}
  /\ IF useVault /\ ~ Cached
       THEN keyStage' = [keyStage EXCEPT ![r] = "lock"] /\ UNCHANGED key
       ELSE Give(r, IF useVault THEN cachedKey ELSE Fallback)
  /\ UNCHANGED <<useVault, vaultKey, cachedKey, unexpired, keyLock>>

\* Mutant: the cache is not looked at again.
LockKeyBlindly(r) ==
  /\ keyStage[r] = "lock" /\ keyLock = {}
  /\ keyLock' = {r} /\ keyStage' = [keyStage EXCEPT ![r] = "vault"]
  /\ UNCHANGED <<useVault, vaultKey, cachedKey, unexpired, key>>

\* Mutant: the lock is only taken for reading.
LockKeyShared(r) ==
  /\ keyStage[r] = "lock"
  /\ IF Cached THEN Give(r, cachedKey) /\ UNCHANGED keyLock
               ELSE keyLock' = keyLock \cup {r} /\ keyStage' = [keyStage EXCEPT ![r] = "vault"]
                    /\ UNCHANGED key
  /\ UNCHANGED <<useVault, vaultKey, cachedKey, unexpired>>

\* loadKeyFromVault: the cache is looked at again once the lock is held.
LockKey(r) ==
  /\ keyStage[r] = "lock" /\ keyLock = {}
  /\ IF Cached THEN Give(r, cachedKey) /\ UNCHANGED keyLock
               ELSE keyLock' = {r} /\ keyStage' = [keyStage EXCEPT ![r] = "vault"] /\ UNCHANGED key
  /\ UNCHANGED <<useVault, vaultKey, cachedKey, unexpired>>

\* GetSecrets: the answer is on its way.
ReadKey(r) ==
  /\ keyStage[r] = "vault"
  /\ key' = [key EXCEPT ![r] = vaultKey]
  /\ keyStage' = [keyStage EXCEPT ![r] = "store"]
  /\ UNCHANGED <<useVault, vaultKey, cachedKey, unexpired, keyLock>>

\* Vault cannot be reached, or what it holds is not a key: the fallback key, for this once.
ReadKeyFails(r) ==
  /\ keyStage[r] = "vault"
  /\ Give(r, Fallback)
  /\ keyLock' = keyLock \ {r}
  /\ UNCHANGED <<useVault, vaultKey, cachedKey, unexpired>>

StoreKey(r) ==
  /\ keyStage[r] = "store"
  /\ cachedKey' = key[r] /\ unexpired' = TRUE
  /\ Give(r, key[r])
  /\ keyLock' = keyLock \ {r}
  /\ UNCHANGED <<useVault, vaultKey>>

\* The caller is done with the key.
Forget(r) ==
  /\ keyStage' = [keyStage EXCEPT ![r] = "none"] /\ key' = [key EXCEPT ![r] = Fallback]
  /\ UNCHANGED <<useVault, vaultKey, cachedKey, unexpired, keyLock>>

RotateKey ==
  /\ vaultKey < MaxKeys
  /\ vaultKey' = vaultKey + 1
  /\ UNCHANGED <<useVault, cachedKey, unexpired, keyLock, keyStage, key>>

KeyExpires ==
  /\ Cached
  /\ unexpired' = FALSE
  /\ UNCHANGED <<useVault, vaultKey, cachedKey, keyLock, keyStage, key>>

KeyInit ==
  /\ useVault \in BOOLEAN
  /\ vaultKey = 1 /\ cachedKey = 0 /\ unexpired = FALSE
  /\ keyLock = {}
  /\ keyStage = [r \in Requests |-> "none"]
  /\ key = [r \in Requests |-> Fallback]

KeyStep(r) ==
  GetPublicKey(r) \/ LockKey(r) \/ ReadKey(r) \/ ReadKeyFails(r) \/ StoreKey(r)

KeyTypeOK ==
  /\ useVault \in BOOLEAN
  /\ vaultKey \in 1..MaxKeys /\ cachedKey \in 0..MaxKeys /\ unexpired \in BOOLEAN
  /\ keyLock \in SUBSET Requests
  /\ keyStage \in [Requests -> {"none", "lock", "vault", "store", "given"}]
  /\ key \in [Requests -> 0..MaxKeys]

-----------------------------------------------------------------------------
(* Properties                                                              *)

\* Vault is asked by one request at a time, and only while there is no key to be had from the
\* cache: however many requests find the key expired together, one of them loads it and the
\* others find what it loaded.
OneLoadPerExpiry ==
  \A r \in Requests : keyStage[r] \in {"vault", "store"} => keyLock = {r} /\ ~ Cached

\* A key that was read before a rotation never replaces one that was read after it, and the
\* fallback key never replaces a key from Vault.
CachedKeyAdvances == [][cachedKey' >= cachedKey]_cachedKey
=============================================================================
