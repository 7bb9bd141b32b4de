---------------------------- MODULE ConfigLoader ----------------------------
(***************************************************************************)
(* The configuration loader (internal/config/loader.go): secrets are read  *)
(* from Vault at start and again when SIGHUP or the poll ticker asks for   *)
(* it.  Data are version numbers: a configuration key holds the version    *)
(* of the secret its value came from, 0 for the environment's.             *)
(***************************************************************************)
EXTENDS Naturals

CONSTANTS Keys,         \* the keys of the secret that the configuration knows, all with a value
          MaxVersion,   \* how often the secret is written
          MaxFailures   \* how many calls to Vault fail

ASSUME LoaderAssumption == MaxVersion \in Nat /\ MaxFailures \in Nat

VARIABLES enabled,      \* SecretStorage.Enabled (with a poll interval)
          secret,       \* what Vault holds now
          failures,     \* how many calls to Vault have failed
          config,       \* ServiceConfig, shared with the whole process
          lastVersion,
          loader,       \* where the loader is
          data,         \* the secret it read last
          todo,         \* the keys of it still to apply
          channel,      \* configSignalChan and its registration with the signal package
          signals,      \* what the channel (of capacity 1) holds
          ticked,       \* the poll ticker has a tick
          ctx           \* the service's context: "live" or "done"

settings == <<enabled>>
vaultVars == <<secret, failures>>
loadVars == <<config, lastVersion, data, todo>>
signalVars == <<channel, signals, ticked>>
loaderVars == <<settings, vaultVars, loadVars, signalVars, loader, ctx>>

Signals == {"SIGHUP", "SIGUSR1"}

\* A version of the secret: its number, and whether it has an entry that os.Setenv refuses.
\* Version 0 is the path nothing has been written to.
Secret == [version : 0..MaxVersion, invalid : BOOLEAN]
NoSecret == [version |-> 0, invalid |-> FALSE]

\* getSecretVersion looks for current_version, and says 0 when it is not there.  It never is:
\* loadSecretsFromPath reads the data path in either case, whose metadata have the version of
\* the secret under another name.
SecretVersion == 0

Watching == channel # "none"

-----------------------------------------------------------------------------
(* Vault                                                                   *)

Rotate ==
  /\ secret.version < MaxVersion
  /\ \E invalid \in BOOLEAN :
       secret' = [version |-> secret.version + 1, invalid |-> invalid]
  /\ UNCHANGED <<settings, failures, loadVars, signalVars, loader, ctx>>

\* A call to Vault succeeds only while its context is live; after its retries it may have failed.
Answers == ctx = "live" /\ UNCHANGED failures
Fails == \/ ctx = "done" /\ UNCHANGED failures
         \/ ctx = "live" /\ failures < MaxFailures /\ failures' = failures + 1

-----------------------------------------------------------------------------
(* Load                                                                    *)

\* The error is reported for the log, without waiting, or returned to WithConfigLoader.
LoadFails ==
  /\ loader' = IF Watching THEN "select" ELSE "failed"
  /\ UNCHANGED <<settings, secret, loadVars, signalVars, ctx>>

\* authenticateVault: a token is only set, a login is a call.
Authenticate ==
  /\ loader = "load" /\ enabled
  /\ loader' = "read"
  /\ UNCHANGED <<settings, vaultVars, loadVars, signalVars, ctx>>

AuthenticateFails ==
  loader = "load" /\ (Fails \/ (~ enabled /\ UNCHANGED failures)) /\ LoadFails

ReadData ==
  /\ loader = "read" /\ Answers
  /\ data' = secret
  /\ todo' = IF secret = NoSecret THEN {} ELSE Keys
  /\ loader' = "apply"
  /\ UNCHANGED <<settings, secret, config, lastVersion, signalVars, ctx>>

\* After its retries, or at once when the context is done.
ReadDataFails == loader = "read" /\ Fails /\ LoadFails

\* The keys come in the order of a Go map: any.
ApplySecret(k) ==
  /\ loader = "apply" /\ k \in todo
  /\ config' = [config EXCEPT ![k] = data.version]
  /\ todo' = todo \ {k}
  /\ UNCHANGED <<settings, vaultVars, lastVersion, data, signalVars, loader, ctx>>

ApplySecretFails == loader = "apply" /\ data.invalid /\ UNCHANGED failures /\ LoadFails

\* The second read.  At start the version is returned to WithConfigLoader, which has given the
\* loader itself version 0 already.
ReadVersion ==
  /\ loader = "apply" /\ todo = {} /\ ~ data.invalid /\ Answers
  /\ lastVersion' = IF Watching THEN SecretVersion ELSE lastVersion
  /\ loader' = IF Watching THEN "select" ELSE "loaded"
  /\ UNCHANGED <<settings, secret, config, data, todo, signalVars, ctx>>

ReadVersionFails ==
  loader = "apply" /\ todo = {} /\ ~ data.invalid /\ Fails /\ LoadFails

-----------------------------------------------------------------------------
(* The goroutine of WatchConfigSignals                                     *)

\* The deferred calls: ticker, reloadErrors and the channel are closed, and then the signal
\* package is told.
SelectDone ==
  /\ loader = "select" /\ ctx = "done"
  /\ loader' = "closing"
  /\ channel' = "closed"
  /\ UNCHANGED <<settings, vaultVars, loadVars, signals, ticked, ctx>>

StopSignals ==
  /\ loader = "closing"
  /\ loader' = "ended"
  /\ channel' = "stopped"
  /\ UNCHANGED <<settings, vaultVars, loadVars, signals, ticked, ctx>>

SelectTick ==
  /\ loader = "select" /\ ticked
  /\ ticked' = FALSE
  /\ loader' = "tick"
  /\ UNCHANGED <<settings, vaultVars, loadVars, channel, signals, ctx>>

\* configSignalChan <- SIGHUP: blocks while the channel holds a signal.
SendTick ==
  /\ loader = "tick" /\ signals = {}
  /\ signals' = {"SIGHUP"}
  /\ loader' = "select"
  /\ UNCHANGED <<settings, vaultVars, loadVars, channel, ticked, ctx>>

\* Mutant: the two signals are taken for each other.
SelectSignalSwapped(s) ==
  /\ loader = "select" /\ s \in signals
  /\ signals' = {}
  /\ loader' = IF s = "SIGUSR1" THEN "check" ELSE "select"
  /\ UNCHANGED <<settings, vaultVars, loadVars, channel, ticked, ctx>>

\* SIGUSR1 only dumps the configuration.
SelectSignal(s) ==
  /\ loader = "select" /\ s \in signals
  /\ signals' = {}
  /\ loader' = IF s = "SIGHUP" THEN "check" ELSE "select"
  /\ UNCHANGED <<settings, vaultVars, loadVars, channel, ticked, ctx>>

\* Mutant: SIGHUP loads whatever the version is.
CheckVersionRegardless ==
  /\ loader = "check" /\ Answers
  /\ loader' = "load"
  /\ UNCHANGED <<settings, secret, loadVars, signalVars, ctx>>

\* handleConfigReload loads only what has another version.
CheckVersion ==
  /\ loader = "check" /\ Answers
  /\ loader' = IF SecretVersion = lastVersion THEN "select" ELSE "load"
  /\ UNCHANGED <<settings, secret, loadVars, signalVars, ctx>>

CheckVersionFails == loader = "check" /\ Fails /\ LoadFails

PollTicks ==
  /\ enabled /\ channel = "open" /\ ~ ticked
  /\ ticked' = TRUE
  /\ UNCHANGED <<settings, vaultVars, loadVars, channel, signals, loader, ctx>>

-----------------------------------------------------------------------------
\* What the loader starts with, and leaves nothing of when the process ends.
Fresh(conf, last, read, rest, ldr, chan, sigs, tick, context) ==
  /\ conf = [k \in Keys |-> 0] /\ last = 0 /\ read = NoSecret /\ rest = {}
  /\ ldr = "off" /\ chan = "none" /\ sigs = {} /\ tick = FALSE
  /\ context = "live"

LoaderInit ==
  /\ enabled \in BOOLEAN
  /\ secret = NoSecret /\ failures = 0
  /\ Fresh(config, lastVersion, data, todo, loader, channel, signals, ticked, ctx)

LoaderWorks ==
  \/ Authenticate \/ ReadData \/ (\E k \in Keys : ApplySecret(k)) \/ ReadVersion \/ CheckVersion
  \/ AuthenticateFails \/ ReadDataFails \/ ApplySecretFails \/ ReadVersionFails
  \/ CheckVersionFails
  \/ SendTick \/ StopSignals

LoaderStep ==
  \/ LoaderWorks
  \/ SelectDone \/ SelectTick \/ (\E s \in Signals : SelectSignal(s))
  \/ PollTicks \/ Rotate

LoaderTypeOK ==
  /\ enabled \in BOOLEAN
  /\ secret \in Secret /\ failures \in 0..MaxFailures
  /\ config \in [Keys -> 0..MaxVersion] /\ lastVersion \in 0..MaxVersion
  /\ data \in Secret /\ todo \in SUBSET Keys
  /\ loader \in {"off", "load", "read", "apply", "loaded", "failed", "select", "tick", "check",
                 "closing", "ended"}
  /\ channel \in {"none", "open", "closed", "stopped"}
  /\ signals \in {{}, {"SIGHUP"}, {"SIGUSR1"}} /\ ticked \in BOOLEAN
  /\ ctx \in {"live", "done"}

-----------------------------------------------------------------------------
(* Properties                                                              *)

\* Every key has been given the value in the data that were read last.
Applied == \A k \in Keys : config[k] = data.version

\* The goroutine has turned to sending itself a signal while one is waiting.
SelfBlocked == loader = "tick" /\ signals # {}
=============================================================================
