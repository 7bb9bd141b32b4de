---------------------------- MODULE ProcessProofs ----------------------------
(***************************************************************************)
(* Proofs about Process, for any keys of the configuration, any number of  *)
(* rotations and of failing calls to Vault: which configuration it has,    *)
(* which signals end it, and what shutdown closes when.                    *)
(***************************************************************************)
EXTENDS Process, TLAPS

Ends == {"failed", "killed", "panicked", "fatal", "returned"}

\* Where the main goroutine is says what there is to catch signals and whether the context lives.
LifeOK ==
  /\ main \in {"build", "monitor"} => channel = "none"
  /\ main \in {"hook", "wait"} => channel = "open"
  /\ ctx = "done" <=> main \in {"cleanup", "return"}
  /\ loader = "closing" => ctx = "done"
  /\ loader \in {"select", "tick", "check"} => channel = "open"
  /\ main \in {"build", "monitor", "hook"} => hook = "none"
  /\ main = "wait" => hook \in {"empty", "signal"}

\* Why the configuration is whole and stays: the process gets past its third option only with a
\* load that applied every key, and no version that handleConfigReload sees differs from its own.
LoadOK ==
  /\ lastVersion = 0
  /\ loader \in {"off", "load", "read"} => \A k \in Keys : config[k] = 0
  /\ loader = "apply" => \A k \in Keys \ todo : config[k] = data.version
  /\ loader = "loaded" => Applied
  /\ main # "build" => built = Len(Options)
  /\ ~ enabled \/ built > 2 => Applied /\ loader \notin {"load", "read", "apply", "failed"}

ProcInv == ProcTypeOK /\ LifeOK /\ LoadOK

-----------------------------------------------------------------------------
(* The loader                                                              *)

LEMMA OptionCount == Len(Options) = 10
  BY DEF Options

\* While there is something to load, nobody watches for signals yet.
LEMMA LoadsUnwatched ==
  ASSUME ProcInv, loader \in {"load", "read", "apply"}
  PROVE  enabled /\ built <= 2 /\ main = "build" /\ ~ Watching
  BY OptionCount DEF ProcInv, ProcTypeOK, LoadOK, LifeOK, Watching

LEMMA LoaderKeeps ==
  ASSUME ProcInv, LoaderStep, UNCHANGED processVars
  PROVE  ProcInv'
  <1> USE LoaderAssumption, OptionCount, LoadsUnwatched
      DEF ProcInv, ProcTypeOK, LoaderTypeOK, LifeOK, LoadOK, Applied, Secret,
          NoSecret, processVars, settings, vaultVars, loadVars, signalVars
  <1>1. ASSUME Authenticate PROVE ProcInv'
    BY <1>1 DEF Authenticate
  <1>2. ASSUME AuthenticateFails PROVE ProcInv'
    <2>1. enabled /\ built <= 2 /\ main = "build" /\ ~ Watching
      BY <1>2 DEF AuthenticateFails
    <2>2. /\ loader' = "failed" /\ failures' \in 0..MaxFailures
          /\ UNCHANGED <<settings, secret, loadVars, signalVars, ctx, processVars>>
      BY <1>2, <2>1 DEF AuthenticateFails, Fails, LoadFails
    <2> QED
      BY <2>1, <2>2
  <1>3. ASSUME ReadData PROVE ProcInv'
    BY <1>3 DEF ReadData, Answers
  <1>4. ASSUME ReadDataFails PROVE ProcInv'
    BY <1>4 DEF ReadDataFails, Fails, LoadFails, Watching
  <1>5. ASSUME NEW k \in Keys, ApplySecret(k) PROVE ProcInv'
    BY <1>5 DEF ApplySecret
  <1>6. ASSUME ApplySecretFails PROVE ProcInv'
    BY <1>6 DEF ApplySecretFails, LoadFails, Watching
  <1>7. ASSUME ReadVersion PROVE ProcInv'
    BY <1>7 DEF ReadVersion, Answers, Watching, SecretVersion
  <1>8. ASSUME ReadVersionFails PROVE ProcInv'
    BY <1>8 DEF ReadVersionFails, Fails, LoadFails, Watching
  <1>9. ASSUME CheckVersion PROVE ProcInv'
    BY <1>9 DEF CheckVersion, Answers, SecretVersion
  <1>10. ASSUME CheckVersionFails PROVE ProcInv'
    BY <1>10 DEF CheckVersionFails, Fails, LoadFails, Watching
  <1>11. ASSUME SendTick PROVE ProcInv'
    BY <1>11 DEF SendTick
  <1>12. ASSUME StopSignals PROVE ProcInv'
    BY <1>12 DEF StopSignals
  <1>13. ASSUME SelectDone PROVE ProcInv'
    BY <1>13 DEF SelectDone
  <1>14. ASSUME SelectTick PROVE ProcInv'
    <2>1. /\ loader = "select" /\ loader' = "tick" /\ ticked' \in BOOLEAN
          /\ UNCHANGED <<settings, vaultVars, loadVars, channel, signals, ctx, processVars>>
      BY <1>14 DEF SelectTick
    <2> QED
      BY <2>1
  <1>15. ASSUME NEW s \in Signals, SelectSignal(s) PROVE ProcInv'
    BY <1>15 DEF SelectSignal, Signals
  <1>16. ASSUME PollTicks PROVE ProcInv'
    BY <1>16 DEF PollTicks
  <1>17. ASSUME Rotate PROVE ProcInv'
    BY <1>17 DEF Rotate
  <1> QED
    BY <1>1, <1>2, <1>3, <1>4, <1>5, <1>6, <1>7, <1>8, <1>9, <1>10, <1>11, <1>12, <1>13, <1>14, <1>15, <1>16, <1>17 DEF LoaderStep, LoaderWorks

-----------------------------------------------------------------------------
(* The main goroutine and what surrounds it                                *)

\* The configuration is loaded by the third option.
LEMMA LoaderOption ==
  ASSUME built \in Nat, Building
  PROVE  Option = "config_loader" <=> built = 2
  BY OptionCount DEF Building, Option, Options

LEMMA ExitKeeps ==
  ASSUME ProcInv, NEW how \in Ends, Exit(how)
  PROVE  ProcInv'
  <1>1. /\ config' = [k \in Keys |-> 0] /\ lastVersion' = 0 /\ data' = NoSecret /\ todo' = {}
        /\ loader' = "off" /\ channel' = "none" /\ signals' = {} /\ ticked' = FALSE
        /\ ctx' = "live" /\ main' = "build" /\ built' = 0 /\ open' = {} /\ worker' = "off"
        /\ listening' = FALSE /\ serving' = FALSE /\ hook' = "none" /\ exit' = how
        /\ UNCHANGED <<enabled, secret, failures, role>>
    BY DEF Exit, Fresh, settings, vaultVars
  <1>2. ProcTypeOK'
    <2>1. 0 \in 0..MaxVersion /\ 0 \in 0..Len(Options)
      BY LoaderAssumption, OptionCount
    <2>2. NoSecret \in Secret
      BY <2>1 DEF NoSecret, Secret
    <2> QED
      BY <1>1, <2>1, <2>2 DEF ProcInv, ProcTypeOK, LoaderTypeOK, Ends
  <1>3. LifeOK'
    BY <1>1 DEF LifeOK
  <1>4. LoadOK'
    BY <1>1, LoaderAssumption
       DEF ProcInv, ProcTypeOK, LoaderTypeOK, LoadOK, Applied, Secret, NoSecret
  <1> QED
    BY <1>2, <1>3, <1>4 DEF ProcInv

LEMMA MainKeeps ==
  ASSUME ProcInv, exit' = "no",
         \/ ApplyOption \/ StartLoad \/ ConfigLoaded \/ Start
         \/ MonitorConfigChanges \/ ShutdownHook \/ Shutdown \/ Cleanup \/ CloseHook
         \/ WorkerEnds \/ RequestBegins \/ RequestEnds
         \/ (\E s \in Signals : SendReload(s)) \/ SendTermination
  PROVE  ProcInv'
  <1> USE LoaderAssumption, OptionCount, LoaderOption
      DEF ProcInv, ProcTypeOK, LoaderTypeOK, LifeOK, LoadOK, Applied, Secret,
          NoSecret, loaderVars, processVars, settings, vaultVars, loadVars, signalVars
  <1>1. ASSUME ApplyOption PROVE ProcInv'
    BY <1>1 DEF ApplyOption, Building, Opens
  <1>2. ASSUME StartLoad PROVE ProcInv'
    BY <1>2 DEF StartLoad, Building
  <1>3. ASSUME ConfigLoaded PROVE ProcInv'
    BY <1>3 DEF ConfigLoaded, Building
  <1>4. ASSUME Start PROVE ProcInv'
    BY <1>4 DEF Start
  <1>5. ASSUME MonitorConfigChanges PROVE ProcInv'
    BY <1>5 DEF MonitorConfigChanges
  <1>6. ASSUME ShutdownHook PROVE ProcInv'
    BY <1>6 DEF ShutdownHook
  <1>7. ASSUME Shutdown PROVE ProcInv'
    BY <1>7 DEF Shutdown
  <1>8. ASSUME Cleanup PROVE ProcInv'
    <2>1. /\ main = "cleanup" /\ main' \in {"cleanup", "return"} /\ open' \subseteq open
          /\ UNCHANGED <<loaderVars, role, built, worker, serving, hook, exit>>
      BY <1>8 DEF Cleanup
    <2>2. listening' \in BOOLEAN
      BY <1>8 DEF Cleanup
    <2> QED
      BY <2>1, <2>2
  <1>9. ASSUME CloseHook PROVE ProcInv'
    BY <1>9 DEF CloseHook
  <1>10. ASSUME WorkerEnds PROVE ProcInv'
    BY <1>10 DEF WorkerEnds
  <1>11. ASSUME NEW s \in Signals, SendReload(s) PROVE ProcInv'
    <2>1. /\ channel = "open" /\ signals' = {s}
          /\ UNCHANGED <<settings, vaultVars, loadVars, channel, ticked, loader, ctx, processVars>>
      BY <1>11 DEF SendReload, Exit
    <2> QED
      BY <2>1 DEF Signals
  <1>12. ASSUME SendTermination PROVE ProcInv'
    <2>1. /\ hook = "empty" /\ hook' = "signal"
          /\ UNCHANGED <<loaderVars, role, main, built, open, worker, listening, serving, exit>>
      BY <1>12 DEF SendTermination, Exit
    <2> QED
      BY <2>1
  <1>13. ASSUME RequestBegins \/ RequestEnds PROVE ProcInv'
    <2>1. /\ serving' \in BOOLEAN
          /\ UNCHANGED <<loaderVars, role, main, built, open, worker, listening, hook, exit>>
      BY <1>13 DEF RequestBegins, RequestEnds
    <2> QED
      BY <2>1
  <1> QED
    BY <1>1, <1>2, <1>3, <1>4, <1>5, <1>6, <1>7, <1>8, <1>9, <1>10, <1>11, <1>12, <1>13

\* A step that does not let the process go on ends it in one of these ways.
LEMMA Exits ==
  ASSUME ProcNext, exit' # "no"
  PROVE  \E how \in Ends : Exit(how)
  BY DEF ProcNext, MainStep, ApplyOption, StartLoad, ConfigLoaded, ConfigFails, Start,
         MonitorConfigChanges, ShutdownHook, Shutdown, Cleanup, CloseHook, Return, OptionFails,
         WorkerEnds, WorkerFatal, RequestBegins, RequestEnds, SendReload, SendTermination, processVars, Ends

-----------------------------------------------------------------------------
(* What follows                                                            *)

LEMMA ProcInvariance == ProcSpec => []ProcInv
  <1>1. ProcInit => ProcInv
    <2> SUFFICES ASSUME ProcInit PROVE ProcInv
      OBVIOUS
    <2>1. 0 \in 0..MaxVersion /\ 0 \in 0..MaxFailures /\ 0 \in 0..Len(Options)
      BY LoaderAssumption, OptionCount
    <2>2. NoSecret \in Secret /\ NoSecret.version = 0
      BY <2>1 DEF NoSecret, Secret
    <2>3. ProcTypeOK
      BY <2>1, <2>2 DEF ProcInit, LoaderInit, Fresh, ProcTypeOK, LoaderTypeOK
    <2>4. LifeOK
      BY DEF ProcInit, LoaderInit, Fresh, LifeOK
    <2>5. LoadOK
      BY <2>2 DEF ProcInit, LoaderInit, Fresh, LoadOK, Applied
    <2> QED
      BY <2>3, <2>4, <2>5 DEF ProcInv
  <1>2. ProcInv /\ [ProcNext]_procVars => ProcInv'
    <2> SUFFICES ASSUME ProcInv, [ProcNext]_procVars PROVE ProcInv'
      OBVIOUS
    <2>1. CASE ProcNext
      <3>1. CASE \E how \in Ends : Exit(how)
        BY <3>1, ExitKeeps
      <3>2. CASE LoaderStep /\ UNCHANGED processVars
        BY <3>2, LoaderKeeps
      <3>3. CASE exit' = "no" /\ ~ (LoaderStep /\ UNCHANGED processVars)
        <4>1. \/ ApplyOption \/ StartLoad \/ ConfigLoaded \/ Start
              \/ MonitorConfigChanges \/ ShutdownHook \/ Shutdown \/ Cleanup \/ CloseHook
              \/ WorkerEnds \/ RequestBegins \/ RequestEnds \/ (\E s \in Signals : SendReload(s)) \/ SendTermination
          BY <2>1, <3>3
             DEF ProcNext, MainStep, OptionFails, WorkerFatal, ConfigFails, Return, Exit
        <4> QED
          BY <3>3, <4>1, MainKeeps
      <3> QED
        BY <2>1, <3>1, <3>2, <3>3, Exits
    <2>2. CASE UNCHANGED procVars
      BY <2>2 DEF procVars, processVars, loaderVars, settings, vaultVars, loadVars, signalVars,
                  ProcInv, ProcTypeOK, LoaderTypeOK, LifeOK, LoadOK, Applied
    <2> QED
      BY <2>1, <2>2
  <1> QED
    BY <1>1, <1>2, PTL DEF ProcSpec

\* Types, for any configuration keys, rotations and failures.
THEOREM ProcTypeCorrect == ProcSpec => []ProcTypeOK
  <1>1. ProcInv => ProcTypeOK
    BY DEF ProcInv
  <1> QED
    BY <1>1, ProcInvariance, PTL

\* A process that is up has the whole of the version it was built with, and no rotation, tick or
\* signal ever changes it.
THEOREM ConfigurationIsKept == ProcSpec => ConfigurationStands
  <1>1. ProcInv /\ [ProcNext]_procVars
          => [enabled /\ main # "build" /\ exit' = "no" => Applied /\ UNCHANGED config]_procVars
    <2> SUFFICES ASSUME ProcInv, ProcNext, enabled, main # "build", exit' = "no"
                 PROVE  Applied /\ UNCHANGED config
      OBVIOUS
    <2>1. Applied /\ loader \notin {"load", "read", "apply"}
      BY OptionCount DEF ProcInv, LoadOK
    <2>2. UNCHANGED config
      <3>1. CASE LoaderStep
        BY <2>1, <3>1 DEF LoaderStep, LoaderWorks, Authenticate, AuthenticateFails, ReadData,
             ReadDataFails, ApplySecret, ApplySecretFails, ReadVersion, ReadVersionFails,
             CheckVersion, CheckVersionFails, LoadFails, SendTick, StopSignals, SelectDone,
             SelectTick, SelectSignal, PollTicks, Rotate, loadVars
      <3>2. CASE ~ LoaderStep
        BY <3>2 DEF ProcNext, MainStep, ApplyOption, StartLoad, ConfigLoaded, ConfigFails, Start,
             MonitorConfigChanges, ShutdownHook, Shutdown, Cleanup, CloseHook, Return, OptionFails,
             WorkerEnds, WorkerFatal, RequestBegins, RequestEnds, SendReload, SendTermination,
             Exit, loaderVars, loadVars
      <3> QED
        BY <3>1, <3>2
    <2> QED
      BY <2>1, <2>2
  <1> QED
    BY <1>1, ProcInvariance, PTL DEF ProcSpec, ConfigurationStands

\* Neither a reload nor the first termination signal ends a process that is up.
THEOREM UpProcessHandlesSignals == ProcSpec => SignalsAreHandled
  <1>1. ProcInv /\ [ProcNext]_procVars
          => [exit = "no" /\ exit' \in {"killed", "panicked"} => main # "wait"]_procVars
    <2> SUFFICES ASSUME ProcInv, ProcNext, exit' \in {"killed", "panicked"}, main = "wait"
                 PROVE  FALSE
      OBVIOUS
    <2>1. channel = "open" /\ hook \in {"empty", "signal"}
      BY DEF ProcInv, LifeOK
    <2>2. exit' = exit \/ exit' \in {"failed", "returned", "fatal"}
      BY <2>1 DEF ProcNext, MainStep, ApplyOption, StartLoad, ConfigLoaded, ConfigFails, Start,
             MonitorConfigChanges, ShutdownHook, Shutdown, Cleanup, CloseHook, Return, OptionFails,
             WorkerEnds, WorkerFatal, RequestBegins, RequestEnds, SendReload, SendTermination, Exit, processVars
    <2> QED
      BY <2>2 DEF ProcNext
  <1> QED
    BY <1>1, ProcInvariance, PTL DEF ProcSpec, SignalsAreHandled

\* Shutdown closes nothing while the service's context lives, and under a context that lives on
\* nothing but the cache.
THEOREM CancelledBeforeClosed == ProcSpec => ClosedOnlyAfterCancel
  <1>1. ProcInv /\ [ProcNext]_procVars
          => [\A client \in open \ open' :
                exit' = "no" => ctx = "done" /\ (LiveUse(client) => client = "cache")]_procVars
    <2> SUFFICES ASSUME ProcInv, ProcNext, exit' = "no", NEW client \in open \ open'
                 PROVE  ctx = "done" /\ (LiveUse(client) => client = "cache")
      OBVIOUS
    <2>1. Cleanup
      BY DEF ProcNext, MainStep, ApplyOption, StartLoad, ConfigLoaded, ConfigFails, Start,
             MonitorConfigChanges, ShutdownHook, Shutdown, CloseHook, Return, OptionFails,
             WorkerEnds, WorkerFatal, RequestBegins, RequestEnds, SendReload, SendTermination,
             Exit, processVars
    <2>2. ctx = "done"
      BY <2>1 DEF Cleanup, ProcInv, LifeOK
    <2> QED
      BY <2>2 DEF LiveUse
  <1> QED
    BY <1>1, ProcInvariance, PTL DEF ProcSpec, ClosedOnlyAfterCancel
=============================================================================
