------------------------------ MODULE Process -------------------------------
(***************************************************************************)
(* The life of one of the three processes (internal/runtime): its          *)
(* dependencies are built, its work is started in a goroutine, the         *)
(* configuration is watched, and a termination signal shuts it down.       *)
(* Signals come from outside at any time.                                  *)
(***************************************************************************)
EXTENDS ConfigLoader, Sequences

VARIABLES role,      \* the process: "web", "publisher" or "subscriber"
          main,      \* where the main goroutine, Run, is
          built,     \* how many of the dependency options have been applied
          open,      \* the open clients that its cleanup will close
          worker,    \* the goroutine with the work: "off", "on" or "ended"
          listening, \* the HTTP server's listener is open
          serving,   \* a web request that uses the cache is in progress
          hook,      \* shutdownChannel and its registration
          exit       \* how the process ended: "no" while it runs

processVars == <<role, main, built, open, worker, listening, serving, hook, exit>>
procVars == <<loaderVars, processVars>>

Options == <<"secret_storage", "secret_storage_repo", "config_loader", "storage", "cache",
             "data_repos", "metrics", "tracing", "domain_services", "application">>

\* The options that cannot return an error; the others end the process when they do.
Infallible == {"secret_storage_repo", "cache", "domain_services"}

\* The clients an option opens, of those the process closes itself; a cache that does not answer
\* is done without.
Opens(option) ==
  CASE option = "cache" /\ role = "web" -> {{"cache"}, {}}
    [] option = "storage" /\ role = "publisher" -> {{"storage"}}
    [] option = "application" /\ role = "publisher" -> {{"queue"}}
    [] OTHER -> {{}}

\* The process ends, and its memory with it.
Exit(how) ==
  /\ exit' = how
  /\ Fresh(config', lastVersion', data', todo', loader', channel', signals', ticked', ctx')
  /\ main' = "build" /\ built' = 0 /\ open' = {}
  /\ worker' = "off" /\ listening' = FALSE /\ serving' = FALSE /\ hook' = "none"
  /\ UNCHANGED <<settings, vaultVars, role>>

-----------------------------------------------------------------------------
(* build                                                                   *)

Option == Options[built + 1]
Building == main = "build" /\ built < Len(Options)

ApplyOption ==
  /\ Building /\ Option # "config_loader"
  /\ \E clients \in Opens(Option) : open' = open \cup clients
  /\ built' = built + 1
  /\ UNCHANGED <<loaderVars, role, main, worker, listening, serving, hook, exit>>

OptionFails == Building /\ Option \notin Infallible \cup {"config_loader"} /\ Exit("failed")

\* WithConfigLoader calls Load, unless the secret storage is disabled.
StartLoad ==
  /\ Building /\ Option = "config_loader" /\ enabled /\ loader = "off"
  /\ loader' = "load"
  /\ UNCHANGED <<settings, vaultVars, loadVars, signalVars, ctx, processVars>>

ConfigLoaded ==
  /\ Building /\ Option = "config_loader"
  /\ loader = "loaded" \/ ~ enabled
  /\ built' = built + 1
  /\ UNCHANGED <<loaderVars, role, main, open, worker, listening, serving, hook, exit>>

ConfigFails == Building /\ loader = "failed" /\ Exit("failed")

-----------------------------------------------------------------------------
(* start, monitorConfigChanges, shutdownHook                               *)

Start ==
  /\ main = "build" /\ built = Len(Options)
  /\ main' = "monitor"
  /\ worker' = "on" /\ listening' = (role = "web")
  /\ UNCHANGED <<loaderVars, role, built, open, serving, hook, exit>>

\* Mutant: only SIGUSR1 is asked for, so that SIGHUP keeps its default effect.
MonitorConfigChangesDump ==
  /\ main = "monitor"
  /\ main' = "hook"
  /\ channel' = "none" /\ loader' = "select"
  /\ UNCHANGED <<settings, vaultVars, loadVars, signals, ticked, ctx,
                 role, built, open, worker, listening, serving, hook, exit>>

MonitorConfigChanges ==
  /\ main = "monitor"
  /\ main' = "hook"
  /\ channel' = "open" /\ loader' = "select"
  /\ UNCHANGED <<settings, vaultVars, loadVars, signals, ticked, ctx,
                 role, built, open, worker, listening, serving, hook, exit>>

ShutdownHook ==
  /\ main = "hook"
  /\ main' = "wait"
  /\ hook' = "empty"
  /\ UNCHANGED <<loaderVars, role, built, open, worker, listening, serving, exit>>

-----------------------------------------------------------------------------
(* shutdown                                                                *)

\* Mutant: the clients are closed first and the context cancelled last.
ShutdownClosesFirst ==
  /\ main = "wait" /\ hook = "signal"
  /\ main' = "cleanup" /\ hook' = "empty"
  /\ UNCHANGED <<loaderVars, role, built, open, worker, listening, serving, exit>>

\* The service's context ends before anything is closed; what derives from it ends with it, the
\* timeout of the shutdown too.  A web request does not: its context is its connection's.
Shutdown ==
  /\ main = "wait" /\ hook = "signal"
  /\ main' = "cleanup" /\ hook' = "empty"
  /\ ctx' = "done"
  /\ UNCHANGED <<settings, vaultVars, loadVars, signalVars, loader,
                 role, built, open, worker, listening, serving, exit>>

\* The web process closes its cache, under whatever requests there are, and then the server,
\* which does not wait for them because the context it is given is done; the publisher closes
\* queue and storage; the subscriber closes nothing.  None waits for its goroutines.
Cleanup ==
  /\ main = "cleanup"
  /\ \/ role = "web" /\ "cache" \in open /\ open' = open \ {"cache"} /\ UNCHANGED <<main, listening>>
     \/ role = "web" /\ "cache" \notin open /\ listening' = FALSE /\ main' = "return" /\ UNCHANGED open
     \/ role = "publisher" /\ "queue" \in open /\ open' = open \ {"queue"} /\ UNCHANGED <<main, listening>>
     \/ role = "publisher" /\ "queue" \notin open /\ open' = open \ {"storage"} /\ main' = "return"
        /\ UNCHANGED listening
     \/ role = "subscriber" /\ main' = "return" /\ UNCHANGED <<open, listening>>
  /\ UNCHANGED <<loaderVars, role, built, worker, serving, hook, exit>>

\* The deferred close of shutdownChannel, which stays registered.
CloseHook ==
  /\ main = "return" /\ hook # "closed"
  /\ hook' = "closed"
  /\ UNCHANGED <<loaderVars, role, main, built, open, worker, listening, serving, exit>>

\* Mutant: the loader's goroutine is waited for.
ReturnAwaitsLoader == main = "return" /\ hook = "closed" /\ loader = "ended" /\ Exit("returned")

Return == main = "return" /\ hook = "closed" /\ Exit("returned")

-----------------------------------------------------------------------------
(* The work                                                                *)

\* The processor and the consumer return when the context is done.
WorkerEnds ==
  /\ worker = "on" /\ role # "web" /\ ctx = "done"
  /\ worker' = "ended"
  /\ UNCHANGED <<loaderVars, role, main, built, open, listening, serving, hook, exit>>

\* ListenAndServe returns an error in any case, ErrServerClosed after Shutdown; Consume returns
\* one when it cannot consume.  logger.Fatal ends the process.
WorkerFatal ==
  /\ worker = "on"
  /\ \/ role = "web" /\ (listening => ctx = "live")
     \/ role = "subscriber" /\ ctx = "live"
  /\ Exit("fatal")

\* net/http: requests come while the listener is open; Shutdown cuts none off, they go on until
\* they are answered or the process ends.
RequestBegins ==
  /\ role = "web" /\ worker = "on" /\ listening /\ ~ serving
  /\ serving' = TRUE
  /\ UNCHANGED <<loaderVars, role, main, built, open, worker, listening, hook, exit>>

RequestEnds ==
  /\ serving
  /\ serving' = FALSE
  /\ UNCHANGED <<loaderVars, role, main, built, open, worker, listening, hook, exit>>

-----------------------------------------------------------------------------
(* Signals                                                                 *)

\* A signal nobody asked for: SIGHUP ends a Go program, SIGUSR1 does nothing.  The signal
\* package drops what a full channel cannot take and panics on a closed one.
SendReload(s) ==
  \/ channel \in {"none", "stopped"} /\ s = "SIGHUP" /\ Exit("killed")
  \/ /\ channel = "open" /\ signals = {}
     /\ signals' = {s}
     /\ UNCHANGED <<settings, vaultVars, loadVars, channel, ticked, loader, ctx, processVars>>
  \/ channel = "closed" /\ Exit("panicked")

SendTermination ==
  \/ hook = "none" /\ Exit("killed")
  \/ /\ hook = "empty"
     /\ hook' = "signal"
     /\ UNCHANGED <<loaderVars, role, main, built, open, worker, listening, serving, exit>>
  \/ hook = "closed" /\ Exit("panicked")

-----------------------------------------------------------------------------
ProcInit ==
  /\ LoaderInit
  /\ role \in {"web", "publisher", "subscriber"}
  /\ main = "build" /\ built = 0 /\ open = {}
  /\ worker = "off" /\ listening = FALSE /\ serving = FALSE
  /\ hook = "none" /\ exit = "no"

MainStep ==
  \/ ApplyOption \/ StartLoad \/ ConfigLoaded \/ ConfigFails \/ Start
  \/ MonitorConfigChanges \/ ShutdownHook \/ Shutdown \/ Cleanup \/ CloseHook \/ Return

ProcNext ==
  /\ exit = "no"
  /\ \/ MainStep \/ OptionFails
     \/ WorkerEnds \/ WorkerFatal \/ RequestBegins \/ RequestEnds
     \/ (\E s \in Signals : SendReload(s)) \/ SendTermination
     \/ LoaderStep /\ UNCHANGED processVars

Running(A) == exit = "no" /\ A
Loader(A) == Running(A /\ UNCHANGED processVars)

\* The goroutines run, the ticker ticks, and select picks the tick if it is ready again and again.
ProcFairness ==
  /\ WF_procVars(Running(MainStep))
  /\ WF_procVars(Loader(LoaderWorks)) /\ WF_procVars(Loader(PollTicks))
  /\ WF_procVars(Loader(\E s \in Signals : SelectSignal(s)))
  /\ SF_procVars(Loader(SelectTick))

ProcSpec == ProcInit /\ [][ProcNext]_procVars /\ ProcFairness

ProcTypeOK ==
  /\ LoaderTypeOK
  /\ role \in {"web", "publisher", "subscriber"}
  /\ main \in {"build", "monitor", "hook", "wait", "cleanup", "return"}
  /\ built \in 0..Len(Options) /\ open \subseteq {"cache", "queue", "storage"}
  /\ worker \in {"off", "on", "ended"} /\ listening \in BOOLEAN /\ serving \in BOOLEAN
  /\ hook \in {"none", "empty", "signal", "closed"}
  /\ exit \in {"no", "failed", "killed", "panicked", "fatal", "returned"}

-----------------------------------------------------------------------------
(* Properties                                                              *)

\* Once the process is up and until it is told to stop, no signal ends it: reload and dump
\* signals go to the loader and the first termination signal to shutdown, whatever the loader
\* is doing and however many come.
SignalsAreHandled ==
  [][exit = "no" /\ exit' \in {"killed", "panicked"} => main # "wait"]_procVars

\* Under whose context a client is in use: the processor and the consumer have the service's, a
\* web request, the only user of the cache, has its connection's.
LiveUse(client) == IF client = "cache" THEN serving ELSE worker = "on" /\ ctx = "live"

\* Shutdown closes nothing before the service's context is cancelled, so the processor never
\* meets a closed queue or storage while its own context is live.  Web requests do meet a closed
\* cache: cleanup closes it while they run, and while the listener takes new ones.
ClosedOnlyAfterCancel ==
  [][\A client \in open \ open' :
       exit' = "no" => ctx = "done" /\ (LiveUse(client) => client = "cache")]_procVars

\* A shutdown that has begun ends the process, whatever the work, the loader and further
\* signals do.
ShutdownEnds == main = "cleanup" ~> exit # "no"

\* From its start to its end a process has the whole of the one version of the secret that it
\* read when it was built: whatever is written to Vault since, however often the ticker ticks and
\* SIGHUP comes.  docs/architecture.md:263 and docs/README.md:219 promise a reload when the
\* version changes, architecture.md:271 one at every SIGHUP; handleConfigReload compares two
\* versions that are both 0 and never loads.
ConfigurationStands ==
  [][enabled /\ main # "build" /\ exit' = "no" => Applied /\ UNCHANGED config]_procVars

\* A tick of the poll ticker and a SIGHUP get the loader of a process that keeps running to look
\* at the version -- unless it has blocked itself on its own channel.
ReloadsAreHeard ==
  main = "wait" /\ (ticked \/ "SIGHUP" \in signals)
    ~> loader = "check" \/ SelfBlocked \/ ctx = "done" \/ exit # "no"
=============================================================================
