# A TLA+ model of svc-web-analyzer

The service accepts a URL over HTTP, analyses the page in the background and reports the
result.  A request becomes an `analysis` row and an `outbox_events` row in one transaction; a
publisher process moves outbox events to RabbitMQ; a subscriber process fetches and analyses
the page; clients read the analysis through a cache or follow it on an event stream.  These
modules model that path (who may change which row when, what survives a crash, a lost
connection or a failing statement, what a client can rely on) and the parts each process is
made of: its life from start to shutdown with the configuration loader, the HTTP requests with
their middlewares, the analysis of a page, and the queue client.

## Inventory

| Component | State | Operations | Hard behaviour | What makes it correct |
|---|---|---|---|---|
| Outbox table (`outbox_repository.go`) | status, retry_count, next_retry_at, five timestamps per event | insert, find pending / retryable, claim, mark published / processed / completed / failed / permanently failed | all updates but the claim select by id alone | a claimed row has one owner; counts stay in bounds |
| Domain lifecycle (`domain/analysis.go`) | status and retry count of an event | `MarkPublished`, `MarkProcessed`, `MarkFailed`, `CanRetry` ... | nobody calls it: the repository updates by id | which of its guards the table still keeps |
| Publisher (`processor.go`, `publisher_service.go`, `runtime/publisher.go`) | ticker loop, one goroutine per fetched event, AMQP connection | tick, fetch, claim, publish, record outcome, shutdown | stale batches, several replicas, ambiguous commits and publishes, death between two statements | nothing is marked published unsent, retries are bounded and wait for their backoff, every event settles |
| RabbitMQ client (`pkg/queue`) | connection, channel, deliveries, forwarding and consuming goroutines | connect, publish, consume, ack, nack, reject, requeue, close | no confirms, no reconnection, unbounded prefetch, two frames for a requeue, to an exchange that may be missing or lead nowhere, not persistent | what the broker got is lost or multiplied in no other way than these; closing and cancelling end the goroutines |
| Analysis table and cache (`analysis_repository.go`, `cache_repository.go`) | status, results, error; cached copies | save, update status / results, mark failed, find by content hash; set, delete, expire | cache and table are written separately | completed means results; the cache is not left stale |
| Subscriber (`subscriber_service.go`, `analysis_worker.go`, `runtime/subscriber.go`) | one message at a time and the progress on it | twelve steps of `ProcessAnalysisRequest`, ack | any step fails; redelivery; a worker that outlives its connection; shutdown cancels half-way | no request lost; analyses become final |
| API (`application_service.go`, `request_handler.go`) | a request's progress | `StartAnalysis`, `FetchAnalysis`, health reports | caches what it read earlier | see cache; a 202 is kept |
| Submission (`SaveInTx`, `NewNormalizedURL`) | versions and ids of the analyses of a URL | next version, insert analysis, insert event, commit, roll back | version read and inserted in two statements; versions count the raw URL, ids hash the normal form, which does not find the host of a URL without a scheme | versions without gap or repetition; both rows or none |
| HTTP server (`runtime/deps.go`, `middleware/`, generated routes) | a request's stage, the rate limiter's burst | bind, limit, authenticate, validate, handle | mutex and unique keys that requests wait for | every request is answered |
| Key service (`paseto_key_service.go`) | cached key, expiry, RWMutex | get, load, store, fall back | many requests find the key expired together; rotation during a load | one load at a time; the cache never goes back |
| Event stream (`FetchAnalysisEvents`, `GetAnalysisEvents`) | two tickers, two channels, handler | select loop, check, heartbeat, write | the goroutine sends to itself; blocking sends | the final event arrives and is last; the goroutine ends |
| Configuration loader (`config/loader.go`) | signal channel, ticker, last version, the shared configuration | load, reload, poll, dump | sends to itself; closes the channel before `signal.Stop`; keys applied one by one; looks for the version where it is not | the configuration is never torn; a request to reload is looked at |
| Process (`runtime/*.go`) | dependencies, worker goroutine, shutdown channel | build, start, monitor, hook, shutdown, clean up | signals at any time; nobody waits for goroutines; web requests outlive the service's context | signals are handled; clients close after the context; shutdown ends |
| Web fetcher (`web_fetcher.go`) | circuit breaker | check URL, fetch | a breaker shared by all pages | see page |
| HTML analyzer (`html_analyzer.go`) | the result under one mutex | a goroutine for each part asked for | goroutines write one result | each part asked for, and nothing else |
| Link checker (`link_checker.go`) | breaker, semaphore, map of results | a goroutine for each link | the breaker rejects checks of links that may be fine | each bad link is reported once; blame needs failures |
| Health checker | none | three reports | a context that ends between checks | 503 exactly for a report that is down |
| Backoff, access log, metrics, tracing, clients, settings, decorators, web client | none that the program reads | | | left out, see the end |

The processes meet in four places only: the outbox table, the queue, the analysis table and the
cache.  Within a process the loader, the breakers, the key cache and the queue's channel are
shared by goroutines.

## Modules

The pipeline:

* `OutboxEvents` - the outbox table.  A repository statement is an operator from a row to the
  row it leaves behind.  There is no clock: a timestamp is a member of `stamps` once written, and
  `next_retry_at` is `null`, `future` or `past`.
* `OutboxLifecycle` - the abstract specification of one event, after the guards of the methods of
  `domain.OutboxEvent`, with the three points where the running service differs.  `MarkProcessed` takes
  any event that was claimed, where the method wants it published; `FailPermanently` records a failure
  where `MarkFailed` only returns an error; and only an event that is being published can fail,
  which is more than the method asks.
* `Broker` - RabbitMQ as the pipeline uses it: the number of ready messages per event.  External.
* `Publisher` - the processor's loop and the goroutines it starts.  `unfetched` is what the current
  tick has still to fetch, `task[<<p, kind, e>>]` the goroutine of publisher p for event e fetched as
  pending or retryable.  Each call to the database or the broker is an action.  Faults: `FetchFails`,
  `ClaimAnswerLost`, `DbFails`, `PublishFails` (with or without the message having arrived),
  `LoseConnection`, `Shutdown` (context cancelled, goroutines not waited for), `Exit`, `Restart`.
* `AnalysisStore` - the analysis table and the cache.  `results` stands for results and content hash.
* `Subscriber` - the forwarding goroutine (`Deliver`), the consumer (`Receive`) and one action per
  call of `ProcessAnalysisRequest`.  `StepFails` is any error that ends the handler: the message is
  acknowledged.  `CacheFails` is any error that is only logged.  A lost connection returns the
  messages to the queue and leaves the worker working.
* `Api` - `StartAnalysis` and `FetchAnalysis`.  `Pipeline` - all of them over the shared state.
* `EventStream` - one stream: goroutine, tickers, channels, handler, client.

A process from inside:

* `ConfigLoader` - `Load` with its two reads of Vault and the key by key application, and the
  goroutine of `WatchConfigSignals`.  A configuration key holds the version of the secret that its
  value came from; the version that `getSecretVersion` finds is always 0 (`SecretVersion`).
  `Process` - the main goroutine of any of the three processes (`role`), composed
  with its loader: ten dependency options, start, monitor, shutdown hook, cleanup, and the effect of
  SIGHUP, SIGUSR1 and SIGTERM at each point, the ones nobody has asked for included.  A web process
  has requests under way (`serving`), in contexts of their own: `http.Server` is built without a
  `BaseContext`, so that cancelling the service's context does not reach them.
* `HttpRequests` - how far each concurrent request has come.  `KeyService` - the PASETO key cache.
  `Submission` - the two tables under `StartAnalysis`, statement by statement, at READ COMMITTED with
  the unique keys; URLs are records of their parts as a client spells them, and `Normalized` is what
  `url.Parse` makes of them: a host without a scheme is the beginning of a path, and before a port it
  is taken for the scheme.
  `SerialSubmission` - its abstract specification, a submission in one step (`ImplementsSerial`).
  `Requests` - route, middlewares and handlers, composed of the three.  Tokens and bodies are chosen
  where they are looked at.
* `CircuitBreaker` - `sony/gobreaker` as the two clients set it up.  External.  `WebFetcher`,
  `LinkChecker` and `HTMLAnalyzer` - the three steps of a page's analysis, with their goroutines.
  `PageAnalysis` - one subscriber that analyses page after page with all of them.
* `QueueClient` - `pkg/queue` between a handler and a broker: the forwarding goroutine, the consuming
  one, the caller of `Consume`, and the wire, on which frames keep their order, over the life of one
  connection.  The exchange that `Requeue` publishes to is missing (the broker closes the channel), is
  unrouted (it throws the copy away) or leads to the queue; the broker may restart, which only
  persistent copies survive, and `Requeue`'s are not.  `MessageLifecycle` - its abstract specification:
  a message comes, is requeued and is settled in one step each, and what `Requeue` does not keep has
  steps of its own: `Drop`, `Restart`, `LeaveTwice` (`ImplementsMessages`).

`PublisherProofs`, `SubscriberProofs`, `PipelineProofs`, `RequestsProofs`, `ProcessProofs`,
`StreamProofs`, `PageProofs` and `QueueProofs` hold the theorems.  The modules `MC...` are the roots
of the TLC runs.

`Broker` and `QueueClient` model the same client at two grains: the pipeline needs what comes of
a publish or an acknowledgement, `QueueClient` shows how.  Likewise `Api!StartAnalysis` is one step where
`Submission` has four statements: that these have the effect of one step, `SerialSubmission`, is proved,
and so is that a `Requeue`, two frames of `QueueClient`, has the effect of one step of the message, as
long as the connection lives.

Definitions called mutants stand next to the definition they distort; they model plausible slips
and exist to show that each property notices one.  No specification uses them.

## Runs

| Run | Instance | Result |
|---|---|---|
| `publisher` | 1 publisher, 2 events, 2 retries, batch 1, all faults | passes |
| `publisher_replicas` | 2 publishers, 1 event, 2 retries, all faults | passes |
| `publisher_delivery` | 1 publisher that may crash and restarts | `GuaranteedDelivery` violated |
| `subscriber` | 2 subscribers, 1 event, all faults | passes |
| `subscriber_crash` | 1 subscriber, 2 events each sent once or twice, 2 contents, crashes | passes |
| `subscriber_lost` | 1 subscriber, failing statements | `NoRequestLost` violated |
| `pipeline` | 1 of each, 2 retries, workers and database reliable | passes |
| `stream` | event channel of 3 instead of 10, ticks at any time | passes |
| `process` | each role; 2 configuration keys, the secret written twice, 1 failing call to Vault, one web request at a time | passes |
| `requests` | 2 concurrent requests, 2 spellings of a page, 2 keys in Vault, 2 analyses a URL, burst 1 | passes |
| `page` | 3 pages, 2 checked links at a time and at most, breakers that change up to 3 times | passes |
| `queue` | 3 messages, one unreadable, 1 retry instead of 10, each kind of exchange, a restart of the broker | passes |

What each run is for is said in `PROJECT.json` with its properties; the comment over a property
says what it promises and of which code.

Bounds.  Events never interact in the publisher except through the batch, so two events with a
batch of one show a row left for a later tick; two publishers on one event show every race on a
row, and two retries leave room for an attempt that is neither first nor last.  Two subscribers on
one message show a worker that continues without its connection while the message is redelivered;
two events with two contents show copied and computed results.  The queue of `subscriber_crash`
starts with up to `MaxSends` copies, what one publisher can have written (`AttemptsBounded`).  A
stream channel of capacity 3 fills as one of 10 does, earlier.  Two keys are the least that can be
torn apart; a secret written twice changes before the process has read it and again when it is up;
one failure may hit any call.  Two requests show every race on the key's lock and on a version; a URL
submitted twice shows the second number.  Their two URLs, `https://SITE:443/` and `site#top`, are one
page; that the normal form tells pages apart is evaluated on 72 spellings (`NormalFormTellsPages`).
In `page` the breakers start out fresh or with a history (`Remembering`): as many calls and failures of
earlier pages as leave them one failure from opening, a state they reach in use that would otherwise
need more pages; a generation more than the breaker's three states lets it open twice.  Three messages, one retry: a message is requeued, requeued too often, and refused,
while another waits.  `Requeue` publishes to an exchange called like the queue, under the queue's
name as a key.  This repository declares an exchange and binds it by a pattern
(`dependency_options.go:272-280`); whether one of the queue's name is there, and leads to the queue, is the
deployment's choice, so that `exchange` has any of its three values.

Fairness.  Weak fairness on goroutine steps (the Go scheduler), on ticks and elapsing backoff
(time passes) and on restarts (`restart: unless-stopped` in `deployments/docker/compose.yaml`).
Strong fairness where the runtime chooses among what is ready: the cases of the stream's `select`,
the tick of the loader's, the consumer's `select`; and for a mutex or a unique key, which Go and
Postgres grant to those who wait.  None on faults, signals, losing a connection, expiry, or clients.
`CrashRecovery` assumes that in the end process and connection stay up; `GuaranteedDelivery`
assumes only the former, as publishing without a connection uses up retries.  Calls to other sites
end by their timeouts, so in `page` a call that was started returns.

Deadlock is not checked where the system may stop: a stream that is done, a process that has exited,
a subscriber with no page left, a queue client that is closed with every message settled.

### What the violations show

* `GuaranteedDelivery` (docs/CHANGELOG.md:44): claim, then crash.  The row stays in `processing`; no
  query selects it again.
* `NoRequestLost` (docs/architecture.md:215): every internal error of the subscriber, also one from a
  context cancelled by shutdown, ends in an acknowledgement.  It is also a property of the passing
  run `subscriber_crash`: a crash loses nothing, a reported error does.

### What the passing properties except

A property that is true of this code has to name what the code does not prevent:

* `ProcessedAheadOfMark`: the subscriber may stamp `processed_at` before the publisher stamps
  `published_at`; this is the only way in which the stamps get out of order (`StampsInOrder` is about
  the others, and about the analysis that they go with).
* `StreamDelivers`, `LeaveEndsStream`: a stream's goroutine that takes a tick while a check is waiting
  blocks on its own channel; and the cache may answer with a status the API read before the
  subscriber's last invalidation, until it expires.
* `ReloadsAreHeard`: the loader may block itself in the same way (`SelfBlocked`).
* `ConfigurationStands` states what the code does and not what is promised.  `docs/architecture.md:260-271`
  and `docs/README.md:219` say that a secret that changes in Vault is applied, by the poll or by a SIGHUP.
  `getSecretVersion` (`loader.go:252`) looks for `current_version` in the metadata of the data path
  (`:275`), where KV v2 calls it `version`, so both versions that `handleConfigReload` compares are 0 and
  a running process never loads.  The good side: it never has half a configuration either.
* `ClosedOnlyAfterCancel`: the cache is closed under web requests (`dispatcher.go:156`), whose contexts
  do not end with the service's, while the listener still takes new ones.
* `ImplementsLifecycle`: the domain's `MarkProcessed` (`analysis.go:246`) refuses an event that is not yet
  published.  The subscriber may be faster than the publisher's mark, and then stamps a row that is
  still `processing`, or `failed` when a publish reported as failed did arrive.  The lifecycle
  asks only that the row was claimed.
* `SignalsAreHandled` speaks of the time from the shutdown hook to the first termination signal: before,
  SIGHUP and SIGTERM end the process as in any Go program; after, a signal may meet a closed channel.
* `OneSpellingPerPage` is a limit rather than a service: a second spelling of an analysed page is
  refused as long as the first one's versions are in its way.  It is about the spellings that the code
  recognises as one (`Recognised`): `site` and `https://site` get one id, as `url.String` puts `https://`
  in front of the path; `SITE`, `site/` and `site:443` get others, and are stored beside it.
* `CloseEndsDeliveries`: a forwarder whose connection was lost before `Close` stays in `Consume`, and one
  whose consumer has left keeps the delivery that nobody takes.
* `NeverLost`: a publish that returned nil comes to nothing if the channel dies.  A message that was
  requeued is lost if the exchange leads nowhere (`message.go:142`, not mandatory) or the broker restarts
  (no `DeliveryMode`), as the old copy is acknowledged all the same.  The exchange of `Publish` is taken
  to lead to the queue; if it did not, the publish would be reported as done and be lost in the same way.
  `OneCopy`: a message is there twice, once with one retry more, between the two halves of a `Requeue`,
  or after the channel died; never three times.  `ImplementsMessages` looks at the newer of the two
  while the connection lives; when it ends there, the message is left twice for whoever connects next
  (`LeaveTwice`), and the older copy may then come again after the newer one was settled.  This
  client will not see it: `doc.go:13` promises reconnection, and nothing in the package reconnects.
* `ReopenedOnlyByDuplicate`, `ProcessedAheadOfMark`: a publish that is reported as failed may have arrived,
  so they speak of events without one.  The retry count tells only if retries are allowed at all:
  with `outbox.MaxRetries.Normal` configured as 0, two publishers that have both fetched a row can send
  its message twice with the count at 0, as the claim does not look at it (`RetriesLeft`).

## Proofs

TLAPS checks eight modules.  Their theorems hold for every value of the constants that satisfies the
assumptions beside their declarations: limits are natural numbers, positive where zero would leave
no room; the absence of results is not a content; a page has finitely many anchors; a URL's scheme is
empty, http or https (`SamePage`, the reference for two spellings, is about web pages; the code stores
a URL of another scheme just the same, and `validateURL` refuses to fetch it).

| Module | Specification | Theorems |
|---|---|---|
| `PublisherProofs` | `PubSpec`, any publishers and events, all faults | `TypeCorrect`, `Invariance`, `ClaimIsExclusive`, `RetriesAreBounded`, `PublishedMeansSent`, `PublisherImplementsLifecycle` |
| | the same, one publisher (`OnePublisher`) | `AttemptsAreBounded`, `BackoffIsRespected` |
| `SubscriberProofs` | `SubSpec`, any subscribers, all faults | `SubTypeCorrect`, `CompletedMeansResults` |
| | `SubCrashSpec`, one subscriber | `NothingLost`, `StaleCacheGoes` |
| `PipelineProofs` | `Spec`, any clients, publishers and subscribers, all faults | `PipelineTypeCorrect`, `ClaimsInTheWhole`, `ServiceImplementsLifecycle`, `CompletedInTheWhole`, `TimelineIsKept` |
| | `SteadySpec`, subscribers that stay up and connected, `RetriesLeft` | `FinalUnlessDuplicate` |
| | `MarkedSpec`, publishers whose statements succeed, `RetriesLeft` | `ProcessedEarlyIsMarked` |
| | `RecoveringSpec`, one subscriber whose statements succeed (`OneSubscriber`) | `PublishedIsDelivered` |
| `RequestsProofs` | `ReqSpec`, any requests, keys, and URLs by their parts | `ReqTypeCorrect`, `OneLoad`, `KeyAdvances`, `VersionsHaveNoGap`, `AnalysesHaveEvents`, `AcceptedMeansStored`, `OneSpelling`, `RequestsImplementSerial` |
| `ProcessProofs` | `ProcSpec`, any role and configuration | `ProcTypeCorrect`, `ConfigurationIsKept`, `UpProcessHandlesSignals`, `CancelledBeforeClosed` |
| `StreamProofs` | `StreamSpec`, any channel capacity | `StreamTypeCorrect`, `FinalEventIsLast` |
| `PageProofs` | `PageSpec`, any pages, URLs, options and limits | `PageTypeCorrect`, `PartsAreComplete`, `ReportIsComplete`, `BlamedOnlyAfterFailures` |
| `QueueProofs` | `QueueSpec`, any messages and retry limit, a connection lost or a broker restarted at any step | `QueueTypeCorrect`, `NothingIsLost`, `OneCopyAtATime`, `QueueImplementsMessages` |

None of the properties is inductive as it stands.  What each argument adds:

* Publisher, `PubInv`.  The count that `handlePublishFailure` compares with the limit is the one its
  claim returned; `ExclusiveClaim` says that it is still the row's, so `RetriesBounded` needs it.
  `PublishedWasSent` needs `SentBeforeMark` for the goroutine between publish and mark.  The refinement
  needs both: a goroutine that marks a row finds it `processing`, and fails it for good exactly when no
  retry is left.  For the whole service (`ServiceImplementsLifecycle`) it also needs that what a subscriber
  handles was claimed, and `processed_at` before `completed_at`, from `TimelineInv` below.
* One publisher, `AttemptsInv`.  The claim tests neither the retry count nor the backoff; what makes up for
  it is that both batches of a tick are worked off before the next tick selects, so that with one
  publisher a row is, when it is claimed, as it was when it was fetched.  The messages written are then the
  failures counted and the attempt under way.  With two publishers neither theorem is true.
* Subscriber, `SubInv`.  `Progress`: past the fetch a worker has a content, past the update its analysis
  has results; no statement, of any worker, takes results away.  With one subscriber, `CrashInv` adds
  what it owes at each point (`Owes`): a message that it has without a connection is in the queue as
  well; past its last write the analysis is final; before the acknowledgement the cache entry is gone.
  Neither holds of two subscribers, nor of one whose statements fail: see `NoRequestLost` above.
* Pipeline.  `Base` (the types, the publishers' claims, that a row fails only with a retry counted, that an
  analysis and its event are submitted together) is kept by every step of every part: the
  subscribers' stamps and the API's inserts touch rows that publishers have claimed, and break nothing.
  `SteadyInv` adds `Once`: while no publish of an event was reported as failed, its message is in one
  place at most, in none before it is sent, and past the reset of the status once the analysis is final.
  `MarkedInv` adds `Marked`: from the moment the message is out, its goroutine is at the mark.  Each is
  proved under just the faults it can bear; `ReliableSpec`, which the run checks, is a case of both
  (`ReliableIsSteadyAndMarked`).
* The whole service under all faults.  `WholeInv` is `Base` with `SubInv`: publishers and API touch neither
  results nor a worker's content, and an insertion finds an analysis without results, one that no
  worker past its update can have.  `TimelineInv` adds the times that are there at each point of the
  work: a message is there only of a row that was claimed, so whoever handles it, a second time or
  after a crash, finds `started_at`, and past `MarkProcessed` `processed_at`.
* Delivery, `DeliveryInv`.  It joins the two sides of the queue: a message is `Delivered` when the analysis
  is final, or the message in the queue or in hand.  It is so from the send to the mark (`SentNotLost`)
  and from then on (`PublishedNotLost`), as the one worker acknowledges only past its last write
  (`OwesAnalysis`).
* Key cache, `KeyInv`.  `StoredKeyIsNew`: the key about to be stored is at least as new as the cached
  one, because nobody else has stored since it was read, because there is one holder of the lock.
* Transactions, `SubmissionInv`.  `TransactionOK` ties what a transaction has pending to how far it is,
  and the number it read to a row with the number before it, which stays: analyses are not deleted.
  `Distinct` is the unique key on the id, pending rows included.  The greatest number exists because
  the numbers are bounded (`MaxOfBounded`); that every stored URL has a version 1 follows from
  `VersionsContiguous` by the least number of a set, without induction (`LeastNumber`).  `OneSpelling`
  then compares the first versions: two spellings of a page, both recognised, would share an id.
* Serial submission, `RequestsImplementSerial`.  Only a commit changes the tables.  By the same argument
  from the least number the numbers of a URL are 1 up to the one before the row's (`NumbersBelow`), so
  that there are as many analyses (`CountOfNumbers`): the version that was read before other transactions
  committed is, if the unique keys let the row in, the one that a serial submission would count.
* Process, `ProcInv`.  `LifeOK`: which stages of the main goroutine go with which states of context,
  hook and signal channel.  `LoadOK`: the recorded version is 0, as every version is that the loader
  looks at; the keys applied so far are those of the data read; and past the third option, or without
  a secret storage, everything is applied and the loader does not load again.
* Stream, `StreamInv`.  The goroutine is at the send of a final event only with a final status, and
  none is behind it, as the send ends the loop.
* Page, `PageInv`.  `CheckerInv` and `FetcherInv`: a call belongs to its breaker's generation or to an
  earlier one, so that a call that ends either finds the count it was counted in, or is ignored.
  `OpenAfterFailures`: a breaker that is not closed has seen four failures, as it opens from half-open or
  with eight tenths of five calls failed.  `ResultsSoFar`: the parts whose goroutines are done are as the
  page has them, the others untouched.  `Reported`: each goroutine that is done has made one entry if its
  link was bad, and no other.  That the links checked are all or exactly as many as the limit
  (`LinksChecked`) is proved without induction: the number of different links up to a place grows by
  one at most (`UpToGrows`), and there is a first place past the limit (`LeastNumber`).  So is what the
  fold over the anchors of a page computes.  `FoldLeft` is defined by a recursive function, that is by
  a `CHOOSE`: that there is such a function for any number of places follows from the least number for
  which there would be none (`FoldOfAnchors`), and that it finds at each place what the reference counts
  up to there (`FoundUpTo`) from the least place where it would not (`AllAnchorsAdded`).
* Queue, `QueueInv`.  A copy of a message is in one place, and no two frames on the wire are about the same
  copy.  `Requeue` writes the new copy ahead of the acknowledgement of the old one, so at the broker
  the new one is there, or ahead on the wire, when the old one goes (`Replaced`); a copy that is not the
  newest of its message is about to go (`InOrder`), and between the two halves its successor exists
  (`Halfway`).  To be there means to have reached the broker (`There`), which may have thrown the copy
  away: then its successor's arguments still hold, and the message counts as dropped.  A channel that
  died leaves the wire empty and at most two copies, and hands out none.
* Messages, `MessageInv`.  Where a message stands is read off its newest copy (`Standing`).  The publication
  that arrives finds no other copy; the new copy of a `Requeue` has its `Source` still there, and that is
  the newest (`SourceIsNewest`); what is settled for good is the last copy (`SettledAlone`), so that
  nothing of the message comes later (`SettledOnce`).  Every other step but the end of the channel
  moves copies without one coming or going (`CountsKept`).  At the end one message at most is left
  twice (`OneIsDoubled`), because the acknowledgement of one `Requeue` is ahead on the wire of the
  publication of the next (`OneByOne`); at a restart the first copies are left (`RestartLeaves`).

Proved and not checked by a run of their own: the types of `Process`, `Requests`, `EventStream`, `QueueClient`
and of the pipeline's parts; `AnalysisHasEvent`, which `ImplementsSerial` implies; and
`PublishedNotLost`, the theorem `PublishedIsDelivered`.

Only model-checked: everything about liveness, which is out of the prover's reach (`GuaranteedDelivery`,
`CrashRecovery`, `AnalysisFinishes`, `EventSettles`, `LeaveEndsStream`, `StreamDelivers`, `ShutdownEnds`,
`ReloadsAreHeard`, `EveryRequestAnswered`, `AnalysisEnds`, `CloseEndsDeliveries`, `CancelEndsConsumer`).

## Plan

All safety invariants and action properties of the runs are theorems, and both ends of the queue are: what is
published is delivered, and what the client does to a message is one step of it.  What is left is to
replace `Broker` in the pipeline by the lifecycle of its messages.

## Not modelled

* The backoff delay (`backoff.go`): floating point and random; only that it elapses matters.
* Access log, metrics, tracing, headers, decorators and use cases: no state that the program reads.
* Set-up of the storage and infrastructure clients; the settings' defaults; `Init` of the configuration
  from the environment and the output of a dump.
* HTML parsing (a page is given as the parts the analyzer looks for), content hashing (equal contents
  have equal hashes), verification of a token (accepted, refused, or a panic), JSON encodings, request
  mapping, the generated types and their validation.
* The declaration of queues and exchanges, and the channel wrapper's record of auto-deleted ones:
  nothing in the code restores them.
* `Save`, `Delete` and `CopyResults` of the analysis repository, and `RefreshKey`: they have no caller.
* A new connection after one is lost, within a process: nothing in the code makes one.  That the messages
  come again to another process is in `Subscriber`.
* In the pipeline, a broker that loses what it accepted (its messages are persistent), and an exchange
  that does not lead a publish to the queue: nothing in the code answers it.  In the pipeline, a payload that
  does not decode: `StartAnalysis` cannot produce one (`QueueClient` has it, as `Poison`).
* The web client: `Requests` lets a client send anything, and `EventStream` lets it leave at any time.
