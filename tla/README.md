# chunkbridge: specifications, model checks and proofs

chunkbridge carries browser HTTP requests over a chat messenger. A **proxy** next to the browser
cuts a request into encrypted chunks and posts them to a chat; an **exit node** that reads the
same chat puts the request together, executes it, and posts the response back the same way.
This directory holds TLA+ models of that program, the TLC instances that check them, and
theorems about them that TLAPS checks. Paths such as `proxy/http_proxy.go` are below
`src/internal/`.

## 1. Inventory

| Component | State it keeps | Operations | Interacts with |
|---|---|---|---|
| **HTTP proxy** `proxy/http_proxy.go`, `id.go` | one goroutine per request inside `ServeHTTP`; whether `session.Start` and the server still run | `ServeHTTP`, `Serve`, `Shutdown` | session (calls), cache (calls), policy (calls), metrics (shared atomics) |
| **Relay session** (relaykit, not in the repository) | pending table RequestID → channel of capacity 1, its limit, a reassembler | `SendRequest` (register, chunk loop, wait), `Start` (dispatcher) | transport (messages), proxy goroutines (channels) |
| **Reassembler, frames** (relaykit) | chunks per request | `Add`, eviction after 60 s | session and exit |
| **Exit executor** `exit/http_executor.go` | reassembler, one goroutine per request, `seqNum` | `Run`, `handleRequest`, `sendFrame`, `sendError` | transport (messages), upstream servers, policy, metrics |
| **MAX transport** `maxtransport/maxapi.go` | `after_id`, dedupe window, receive channel, `closed` | `Send`, `Receive` (starts `pollLoop`), `Close` | MAX server (HTTP) |
| **Response cache** `cache/cache.go`, `lru.go` | map, recency list, byte counter | `Get`, `Put` | proxy goroutines, under `Cache.mu` |
| **Cache policy** `cache/policy.go` | none | `IsRequestCacheable`, `IsResponseCacheable`, `TTLFor`, `BuildKey` | proxy |
| **Policy** `policy/*.go` | none | `CheckRequest`, `CheckResponseSize`, `CheckContentType` | proxy and exit |
| **Configuration** `config/*.go` | none after load | loading, `Validate` | commands |
| **Commands** `src/cmd/chunkbridge/main.go` | process life cycle | `runClient`, `runExit`, `runSelftest` | everything |
| **Observability** `observability/*.go` | counters | `Add` | proxy, exit |
| **Rate limiter**, **safe dialer** (relaykit) | tokens; none | waits, refuses a dial | session, exit |

**What is hard here**, and what makes each component correct:

* *Exchange (proxy, session, network, exit).* Two processes and many goroutines communicate
  through a chat that reorders, loses and delivers again; either side may fail to post a chunk
  that nevertheless got through; timers and hang-ups race answers; the exit may die with everything
  it holds; the proxy's session may end while its HTTP server goes on; `Shutdown` races requests
  in flight. Correct means: an answer belongs to its request and to executions that really
  returned it; a refused request has no effect; a request ends exactly once and always does;
  the pending limit holds; the counters account for every request. What the code does *not*
  have is a memory of executed requests, so at-most-once is only as good as the network; the
  property says so.
* *MAX transport.* A cursor (`after_id`), a bounded dedupe window, an echo filter and a bounded
  channel, against a server that pages and replays, under cancellation at any point. Correct means:
  nothing is acknowledged that was not delivered, the window does not leak, a duplicate needs a
  whole window of other messages between the two, echoes are dropped, `Close` always ends the
  loop, transient errors never do.
* *Cache.* Three data structures and three limits changed by replacement, lazy expiry and an
  eviction loop. Correct means: map, list and counter agree after any sequence of calls, what is
  evicted is least recently used and no more than needed, nothing expired is served.
* *Caching proxy (proxy, cache, cache policy, the two policies, relay).* A lookup, an answer and a
  store are separate steps of one request, and other requests run in between; a hit goes around the exit and
  its policy; key, `Vary` check and lifetime are computed by functions that have to fit together. Correct
  means: what the cache gives back is a response to such a request, is nobody's private one, is
  within the lifetime it states, was asked for with a url that both policies permit and is within the exit's
  limits. `http.Client` follows redirects on its own, past the exit's `CheckRequest`; of the exit's rules the dialer
  alone, with its refusal of private addresses, is behind that.
* *Start and end of a process (commands, configuration).* A file is checked by sections, some of them only when
  one of their values is set; the parts then interpret zero and negative values once more, each in its
  own way. Correct means: a process that runs has parts within the limits the other
  modules assume and is throttled as its file says. The file's `mode` decides what is validated, the command line
  what is run, and nothing compares them.

`PROJECT.json` lists the hazards at their lines, with the properties that cover each.

## 2. Modules

| Module | Models | Depends on |
|---|---|---|
| `RelayService` | abstract: what a browser and an upstream server may observe | |
| `RelayExchange` | proxy, session, network and exit composed | instantiates `RelayService` |
| `RelayExchangeProofs` | theorems about `RelayExchange` | `RelayExchange` |
| `RelayMetricsProofs` | the theorem about its counters | `RelayExchangeProofs` |
| `CacheService` | abstract: what a bounded cache may forget, store and serve | |
| `ResponseCache` | `cache.go` and `lru.go` | instantiates `CacheService` |
| `ResponseCacheProofs` | theorems about `ResponseCache` | `ResponseCache`, `FiniteLemmas` |
| `MaxTransport` | `maxapi.go` against a chat server | |
| `MaxTransportProofs` | theorems about `MaxTransport` | `MaxTransport` |
| `CachePolicy` | `cache/policy.go`, as operators on headers | |
| `RequestPolicy` | `policy/*.go` and the exit's checks of a response, as operators | |
| `CachingProxy` | `ServeHTTP` with cache and policies, the exit's checks | extends the two policies; composes `RelayService` and `CacheService` |
| `CachingProxyProofs` | theorems about `CachingProxy` | `CachingProxy`, `FiniteLemmas` |
| `Config` | `config/*.go`: zero values, defaults, `Validate` | |
| `Startup` | `main.go`: `runClient` and `runExit` from file to exit code | extends `Config` |
| `StartupProofs` | theorems about `Startup` | `Startup` |
| `FiniteLemmas` | least and greatest numbers, sums over finite sets | |
| `MC…` | the sets of values for TLC, and the symmetry sets | the module of that name |

Every property of a run has a *variant*: an operator marked `Variant:` just before the definition
it stands beside (`KeepEntry` before `RemoveEntry`, say). Put in its place, it makes TLC find the
property violated, which shows that the property depends on that piece of code. No run uses a
variant.

### RelayExchange and the code

| Variables | In the code |
|---|---|
| `serve` | the goroutine and the server of `HTTPProxy.Serve`; *deaf* is the time after `session.Start` returned, while the server still accepts |
| `pc[r]`, `sent[r]`, `reply[r]` | where `ServeHTTP` is, inside `SendRequest` included; the chunk loop's index; what was written to the browser |
| `pending`, `inbox[r]` | the session's pending table: which requests have an entry, and the channel in it. The limit is on this table, and each way out of `SendRequest` has to remove its entry (`RemoveEntry`) |
| `verdict[r]` | what `handleRequest`'s checks will say of the payload (unmarshal, policy), chosen when the request is admitted |
| `respParts`, `reqParts` | the two reassemblers |
| `toExit`, `toProxy`, `redelivered` | the chat, as sets of messages: order is not kept |
| `hpc`, `hreq`, `hsent`, `outcome`, `performed` | one `handleRequest` goroutine each: where it is, its request, chunks sent, its answer, whether the upstream server acted |
| `metrics` | the six counters the two processes update |

A request is its RequestID and a response chunk is the handler that produced it. That is all the
properties tell apart, and it makes two executions of one request distinguishable, which is what
`Correlated` is about. `ServeHTTP` is split where it waits or where another goroutine can act: at
its early returns (`RefuseLocally`, `TooMany`, and `ServeFromCache`, which is there for the counters), registering (`Admit`), each chunk
(`SendRequestChunk`, `RequestSendFails`), the select (`Take`, `TimeOut`). `handleRequest` is split at
the checks, `client.Do`, the outcome, and each chunk of the answer.

The session and its reassembler are in relaykit, which the repository imports but does not
contain. They are modelled from their use in `http_proxy.go` and `http_executor.go`, and from
`docs/architecture.md`, and marked external in the map.

`Faults` selects which faults an instance has: `loss`, `redeliver`, `send` (a post fails, with or
without effect), `timeout` (a timer or a hang-up at any moment), `evict`, `upstream`, `crash`,
`deaf`, `stop`. Without `timeout`, timers are long: they fire only when nothing can bring an
answer any more (`Stuck`).

**Refinement.** Under the mapping `StatusOf`, `EffectsOf`, `AnswerOf`, the exchange implements
`RelayService`: chunks, messages, crashes and evictions are stutters; `Perform` is the abstract
execution, `Take` of data the abstract answer; each way of giving up is the abstract failure, which
promises nothing about what happens upstream, because a 502 does not cancel an execution.

### MaxTransport and the code

`loop` is where `pollLoop` is: at the top, in `pollOnce`, in a back-off wait, reading a page,
blocked sending to the channel, or returned. `ids`/`fifo` are `dedupeSet`'s map and slice;
`afterID`, `page`, `unread`, `closed` and `cancelled` are what they are called in the code. The server is a log;
a poll returns a contiguous page after `after_id`, or, with the fault `replay`, from an earlier
place. `throttled`, `refused`, `accepted` and `delivered` are history: they record
what happened and no guard of the code's reads them (`MaxReceived` and `Max429` bound them).
`FromHandle` may be empty, as configuration validation allows: then echoes come through.
`RelayExchange` is the exchange over a transport that filters them. A callback registered by `WithOn429` would change
nothing of the transport, and `buildTransport` in `main.go` registers none, so there is none.

### ResponseCache and the code

`Cache.mu` is held throughout `Get` and `Put`, so each path through them is one action: a miss,
an expired entry dropped, a hit; a body over `max_entry_bytes`, a store with its evictions.
The eviction loop is its result: `Keep` is how many of the most recent keys survive. `recency` is
history, against which `ListIsRecency` judges the list. An entry's expiry is an input, possibly
already past, since `ServeHTTP` reads its clock before it calls `Put`.

### CachingProxy and the code

The module composes the *abstract* relay and the *abstract* cache. `RelayExchange` and `ResponseCache` are
proved to implement these, so what holds here for every relay and every cache that keeps the promises holds
for the two of the program. (One thing is left aside: an answer spliced from two executions, which
`RelayExchange` allows after a redelivery.) `pc[r]` is where `ServeHTTP` is; it is split at the
lookup, at the relay, and between the reading of the clock (`Receive`) and `Cache.Put` (`Put`).
`got[e]` is history: the response of execution `e`, the request it was made for and the url that gave it.

`Execute` is `client.Do`: the url of the request has passed `Permitted`; the answer is from that url or from one of `Redirects`,
and each of the two is one that the transport connects to (`Dials`: a scheme it knows and, with `block_private_ranges`, an address
that is not private). Whether a host is an IP address (`literal`) matters to `CheckRequest`, which does not resolve names; what it
resolves to (`private`) matters to the dialer.

Headers are parsed: a header is the sequence of its lines, of which `Header.Get` sees the first;
`Cache-Control` is a sequence of directives, `Vary` of fields. A `max-age` that `Atoi` rejects is
`NoNumber`. `time.Duration(n) * time.Second` wraps around, at `DurationValues` instead of 2^64. A url is
what `url.Parse` leaves of it, its host a sequence of labels, its port `NoPort` if it names none; whether its path has a static extension is
a field of it. `NothingPersonalShared` is stated for every setting of the three options that permit sharing; the runs
have them all off, as the defaults do.

### Config and Startup and the code

A configuration is one flat record with the YAML keys that the code looks at. `LoadFile` completes a file by
zero values and not by the defaults, as `yaml.Unmarshal` into an empty `Config` does. `Startup` is
the sequence `LoadFile`, `Validate`, `deriveKey`, `buildTransport`, `buildRateLimiter`, the wiring, `Listen`,
and then serving, a signal, and the end with its exit code; each step that can fail ends the process with 1. A
signal before `signal.NotifyContext` kills it (`Killed`). The command line's `client` or `exit` and the
file's `mode` are independent, as nothing in the code compares them: `PartsAsAssumed` promises a pending limit where the
file's mode is `client`, and any other file may leave a client without one. `NewMaxTransport` computes durations that wrap around at
`DurationValues`, 2^64 in the code. How a process ends is in `RelayExchange` (`Stop`, `ProxyExits`); here it is one step.

## 3. Runs

| Run | Instance | Properties | Distinct states |
|---|---|---|---|
| `exchange_two` | 2 requests, 2 handlers, 1 chunk each way, every fault, 1 redelivery, 1 crash | `TypeOK` `AtMostOnce` `Correlated` `RefusedHasNoEffect` `NoLateArrival` `MetricsAccount` `ImplementsService` | 608 315 |
| `exchange_chunks` | 1 request, 2 handlers, 2 chunks each way, every fault, 2 redeliveries | `AtMostOnce` `Correlated` `EveryRequestEnds` `EveryHandlerEnds` | 146 222 |
| `exchange_lossless` | 3 requests, limit 2, 3 handlers, 2-chunk responses, no fault but `Shutdown`; long timers | `LosslessAnswers` `LimitExact` `ShutdownEnds` | 241 134 |
| `exchange_shutdown` | 1 request, only `Shutdown` | `ShutdownDrains` (violated) | |
| `cache` | 4 keys, 3 entries, 3 bytes, bodies of 0 to 3 with at most 2 stored, clock to 2 | `TypeOK` `ListMatchesMap` `BytesExact` `ListIsRecency` `EvictsOnlyAsNeeded` `ImplementsCache` | 11 495 |
| `transport` | 3 messages of three kinds, pages of 2, window of 2, channel of 1, every fault | `TypeOK` `WindowConsistent` `NoEarlyDuplicate` `NoEcho` `NothingSkipped` | 433 432 |
| `transport_live` | 3 messages with ids, window of 1, channel of 1, no `from_handle`; transient errors, 429s, a refusal, `Close` | `CloseStops` `EventuallyDelivered` | 4 576 |
| `transport_deadline` | every fault | `StopsOnPurpose` (violated) | |
| `caching` | 3 requests of 4 kinds, 2 executions, 7 kinds of responses, 1 entry, clock to 2 | `TypeOK` `HitsMatch` `FreshWhenServed` | 226 110 |
| `policies` | 2 requests for 6 urls or of 4 kinds, personal and not, 4 urls redirected to, 7 kinds of responses | `PolicyHolds` `NothingPersonalShared` | 294 804 |
| `caching_ttl` | 2 requests, responses without a usable lifetime | `HeuristicOnlyWithoutHeaders` (violated) | |
| `startup` | both commands, 4 environments, files that differ from a working one in a missing key or section and a changed value | `PartsAsAssumed` `LimitedAsConfigured` | 233 402 |

**Why these bounds.** Mixing up requests needs two of them; mixing executions of one request needs
two handlers, and mixing their chunks two response chunks; a second completion of a two-chunk
request needs two redeliveries, which is why `exchange_chunks` allows two. An entry of the pending table that
is left behind shows with three requests against a limit of two: the third is turned away though at most one is being relayed. (That run has
answers and `Shutdown` for ways out of `SendRequest`; the theorem `LimitAlwaysExact` has them all.) One crash puts an
exit's death between any two steps; a second repeats the first from an equally empty exit.
The cache's limits are chosen so that each of the three can be the one that bites: three entries
of one byte fill it by count, a two-byte body evicts one or two entries by size, a three-byte body
is rejected, and empty bodies never free anything. A window of two over a log of three lets ids
leave the window and come back; `MaxReceived` = 10 gives room for several replays; a channel of one
blocks after a single message. In `caching`, two requests fill an entry, or replace it, and a third
is given it; each kind of request and of response is there for one branch of the cache's policy. In `policies` each of the two
policies refuses a url that the other one permits, a name resolves to a private address, a literal is one, a url names port 0,
and the allow list has an entry `*`, which permits nothing; a second request is enough to be given what the first one left. The clock goes to 2, past a lifetime of 1; durations wrap at 8,
so that a `max-age` of 9 comes out as 1 and one of 4 as negative. In `startup` a file has at most one omission
and one changed value, since a section of `Validate` relates at most three keys, two of which
the working file gives; durations wrap at 2^22 ms, with times on both sides of that and of its half. All the safety properties are also proved without
bounds, see section 4.

**Symmetry.** Requests, handlers, executions and keys are interchangeable in the runs without liveness
properties (`ImplementsService`, `ImplementsCache` and `FreshWhenServed` are safety). Liveness runs use none.

**Deadlock** is checked in every run. `AtRest` is the one step that lets a model stop, and its guard says
where the program may: every request ended and no handler working, or the loop stopped.

**Fairness.** `ScheduleFairness` says what the Go runtime gives: a runnable goroutine runs (the chunk loops of both
sides, the exit's refusals), a timer fires or a waiting select returns (`TimeOut`, `Take`), and `runClient`'s 10 s
deadline ends the process. Neither the network nor the upstream server is fair in it: `EveryRequestEnds` holds although
nothing is ever delivered or answered. `EveryHandlerEnds` has `UpstreamEnds` as its hypothesis: each upstream
call comes to an end, which a positive `exit.request_timeout_sec` sees to, and at 0, which validation accepts, nothing does.
`DeliveringSpec` adds `UpstreamEnds` and weak fairness of the two receive loops, which means a network that eventually
hands over what it holds; `LosslessAnswers`, `ShutdownDrains` and the run of `ShutdownEnds` assume it. There timers are long: a
request's timer fires only once nothing else can end it, and the process exits when no request is left, so that
`ShutdownEnds` rests on every request in flight ending and not on the deadline. For the transport, `FairSpec` makes the
loop's goroutine, the watcher of `Close` and the caller's first `Receive` go on; `CloseStops` needs no reader.
`EventuallyDelivered` has `ReadAndAnswered` as its hypothesis: callers that read, and strong fairness of `PollReturns`, as
a poll that is tried again and again among errors succeeds again and again. `Startup` and `CachingProxy` have safety properties only and assume no fairness.

### Disagreements the runs show

* `transport_deadline`: the code's comment says network errors are retried. The HTTP client's own
  timeout is a `context.DeadlineExceeded` for `errors.Is`, which `pollLoop` takes for the end of its
  own context: it returns for good, and the receive channel with it.
* `exchange_shutdown`: `Shutdown`'s comment says in-flight requests are waited for. `server.Serve` returns
  as soon as `Shutdown` begins, `Serve` then cancels the session, and no answer is dispatched any
  more: the requests being waited for cannot complete.
* `caching_ttl`: `config.go` and `policy.go` say that the default lifetime is for responses without a `Cache-Control` or
  `Expires` header. `TTLFor` uses it whenever these headers yield no lifetime: a stylesheet that says `no-cache`, or whose
  `Expires` is past, is stored for `default_ttl_seconds`.

## 4. Theorems

Every safety property that a passing run checks is also proved, for all values of the constants that satisfy
the assumptions below: invariants, the action properties `LimitExact`, `EvictsOnlyAsNeeded` and `FreshWhenServed`, and
both refinements. TLC evaluates each assumption in the runs, and checked each inductive invariant on the run's
instance before it was proved.

| Module | Theorem | Property | Inductive invariant |
|---|---|---|---|
| `RelayExchangeProofs` | `TypeCorrect` | `TypeOK` | `TypeInv` |
| | `OnceUnlessRedelivered` | `AtMostOnce` | `DeliveryInv` |
| | `AnswersCorrelated` | `Correlated` | `OriginInv`, and `DeliveryInv` for the last conjunct |
| | `RefusalsHoldNothing` | `RefusedHasNoEffect` | `RefusalInv` |
| | `LateAnswersDropped` | `NoLateArrival` | itself, with types |
| | `LimitAlwaysExact` | `LimitExact` | `TableExact` |
| | `ExchangeImplementsService` | `ImplementsService` | `ServiceInv`, and one lemma per group of actions |
| `RelayMetricsProofs` | `MetricsAlwaysAccount` | `MetricsAccount` | `AccountInv` |
| `ResponseCacheProofs` | `TypeCorrect`, `ListAlwaysMatchesMap`, `BytesAlwaysExact`, `ListAlwaysRecency` | `TypeOK`, `ListMatchesMap`, `BytesExact`, `ListIsRecency` | `CacheInv` (`CacheInvariant`) |
| | `EvictsOnlyAsNeededAlways` | `EvictsOnlyAsNeeded` | `CacheInv` and the lemma `PutEvicts` |
| | `Implements` | `ImplementsCache` | `CacheInv` and the lemma `PutWithinLimits` |
| `MaxTransportProofs` | `TypeCorrect`, `WindowAlwaysConsistent`, `NoEarlyDuplicateAlways`, `NoEchoAlways`, `NothingSkippedAlways` | `TypeOK`, `WindowConsistent`, `NoEarlyDuplicate`, `NoEcho`, `NothingSkipped` | `TransportInv` (`TransportInvariant`) |
| `CachingProxyProofs` | `TypeCorrect`, `HitsAlwaysMatch`, `NothingPersonalEverShared`, `PolicyAlwaysHolds` | `TypeOK`, `HitsMatch`, `NothingPersonalShared`, `PolicyHolds` | `ProxyInv` (`ProxyInvariant`) |
| | `AlwaysFreshWhenServed` | `FreshWhenServed` | `ProxyInv` |
| `StartupProofs` | `PartsAsAssumedAlways`, `LimitedAsConfiguredAlways` | `PartsAsAssumed`, `LimitedAsConfigured` | `StartupInv` (`BuiltInvariant`) |

**Assumptions.**

* `RelayExchange`: at least one chunk each way and a positive pending limit (`ChunksAssumption`, `BoundsAssumption`),
  faults and error codes among the known ones (`FaultsAssumption`), `None` is no request or handler. Requests and
  handlers may be infinitely many.
* `ResponseCache`: the limits `validateCache` asks for (`ValidatedAssumption`: positive, an entry's limit within the cache's), sizes and times
  are natural numbers (`InputsAssumption`). `StartupProofs` proves that every cache of a process that
  runs has such limits, and that a client whose file says `mode: client` has a positive pending limit.
* `MaxTransport`: a window of at least one id, which `NewMaxTransport` sees to (`WindowAssumption`, proved of a running
  process by `PartsAsAssumedAlways`); a channel and pages of at least one message; the three kinds of authors; `from_handle`
  is empty or the own handle (`BoundsAssumption`).
* `CachingProxy`: the options are Booleans and the numbers are numbers (`PolicyAssumption`, `LimitsAssumption`), and a
  `Cache-Control` line is a sequence of directives (`InputsAssumption`). The policies, the kinds of requests and responses, the unit
  of time and the width of a duration are arbitrary.
* `Startup`: where a file sets a numeric key, it is set to an integer (`FilesAssumption`); YAML would not unmarshal anything else.
  A millisecond, a second and the number of durations are positive (`DurationAssumption`). The rates are float64 in the code: fractions, and the NaN that YAML can write, are not modelled.

**Why the invariants are stronger than the properties.**

* `TypeInv` of the exchange adds to the types how far each chunk loop is (`RequestPhase`, `HandlerPhase`). Without it
  `sent[r] + 1` and `hsent[h] + 1` are not known to stay within the frame.
* `DeliveryInv`. *At most once* says nothing about chunks still on their way, so it is not
  inductive. The invariant follows one chunk: of a request that was not redelivered each chunk is in at most one
  place, not sent yet, in flight, in the exit's reassembler, or consumed by the one handler.
* `OriginInv`. An answer is right because everything it came through was: what a handler's state says
  of its outcome (`HandlerOrigin`), response frames in flight name the handler's own request and its
  kind of outcome (`NetOrigin`), and so do the session's reassembler, the pending channels and the replies
  (`ProxyOrigin`).
* `RefusalInv`. A request refused by the proxy has nothing in the network, the reassembler or a handler
  (`NothingAhead`, `RefusedUnsent`), and only forwarded requests are performed (`OnlyForwarded`).
* `ServiceInv` adds `Unanswered` (a request that has not ended has no reply) to the above, for the
  mapping's status not to skip a state.
* `TableExact`. `LimitExact` compares two things: the table, on which the limit is, and the requests that are really being
  relayed. The invariant is that they are the same set; each way out of `SendRequest` has to keep it.
* `AccountInv`. The proxy's counters balance with the requests pending and those that ended without being counted (`ProxyAccount`), the
  exit's with the handlers that work and those that answered (`ExitAccount`). Each of these sets has to be
  known finite, or its cardinality means nothing; and a request that ends must not have been counted before, which
  is `Unanswered`. A hit of the cache counts as a response.
* `CacheInv` is the conjunction of what the run checks, none of which is inductive alone: that the eviction loop frees what it
  subtracts needs the list to match the map, and that it evicts the oldest needs the order. It adds that the history knows
  every key of the list. The lemmas about `Without` and `PutInFront` are those of `lruList`; `KeepFacts` says that the loop's result is
  the longest front of the list within the limits.
* `TransportInv`. A duplicate is recognised because the window's queue *is* the end of the history of accepted ids
  (`WindowIsRecent`). `NothingSkipped` speaks of `after_id` only; but a message is also passed over for being in the window, and
  `after_id` moves on over what was passed over. So `Caught` says of ids in the window, too, that they were delivered or are just being
  so, and of everything before the place where a page is being read, which takes that a page is a
  stretch of the chat (`PageContiguous`). An echo is dropped before it could reach the channel (`FilteredBeforeSend`).
* `ProxyInv` follows an answer: it was made for one request, whose url both policies permitted, and is from a url the dialer connects to (`ExecutionInv`); its entry, while it waits for
  `Put` and while the cache holds it, is filed under that request's key, may be shared, and expires no later than the
  origin said (`StoreInv`, `HeldInv`); what a browser is shown is such an answer (`ReplyInv`). Freshness rests on the lemma
  `SecondsBound`: a `max-age` times `time.Second` may wrap around, but never to something longer.
* `StartupInv` says by the stage reached what is known of the configuration and which parts were made of it
  (`BuiltInOrder`); the properties speak of a process that serves.

`FiniteLemmas` has what these proofs need of numbers and sums. A sum over a finite set is defined by recursion (`MapThenSumSet`); that
it exists, and how it changes when an element is added, removed or replaced, is derived there from the
well-foundedness of the strict subset relation, by looking at a smallest counterexample.

**Model-checked only.** Liveness under fairness is out of the prover's reach: `EveryRequestEnds`, `EveryHandlerEnds`, `LosslessAnswers`,
`ShutdownEnds`, `CloseStops`, `EventuallyDelivered`. The three disagreements of section 3 are counterexamples, and TLC finds them.

## 5. Not modelled, and why

* *Encryption, encoding, header copying, logging*: payloads are tokens. Losing or altering a message in
  a way the other side rejects is `loss`.
* *The 429 callback*: `checkStatus` calls it, and `pollLoop` once more for the same response. The commands register none.
* *Redirects on the way.* The scheme, port and domain of a url that a redirect leads to are not checked by the code, and no property
  speaks of them; that it is not private is in `PolicyHolds`. An execution keeps the response that ended it and the url that gave it. The redirects before it, with
  what they say of cookies or lifetimes, which the cache does not see either, are left out, and so are the changes that `http.Client` makes to
  method and headers.
* *Ranges and further header lines.* No request asks for a range, though 206 is a cacheable status and the key has no
  range in it. Headers of the instances have one line; the operators take several.
* *Bodies*: a size at most. That request bodies are cut at 10 MiB is not modelled. Nor is the rewriting of a path by
  `http.ServeMux`, or the stripping of hop-by-hop headers.
* *An exit that reads its own answers*: with an empty `from_handle` the transport delivers echoes (`transport_live` has it
  so), and `HTTPExecutor.Run` does not look at a frame's type. `RelayExchange` is the exchange over a transport
  that filters echoes.
* *Rates*: the limiter only delays a send or fails it. Busy polling after a page of duplicates
  (`maxapi.go:370`) is a rate, not a state.
* *`seqNum`*: no code of the repository reads the number back.
* *Commands*: what key derivation computes, `selftest` (which runs the modelled parts over an in-memory transport), `version`.
* *Safe dialer*: external and stateless. That it refuses private addresses is in `Dials`; how it resolves names is not modelled. In
  `RelayExchange` a refused dial is one of the upstream failures.
* *A request's timeout that wraps around* (`http_proxy.go:268`, above 2^63 ns): the timer of `RelayExchange` is positive.
* *Agreement of the two processes*: in `Startup` client and exit are two processes that share nothing; that their
  keys and chats match is outside of both.

## 6. Plan

The components, their safety properties and the two refinements are modelled, checked and proved. What is left:

1. An exit that reads its own answers: exchange and transport over one chat with an empty `from_handle`.
2. A composition of `CachingProxy` with the exchange's splicing of two executions' answers after a redelivery.
3. Shorter proofs: the step lemmas of `RelayMetricsProofs` and `CachingProxyProofs` go action by action where a frame lemma
   could serve several.

## 7. Running

`tlc -config exchange_two.cfg MCRelayExchange`, and likewise for the other configurations with the
module PROJECT.json names. `tlapm M.tla` for `M` each of `FiniteLemmas`, `RelayExchangeProofs`, `RelayMetricsProofs`, `ResponseCacheProofs`,
`MaxTransportProofs`, `CachingProxyProofs` and `StartupProofs`.
