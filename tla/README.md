# GoRe in TLA+

GoRe is an HTTP server and reverse proxy in Go, configured by one YAML file:
listeners (TCP, TLS, HTTP/3), locations with static files, returns, rewrites or
an upstream behind them, and a chain of middlewares around every location.
This directory models the parts of it that are concurrent, stateful or subtle,
checks the models with TLC and proves with TLAPS that the safety properties TLC
finds to hold do so for every value of the constants.

Paths below are relative to the repository; `limitconn.go:34` is a line of the
file named by the component.

    tlc -workers 2 -config MCLimitConn.cfg MCLimitConn
    tlapm LimitConnProofs.tla

and likewise for every other `MC....cfg` and `...Proofs.tla`.

## 1. The system

| Component | State | Operations | Talks to |
|---|---|---|---|
| Process lifecycle (`cmd/gore/main.go`, `server.go` Start, Stop) | lists of servers, WaitGroup, signal channel, deadline | listen, register, serve, signal, shut down | net/http, http3; cuts requests off |
| Pipeline construction (`server.go` initRoutes, buildLocationHandler; `modules/chain.go`) | none after start | fixes the order of the middlewares of a location | every module |
| Router (`router/`) | prefix tree, filled at start, read by every request | AddRoute, Search | pipeline |
| Connection limiter (`modules/limitconn`) | per location: mutex, map address → count | admit, refuse, give back (deferred, panics included) | next handler |
| Rate limiter (`modules/ratelimit`) | per location: RWMutex, map remote address → bucket; per bucket: mutex, tokens, lastRefill | getBucket, allow | next handler |
| Round-robin balancer (`proxy/balancer.go`) | atomic counter, atomic mark per server | Next | upstream proxy, health checker |
| Health checker (`proxy/healthcheck.go`) | the marks; one goroutine per upstream | probe, store | balancer, backends |
| Upstream proxy (`proxy/proxy.go`) | per request: attempt, recorder, body | ServeHTTP with retries, director, error handler, WebSocket tunnel | balancer, ReverseProxy, client |
| Request tracking, status page (`log/access.go`, `modules/status`) | atomic counters | ReqStart, ReqDone, page | access log middleware |
| Response transformers (`gzip`, `brotli`, `headers`, `subfilter`) | per response: captured status, header, body | Write, WriteHeader, flush at the end | the writer around them |
| Mirror, auth request | none | subrequest before or beside the handler | HTTP client |
| Split clients, map, real IP | none after start | set a header or the remote address | modules further in: the map may set a header realip reads, realip changes the address limit_conn, access, rate_limit and the log see |
| Access rules, basic auth, body limit | none after start | pass or refuse | next handler |
| Static files, try_files | files | look up, open, list | file system |
| Configuration | none after start | YAML, defaults, ParseSize, ParseCIDR | everything at start |
| Error log | one mutex, one writer | write a line | none |

How they meet. `main` builds a `Server` (all routes, chains, upstreams and
checkers), calls `Start` and lets one goroutine wait for a signal. A request is
a goroutine of net/http: Router.Search picks the location's handler, which is a
chain of closures; limiter and rate limiter hold state shared by the requests
of a location, the upstream shares a balancer among all locations that use it,
and the checker of an upstream writes the marks the balancer reads.

What is hard. Locks that are released and taken again between a test and its
effect; callbacks that have to run when a handler panics; a counter shared by
scans of several steps; marks that are stale when used; retries of exchanges
whose answer has already left; a shutdown that several goroutines take part
in and that shares one deadline among servers; a tree whose answers depend on
what else was registered. The list with its lines is in PROJECT.json under
`hazards`.

What makes each correct:

- limiter: never more than the limit inside, the count never drifts, the map
  does not grow with former clients, every place comes back;
- rate limiter: one bucket for each remote address, no window of time above burst plus
  refill, no refusal below that, no lock kept;
- balancer: an unhealthy server is skipped if a healthy one exists, shares are equal;
- checker: the marks converge to the state of the backends;
- proxy: one backend's answer for one client, no request body sent twice, a
  retry moves on and its success arrives;
- lifecycle: HTTP/3 first, requests in flight finish, the process ends;
- router: the tree answers as the list of routes does;
- tracker: the counters are the requests under way, the page adds up;
- transformers: the client gets what the handler wrote, coded as it is told, with
  the status the handler gave, and the log tells the same;
- gates: each judges a request by the address realip found, a request that one refuses
  costs no token, a size holds as written, every hash has a variant and every variant its share;
- tunnel: nothing is lost while both ends are there, and the handler returns;
- files: an answer that was right at a moment while it was looked for, and no entry
  of try_files passed over or taken that could not be at any moment it was looked at.

## 2. The modules

| Module | Models | Notes |
|---|---|---|
| `ConnLimit` | what limit_conn promises | abstract: sets of requests inside zones |
| `LimitConn` | `limitconn.go` | implements `ConnLimit` |
| `LimitConnProofs` | theorems about `LimitConn` | section 5 |
| `TokenBucket` | what rate_limit gives each remote address | abstract: one bucket for each address, always there and always filling; a request is decided in one step |
| `RateLimit` | `ratelimit.go` | implements `TokenBucket` |
| `RateLimitProofs` | theorems about `RateLimit` | section 5 |
| `SplitClients` | `split.go` New | pure: every list of bands New may make of some rules, and the shares |
| `Gates` | `chain.go`, `realip.go`, `access.go`, `bodylimit.go`, `basicauth.go`, `mapmodule.go`, ParseSize | extends `RateLimit` and `SplitClients`, with an instance of `ConnLimit` for the limiter that `LimitConn` implements |
| `GatesProofs` | theorems about `Gates` | section 5 |
| `Router` | `htrie.go`, `router.go`, `initRoutes` | |
| `Site` | `server.go` buildLocationHandler, `static.go` | extends `Router`: a request goes through the tree into the files |
| `SiteProofs` | theorems about `Router` and `Site` | section 5 |
| `HealthCheck` | `healthcheck.go` | |
| `WebSocket` | `proxy.go` proxyWebSocket | extends `HealthCheck`: the tunnel's server is one marked healthy |
| `WebSocketProofs` | theorems about `WebSocket` | section 5 |
| `Balancer` | `balancer.go` | extends `HealthCheck`: both share the marks |
| `Upstream` | `proxy.go` ServeHTTP | extends `Balancer`: a request is a caller of Next |
| `UpstreamProofs` | theorems about `Balancer` and `Upstream` | section 5 |
| `Lifecycle` | `main.go`, `server.go` Start and Stop | |
| `LifecycleProofs` | theorems about `Lifecycle` | section 5 |
| `RequestTracker` | `access.go`, `status.go` | the counters and the page |
| `ResponseChain` | `chain.go`, `gzip.go`, `brotli.go`, `headers.go`, `subfilter.go` | extends `RequestTracker`: the writers inside the access log |
| `ChainProofs` | theorems about `RequestTracker` and `ResponseChain` | section 5 |
| `MC...` | constants for TLC | no definition of a model is replaced |

An operator with an underscore in its name (`Purge_Never`) is a wrong variant
of the definition after it: replacing the one by the other shows that a
property can fail. PROJECT.json pairs every property with one of them.

### LimitConn

`counts` and `keys` are the Go map of each location: what indexing yields and
which entries exist. `mu` is the holder of the mutex. A request runs through
Arrive, LockAdmit, then Refuse or Pass and Increment, the handler (`serve`),
and the deferred function: LockRelease, Decrement, Purge. Test, increment and
decrement are separate steps, so only the mutex keeps them together. Return
stands for both ends of the handler, return and panic, since the release is
deferred. When a request is over its locals go back to one fixed value, which
keeps equal states equal.

Admission takes effect at Increment, refusal at Refuse and departure at
Decrement: with that mapping LimitConn implements ConnLimit.

### RateLimit

`buckets` maps an address to an index of `tb`, the bucket objects in order of
creation: getBucket returns a pointer, and a bucket is used after the map's
lock is free again. Hit and Miss are the look under the read lock, LockMap,
Found and Create the second look under the write lock; Enter, ReadClock and
Admit or Refuse are `allow`, with the clock read after the bucket is locked.
Concurrent readers of the map do not disturb each other, so the read lock is
only a condition on the writer. Tokens are in sixtieths and time in seconds,
which makes "N/s" and "N/m" integers; float64 is exact there. `Rate` and
`Burst` are the arithmetic of `New`: only digits count, the last character is
the unit unless the string has one character (then the default of 10 per second
applies). One Limiter is modelled; every location has its own.

Two things that the documents say of it are not so, and the properties and the
abstract bucket are of what the code does:

- The key is the whole remote address, host and port. Unless `realip` runs
  before and finds a header (it sets the port to 0), a client has a bucket for each
  connection, while `src/docs/configuration.md:169` ("Token bucket per client IP"),
  `src/docs/features.md:377` ("Buckets are per client IP.") and `src/README.md:12`
  promise one for each IP address. WindowBound therefore bounds what a remote
  address gets: in the run `gates` the two ports of one host together get twice that.
- The default burst is the rate truncated to an integer. "30/m" without a burst
  gives a bucket that never holds a token, and everything is refused, while
  `src/docs/configuration.md:166` says "default: same as rate". RefusedOnlyWhenSpent
  excepts just that limiter (`NeverAdmits`), and RefusalJust proves that no other one
  needs an exception.

With the following mapping RateLimit implements TokenBucket. The abstract bucket
of an address is always there and fills all the time; the code makes it at the first
request and refills it at the next, so `Balance` maps a missing bucket to a
full one, and one that was refilled a while ago to what it would hold now. A request is
decided (`Answer`) when it reads the clock, not when it settles: in between the
clock goes on, but the bucket is locked, and `Balance` counts what its holder will leave
in it. Everything else that a request does is a stutter of the abstract bucket.

### SplitClients, Gates

`Gates` runs a request through the gates BuildChain puts before the handler:
`Chain` is their order, and what a gate finds (`AddrAt`, `Forwarded`) and who
answers first (`Verdict`) follow from it. The gates that look at nothing but the
request take no step of their own: ComeInVain, ComeTooMany and Come are the
ways to the first gate that stops a request. limit_conn is an instance of
ConnLimit, the abstract limiter that LimitConn is shown to implement, and rate_limit
is RateLimit, step by step, with the address as key. Return gives the place back.

`ParseSize` does what the Go function does, scaled down (`Kilo` 16, `MaxInt`
32767): what is no number is 0, one that is too large is the largest, an unknown
suffix is ignored, and the product wraps. MaxBytesReader is outside the repository.
Masks of networks are sets of hosts, regular expressions
sets of what they match, and a credential is right or wrong.

`SplitClients` counts percentages in thousandths and values by number. `Portions` is
what the loop of New gives to each rule and then to the default: what it claims, cut to
what is left. `Divisions` is the set of lists of bands that may come out, since three
things are open: sort.Slice is not stable, so that pairs of one value come in any
order (`Orders`); where a percentage is not whole, float64 may make
`uint64(pct * 100)` one less (`Doubtful`); and portions that sum up to 100 may
leave a crumb, for the first claim with nothing left or the default (`Heir`).

What the model shows besides its properties, without a document that says
otherwise:

- ParseSize turns "1.5m" and "10 MB" into 0, which is no limit at all, "10MiB"
  into ten bytes, and a size beyond int64 into anything.
- Without a forwarded header, limit_conn counts the requests of a host, and
  rate_limit those of a host and a port: OneIdentity says which address every gate
  takes its own from, and not that they take the same part of it.
- realip writes an IPv6 address without brackets; access then parses another
  address out of it (`Seen`), and limit_conn, which cuts at the last colon, knows a
  client that comes directly, in brackets, apart from the same one behind a proxy
  (`ExtractIP`).
- The map may fill the header realip trusts (`Mapped` in MCGates), and split
  and map look at the address before realip; with `$remote_addr` this includes the
  port, so that a split's variant changes with the connection.
- A 16-bit hash modulo 10000 favours the first 5536 residues, which stand for seven
  hashes each and the others for six: bands that cover just those have 59.1 percent of
  the hashes instead of 55.4. These 3.8 points are the most any variant gains or loses,
  and SplitShares allows no more, but for a hundredth of a point for each band.

### Router

The tree is the sequence `nodes`, nil is 0, the root 1. Descend, Grow and
Register are Insert, Follow and Answer are Search, one byte a step. Inserting
is over before the first request (`serving`); searches only read, so one at a
time is enough. `routes` is a history of the patterns in order of registration,
and a handler is its index there, so that two locations of one pattern (of two
servers, which share the tree) are told apart. The answer is specified on that
list alone: `Longest`, `Serves`.

### Site

A site is a list of locations, registered in order; `Kind` is the handler of the one
the router finds. It answers at once (`AnswerAtOnce`: rewrite, return, none), or is
entered (`Enter`) if it serves files; a proxy's answer is left to Upstream. `tree` says what each name
below the document root is: nothing, a directory, or a version of a file. Every
Stat, Open and ReadDir is a step (`hpc`), and a Change, one name created, replaced or
removed, may come between any two, any number of times (TLC: MaxChanges). `met`
is the history of the trees since the entry of try_files under way, or then the
static handler, was begun. TryFile, TryDir, TryIndex and TryNext are the loop of
try_files, Root, Stat, Open, Serve and List are static, which looks again at what
try_files has found. The answer is specified on a tree that stands still
(`StaticAnswer`), and so is what an entry decides (`Decides`).
Files are replaced by renaming, never written in place: a write during a response
is outside. A directory is made empty and filled name by name. One that comes in
the place of a file between Stat and Open is opened, and what ServeContent
makes of it depends on the file system: 500, or an answer of no use (`broken`). A
path has no dots: escaping the root is not a question here, and the 403 of
static.go:42-45 is left out with them.

Two looks at a name may find two things, hence EntriesJudged and AnswerExplained ask
for a moment among those met at which the judgement, or the answer, was right; an
answer mixed of two states, such as a listing after the index was found, would be none.
They do so entry by entry and then for the static handler: entries are
looked at one after the other, so that what try_files answers in all may be right
at no single moment. The code takes no measure against that, and no document
promises any.

Seen on the way: index.html is looked for in the root of a location only, as Clean
takes the final slash of every other directory. A directory below it is listed
with autoindex although it has an index, and 404 without, while
`src/docs/features.md:77` says "Enable HTML directory listing when no `index.html`
exists."; StaticAnswer says what the code does. try_files with `$uri/` finds such an
index. A path below a regular file is 500, and a location with a root
changes the path that the access log and the mirror see. A rewrite without a
redirect code changes the path and answers 404.

### HealthCheck, Balancer, Upstream

`healthy` are the marks, `backend` what the machines do: `up`, `failing` (5xx
or no answer in time), `down` (no connection); a backend may change at any
moment. Probe draws the verdict, Store stores it, the tick of a round is part
of its first probe. Whether a checker runs, and with a path, is a choice of
the initial state.

A call of Next is Begin, then Add and Load for each try, then Finish: the two
atomics of a try are two steps. The counter is a natural number; its 2^64
values are out of a process's reach. History variables: `alone` (no other
caller has added during this scan), `steady` (the servers marked healthy all
through it), `granted` and `doubted` (requests for each server as long as no mark
was ever cleared).

Upstream adds the loop of ServeHTTP: Receive and Retry start an attempt (the
director calls Next), Respond and Fail end its first half, Copy and Abort its
second, Retry and Return decide. What is outside the repository is stated by
actions marked external in the map: the first WriteHeader wins; a declared
Content-Length used up by the first attempt makes the copy of the next one fail,
and ReverseProxy then panics with ErrAbortHandler; the ReverseProxy closes the
request body after the first attempt, and a server's request has no GetBody,
so a second attempt of a request with a body fails. Every body is taken to be
non-empty; clients do not disconnect. The URL of a request is a path: when no server is
healthy the director leaves the URL as it is, and one that names a host, as sent to
a forward proxy, would be fetched from there instead of failing. WebSocket upgrades are callers that use
the balancer and nothing else here.

### WebSocket

`stage` walks through proxyWebSocket: TurnAway (502, 500, or Hijack fails),
Hijack, Dial or BreakOff, then two goroutines (`copying`), each one io.Copy, and
Wait. The ends are an environment: each sends, shuts its sending half, or is gone,
at any moment (`peer`). `waiting` are the pieces an end has sent, `early` what
the server had read ahead of the upgrade; io.Copy keeps the order, so numbers
suffice. A write to an end that is gone may succeed at first. Which marked server
Next returns is left open; the scan itself is in Balancer.

TunnelEnds states exactly what the code achieves: the handler returns once
neither end sends, or one is gone and the other goes on sending. It does not
when one is gone and the other is silent, as nothing closes the second
connection before both copies are over; nor does an end learn that the other has
shut its half. The backend never sees an upgrade at all: `Connection` and
`Upgrade` are deleted from the request (proxy.go:196-197), so that it answers an
ordinary request, which the tunnel then carries. A client whose backend cannot
be dialled is not answered. Bytes carry no meaning here, so no run refutes the
row of the roadmap that promises WebSockets.

### RequestTracker, ResponseChain

The tracker's counters are atomics: every addition of ReqStart and ReqDone and
every load of the page is a step (`at`, `page`, `shown`). ReqDone is called, not
deferred: a handler that panics (Unwind) skips it. The history `lost` holds those
requests, `moving` the ones that changed a counter since the page was begun.
Both `status` and the access log are on; without either there are no counters.

The response of a request goes through writers wrapped around each other in
the order BuildChain and buildLocationHandler fix: log, gates, headers, brotli,
gzip, subfilter, handler. `resp` is the state of all of them. A call of
WriteHeader or Write is taken by the next layer outward that defines it
(`Taker`); after the handler's return, every layer that captured has its turn
(`step`) from the inside out. The layers are chosen in the initial state, a layer
being "on" if it is configured and the client accepts it; `matches` says whether
the content type is on its list. A body is the sequence of the pieces written,
whether subfilter has been over it, and the codings applied. Content-Encoding and
Content-Length are the headers kept, each with all the values the map holds; the
other ones only take the way of the map (behind brotli copyHeaders copies the map
onto itself, which doubles them).

An answer (`Answer`) has a status, a coding of the backend's own or none, since the
client's Accept-Encoding is forwarded, and declares a length or not. After an error
the upstream may try again once: AnswerAgain is another answer, whose header the
ReverseProxy adds to what the map holds, FailAgain the 502 of its error handler,
by http.Error, which deletes the length. Every handler in the repository calls
WriteHeader before Write, hence no layer replays a status it was never told, and a
body has all the pieces its header declares unless the handler panics; an answer
that declares a length of zero is one without a body here. mirror delays the return
and nothing else; auth_request refuses the way a handler answers.

Two cases go wrong in ways no document speaks of, and BodyDelivered leaves them out:

- `Recoded`. A backend coded its answer and a layer takes it for text: brotli
  codes it again and puts its own name in the place of the backend's
  (brotli.go:43-49), subfilter replaces in coded bytes (subfilter.go:20-23). Or two
  attempts differ in their codings and their bodies are one.
- `Merged`. The bodies of two attempts are one response, and a length of one of
  them goes with it. Unbuffered it is the first one's, and net/http refuses the
  rest; behind a brotli that does not compress, both may be in the map, since the
  writers share it. Behind subfilter, or a brotli that compresses, the length is
  replaced or deleted, and the joined body arrives: that is in the property.

`Others` are requests of which only the tracker's part is modelled,
to disturb the counters. The writers do not pass on Hijack, so an upgrade
behind any of them is refused with 500 (`proxy.go:172`): one reason why
WebSockets are not in this module.

### Lifecycle

`start` and `cur` walk through Start, with the failures of each listener;
`running` is the WaitGroup; the signal goroutine is `stop`, `todo`, `waiting`.
Outside the repository: Shutdown closes the listeners, which makes Serve return
at once, then waits for requests or the deadline; an HTTP/3 server cuts its
requests at the deadline; hijacked connections are not counted. `servers` and
`http3Srvs` are appended without a lock: a signal during start reads the old or
the new slice (`Found`) or a torn one, which ends in a crash (`TornRead`). A
process that has ended stutters in `Ended`, so deadlock is still checked.
`ranged` is the history of what Stop found: StopsInTime says of a signal at any
moment, also during startup, that it ends the process within the deadline or
leaves running only what Start registered after Stop had looked.

## 3. The runs

All bounds are in the `.cfg` and `MC` files. Every passing run is exhaustive.

| Run | Shows | Bounds, and why they are enough |
|---|---|---|
| `limit_conn` | limit, exact count, exact entries, no starvation of requests that come or go, ConnLimit implemented | 3 requests, 2 clients with 2 ports, 2 locations, limit 2: the third request of a client meets a full share, and two more clients or locations can interfere |
| `gates` | TokenBucket implemented, window bound, refusals only when spent, every request answered; every gate judges by the address realip found, no token for a refused request, sizes in force, shares of a split | 2 requests at a time, 3 hosts (one IPv6) and 2 ports, clock 0..2. Two rate settings (burst below and at the rate) with plain traffic: two callers suffice for the race of the second look, and two seconds fill any bucket. Two settings with all gates, limit 1, bodies at and above the size, half a token per second and a burst above that or of none. 112 sizes (numbers around every scaled boundary, all suffixes) and 27 splits (full, overfull, equal, fractional, repeated values), whose traffic stops at the door since only constants differ. 100 thousand states |
| `site` | the tree equals the list of routes; entries of try_files are judged, and answers given, as was right at a moment | every list of up to 3 locations with patterns of up to 3 bytes (the empty one too), paths of up to 4: equal, nested, sibling and overlong patterns in every order; seven sites with root, listing, try_files with codes, fallbacks and directories, rewrites and returns, six trees of four names, two changes: what a look found, what came after it and what the next one meets are three states, which is what a mixture takes; each property is judged over few looks at one name. 1.1 million states |
| `websocket` | nothing cut, the tunnel ends, the marks converge | 1 upgrade after the other, 2 backends with all states, all three modes of probing, 1 piece waiting at each end and 1 read ahead: tunnels share nothing but the marks, which they only read. 101 thousand states |
| `proxy_attempts` | answer of one backend, body uploaded once, retry elsewhere; undisturbed scans find a healthy server; fair shares | 1 request, 1 upgrade, 2 servers, 1 retry, probes with a path; no call begins after the first turn of the counter, retries go on, and the two callers' scans overlap in every way |
| `pipeline` | body, status and log of a response; the counters and the page | 1 request with 2 pieces, coded by the backend or not, with a length or not, one retry; no layer, headers around gzip, headers around brotli, brotli around subfilter; 1 other request, so that additions and loads interleave. Every layer is there, brotli both outermost and behind another; a call is handed on to the next layer only, so that a third one adds no other step (the proofs are for any layers). A third piece takes the same steps as the second. 3.4 million states |
| `lifecycle` | HTTP/3 first, only the last server's requests may be cut, a signal at any moment ends everything Stop found | 3 listeners: plain, TLS with HTTP/3, TLS; 1 request in flight in each server |

No run uses symmetry. Five runs refute what the documentation or a test says; TLC prints the
behaviour.

| Run | What the code does |
|---|---|
| `routes_prefix` | with `/` and `/health` registered, `/healthy` and `/health/x` are 404: Search keeps only the longest pattern on the way |
| `pipeline_gzip` | the header leaves when the handler calls WriteHeader, Content-Encoding is set and Content-Length deleted afterwards: the client gets gzip data it is not told of, or a truncated body; a content type off the list loses its body |
| `proxy_retry` | the first attempt's 5xx has been written through; the success of the retry is lost or appended |
| `lifecycle_drain` | Serve returns when Shutdown is called, so `main` returns while the last server is draining |
| `lifecycle_signal` | a Shutdown that hits the deadline ends Stop; the servers after it serve for ever, and no one reads the next signal |

The `findings` of PROJECT.json quote the lines. The passing properties next to
them say what does hold: SuccessFromOne, CutOnlyLast, StopsInTime, and
BodyDelivered for every combination of layers without gzip. Three more findings
are divergences of documents that a passing run meets, where the property states what
the code does: buckets of a connection (WindowBound), the default burst of slow rates
(RefusedOnlyWhenSpent), and the listing of a directory with an index
(AnswerExplained).

Provisos that stand in properties because the code needs them:

- SoloScan: of two concurrent calls of Next, one may add on an unhealthy server
  twice and return nil beside a healthy one, since both advance the same counter.
- BodyDelivered, GzipDelivers: `Recoded` and `Merged`, above.
- RefusedOnlyWhenSpent: the default burst of a rate below one token per second
  (`NeverAdmits`).
- StatusDelivered, LogTruthful: behind headers, a 1xx response of the backend
  is taken for the response and the final status is dropped (FinalDropped). A
  retried request behind brotli or subfilter is answered with the last status and
  the bodies of both attempts; without them with the first status, while the
  log has the last.
- DriftIsPanics: the counters stay one too high for every panic.
- AnswerExplained: when what the static handler had found is gone or something else
  before it is opened, the answer may be a failure although that was right at no moment.
- StopsInTime excepts the deadline and late registrations, TunnelEnds the silent
  end, SplitShares overfull rules (their shares, not the bands) and 3.8 points, BodyLimited sizes that are no
  number with a known unit that fits.

## 4. Fairness

- LimitConn, RateLimit (and Gates, which adds none): weak fairness of a goroutine's own steps (it is
  scheduled), strong fairness of taking a lock (sync.Mutex hands itself to a waiter
  of more than 1 ms; RWMutex lets neither side starve). None for
  arrivals, and none for the handler behind the limiter: it may never return.
- HealthCheck: weak fairness of the checker. Its ticker fires and each probe
  ends (3 s dial, 5 s client timeout).
- WebSocket: the same, weak fairness of the handler (a dial ends after 10 s)
  and of each copying goroutine, and strong fairness of WriteFails: writing again
  and again to an end that is gone does not succeed for ever. None for what the
  ends do, so every way for the tunnel to stay open is explored.
- Lifecycle: weak fairness of every goroutine, of the deadline, and of each
  request's end (write timeouts bound it); none for signals and arrivals.
- Balancer, Upstream, RequestTracker, ResponseChain and Site are checked for safety
  only. The state space with liveness is too large at bounds at which the
  interesting cases occur, and nothing in them waits.

## 5. What is proved

`LimitConnProofs` proves, for any finite set of requests, any addresses, ports
and locations and any positive limit:

| Theorem | Statement |
|---|---|
| `Invariance` | Spec => []IInv |
| `TypeCorrect`, `LimitSafe`, `CountSafe`, `EntriesSafe` | Spec => []TypeOK, []LimitHolds, []CountExact, []NoStaleEntries |
| `Refinement` | Spec => ImplementsConnLimit |

Assumptions, all in `LimitConn` and evaluated by TLC: the limit is a positive natural
number (`New` makes no limiter otherwise), the requests are finitely many and
none is the value NoReq, there is a location and an address.

Argument. LimitHolds is not inductive: at Increment nothing says there is room.
IInv adds three facts. MutexHeld: whoever is between Lock and Unlock is the
holder, so two requests of a location are never there together. RoomKept: a
request about to increment still finds its count below the limit, as
nobody else could change it since the test. EntriesExact: an entry exists
exactly for the clients with a request from Increment to Purge; with a free mutex
that is NoStaleEntries. CountExact links the counter to the number of holders;
its steps need that adding or removing one request changes the cardinality
of exactly one of the sets `Holders(l, h)` by one, which is stated once as a
lemma. The proof of each step has one case for each action. The refinement maps
Increment to Admit, Refuse to Refuse, Reply to Answer, Decrement to Leave and
everything else to a stutter, under IInv.

`RateLimitProofs` proves, for any callers, addresses, settings and length of the
clock:

| Theorem | Statement |
|---|---|
| `BudgetKept` | Spec => []IInv |
| `TypeCorrect`, `BucketUnique`, `WindowSafe` | Spec => []TypeOK, []OneBucket, []WindowBound |
| `RefusalJust` | Spec => RefusedOnlyWhenSpent |
| `Linearised` | Spec => ImplementsTokenBucket |

Assumptions, in `RateLimit`: there is an address, no caller is the value NoCaller,
the numbers of a setting are natural ones (the burst any integer), the clock has
an end.

Argument. WindowBound speaks of the past, so IInv has Budget: for every request
let through, what the requests from it on have cost and what the bucket still
holds are at most the size and what has flowed in until the last refill. A
refill adds to the bucket no more than to the inflow (Carried), capping only
loses tokens, and an admission moves a token from the bucket to the cost. This
needs one caller inside a bucket at a time (Holding), clock readings that do not
go back inside it (Timely: the clock is read under the bucket's lock), and a
bucket that belongs to one address and stays with it (Distinct, OneBucket, which
getBucket's second look ensures). The other direction, RefusalJust, rests on Tight: a
bucket that is not full has lost nothing since some request it let through,
so there Budget is an equation; with less than a token left, one more
request from there on would exceed the bound. A full bucket below one token is that
of a default burst (`Rated`): any other setting makes room for one.

Linearised is the refinement. It needs two invariants besides IInv: a bucket whose
mutex is held belongs to a caller inside it (Locked), so that Balance reads the
locals of the right caller, and what Balance computes lies between 0 and the size and
is the bucket's own content capped, also while it is being settled (Balances). A
tick of the clock then fills every abstract bucket (Flows; here capping late and
capping at once come to the same, FillsUp), Arrive asks (Asks), ReadClock grants or denies
(Decides), since it fixes what Level will be, Admit and Refuse reply and
leave the Balance as it is (Settles), and the rest changes neither (QuietSteps). Two
callers inside different buckets do not touch each other's (Apart).

`GatesProofs` proves, for all configurations and all traffic:

| Theorem | Statement |
|---|---|
| `LimiterInside` | GatesSpec => FairSpec, that of RateLimit |
| `LimiterKept` | GatesSpec => []OneBucket, []WindowBound and RefusedOnlyWhenSpent |
| `GatesLinearised` | GatesSpec => ImplementsTokenBucket |
| `GatesKept` | GatesSpec => []GInv |
| `GatesTyped` | GatesSpec => []GatesTypeOK |
| `TokensKept`, `IdentityKept`, `BodyKept` | GatesSpec => []NothingSpent, []OneIdentity, []BodyLimited |
| `SharesKept` | GatesSpec => []SplitShares |

Assumptions, in `Gates`: Keys has room for every address of the traffic,
percentages and values of a split are integers (SetupsAssumption), and the scale of
sizes is positive. Argument. Every step of the
gates is one of the limiter or leaves its variables alone, as realip only yields addresses in
Keys (Addresses). GInv ties a request's stage to what the gates make of it: who
is at the limiter or behind it has no Verdict against him and the address
RealIP gives, which is the key of his bucket, and places belong to requests on their
way, in the zone of that address. Where the gates stand (Order) enters exactly there, so that each wrong order
in `Gates` breaks a proof as well as a run. BodyLimited needs that a product that
fits is not wrapped (Fits, SizeRead).

SharesKept is about any rules, of any number, any percentages and any values: a fact
about what New computes, as GatesTyped says that the bands are in `Divided`. Sums of a
sequence are a recursive function; that it exists, agrees on equal beginnings, and
does not depend on the order are lemmas (SumsRead, SumsAgree, Reordered), each by
induction over a set of numbers that has a smallest member outside (UpTo), as the
induction theorems of the library take an operator. PortionsRead says that the portions
add up to 100 percent, whatever is claimed, and are what the rules ask for if
they fit. OrdersRead says that an order lists each claim that gets something once
(`Lists`), WidthsRead that the thresholds fall behind the portions by at most a
hundredth of a percent for each band, so that the last, which is moved to the end, can only
grow (BandsRead, `Meet`). Then `Below`, the number of hashes, is the linear share
plus what the first 5536 residues gain and the others lose (Shifts); along the
bands the gains and the losses of one variant stay below those of all (SharesClose), and
`Percentage` rounds by less than one (Rounded).

`SiteProofs` proves, for any alphabet, any lists of routes, any sites and any trees
of files, of any depth:

| Theorem | Statement |
|---|---|
| `RouterCorrect` | Spec => [](TypeOK /\ SearchExact), Spec that of Router |
| `SiteInvariant`, `SiteTyped` | SiteSpec => []SiteInv, []SiteTypeOK |
| `SiteRoutesExactly` | SiteSpec => []SearchExact |
| `EntriesRight`, `AnswersRight` | SiteSpec => []EntriesJudged, []AnswerExplained |

Assumptions: in `Router`, the slash is a byte and patterns and paths are
sequences of bytes; in `Site`, a site is a list of locations of the kinds YAML
can give (`Location`), a tree is a function from names in which everything but the root lies in a
directory (`Tree`), the name of the index is not a slash, and new
content differs from no content.

Argument. SearchExact compares a walk with the list of routes, of which the
tree says nothing directly. RouterInv asserts that there is a naming of the
nodes (`Spelled`): node 1 has the empty name, no two nodes share one, a child has
its parent's name and one byte more, and every beginning of a name is a name
(`Named`); a node carries the last route of its name (`Routed`); a walk stands at the
node whose name is what it has read, and remembers the longest route among the
beginnings of that (`Walked`). No part of it holds without the others: a walk that
finds no child may stop only because names are closed under beginnings, and
Insert, which breaks `Routed` while it descends, keeps the names of what it
passes. The step that makes a node gives the witness, the old naming and one
name more.

AnswerExplained and EntriesJudged hold for any number of changes. SiteInv follows
the handler through its looks and says what each one leaves behind: `TryStory`, that an
entry whose directory was looked for was undecided at some moment, or is a directory
now; `StaticStory`, that the path is that of the entry taken, that the file to be opened
was an answer at some moment (`Once`), and that what was opened or is to be listed
was the right one. A change adds a moment to the history, which takes nothing from
what was so at an earlier one (`Further`). The hard case is a change between TryFile
and TryDir: what was a directory when the first look found no file cannot become a
file in one step, so that there is a moment at which the name is nothing, and the
entry undecided. The static handler's own rule has to find the same name as
try_files did (`Spot`). A failure is explained by
two moments, one at which there was something and one at which there was not.

`UpstreamProofs` proves, for any number of servers, callers and retries and any
behaviour of the backends:

| Theorem | Statement |
|---|---|
| `BalancerInvariant` | Spec => []BalancerInv, Spec that of Balancer |
| `SharesFair`, `ScansWhole` | Spec => []FairShare, []SoloScan |
| `UpstreamInvariant`, `UpstreamTyped` | UpstreamSpec => []UpstreamInv, []UpstreamTypeOK |
| `SuccessWhole`, `UploadsOnce`, `RetriesRotate` | UpstreamSpec => []SuccessFromOne, []UploadedOnce, []RetryRotates |
| `BalancerKept` | UpstreamSpec => [](SoloScan /\ FairShare) |

Assumptions: there is a server (`NAssumption`; an upstream without one answers 502
before any of this), upgrades are callers, counts of retries are natural numbers.

Argument. `Owed`: for a call that is alone, the servers that stayed healthy since it
began are among those whose turns its remaining tries will meet; at the last try
none is left, so a scan that ends with nothing had no such server. That N
consecutive values of the counter meet every residue is a lemma. `Shared`:
while no mark was ever cleared, what a server was granted and the calls
about to load its mark are together the number of full rounds, and one more if its turn of this
round is over; two shares thus differ by no more than the calls under way and one. The
proxy calls Next and leaves its variables alone otherwise, so the balancer's invariant carries
over. `Answered` has what each stage knows of status, body and uploads: only a
first attempt without an error sends pieces of a success. `Turning` ties the server of the last
attempt to the counter while nobody else counts, hence a retry's scan meets all
others before it comes back.

`WebSocketProofs` proves `WebSocketInvariant`, `WebSocketTyped` and `TunnelsWhole`
(WebSocketSpec => []NothingCut) for any number of tunnels and servers and any
amount on the way. NothingCut is about a tunnel that has closed; the
invariant needs what holds while it is open: a direction that is not being copied any
more has an end that shut its half and nothing waiting or read ahead (`Emptied`),
unless an end is gone. Tunnels touch disjoint parts of the functions, and
the checker none of them, which are lemmas of their own.

`LifecycleProofs` proves, for any number of listeners, with TLS and HTTP/3 on
any of them, and any number of requests:

| Theorem | Statement |
|---|---|
| `LifecycleInvariant`, `LifecycleTyped` | Spec => []LifecycleInv, []TypeOK |
| `QuicFirst`, `LastOnlyCut` | Spec => []Http3First, []CutOnlyLast |

Assumptions: the listeners are numbered from 1 and there is one, HTTP/3 needs TLS, the
bound on requests is a natural number. Argument. `Listed` says how far the slices are
at each place of Start, `Stopping3` and `Stopping1` what Stop knows in each of its loops:
the list still to do is a tail of what was found, whatever was found is
still in it or drained, and of the servers shut only the one it waits for has
requests before the deadline. CutOnlyLast needs that an end of the process on a
signal follows Serve's return on the last listener. Spec has no fairness; FairSpec
implies it.

`ChainProofs` proves, for any number of requests and pieces and any layers:

| Theorem | Statement |
|---|---|
| `TrackerInvariant` | ChainSpec => []TrackerInv |
| `DriftExplained`, `PageInOrder`, `NoiseBounded` | ChainSpec => []DriftIsPanics, []ActiveWereCounted, []WaitingIsNoise |
| `ChainInvariant`, `ChainTyped` | ChainSpec => []ChainInv, []ChainTypeOK |
| `BodyArrives`, `StatusArrives`, `LogTells` | ChainSpec => []BodyDelivered, []StatusDelivered, []LogTruthful |

Assumptions: the requests only counted are requests, the sets of layers consist of
the four layers, a body may have a piece. Requests may be infinitely many: that those begun are finitely
many is part of the invariant. Argument for the counters. Each counter is the cardinality of a set
of requests, those that have passed its addition and not the opposite one, with the
ones lost to panics in it for good (`Counted`). The page loads at
different times; what it has loaded is the size of a set that differs from
the requests being answered now in none but the ones that moved since (`Near`), which
bounds the sum it prints. For the response: `Holder` is the layer the answer has
reached on its way out, a function of the layers and whose turn it is. `Right` says that
the status is with the holder and nowhere further out (`Told`), and so is the body,
with the filter and the codings of the layers passed (`Filled`, for chains without
gzip; the run `pipeline_gzip` shows why). The header with it tells the codings, the
backend's own among them (`Coded`), and the length, if it has one, is what has been
written and what is left of the declaration, in the end that of the body (`Sized`);
but for Recoded and Merged, which at the end are `Recoding` and `Merging` of the
invariant. That AnswerAgain may only follow an answer that is complete, and
that codings are added to the map and never taken from it, enter there. A call is handed outward layer by layer, and
its effect on the state is stated once for each kind of call (`HeadSent`,
`BodySent`, `StatusHeld`, `BodyHeld`), so that the steps need not look into the
writers again.

The inductive invariants hold in TLC as well, on the bounds of the runs, but for two
parts it cannot enumerate: the naming of Spelled, and the number in
Stopping1, which was bounded by Count for that purpose.

Only model-checked. Liveness and what needs ENABLED are beyond the proof system:
Answered of both limiters, TunnelEnds, MarksConverge and StopsInTime. The five
refuted properties are no theorems.

## 6. What is not modelled

- The requests that mirror and auth_request send: client I/O.
- Configuration except ParseSize: structures, YAML decoding, default values.
- resolveSource of split and map: reading a field of a request.
- http.ServeContent: conditional and range requests.
- Error log: formatting and one write under a mutex no other part holds.
- In modelled files: transport settings (timeouts, buffering, set_headers),
  weights (stored, never read), log lines.

## 7. Plan

In this order; each with its MC module, its wrong variants and its entries in
PROJECT.json.

1. `Gates` inside `ResponseChain`, so that a refusal's way through the outer
   layers is part of the composition.
2. Two tunnels and the limiter's place together: a tunnel that stays open keeps
   its place in limit_conn.

The runs are kept few: a new one replaces one whose question it includes, as
`proxy_attempts` includes the balancer's, `pipeline` the tracker's, `gates` the rate
limiter's, `site` the router's and `websocket` the health checker's. For the same
reason OneBucket, of which ImplementsTokenBucket says what it is good for, is only
proved.

Theorems: every safety property that the passing runs show is proved. What
may follow is what the abstract view adds: a balancer and a tracker whose calls are one
step each, implemented by `Balancer` and `RequestTracker` where nobody interferes.
