# A verification of shiny-server

TLA+ models of [Shiny Server](https://github.com/rstudio/shiny-server), the
TLC runs that check them on small instances, and TLAPS proofs of the
properties that matter most for every value of the constants. Everything is
translated from the JavaScript and TypeScript in `lib/`; the comments name
the function an operator stands for, and `PROJECT.json` ("map") its lines.

## 1. The system

Shiny Server is one Node.js process. It accepts HTTP and SockJS connections,
works out which app each is for, and proxies it to a worker process (R or
Python) that it starts on demand and ends when nobody uses it. Node runs one
handler at a time, so a handler that does not await is atomic. What makes the
system hard is the order in which handlers run: a start, a timer, an exit, a
request and a disconnection are events that may arrive in any order, and each
finds whatever the others have left.

| Component | State | Operations | Properties that make it correct |
|---|---|---|---|
| `WorkerEntry` (lib/scheduler/worker-entry.js) | counters of open clients by kind (`http`, `sock`, `pending`), idle timer, queue of release timers, closed flag | `acquire`, `release`, `startIdleTimer`, `pushPendingReleaseTimer`, `shiftPendingReleaseTimer`, `close` | counters match the clients; an idle timer runs only for an unused worker; timers are cancelled in the order they would fire |
| `SimpleScheduler` (simple-scheduler.js) | - | `acquireWorker`: choice and admission | one worker per app; no more sessions than `maxRequests` |
| `Scheduler` (scheduler.js) | `$workers` | `spawnWorker` (allocate, launch, poll, reject), exit handler, `shutdown` | the table holds the workers that can be used and no others; an unused worker goes away |
| `SchedulerRegistry` (scheduler-registry.js) | `$schedulers` by app key | `getWorker`, the `vacantSched` listener, `shutdown` | one scheduler per app; every worker can be reached |
| HTTP proxy (lib/proxy/http.js) | per response: acquired or not, app page or not | `httpListener`, `error500`, the cleanup on `finish`/`close`, `proxyRes` and the proxy's errors | what is acquired is released, once; nobody is left waiting |
| SockJS proxy (lib/proxy/sockjs.js) | per connection: worker entry, queue of early events, state of the web socket | `connectToApp`, `close`, `data`, web-socket events | as above; messages are not lost or reordered while the web socket opens |
| `MultiplexSocket` (lib/proxy/multiplex.js) | `$channels` | open, message, close, physical close | a closed channel stays closed |
| `RobustSockJS` (lib/proxy/robust-sockjs.js) | connections by id; per connection: message buffer and receiver, `_expectContinue`, `nascent`, withheld events | `robustify`, `set`, `write`, `emit`, the 15 s timer | across reconnections nothing is lost, repeated or reordered |
| `AppWorker` (lib/worker/app-worker.ts) | process, exit promise, kill timer | `launchWorker_p`, `kill` | a process told to end ends |
| `Server` (lib/server/server.js) | HTTP servers by address | `setAddresses`, `destroy` | listens on the configured addresses only |
| main (lib/main.js) | router, addresses, schedulers | configuration reload, shutdown paths | one configuration at a time; workers do not outlive the server |
| Routers (lib/router) | servers and their locations | scoring, nesting and order of locations, look-up of apps along a path | the right app for a URL |
| `AppConfig`, `LocalConfigRouter` (lib/config/app-config.js, lib/router/local-config-router.js) | cached promises of local configurations | look-up, merge, `restart.txt` | settings that are current, keys that stay what they were |
| `UserDirsRouter`, `SquashRouter` (lib/router/user-dirs-router.js, squash-run-as-router.js) | the list `run_as` of a location | whose app it is, who it runs as | an app runs as the user meant for it |
| Configuration lexer, parser, schema (lib/config) | position, scope, tree | `nextToken`, `parse`, `applySchema`, `getOne` | exactly the well-formed texts are accepted; what was written is what is configured; the rules hold |
| Transports and endpoints (lib/transport) | the port | `alloc_p`, `connect_p` | whoever waits for a worker is told, though the port may be another's |
| Native add-on, launcher, R and Python adapters (src, R, python) | - | system calls, running the app in the worker | behind the endpoint |

They interact by calls and promises: the proxies ask the routers for an
`AppSpec`, the registry for the `WorkerEntry` of that app, call `acquire` on
it, wait for its handle and call `release` when the client has gone. The
scheduler hears from the worker process through the exit promise, the entry
tells the scheduler by the event `idletimeout`, the scheduler tells the
registry by `vacantSched`. Nothing of this is persisted.

The behaviours that are hard to test, each at its line with the properties
aimed at it, are the "hazards" of `PROJECT.json`.

## 2. The modules

| Module | What it models |
|---|---|
| `WorkerEntry` | The class, as a record and one operator per method. No variables: the two modules below keep entries in theirs. |
| `WorkerSessions` | One app's only worker from the first request to its exit: its entry, its start, its process, the HTTP responses and SockJS connections that use it, admission by `maxRequests`. |
| `SessionPool` | The abstract specification of admission: places that sessions take and app pages keep, and who may be turned away from them. `WorkerSessions` implements it. |
| `SchedulerRegistry` | All apps, schedulers and workers: getting and spawning workers, the failures of a start, exits, `vacantSched`, both shutdown paths. |
| `WorkerProcess` | The process behind a worker: the stages of its launch, `su` in between, its log, signals and kill timers. |
| `WorkerStart` | One worker from its port to its end: `WorkerProcess` with the port, the attempts to connect, the promise of `spawnWorker` and the entry with its idle timer. |
| `WorkerLife` | The abstract specification of a worker's promise, process and place in the table, which the modules on registry and proxies rely on. `WorkerStart` implements it. |
| `SockProxy` | One browser's SockJS connection, the channels over it and their web sockets to the worker. |
| `HttpProxy` | HTTP requests through `httpListener`, with their error pages and what they acquire. |
| `ProxySystem` | The composition of `SockProxy`, `HttpProxy` and `WorkerLife`: the clients of one worker that starts, fails or ends. |
| `RobustSockJS` | One session over SockJS connections that break and are replaced, both ends of it. |
| `ReliableStream` | The abstract specification of a session: two streams that lose, repeat and reorder nothing. `RobustSockJS` implements it. |
| `Listeners` | The class `Server`, listening on a changing list of addresses: its variables, actions and properties, without a specification of its own. |
| `ConfigReload` | Loading and reloading the configuration and shutting down, composed with an instance of `Listeners`. |
| `ConfigFile` | The lexer, the parser and the schema: a text becomes a tree of directives, or an error with its position. |
| `ConfigText` | What a text says, stated without tokens and without a parser: the reference for `ConfigFile`. |
| `Configuration` | From the text to the answer: `ConfigFile`, the servers and locations that `createRouter_p` makes of the tree, and `Routing`. |
| `Routing` | Which server and location of a configuration answers a request. |
| `DirectoryLookup` | Which directory on the path of a URL is the app, while the file system changes. |
| `LocalConfig` | `.shiny_app.conf` and `restart.txt` of an app, the cache of the former, the user it runs as, and the keys of schedulers. |
| `WorkerSessionsProofs`, `SchedulerRegistryProofs`, `ProxySystemProofs`, `WorkerStartProofs`, `RobustSockJSProofs`, `LocalConfigProofs`, `DirectoryLookupProofs` | The theorems about the state machines of these names; `ProxySystemProofs` has those of `SockProxy` and `HttpProxy` too. |
| `ConfigurationProofs` | The theorems about `Configuration` and `ConfigReload`. |
| `MC...` | The instances that the runs check: symmetry sets, address lists, configurations, file trees. |

`WorkerSessions` and `SchedulerRegistry` share `WorkerEntry`; `ConfigReload`
is composed with `Listeners`, `WorkerStart` extends `WorkerProcess`,
`Configuration` composes `ConfigFile` with `Routing`, and `ProxySystem` puts
both proxies and a worker together. Of the worker the proxies see only what
`WorkerLife` allows, which `WorkerStart` is shown to implement, so that what is
checked of the composition holds for the detailed worker. The other modules
meet at interfaces that both sides model: `SockProxy` and `HttpProxy` show how
`acquire` and `release` are called, `WorkerSessions` what they do to the
worker's counters; `LocalConfig` shows how the keys come about that
`SchedulerRegistry` takes as given, one per app.

### WorkerEntry

A record: `conns` (the counters; `conns["pending"]` are the sessions reserved
by app pages), `idleTimer` (armed or not), `releaseTimers` (the queue of
`$pendingReleaseTimers`, each entry the timers that are still to fire) and
`closed`. Time is not a number: a timer is armed or not and may fire at any
moment while armed. The release timers all last 45 s, so they fire in the
order they were set; `Due` says which. The
constant `IdleReaping` is false when `app_idle_timeout` is 0 or absent, where
`startIdleTimer` returns early.

### WorkerSessions

`req` and `conn` state which responses and connections are open, `pages` which
responses are app pages with a reservation; the model records per client what
the code records in closures (`isAppPage`, the `cleanedUp` flag). Actions:
`HttpRequest`, `HttpRefused`, `ProxySuccess`, `ResponseEnds` (http.js);
`SockConnects`, `SockRefused`, `SockCloses` (sockjs.js); `Launched`,
`LaunchFails`, `BecomesReady`, `InitTimesOut`, `ExitHandled` (the stages of
`spawnWorker` and of its failure); `IdleTimerFires`,
`PendingReleaseTimerFires` (worker-entry.js); `ProcessExits` (the operating
system). A handler is one action with everything it does: `Reject` is part of
the three ways a start fails, arming the idle timer part of `BecomesReady`.

When the worker has left the table the model follows it and its clients to
the end and does not start another: what a second worker adds is the subject
of `SchedulerRegistry`.

### SchedulerRegistry

Per worker `owner`, `promise` (pending, fulfilled or why it was rejected),
`proc` (none, running, signalled, dead, reaped) and `entry`; per scheduler
`app` and `workers`; the registry's `schedulers`; and `server`. The exit of a
process (`ProcessExits`, by the operating system) and the handler that hears
of it (`ExitHandled`) are separate actions, and anything may happen between
them. `GetWorker` is `SchedulerRegistry.getWorker` with all it calls:
creation of a scheduler, choice or spawning of a worker, and the `acquire`
that the caller does before anything else can run.

Two stages of a start behave differently when they fail. When no endpoint is
found or the user does not exist (`AllocFails`), only `doReject` runs; when
the launch itself fails (`LaunchFails`), the exit promise is rejected with
it, and its handler announces the scheduler to be vacant. Of that handler and
`doReject` either may run first, hence the choice whether the entry is closed.

### WorkerProcess

`config` holds the settings the code branches on, `stage` what
`launchWorker_p` awaits (`CreateLog`, `ResolvePython`, `Stat`, `Spawn`, each
with its failures). `process` has two processes, the server's child and the
worker that `su` starts if `run_as` is another user; they are one and the same
otherwise. The pid of the latter is known once the worker has written
`shiny_launch_info` and the server has read it (`Writes`, `Announced`), so
that signals before that go to `su` (`Pid`). `IdleTimeout` and `Shutdown` are
the two calls of `kill` with the timer each arms by pid (`Arm`); `KillTimer`
fires it. Processes may obey a signal, ignore SIGINT, or end by themselves
(`Obey`, `Quit`); `su` passes SIGTERM on (`Forward`) and ends with its child
(`SuEnds`). `ExitHandled` and `StderrEnds` are the server's handlers.

### WorkerStart and WorkerLife

`WorkerStart` adds to the process what `spawnWorker` does around it. `port`
says who listens on the port: `alloc_p` closes the listener that has found it
(`Alloc`), so that the worker (`Listens`) or another process (`Taken`) may be
next. `Retry` is `attemptToConnect`, called by its timer: it gives up when the
process has exited or the time is over, and starts another attempt otherwise,
whatever has become of the last one; `Connected` is an attempt that was
accepted, perhaps long ago. `Settle` stands for `defer.resolve` and `doReject`,
of which only the first call has an effect. `Exit` is the exit handler with the
table, the entry and the log; `IdleTimerFires` ends the process if `spawnWorker`
already listens for `idletimeout`, and is `lost` if it does not: that an idle
process of which nobody knows goes on is what `WorkerSessionsOrphan` shows, and
the exception in `ProcessEnds`. `app_idle_timeout` is taken to be positive
here; `WorkerSessions` covers zero (`IdleReaping`).

`WorkerLife` is three variables and five steps, as the rest of the server knows
a worker; the refinement mapping is given where it is instantiated (`Life`).

### SockProxy

Per channel: `channel` and `table` (multiplex.js), `stage` (what
`connectToApp`'s chain of promises awaits), `ws` (the web socket), `held` (the
worker counts it), `queue` and `toWorker` (early and passed-on messages).
`Open`, `Message`, `ChannelClosed`, `InvalidPacket` and `ConnClosed` are the
packets and the end of the physical connection; `Connect`,
`HandleResolves`/`HandleRejected`, `WsOpens`, `WsFails`, `WsCloses` and
`Report` what happens on the other side. The `pause()` of a
connection (the package pause, 0.1.0) holds back data but not close events, so
that a channel may close at any stage of `connectToApp`.

### HttpProxy and ProxySystem

Per request: `handler` (what `httpListener` awaits), `response` and `answer`
(what has been sent of what), `tails` (`error500` waits for the tail of the
log, up to twice at a time), `upstream` (the proxied request), and `uses` of
the worker's entry. Whether `req.socket` is `writable` is asked by the code
where the action's guard has it, and it may change before every step
(`Breaks`). `SendPage` has the three ways a page can go wrong: it is sent, the
template cannot be read, or it throws when the head is out; `LogRead` has the
same for `error500`. `Finish` and `Close` are the events that call `cleanup`.

`ProxySystem` lets channels and requests acquire the worker as long as its
entry is listed (`Acquires`), tells them of its promise (`Told`), and lets
everything else happen at any time.

### RobustSockJS

The server's end of a session is `session`, `current`, `nascent`, `withheld`
(the fifteen-second timer); `Robustify` is the function of that name with all
its outcomes (`Create`, `Resume`, `ResumeNascent`, `Replace`, `Refuse`, ...).
The connections are queues of messages per direction (`wire`) that break at
any moment, and each side notices in an action of its own. The browser's end
and the message buffers are in the package shiny-server-client, which is not
part of the repository; they are modelled from how robust-sockjs.js uses them
and marked as external in the map. One assumption is made of the environment:
an attempt to connect that the client abandoned before the withheld timer
fires does not arrive after it.

### Listeners and ConfigReload

`servers` is every `http.Server` created, `table` the two tables `$wildcards`
and `$hosts` by address. `SetAddresses` closes, opens and records in the order
of the code, with an exception half way for a port out of range. It goes over
the addresses twice, for the wildcards and for the others (`Passes`); `OpenAll`
is that loop as a recursive function, `OpenOne` its body. Binding an IP
literal ends in the tick after `listen()`, so that it is part of the step; the
`close` event of a server with connections comes at any later time.

`ConfigReload` adds the file (`Edit`), the loads under way and those waiting
in `qutil.serialized`, and what a load sets. `LoadConfig`, `Settled` are the
two halves of `serialized`; `Read`, `LoadFails` and `LoadApplied` the stages
of a load. One that fails leaves the old configuration in force, unless the file
has an `application` directive, which ends the process, at a reload too; a version
of the file says which (`exits`). `GracefulShutdown` and `Exit` the ends of the server. A load under
way at a graceful shutdown makes the server listen again, as in the code.

### ConfigFile, ConfigText and Configuration

`ConfigFile` reads a text character by character with the lexer's two ways of
keeping its position (`Here`), and the tokens with the parser's recursion made
explicit by `scope`, the directive whose block is open. A word is the sequence
of its characters. Directives are kept in the order of the file with the number
of the one they are in, which is the pre-order of the tree (`InFileOrder`);
servers and locations keep those numbers. `CheckDirective` and `Complaint` are
one node of `applySchema`'s visit; the rules are a constant, since the schema's
own file is read by the same parser.
`Configuration` translates what `createRouter_p` does with the tree:
`Inherited` is `getOne`, `ServerOf` and `Provided` are `createServers` and what
`createLocation` requires of each hosting model, with the user groups there are
(`Groups`), `Permitted` is `checkPermissions`; `Refuse` is the failure of any of
them, or the exit for an `application` directive. `data.replace(/\r/, '')` removes the first carriage return
of the text only, and is modelled so. `ConfigText` is no model of code: it is
the grammar that the result is compared with, in terms of the mode each
character is read in and of counting braces. `DirectivesIn` is the tree of a
text: a word that begins where no directive is open begins one, the words up to
the next such are its arguments, and it is in the directive before the last brace
that led to its depth. `ServersIn`, in `Configuration`, says in the same way what
servers a tree means.

### Routing and DirectoryLookup

`Routing` translates `createServers` (`Accepted`, `ServerKeys`),
`createLocation` (`HostingNode`, `PostOrder`), the score of a server and
`forEachPromise_p`, which asks routers one by one: `Ask(r)` may be taken by the
first in the order (`Before`) of those that have not declined. The order is a
relation, not a list that is built: that some router is always first is part of
`ConfigurationInv`. Servers are told apart as they are written (`ServerKeys`) and
matched by what that means: `AddressOf` gives hosts their addresses, of which the
wildcards have one, and `LowerCase` names with capitals their matching form.

What the routers of directories and of single apps find is an input (`files`,
`apps`). What they answer follows from it and from the kind of request. One for a
page has a response to write to; a SockJS connection has none, and a router that writes all the same fails: by rejecting its promise if it writes
before that is settled (`WrittenInPromise`), and by an exception that ends the
server if it writes later (`WrittenBySend`, and `WriteToNobody` for an
`index.html`, which is announced by an answer of true first). `Answer` is the
directory router, `SingleApp` that of an `app_dir`.

`DirectoryLookup` is the look-up in a directory: the
candidates of a URL from the root inwards, a `stat` and a `readdir` of each
(`Exists`, `ReadDir`) that may see different states of the file system
(`Change`; in each of them what is there is in a directory), static files after
them, and the redirection that the browser follows (`Follow`).

### LocalConfig

Actions by stage of a request: `Route`, `Annotate` (restart.txt), `ServeAsIs`
or `LookUp` (the cache), `Stat`, `FindConfig`, `Read`, `ServeMerged`,
`ServeUnmerged` or `Reject`; and `Edit`, `Touch`, `Reload` around them. A
location of the model `app_dir` hands out its router's nested settings, the others
clone them for each request (`Cloned`). Of a scheduler the model has what decides
when it leaves the registry: its worker exits or cannot be launched (`Vacant`),
is given up by `doReject` without a word to the registry (`StartFails`), and a
process that was given up exits later, which is announced if the scheduler has no
worker then, though another may have taken its place (`LateExit`). In `user_dirs` and
`user_apps` locations a request names a user or whatever else the URL has
(`Route`, declined for who is no user or in none of the groups). Without a
`run_as` the app runs as that user; otherwise `ListFor` puts him in the place of
`:HOME_USER:` in a copy of the router's list. A URL with `:HOME_USER:` itself makes
that loop endless, before anybody asks whether there is such a user, and the server
does nothing any more (`Endless`, `Hung`). `Squash` reduces the list to
one name after the cache has been asked with the whole of it. A vacant
scheduler announces the squashed list, so it does not evict what is cached
under the unsquashed one; `restart.txt` takes effect all the same, because its
time is part of every key. An edit and a touch have different time stamps:
changes within the resolution of the clock are not considered.

## 3. The runs

Nine runs hold; three find what the code does against what it says (section
4). Every property of the former is broken by a plausible bug: `PROJECT.json`
("mutants") names for each a changed form of one operator under which TLC
finds it violated. `Inv` and `IInv` gather what has to hold in every state
besides the invariants listed for a run; what they consist of is named below.

### The worker and its clients

* `worker_sessions` (one worker, two requests and three connections, at most
  two sessions): cancelling the front of the queue cancels the timer that is
  due first (`DueTimerAtFront`), and the idle timeout never ends a worker in
  use (`NeverReapedInUse`, an action property). The model implements `SessionPool`
  (`ImplementsSessionPool`), whose state is what is open, being served or waited
  for, and not the counters: sessions stay within the limit, a page is turned away
  only if all places are taken or kept, and a session only if all are taken, or more
  are taken and kept than there are. The latter happens, since documents keep places
  beyond the limit (`WorkerSessionsDocument`): a session may be turned away from a
  worker that has none. The worker
  leaves the table in the end (`WorkerLeavesTable`) and reservations are given
  back (`ReservationsExpire`). In `IInv`, the inductive invariant of the
  proofs: the counters are the numbers of open clients (`CountersMatch`), there are
  no more reservations than open app pages and timers that will give them back
  (`ReservationsBacked`; whose reservation a connection uses up is not recorded by
  the code, and nothing is said of it), sessions stay within the limit (`SessionLimit`), and a
  ready worker nobody uses has its idle timer armed or is ending
  (`UnusedWorkerIsDoomed`).
* `registry` (two apps): as long as no start has timed out, the registry
  leads to every worker (`WorkersReachable`) and a shutdown signals every ready
  one (`ReadyWorkersSignalled`). In `IInv`: a table holds exactly the workers
  that are starting or up (`TableHoldsLiveWorkers`), a scheduler has one at most
  (`AtMostOneWorker`) and apps are never mixed up (`Isolation`).
  `registry_vacancy` shows what happens once a start has timed out.
* `worker_process` (three kinds of app): whoever waits for a worker is told
  (`PromiseIsSettled`), a process that `kill` was called for or that was given
  up ends, and its log is closed (`ProcessEnds`); the log of a worker that was in
  use from its launch to its end is kept, whether it crashed, was shut down or was
  ended (`LogKept`). More cannot be said: that of one that nobody used for a while may
  be deleted though it crashed (`MCWorkerStartLogs`). The worker
  implements `WorkerLife` (`ImplementsWorkerLife`): its promise is settled once,
  its entry leaves the table once, whichever of exit, timeout, failure and late
  answer comes first. In `StartInv`: a launch that fails leaves no log open
  (`ShinyStreamEnded`), no kill timer outlives the exit, when its pid may be
  another process's (`NoTimerOutlives`), and the stages of process, connection
  and entry fit together (`Settled`).

### The browser's connection

* `sock_proxy` (the composed system): web sockets belong to open channels that
  are counted (`SocketsAreCounted`), messages are passed on once and in order,
  early ones included (`MessagesPassedOn`), a channel is released in the step
  that closes it and no earlier (`ReleasedOnClose`). A proxied request is
  counted as long as it lasts (`RequestsAreCounted`, in `HttpInv`). When the
  worker fails to start or ends, all its clients are told (`EveryoneIsTold`):
  a response is over and its uses are given back, though error pages may fail
  and sockets break; a channel is closed. In `IInv`: nothing outlives the
  physical connection. `sock_proxy_leak` (`SockProxy` alone, one channel): but a
  channel may be acquired after it has closed, and be counted for ever.
* `robust` (three connections): a session implements `ReliableStream`
  (`ImplementsReliableStream`), only a disconnected one ends
  (`EndsOnlyIfDisconnected`), messages leave the buffers in the end
  (`EventuallyDiscarded`), which they do when they have arrived. In `Inv`: what the other side
  lacks is still in the buffer (`NothingDiscardedEarly`), no handshake fails
  (`NoProtocolErrors`), only an ended session is refused
  (`RefusedOnlyIfEnded`).

### The server and its configuration

* `config_reload`: no signal is lost (`NoLostReload`), an older configuration
  never replaces a newer one (`NeverOlder`), router, listeners and SockJS
  handler are of one configuration (`OneConfiguration`), listeners that stay
  are not disturbed and only conflicts refuse an address
  (`ListenersUndisturbed`). In `Inv`, for the listeners under reloads: the
  table holds what listens (`TableHoldsListeners`), which is what was
  configured (`ListensAsConfigured`).
* `configuration`: a text is accepted if and only if it is well-formed, and the
  first character that cannot come where it is, is the position of the error
  (`SyntaxChecked`); directives, arguments and blocks are those that were
  written, however they are quoted, escaped, commented and separated, and
  servers and locations are made of what is in their own blocks
  (`ParsedAsWritten`); what the schema accepts conforms to the rules
  and what conforms is accepted, in whatever order it is written
  (`SchemaEnforced`). Of the servers that come out: nested locations have
  precedence (`InnermostFirst`), and a request is answered by a server meant for
  it, and by one if any has an answer (`NoneSkipped`). In `ConfigurationInv`: the
  lexer knows where it is, the directives are in pre-order, there is always a
  router that is next, accepted servers tie only if they write one address or one
  name in two ways (`TiesAreAliases`), which happens, and then the earlier answers
  (`TiesInFileOrder`).
  `routing_order`: the best server does not always come first.
* `directory_lookup`: the outermost app on the path answers
  (`OutermostAnswers`) and an app that is there all the time is not missed
  (`NoAppMissed`), whatever changes meanwhile. In `Inv`: one redirection is
  enough (`RedirectedOnce`).
* `local_config` (all hosting models): touching
  `restart.txt` takes effect with the next request whatever is cached
  (`RestartTakesEffect`). In `Inv`: a scheduler is registered under the key it
  will announce (`IdentifiedBySpec`), and one with a worker is registered, unless a
  scheduler of the same key has given up a worker, whose late exit may have taken it
  out (`BusyReachable`, which `registry_vacancy` shows to need the exception). In an
  app_dir both are said only for as long as the file is not edited and the server not
  reloaded (`SettingsStay`): `MCLocalConfigShared` shows what comes of sharing the
  settings. An app runs as the user meant for it, whoever was routed before
  (`RunsAsMeant`).

Deadlock is not checked in runs where the system may really come to rest:
all clients gone and the worker ended, all requests answered, or the server
exited.

### Bounds, and why they are enough

* Two requests and three connections against a limit of two sessions
  (WorkerSessions): they fill the limit, exceed it by a client that is refused,
  and leave one that can claim what another reserved. The queue of release
  timers reaches two, the smallest length with a wrong order.
* `Apps = 2`, `Schedulers = 3`, `Workers = 3` (SchedulerRegistry): two apps
  are needed for mixing them up; the third scheduler and worker let one app go
  through a replacement while the other is in use. `MaxClients = 1`: the
  counters are the subject of `WorkerSessions`.
* Each element of `Requests`, `Conns`, `Schedulers` and `Workers` is used at
  most once: they are objects the server allocates.
* One attempt before the timeout's, one client after the first, three idle
  timeouts and one shutdown (WorkerStart): an attempt may be answered before
  and after the next, the process, the timeout and the answer may come in any
  order, and a second kill finds the timer of the first, before or after the
  pid was announced. The bound on idle timeouts is above what the clients can
  cause (`WorkerStartAssumption`), so that none is hidden. Three kinds of app:
  run by another user through `su`, in Python by the same user with its logs
  kept, and refused. The disagreements of section 4 use all settings.
* One channel with two messages and one request (ProxySystem): both kinds of
  clients with a worker that fails at any step; two messages have an order.
  Two channels have no state in common but the connection, and the proofs hold
  for any number of both. One channel is enough for the leak.
* Three connections, one message of the client and two of the server
  (RobustSockJS): a connection that is replaced while another attempt is under
  way, and a resumption of the resumption, with messages that have an order.
  Connections are used in the order of their numbers, which name them only.
* Ten listeners, five versions of the file, three signals (ConfigReload): an
  address that is closed and opened again while the first listener still has
  connections; a list with a host that its successor's wildcard excludes, one
  with a duplicate, one with a port out of range in the middle, an invalid
  file and one that ends the process; one signal each during the reading of the file, the application, and
  the load that waits.
* All texts of up to three of the twelve kinds of characters, up to six of those
  for blocks, five of those for quotes and four of those for line ends and
  comments; every directive at every depth with the arguments that fit and
  those that do not; locations with every pair of hosting models and settings;
  documents in several spellings (Configuration). The directives and servers that
  all but the short texts were made of are known, and the assumption
  `TextsSayWhatWasWritten` of the MC module compares `WellFormed`,
  `DirectivesIn` and `ServersIn` with them: the reference that properties and
  proofs use says of those texts what was meant.
  Every state of the lexer occurs with every character after it, and every rule
  with a file that keeps and one that breaks it.
* All pairs of servers over three hosts (both wildcards and an address) and three
  sets of names (none, one, and one more that is the first with a capital), with
  locations nested three deep: as documents of Configuration, in `configuration` and, those
  that are accepted, in `routing_order`.
* URLs of three segments over trees of two levels, one change (DirectoryLookup):
  a file or directory that appears or goes between `stat` and `readdir`, or
  between two candidates.
* Two requests, four versions of `.shiny_app.conf`, one touch, one reload
  (LocalConfig): one request's look-up under way while the other finds its
  promise in the cache, and one that precedes the edit. Eight locations of all
  hosting models: the special name alone, first and last in the list, an empty list
  and none; an owner inside and outside the groups; a request for the owner's app,
  for another user's and for that of the special name. With two requests a late exit
  may delete its replacement's registration, but nobody is left to be harmed by it: that
  is seen in `registry_vacancy`, and the theorem is for any number.

The proofs need none of these bounds except `MaxClients` (any positive
number), finiteness of `Requests` and `Conns`, and bounds that are numbers.

### Fairness

Safety properties need none, and `registry` and the runs of the configuration
and the routers assume none. Node's event loop runs every callback that is due,
so weak fairness of handlers and timers is justified by the platform; what else
is assumed is this.

`worker_sessions` assumes weak fairness of the timers, of the handlers of
events that have happened (launch, poll, exit), of a browser ending its
response and its connection some day, and of a process that has been signalled
ending. That browsers leave is an assumption about the users, without which an
app in use is rightly kept; that a process obeys a signal is the operating
system's side of the bargain (SIGTERM follows SIGINT; `WorkerProcess` has the
details). A process that has not been signalled is not assumed to end, a launch
or the first answer of an app is not assumed to succeed.

* `worker_process` (`StartFairness`): SIGTERM ends a process, which SIGINT need
  not; `su` hands SIGTERM on to its child, and ends when its child has ended;
  the steps of a launch end one way or the other, timers fire, exit and
  end-of-file events are handled; a client that was told of a failure leaves.
  Nothing makes a worker listen, accept or end by itself.
* `sock_proxy` (`SystemFairness`): callbacks of promises are called, routers
  answer, the read of a log's tail comes to an end, connections to a process
  that has ended break, and a socket on which nothing can move any more times
  out (`socketTimeout`). A browser need not go away, nor an app answer.
* `robust`: each end notices in the end that the other has left a
  connection (SockJS sends heartbeats), what was sent on a connection that
  stays open arrives, and the client goes on trying. There are finitely many
  connections, hence the exception for a client that has used them up.

## 4. Disagreements with the documentation

Each of these checks one sentence of a comment, a test or the documentation,
and TLC finds a counterexample in what the code does. The first three are runs
of the project, with the sentence quoted in `PROJECT.json` ("findings"). The
others can be reproduced with the configuration named, for the module whose
name it begins with; the comment of the property quotes the sentence.

| Run | Property | What happens |
|---|---|---|
| `registry_vacancy` | `OnlyVacantSchedulersDropped` | A worker whose start timed out exits late; its scheduler, replaced meanwhile, announces vacancy and the registry drops the replacement. |
| `sock_proxy_leak` | `ReleasedWithConn` | A channel that closes while its app is being looked up is acquired and never released: the worker is never idle again. |
| `routing_order` | `BestServerFirst` | The comparator returns a Boolean, so servers keep the order of the file instead of that of their scores. |

| Configuration | Property | What happens |
|---|---|---|
| `WorkerSessionsDocument` | `ReservationsWithinLimit` | The admission check looks at `/` and `ws` only, so pages of Markdown documents reserve sessions beyond the limit. |
| `WorkerSessionsOrphan` | `NoProcessRunsForever` | The browser leaves during a launch that is longer than the idle timeout; the timeout has no listener yet. If the start then times out, nobody ever ends the process. |
| `MCSchedulerRegistryKilled` | `NoTrafficToKilledWorkers` | Between the signal and the exit, requests are still given to the dying worker. |
| `MCSchedulerRegistryShutdown` | `NoWorkerOutlivesServer` | A worker that is still starting is not signalled and outlives the server. |
| `MCWorkerStartPython` | `StreamEnded` | If the Python interpreter cannot be used, the log stream stays open: a file descriptor per request. |
| `MCWorkerStartLogs` | `DeletedWasSuccessful` | The log of an idle worker is deleted although it crashed or was terminated. |
| `MCLocalConfigShared` | `KeysStay` | In an app_dir, merging a local configuration changes the settings, and with them the key, of schedulers that exist. |
| `MCLocalConfigFields` | `OnlyWhatIsFound` | A local configuration without `simple_scheduler` resets the location's limit to 100. |
| `MCDirectoryLookupLog` | `ForbiddenIsLog` | All of a user's apps whose names begin with `log` are forbidden. |
| `MCDirectoryLookupIndex` | `IndexIsThere` | A file such as `reindex.html` is served in lieu of a document. |
| `MCDirectoryLookupKeys` | `OneKeyPerApp` | `/app/`, `//app/` and an escaped spelling each get a worker of their own. |

One more needs no run of its own. The rules say of the directive `application`: "It
will be ignored" (shiny-server-rules.config:194); the code ends the process when
there is one (config-router.js:131-137), at a reload too, which otherwise goes on with
the old configuration when the new one cannot be used. The models have it (`Refuse`,
`LoadFails`).

## 5. The proofs

TLAPS proves 57 theorems, for every value of the constants that satisfies the
assumptions below. The eight proof modules have the same layout: lemmas on the
operators, a theorem on the inductive invariant from three facts (the initial
states, every step, and stuttering), and one theorem for each property that the
invariant implies or, for an action property, that the invariant and a step
imply. Every safety property of section 3 is the subject of one.

A recursive definition is reasoned about without induction theorems (their
parameter is an operator, which the provers cannot instantiate): a set of
numbers that is not empty has a least element (`NatLessThanWellFounded` and
`WFMin` of the library), so the least number at which something goes wrong
leads to a contradiction. The first thing proved so is that a function with the
recursive equation exists, without which `CHOOSE` says nothing about it.

**WorkerSessionsProofs**, from `SessionsAssumption` (`Requests` and `Conns`
finite, `MaxRequests` a natural number). The properties alone are not
inductive. What is added: `LifeCycle`, which ties together the promise of the
start, the process, the entry and the table (an idle timer is only armed for
an entry that is not closed, and so on); `QueueInOrder`, by which the queue of
release timers is in the order of their firing, whatever was cancelled;
`Doomed`, the stronger form of `UnusedWorkerIsDoomed`. Counters are related to
sets of clients by their cardinalities, so that a step of a proof is a lemma
on what adding or removing one client does to a cardinality and a lemma on what
an operator of `WorkerEntry` does to a counter. Proved:
`TypeCorrect` (no counter below zero), `AcquireReleaseMatch`,
`ReservationsAreBacked`, `SessionsLimited`, `TimersFireInOrder`,
`UnusedWorkersDoomed`, `IdleTimeoutIsSafe`, and `SessionPoolImplemented`, the
refinement of `SessionPool`: initial states map to initial ones, each action
to a step or a stutter.

**SchedulerRegistryProofs**, from `RegistryAssumption` (`None` is neither a
scheduler nor an app, `MaxClients` is positive). `IInv` joins the properties
with a `LifeCycle` of workers and schedulers; `WorkersReachable` is
conditional on no start having timed out, which the counterexample
`registry_vacancy` shows to be needed. The lemmas `TablesKept` and
`WorkerRemoved` say what the two kinds of steps, those that leave the tables
and those that take a worker out, preserve. Proved: `TypeCorrect`,
`TablesHoldLiveWorkers`, `OneWorkerEach`, `AppsIsolated`,
`WorkersAreReachable`, `ShutdownSignalsReadyWorkers`.

**ProxySystemProofs**, from `SockProxyAssumption`: any number of channels and
requests. Its first part is about `SockProxy` alone. There `IInv` is, for each
channel, `Stage` (how the table, the state of the channel and the web socket
hang together), `Accounting` (who is counted) and `Passing` (where the messages
are: in the queue until the web socket opens, passed on afterwards). A step of
one channel leaves the others as they are (`OtherChannel`), and the end of
several at once is `DestroyIInv`. Proved: `TypeCorrect`, `SocketsCounted`,
`MessagesArePassedOn`, `ConnTakesAllWithIt`, and `ReleasedWhenClosed`, by
which the step that closes a channel releases it. `sock_proxy_leak` shows why
it says no more: the acquisition may come after that step.

In the second part `SystemImplementsSockProxy` shows that a step of the
composition is a step of `SockProxy` or leaves its variables alone, so that
everything above holds in the composed system (`SystemChannels`).
`RequestsCounted` proves `HttpInv`; `RequestsAreCounted` is not inductive, since
it does not say what may still write to a response. `Progress` does: while the
handler waits nothing has been sent, an upstream request excludes an error page
under way, and two pages are under way only when the response is closed.
Together they give `ConnectionsCounted`: whatever is connected to the process is
counted, so that the idle timer cannot end it.

**RobustSockJSProofs**, from `RobustAssumption` (numbers of connections and
messages): `Inv` is inductive. Its parts are `Carries`, which says of a wire
that the data on it are those from one number to another, in order and without
a gap; `Acceptable` and `Complete` (what is on a wire that will be read is what
the other side waits for, and after a `CONTINUE` all that it lacks); `Registry`
and `Client` (who takes which connection for the session's); `Counted` and
`Underway`. With it `BufferedUntilReceived`, `NoHandshakeFails`,
`OnlyEndedSessionsRefuse` and, as an action property, `EndedOnlyIfDisconnected`.
`StreamsAreReliable` is the refinement of `ReliableStream`: an accepted message
is the next one, and all other steps stutter.

**WorkerStartProofs**, from the assumptions of `WorkerProcess` and
`WorkerStart`. `ProcessInvariant` is about the process alone: `Inv` with
`Stages` (which stage of the launch goes with which state of process, log and
promise). `StartInvariant` adds the start: `Settled` ties promise, entry,
connection and exit together, `Counted` bounds attempts and clients.
`StartImplementsProcess` carries the former over to the latter, and
`WorkerLifeImplemented` is the refinement of `WorkerLife`, one lemma per step:
a late answer, a timeout and an exit all find the promise settled or settle it.
`LogsAreKept` takes the history of a worker that is always in use (`InUse`): by
`StartInv` its idle timer does not run while there are clients, so that no idle
timeout is heard of and `ExitHandled` has nothing to delete.

**ConfigurationProofs**, first part, from `ConfigFileAssumption`,
`RoutingAssumption` and `ConfigurationAssumption`: any documents, any rules that
have the form `ConfigSchemaRule` insists on and treat servers, their addresses
and names, locations and hosting models as those of the repository do, any
requests. `TypedInv` is the inductive invariant. What it rests on:

* `Inside` is a recursion towards the root of a tree whose nodes have greater
  numbers than their parents (`Tree`). `InsideStep` is its equation; that it is
  transitive (`InsideTransitive`), and that in pre-order nothing else comes
  between a node and what is inside it (`InsideInterval`), follow. So
  `PostOrder` is a strict total order (`PostOrderTotal`,
  `PostOrderTransitive`), and of any routers that are left one is first
  (`FirstExists`).
* The lexer's position: a token ends in the text (`TokenRead`; `QuotedWord` for
  the recursion over quoted words), and what
  `Advance` adds is what counting from the beginning of the text gives
  (`PositionKept`).
* The parser keeps the pre-order (`Appended`, `BlockEnds`), and the servers and
  locations made of a file that conforms keep it too (`ServerPlaced`): a
  location's parent is a location or the server, as the rules say.
* What `applySchema` finds one by one is what `Conforms` states of the whole
  (`NothingToComplain`): counting those before a directive, for each, is
  counting them all (`CountsConform`), required parameters are the first
  (`ArgumentsConform`), and one `precludes` of two hosting models is enough
  (`HostingModels`).
* Servers that have no key in common and the same score for a request have one
  address or name in two spellings (`TiedServers`), and what a router has answered
  does not change before the search is over (`OutcomesStay`, `EarlierDeclined`).

* The text has the structure that the parser finds. `TokenModes` says of each
  token in which modes of `ConfigText` its characters are (`TokenFits`): it
  begins where nothing quoted or commented goes on and, if it is not an error,
  is not empty and ends there; a quotation that the lexer finds no end of has
  none (`ReadingModes`, along the recursion of `Quoted`). Between two tokens
  (`Reading`) there has been no fault, a directive is open if the text has begun
  one, and of the braces as many are left open as there are blocks around the
  scope. This is the inductive invariant `SyntaxInv`, relative to `TypedInv`;
  from it the parser stops at the first fault of the text (`FaultAhead`), or at
  the end if there is none and nothing is unfinished.

* The tree is the one written. `TreeInv`, relative to `TypedInv` and
  `SyntaxInv`: between two tokens the directives are `DirectivesIn` of what has
  been read, and the scope is the directive before the last brace of the present
  depth (`TreeRead`). The steps rest on what one more word adds (`HeadAdded`,
  `ArgumentAdded`; `NoNewWords` for the other tokens), on the innermost open brace
  before and after a brace (`BlockOpens`, `BlockCloses`, `BlockQuiet`), on that
  of a place already passed staying what it was (`PlacesKept`), and on the
  recursion of `Quoted` spelling the word without its quotes and backslashes
  (`ReadingSpells`). Sets of positions are listed in order by their ranks
  (`AscendingIs`, `AscendingAppend`).
* The servers are those of the tree (`ServersAsWritten`), in a file that conforms
  to the rules and in which all servers listen. `getOne` finds what is in the
  block itself when there is something in it (`InheritedIs`), of which there is
  one at most (`OnlyOne`: maxcount is 1, or two hosting models would preclude
  each other); and the locations inside a server are those before the next
  directive in no block (`UpToTheNext`, from the pre-order).

Proved: `ConfigurationCorrect` (`ConfigurationInv`), `SyntaxIsChecked`,
`WhatIsWritten` (`ParsedAsWritten`), `SchemaIsEnforced`, `InnermostIsFirst`,
`NoneIsSkipped`.

**ConfigurationProofs**, second part, from `ConfigReloadAssumption`: any
versions of the file, any addresses, any number of signals. `Serialized` (one
load at a time, and one to come whenever the present one has read too early) and
`InOrder` (what is applied was read last) make `NoLostReload`, `NeverOlder` and
`OneConfiguration` inductive. The listeners are proved along the loop of
`setAddresses`: `OpenOneKeeps` is one address, `OpenAllKeeps` all of them, whose
goal (`OpenedFor`) says of each address that was passed that it is listened on
or was refused (`Decided`), for a cause. `ListenersSound`, the invariant of
`Listeners`, is kept by each of its actions whatever list they are called with
(`ListenersInOrder`), and with it follows the action property
`ListenersNotDisturbed`.

**LocalConfigProofs**, from `LocalConfigAssumption`. `TimesInv` says with which
version of the file each time stamp of `restart.txt` goes (`SameTime`), and that
what the cache has under a key of that time (`CacheTimes`), or a request has
found or waits for (`StageTimes`), is not older. A promise may be in the cache,
and waited for, before it is resolved: what is proved of it is conditional
(`AtLeast`), and `Read` resolves it with what is in the file then.
`RestartsTakeEffect` follows. `AppsRunAsMeant` rests on the lemma
`SquashedAsMeant`: the first name in the substituted list that is a user's has
the index of the first name in the location's that is meant. `LocalInvariant`
proves the whole of `Inv`, for all hosting models. That the settings of a scheduler
stay what they were is, where they are cloned, a matter of who holds which copy: a
request that is not yet served has one of its own, into which alone its local
configuration is merged; in an app_dir all share one, into which the
same is merged by every request as long as `SettingsStay`, which changes nothing
after the first (`MergeTwice`).

**DirectoryLookupProofs**, from `DirectoryLookupAssumption`, of which one
conjunct is about the world: in a file system what is there is in a directory.
Any number of requests, URLs of any length. The invariant is stated and proved
request by request (`Fits`), since requests share nothing but the files. The
candidates of a URL each extend the one before (`Extending`, by the recursion
that makes them). That the search ends where `fs.exists` finds nothing or
`readdir` a file is sound because of the tree: nothing further in has been there
all the time (`NothingBelow`). Proved: `LookupInOrder` (`Inv`),
`OutermostAppAnswers`, `NoAppIsMissed` and, by what a redirected URL looks like,
`RedirectedAtMostOnce`.

What is out of reach of the provers used here and is model-checked only:
everything under fairness (`WorkerLeavesTable`, `ReservationsExpire`,
`EventuallyDiscarded`, `EveryoneIsTold`, `PromiseIsSettled`, `ProcessEnds`).
That the definitions of `ConfigText` and `ServersIn` mean what they should is
checked on examples, in `MCConfiguration`.

## 6. What is not modelled

* Text, except that of configurations: formatting, logging, what error pages
  look like, the names of log files. A URL is one of the kinds the code tells
  apart.
* The file system and sockets: a look-up or a connection succeeds or fails.
* What happens inside a worker process (the R and Python adapters), except
  that it starts, answers, gets stuck or exits.
* WorkerSessions: a first answer of the app that arrives after its exit has been
  handled, and arms the idle timer of a closed entry. `WorkerStart` has it
  (`Connected`): the promise is settled and the process gone.
* Fields that are only reported (`dump`, statistics).
* SockProxy: a rejection of `getAppSpec_p` other than a refusal (an uncaught
  exception), the wording of alerts and the choice of close codes.
* HttpProxy: the gzip filter, and a custom 404 template that is broken when the
  directory of the app has gone: `sendPage` then throws in a callback where
  nobody catches it (http.js:213), which ends the server.
* WorkerStart: `app_idle_timeout` of 0, and the lengths of the intervals of
  `connectEndpoint_p`, of which only the order of attempts is left.
* ConfigFile: the reading of the schema's own file; the default values and the
  conversion of parameters to anything but valid or not, except where
  `createRouter_p` branches on them.
* SchedulerRegistry takes one key per app for granted; `LocalConfig` and
  `DirectoryLookup` show when there are more.
* Routing: the package send, of which the model has what its use with and without a
  response shows; a file of a single app that cannot be read after it was announced.
* DirectoryLookup: SockJS requests, the content of directory indexes.
* LocalConfig: PAM and group look-ups, whose answer is an input.
* ConfigReload: errors of the access log's stream.
* WorkerProcess: a log to `/dev/null`, the `error` event of `spawn`, how the
  command line and the worker's input are made.

Components without a module, and why:

* Native add-on and launcher: thin wrappers of system calls.
* R and Python adapters: they run inside the worker, behind the endpoint.

## 7. The order of the modules, and what may follow

The modules were written in this order, the most important behaviour first:
`WorkerEntry`, `WorkerSessions`, `SessionPool`, `SchedulerRegistry` and their
proofs (the core); `SockProxy`, `RobustSockJS`, `ReliableStream` (what a browser
sees); `Listeners`, `ConfigReload` (the server); `Routing`, `LocalConfig`,
`DirectoryLookup` (the right app); `WorkerProcess` (its process); then
`ConfigFile`, `ConfigText` and `Configuration` (the file), `WorkerStart` and
`WorkerLife` (the start), `HttpProxy` and `ProxySystem` (the composition), the
users in `LocalConfig`, and the proofs of the last five.

What may follow: the listing of a directory and `dump()`; the counters of
`WorkerSessions` in `ProxySystem`, which would join admission and the end of a
worker.
