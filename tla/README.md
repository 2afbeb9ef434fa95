# A TLA+ model of PANAPI

PANAPI is a TAPS-like networking API for Go. An application that dials over
QUIC/SCION can leave the choice of SCION paths to a daemon: every packet asks
the daemon for a path over a Unix socket, and a Lua script in the daemon decides
with the help of QUIC telemetry that travels over the same socket. This
directory models that machinery, checks it with TLC and proves its main
invariants with TLAPS.

## The system

| Part | State | Operations | Hard because |
| --- | --- | --- | --- |
| `cmd/daemon/bandwidth.lua` | a dozen global tables: fingerprints per remote, path table, user count, measurements per fingerprint, preferences and fingerprint in use per local address | `Initialize`, `SetPreferences`, `Path`, `PathDown`, `Refresh`, `Close`, `Periodic`, `stats.*` | every handler changes several tables by hand; connections share all of them; a handler may raise half way |
| `lua/selector.go` | one mutex, a map from remotes to Lua tables and one from Lua tables to pan paths | one handler per script function, a ticker goroutine | replaces tables the script still holds; holds the mutex while the script runs |
| `rpc/selector.go`, client | the preferences, the two addresses, a map from fingerprint to path | the `pan.Selector` interface; every method is a blocking RPC | called from several goroutines, no lock; an error ends the process |
| `rpc/selector.go`, server | a map from connection to selector (fallback without a script) | one handler per call | net/rpc runs each request in its own goroutine, no lock |
| `rpc/connection_tracer.go`, `rpc/tracer.go` | the addresses of the session, the shared RPC client | one RPC per QUIC event | the process ends on any error; gob drops zero values |
| `lua/stats.go` | none of its own (the Lua state) | one handler per event | handlers that are missing or dereference nil; all wait for the mutex the selector's handlers take |
| `cmd/daemon/main.go` | the listening socket | start, stop by signal, fallback | stops with requests under way |
| `cmd/daemon/simpledemo.lua`, `demo.lua`, `pathselection.lua`, `selector_with_stats.lua` | a ranked list of path tables per remote; the demos also the preferences of each connection | as `bandwidth.lua` | all connections to a remote share its list; some handlers end the daemon |
| `taps/`, `pkg/` | `Preconnection`, listeners, connections | `Listen`, `Initiate`, `Accept`, `Close`, `SetPreferences`, `Satisfy` | a listener shares one `Preconnection` with all its connections; `Accept` waits for the peer's first data |
| `examples/` | one accept loop, one worker per connection at either end | accept, read, write, close | a worker ends only when reading or writing fails |

The parts interact like this. `Preconnection.Initiate` calls the protocol, which
dials with a `SelectorClient`. Package `pan` calls that selector from its own
goroutines: `Initialize` while dialling, `Path` for every packet, `Refresh` from
the pool that renews paths, `PathDown` from the reader of SCMP messages, `Close`
when the connection is closed. Each becomes a request to `SelectorServer` in the
daemon, which calls `LuaSelector` (with a script) or `serverSelector` (without).
quic-go calls the tracers, whose requests reach `Stats`, on the same Lua state
and under the same mutex as the selector. `SelectorClient` and the tracers of a
process share one `rpc.Client`; `SelectorClient.Close` closes it.

What makes the parts correct:

- the script's bookkeeping agrees with itself across all handlers and
  connections: counts are exact, nothing refers to a path that is gone;
- a connection that is open is answered, with a path it knows, and its calls
  return;
- one connection's failures, refreshes and close do not break another one;
- the script hears of every session in order, and reporting does no harm;
- a server accepts every client, serves each once and is rid of those that are
  gone.

## Modules

| Module | Models | Extends |
| --- | --- | --- |
| `LuaPaths` | the maps of `lua/selector.go` between remotes, Lua tables and pan paths | |
| `BandwidthScript` | the tables of `bandwidth.lua`, one operator per handler | `LuaPaths` |
| `LuaSelector` | `lua/selector.go`: when handlers run, mutex, what errors do to clients | `BandwidthScript` |
| `RankingSelector` | `lua/selector.go` with one of the four ranking scripts | `LuaPaths` |
| `PathService` | abstract: what path selection over RPC promises a connection | |
| `SelectorRPC` | client and fallback server of `rpc/selector.go`, calls in flight | (instantiates `PathService`) |
| `TracerRPC` | `rpc/connection_tracer.go`, `rpc/tracer.go`, `lua/stats.go` | |
| `Taps` | `taps/preconnection.go`, the three transports and the three programs under `examples/` | |
| `MCLuaSelector`, `MCRankingSelector`, `MCSelectorRPC`, `MCTracerRPC`, `MCTaps` | constants and symmetry for TLC | the module of the name |
| `LuaSelectorProofs`, `RankingSelectorProofs`, `SelectorRPCProofs`, `TracerRPCProofs`, `TapsProofs` | theorems and proofs | the module of the name, `TLAPS` |
| `SelectorRPCRefinement` | proof that `SelectorRPC` implements `PathService` | `SelectorRPCProofs` |
| `TapsStandoffProofs` | proofs of `NoStandoff` and `ServedOnce` | `TapsProofs` |

`LuaSelector` composes the script with the Go code that calls it: each of its
actions is a whole request, from taking the mutex to the reply, because the
mutex makes it atomic. The exception is the recursion in `Path`: `PathGone`
takes the mutex for good, `RecurseAgain` and `RecurseReturns` are one level of
the recursion each. A client is a local address; requests, its one `Close`
among them, may be handled after its `Close` was and after its process is gone
(they were under way): a connection is `closed` when only its `Close` was
handled, `lost` or `killed` when only its process is gone, and `ended` when both
are true. With `Reuse` the address may be used again; a `Close` still under way
at that moment is left out. With `Foreign` a
connection reports failed paths that lead to another remote too: the handler
takes any fingerprint, and pan tells all connections of a process.

`SelectorRPC` has the finer grain its races need: a call of a goroutine is
written into the client's map (`Store`), looked up (`Lookup`), given a selector
(`Make`, `Enter`), applied (`Apply`), deleted (`Delete`) and returned
(`Return`), all separate steps. A fingerprint is not yet a path: `Path` looks the
answer up in the client's map (`PathOf`), where `PathDown` has left nil. `live`
is what the map has a path for, and `reported` remembers what the program has
said is down and has not been offered since. Two goroutines inside one Go map of which one
writes are undefined behaviour: the step may simply go on, or the runtime ends
the process (`ClientRace`, `ServerRace`). `DefaultSelector` is external: what
`pan.DefaultSelector` does with the paths it is given; on a `PathDown` it may
leave a path that is not the one named, because pan also compares the interface
that failed. The handlers' answer `ErrDeref` to a request without addresses or
fingerprint cannot occur: `SelectorClient` sends all of them.

`PathService` is the specification a program would like to rely on: one path
object per connection from `Initialize` to `Close`, on which every call takes
effect at one moment between its invocation and its return. `Path` returns the
path that was current then, unless the program has said by the time of the return
that this path is down and has not been offered it again (`hidden`): then it
returns nil. What a call says of its paths counts from a moment of its own
(`Note`). The specification also says what it does not
promise: after `Close` an answer means nothing, and a process may end when its
service has ended, when its connection is closed under a call or when two calls
meet in the client's map. `SelectorRPC` implements it under the refinement
mapping at its end (`Service`): a call that writes the map is called until
`Store`, a call is pending until `Apply` and done after it, `reported` is what is
hidden, and the object is the selector the daemon's map has for the connection. The
reader of `Promise` learns what `Refresh` and `PathDown` do to the current path.

`RankingSelector` has a script for a variable: which of the four is loaded is
chosen in `Init`, and the handlers differ where the scripts do (whether
preferences are kept, whether a scavenger is given the last path of the list,
what `Close` forgets, whether `Refresh` ends the daemon). The sort is by hops
and expiry, so a list may come in any order. `top` counts the values
`LuaSelector.Close` leaves on the interpreter's stack. A function needs so much
room on it (`Needs`, any positive numbers), so that one may no longer fit while another
still does; `Initialize` and `Refresh` then raise after Go has replaced the
tables, before the script has stored what it was given or after. After an
`Initialize` that failed its client makes no call, because it has ended.

`Taps` follows a server and its clients. A `Preconnection` has an identity,
because the code passes pointers: the application's own, and the copy `Listen`
makes for each listener. `Accept` is two steps (`AcceptSession`,
`AcceptStream`/`AcceptFails`), because the second one waits for the peer. A
worker is a position in the list of reads and writes of its program, repeated
until one of them fails (`Fail`, `Leave`). quic-go is external: a stream shows at the server with
its first data, closing a session drops what has not been read, and a session on
which nothing moves is closed by the idle timer.

`TracerRPC` reports a session's events over a connection that is up, torn (the
header of a request that broke off is in the buffer), draining (the server has
met garbage and finishes what came before) or down. That net/rpc does this is
external; that the code drops the error of the torn request is not. Serving a
request is two steps: `ConnectionTracerServer` checks it (`Handle`), and the
handler of `Stats` gets the Lua mutex, calls the script and gives it back
(`Tell`). In between it waits, and if the script's `Path` recurses forever
(`Spin`, which `lua_recover` shows to happen) it waits until the daemon ends
(`stuck`). Events are kept in the classes the daemon tells apart: those with a
pointer to dereference by name, the rest as `Plain`. `Plain` events also follow
`ClosedConnection`, because quic-go reports the packet that closes a connection
after its end. `said` records what a tracer was called with and `seen` what the
script was told. `StartedConnection` asserts the type of its addresses; the
tracer is only given to QUIC over SCION, whose addresses are of that type.

Abstractions. Measured values (RTT, bandwidth, bytes, ticks) are reduced to
whether there is one: a ranking by value may put any path first, while the
rankings by user count and by "never used" are exact. A path table is its
fingerprint, its remote and the call that made it; the call matters because
tables are compared by identity. The expiry, metadata and interfaces of a path
and the fields of an event are passed through and never looked at. Formatting
and logging are left out.

Definitions whose comment begins with "Faulty variant" are not part of the
model. They are versions of the definition that follows with a plausible bug,
and each property is known to fail when one of them takes its place.

## Runs

Every run finishes within a few minutes with two workers.

| Run | Instance | Shows |
| --- | --- | --- |
| `lua_one` | 2 addresses, reused; 1 remote; 2 paths; 3 path sets (474,314 states) | `LoadCount`, `OpenPathSucceeds`, `NeverSpins`, types |
| `lua_shared` | 2 addresses; 2 remotes that share a path; 2 path sets per remote; foreign `PathDown` (1,289,466 states) | `LoadCount`, `PinnedKnown`, `StatsKnown`, `MapsAgree`, `StaleIffFlushed`, `PinListed` |
| `ranking_scripts` | 3 addresses; 2 remotes that share a path; 2 path sets per remote; 2 scripts; stack of 2 (728,429 states) | `OpenPathSucceeds`, `AnswersResolve`, `DownAvoided`, `ScavengerApart`, types |
| `rpc_calls` | 1 connection, all goroutines, 2 paths (205,793 states) | `NilOnlyIfReported`, `InitializedAnswers`, `ImplementsService`, types |
| `rpc_close` | 1 connection, all goroutines, 1 path, fairness (72,069 states) | `CallsReturn` |
| `tracer_shared` | 2 dialled sessions, zero values, stray packets, the daemon may stop, its Lua mutex may be held for good, fairness (386,878 states) | `InOrder`, `NamedOnceStarted`, `NothingLost`, `ReportsReturn`, types |
| `taps_serve` | QUIC; 1 listener, 2 addresses, 2 clients of up to 2 messages, each program; fairness (88,956 states) | `CopyIsolates`, `ServedOnce`, `NoStandoff`, `EventuallyAccepted`, `WorkersEnd`, types |
| `lua_refresh` | as `lua_shared` | violated: `Refresh` terminates its client |
| `lua_recover` | as `lua_shared`, fairness | violated: `Path` recurses forever with the mutex held |
| `lua_flushed` | as `lua_shared` | violated: an open connection is pinned to a flushed table |
| `tracer_stub` | a script without `stats.Close` | violated: the client ends when its session closes |
| `taps_tcp` | TCP, 1 client | violated: the first `Accept` dereferences nil |

The violated runs are disagreements between the code and what a comment, a test
or the documentation says; `PROJECT.json` quotes both sides.

Bounds and why they are enough. Two addresses and two paths let one connection
disturb another one's path; a third adds no table entry of a new kind, since
handlers touch one address and one path at a time. Two remotes that share one
path and each have one of their own (or not) is the smallest case in which
`PathDown` for one remote leaves another one's list behind. `MaxGen` bounds the
sets of paths a remote is given: with two, tables of the first set are stale;
`lua_one` has three so that an address is initialised, used, reused and
refreshed. One connection is enough for `SelectorRPC`: connections share nothing
but the map of selectors, under different keys, and the daemon, whose crash by a
race of another connection looks like `Stop`. `MaxSels` bounds the selectors
made for a connection: two are the one `Initialize` makes and one a late request
makes after `Close`; `rpc_close` allows one per goroutine, so that no call waits
for the bound. `MaxPlain` bounds the events between start and end of a session:
one of each kind, before or after the start, is what the daemon can tell apart.
`Slots` is two and the functions that store paths need two, the others one: the
first close leaves a stack on which `Initialize` and `Refresh` raise while `Path`
is answered, the second one fills it, and the third connection meets both. The
run has two of the four scripts, to keep it short: the model does not tell
`selector_with_stats` from `pathselection`, which differ in what they print, and
`demo` ends the daemon in `Refresh` like `pathselection`, treats scavengers like
`simpledemo`, and differs only in that it never forgets preferences. The theorems
are about all four. `Foreign` is off in
`lua_one`, whose one remote every path leads to, and in `lua_recover`, so that
the recursion is seen to need no foreign report. `Messages` is
two, so that a client can fall silent before its first message, between two and
after the last. A second listener would only meet the first in the application's
`Preconnection`; `Specify` changes that one while the listener is open. The
theorems below hold without these bounds.

`CHECK_DEADLOCK FALSE`: a process that has closed its connection or has ended
does nothing more, and a daemon that has ended takes no request.

Fairness. `CallsReturn` and `ReportsReturn` assume weak fairness of the steps of
each call: Go schedules a goroutine that can run, and every step of a handler is
such a goroutine's. The fallback daemon of `CallsReturn` takes no Lua mutex. In
`ReportsReturn` a handler that waits for it can run only while nobody holds it
for good, and Go's mutex does not starve a goroutine that waits; the property
excepts a mutex that is never given back, and says that nothing else keeps a
report from returning. Nothing is assumed of the network, of the application or of
quic-go, and no fairness makes the daemon stop or a race be noticed.
`PathReturns` is refuted although the end of the recursion is strongly fair.
`EventuallyAccepted` and `WorkersEnd` assume weak fairness of the server's
goroutines and of quic-go's idle timer, which runs on the server whatever the
peer does; nothing is assumed of a client.

What the runs show beyond the table. With `pathselection.lua` and
`selector_with_stats.lua` the close of one connection makes the next `Path` of
every other connection to that remote raise, which ends those processes:
`OpenPathSucceeds` of `RankingSelector` names that case, and the full stack, as
the only ones. A stack on which `Path` still fits and `Initialize` or `Refresh`
does not is another matter: the tables are flushed and the old list stays, so a
connection is answered with no path (`AnswersResolve` asks for the room of both,
`Roomy`). `NilOnlyIfReported` and `PathService` allow `Path` to return nil after
`PathDown`, and it does: the default selector may still answer with the path that
was reported, whose entry the client has set to nil. A server over QUIC can end
by itself in two ways the model has and no property excludes, `capacityseeker`'s
use of a connection before it has looked at the error and a listener with
preferences and no selector; no program of the repository gets there.
`InitializedAnswers` and `ImplementsService` hold as long as
`SetPreferences` is not called while `Initiate` runs (`Overlap`); with it,
`getSelector` can replace the initialised selector by an empty one.

## Proofs

`LuaSelectorProofs` proves, for any sets of addresses, remotes, paths and
profiles (the addresses finite) and any bound: `TypeOK`, `LoadCount`,
`PinnedKnown`, `StatsKnown`, `MapsAgree`, `StaleIffFlushed` and
`OpenPathSucceeds` outright;
`NeverSpins` if no two remotes share a path and no connection reports a path of
another remote; `PinListed` if local addresses are
not reused. The conditions are needed: `lua_recover` violates the first if a path
is shared, a report of another remote's path drops its table and leaves it
listed, and a reused address keeps its pin.

The inductive invariant `ScriptInv` is the conjunction of the type invariant and
the named properties with one strengthening: an open connection has preferences
and a remote (`OpenHasPrefs`), without which `OpenPathSucceeds` does not survive
a later `Initialize` that lists paths for a remote that had none. `LoadCount` is
preserved by a path change because the set of users of the new path gains one
element and that of the old one loses it (cardinality lemmas); `PathDown` resets
the count exactly because it unpins everyone. `SpinInv` adds that what is listed
for a remote leads to it (`ListedLeadsTo`), so that `PathDown` unlists a
fingerprint everywhere if remotes do not share; `PinInv` strengthens `PinListed`
to connections that are no longer open (`EveryPinListed`), because their late
requests still move pins. `StaleIffFlushed` joins the script's tables to the two
maps: `TableInv` adds to `MapsAgree` that a table the script keeps was made by
`set_paths` for that fingerprint, is no newer than its remote's latest set, and is
in the map if it belongs to that set (`KeptAreMade`). It says how far the finding
of `lua_flushed` reaches: whatever paths remotes share, a second set of paths for
a remote is the only thing that takes the path from a connection. That remotes
share no path does not help here, since the second set may be for the same remote.

`RankingSelectorProofs` proves `TypeOK`, `OpenPathSucceeds`, `AnswersResolve`,
`DownAvoided` and `ScavengerApart` outright, for any choice among the four
scripts, any addresses, remotes, paths, profiles and room on the stack; it is
assumed that a remote has finitely many paths at a time. All five follow from
one inductive invariant, `RankInv`, because they are about the same thing, the
list that the connections to a remote share. `Owned` says that the tables Go has
for a remote were made for it, which is what keeps a flush from touching another
remote's. `Listed` says that the list of a remote has one table per fingerprint,
that each is still known to Go as long as the functions that store paths fit on
the stack (`Roomy`: one that raises has flushed the old tables and may not have
replaced the list), and that none has
been reported down. `Opened` says that an open connection has a remote, and
preferences if the script keeps any, and that its list is missing only if another
connection to the remote was closed: the exception `OpenPathSucceeds` names has to
be part of the invariant, for every handler that could make or hide one. That a
list has no fingerprint twice carries most of the weight: `PathDown` removes the
first entry that matches, so with two the second would still be answered, and a
scavenger given the last entry would share a path with the first.

`SelectorRPCProofs` proves `TypeOK` and `NilOnlyIfReported` for any number of
connections, goroutines and paths. `NilOnlyIfReported` is not inductive:
`TrackInv` adds that whatever a selector has, a request that went out carries or
an answer names is in the client's map or reported down (`Tracked`), that it is
never both (`Apart`), and that a call past `getSelector` has a selector
(`HasObject`). The map is written before the request goes out, and a path leaves
it only by the program's own `PathDown`, which is what the proof comes down to.

`SelectorRPCRefinement` proves, for any number of connections, goroutines and
paths and as long as `SetPreferences` is not called during `Initiate`
(`~Overlap`, needed as said above), `InitializedAnswers` and the refinement
`ImplementsService`. Both rest on `RefInv`, which TLC also finds to hold on the
instance of `rpc_calls`. It adds to `TrackInv`, for each moment of a connection's
life, which calls there can be and which selector they have: while dialling,
`Initialize` is alone, finds no selector, and every selector is empty until it is
applied (`DialingInv`); while open, the selector in the map is an initialised one
and every handler that has looked up has that one (`OpenInv`), so that `Make`,
`Enter` and `Delete` cannot occur; `Initialize` and `Close` are made by one
goroutine each, at one moment of the life (`CallInv`). The step half has one
lemma per kind of action:

| Step of `SelectorRPC` | Step of `PathService` |
| --- | --- |
| the six that begin a call | `Invoke` |
| `Store` | `Note` |
| `Lookup`, `Make`, `Enter`, `Delete` | none: the program does not see them |
| `Apply` | `Effect`; `LateEffect` once `Close` has been called; none if the process is gone |
| `Return` | `Respond`; none if the process is gone |
| `FailReported` | `Error` |
| `FailFatal`, `ClientRace` | `Die` |
| `ServerRace`, `Stop` | `End` |

`Enter` is where the refinement could fail, because it replaces the object of the
connection: it stutters only because the selector it enters is as empty as none.
The abstract specification has no fairness, so the refinement is a safety
statement; that calls return is `CallsReturn`.

`TracerRPCProofs` proves `TypeOK`, `InOrder`, `NamedOnceStarted` and
`NothingLost` for any sessions, scripts and numbers of events. A step changes
the call, the stage and the record of one session at most, so the invariant
`TracerInv` is the type invariant and one `SessionInv` per session. None of the
three properties is inductive, because all of them are about reports that have
arrived and say nothing of one under way. `SessionInv` says that with no
unanswered report under way (`Settled`) the script has been told all that was
reported, and otherwise all but the report that is; that the reports carry names
from the start of the session on (`Named`); and that the tracer knows the names
exactly if the start was reported. What it comes down to is that a tracer method
waits for its reply before the next one starts.

It also proves when `NeverKilled` holds, the property `tracer_stub` violates: if
the script has `stats.Close`, no event carries a zero value behind a pointer, no
stray packet is reported, the daemon is not stopped, and a dialled session is the
only one of its process. TLC finds the process killed if any one of the five is
dropped. The invariant is `Unharmed`: a report under way is whole and is not lost
or refused, and the shared client is closed only when no session has anything
left to report.

`TapsProofs` proves `TypeOK` and `CopyIsolates` outright, for any number of
listeners, clients, addresses and messages and any transport. `TypeInv` adds to
the types that a goroutine past `AcceptSession` knows its peer. `ApiInv` adds
that a listener's `Preconnection` is the copy made for it (`OwnCopy`) and that a
goroutine that has left `Accept` works on that copy (`HasCopy`), so that what it
writes concerns its listener only.

`TapsStandoffProofs` proves `NoStandoff` and `ServedOnce` outright, for any number
of listeners, goroutines that accept on one, clients and messages. `StandInv` has two parts. A
session is in one place (`Places`): in one queue, once, or with one accept loop,
or with its worker, and nothing is there of a client that has not called
`Initiate`. And what is on the way follows from where the two workers are
(`Balance`): in `concurrent` each end is one message ahead between its write and
its read, in `pingpong` the server is one behind between its read and its write.
The first part is needed for the second, because a worker started twice for a
session would start over with messages under way. `ServedInv`, for `ServedOnce`,
has `Places` too and adds that a session that is up is somewhere (`Placed`) and
that a queue holds sessions made with its listener only (`QueuedVia`): without
the second a listener that closes would drop sessions it does not end.

Every invariant that a passing run checks is proved. Only model-checked: the
liveness properties `CallsReturn`, `ReportsReturn`, `EventuallyAccepted` and
`WorkersEnd`, which are out of reach of the prover.

## Not modelled, and the plan

Not modelled, with the reason:

- log files, profiling and qlog output, flags, formatting helpers and TLS set up
  (`pkg/convenience`, `debug`, the mains): no state that anything depends on;
- `internal/measured-appnet`: socket I/O no other package uses;
- `taps/enum.go`, `selection_properties.go`, `transport_properties.go`,
  `security.go`: enumerations and records; of them only three preferences are
  ever read, by `Satisfy`, whose refusal leaves everything as it was;
- `pkg/udp`: no program can choose it;
- `stats_scavenger.lua`, an earlier version of `bandwidth.lua`, and
  `simple.lua`, which answers with the first path it was given; the `stats`
  functions of the ranking scripts, which only print;
- the metadata of paths: a ranking script raises when it compares a path that
  has none, which is a matter of what pan delivers.

What is left to do: the checked invariants are proved, and two findings whose
cause is a constant of the model have a theorem that says when the property holds
(`NeverSpins`, from which the `PathReturns` of `lua_recover` follows, and
`NeverKilled`). `NoneKilled` has none, because `Refresh` fails whatever the
configuration; `PinnedResolves` has `StaleIffFlushed` in its place; `NeverPanics`
fails with the first connection over TCP, and over QUIC the two ways to end named
above are the constants and guards themselves. A later step is the composition of
the RPC selector with the ranking scripts' service, as far as TLC can hold both.
