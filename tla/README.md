# A verification project for camoufox-go

camoufox-go is a Go SDK that downloads the Camoufox browser, computes a
fingerprint for it, starts it, and drives it over Firefox's Juggler protocol: a
JSON-RPC over two pipes, one in each direction. One goroutine of the SDK reads
the browser's messages; any number of the user's goroutines call operations; the
browser acts by itself. What is hard to get right is where those three meet, and
that is what is modelled first; the launch of the browser, the caches it is started
from and the configuration it is given follow.

The TLA+ here is translated from the Go sources. TLC checks small instances of
it, TLAPS proves the theorems of the eight modules named `...Proofs` for every instance.
`PROJECT.json` maps each definition to the lines it stands for and lists the
runs, the mutants (a plausible bug for every property, which the property must
catch), the hazards and the findings.

## The system

| Part | State | Operations | Interacts through |
|---|---|---|---|
| Juggler client (`juggler/`) | `nextID`, `pending`, one channel per call, `done`, `writeMu`, the two pipes | `Call`, `Send`, `Subscribe`, `Close`, `readLoop` | pipes; event handlers called on the `readLoop` goroutine; `done` |
| Browser (`camoufox.go`, `events.go`, `context.go`) | `pages` by session, `attached` by target, `attachWaiters` | `Launch`, `NewPage`, `NewContext`, `Pages`, `OnPopup`, `Close`; handlers `onAttached`, `onDetached` | `b.mu`; one-place channels to waiting `NewPage`s; a goroutine per popup |
| Page: navigation (`page.go`, `nav.go`, `waits.go`, `net.go`) | `navWaiters`, `url`, lifecycle flags, `mainNavID`, `mainNavReqID`, `lastResponse`, `inflight` | `Goto`, `Reload`, `GoBack`, `GoForward`, `WaitForLoadState`, `WaitForURL`, `URL`; a handler per event | `p.mu`; one-place channels to waiting `Goto`s |
| Page: frames and contexts (`page.go`, `frames.go`, `handle.go`, `locator.go`) | `frames`, `frameCtx`, `mainFrameID`, `execCtx`, `readyCh` | `Evaluate`, `Frames`, `BoundingBox`, element handles, locators | contexts read under `p.mu`, used in a later call |
| Interception, init scripts, dialogs (`route.go`, `initscript.go`, `dialog.go`) | `routes`, `interceptEnabled`, `initScripts`, `dialogHandler`, `Route.handled` | `Route`, `Continue`, `Abort`, `Fulfill`, `AddInitScript`, `OnDialog` | goroutines started by handlers |
| Process (`launch/`, `camoufox.go`) | child process, temporary profile, Xvfb, `stopped` | `Start`, `Stop`, `StartXvfb`, `Kill`, the retry in `Launch` | process exit, timers |
| Browser cache (`fetch/`) | install directories, `<version>.tmp`, flag file, `config.json`, `version.json` | `Fetch`, `ExecPath`, `InstalledVersion`, `ListAvailable`, `Remove` | the file system, shared with other processes |
| Addon and GeoIP caches (`addons/`, `geoip/`) | directories and database files written in place | `Resolve`, `downloadMMDB` | the file system |
| Configuration (`config/`, `launchopts.go`) | the config map | `applyLaunchOptions`, `EnvVars`, `Merge` | environment of the child |
| Fingerprint, locale, fonts, WebGL | none (embedded tables, a seed) | `Generate`, `Sample`, ... | none |
| Input, storage, screenshots | none in the client | one or a few `Call`s each | the client; the document they act on |
| Emulation, CLI | none | one `Call` each; flags | the client |

The behaviours that are hard, and what makes each part correct:

* **Client.** Replies come in any order, late, or never; a caller can leave at any
  moment through three arms of one `select`; the write has no timeout; handlers
  share the goroutine that delivers replies. Correct: a call gets its own reply,
  `readLoop` never blocks on a delivery, the table does not leak, events are
  handled before the replies that follow them, and every wait ends.
* **Navigation.** `Goto` lists a waiter, calls, and only then learns which
  navigation it is waiting for; the events of that navigation may all have been
  handled by then, and so may those of other navigations. Correct: no handler
  blocks on a waiter, only the right documents release it, a loaded document
  always does, and the cached state (URL, flags, response, in-flight requests)
  agrees with the browser once the pipe is drained.
* **Targets.** The reply of `Browser.newPage` and the attach event race, pages
  close at any time, a waiter may leave. Correct: no lost wake-up, no page for the
  wrong caller, no entry left behind, only usable pages handed out.
* **Operations on a document.** An operation is up to seven calls with nothing held
  in between, and what a call names (a context, a frame, an element, a point) is
  what was known when it was sent. Correct: the page's contexts and frames are the
  document's once its events are handled; an operation nobody disturbs acts on its
  element; every operation returns.
* **Hooks.** Routes, init scripts and dialogs are a lock, a snapshot, and calls from
  another goroutine after the unlock. Correct: the first matching route decides a
  request, exactly once; no script is lost without an overtaking; no request or
  dialog is left hanging.
* **Launch.** Any step may fail after earlier ones acquired a profile, a process, pipe
  ends or a display; closes run concurrently; the browser may hang. Correct: nothing
  is left, the browser owns its profile while it lives, everybody returns, and the
  browser reads the configuration that the options ask for.
* **Caches.** Crashes between two writes; steps that fail, some of them without the code
  saying so; two processes in one directory. Correct: what is handed out or reused is
  whole, and leftovers never stand in a later run's way. Each exception is named.

The list of hazards, each with its line and its properties, is in `PROJECT.json`.

## Modules

| Module | Models |
|---|---|
| `RpcCalls` | what the client promises, abstractly: a call is opened once and finished once; an answer only if the browser served that call, "closed" only if the client is down; with fairness, every opened call finishes |
| `JugglerClient` | `juggler.Client` on a `PipeTransport` |
| `JugglerClientProofs` | its theorems |
| `PageNav` | the navigation of one page |
| `PageNavProofs` | its theorems about single steps and waiters |
| `PageSettlesProofs` | its theorems about what holds once the pipe is drained |
| `BrowserTargets` | how pages come and go |
| `BrowserTargetsProofs` | its theorems |
| `PageOps` | execution contexts, frames, and the operations on a document |
| `PageOpsProofs` | its theorems |
| `PageHooks` | routes, init scripts, dialog and console handlers |
| `PageHooksProofs` | its theorems |
| `LaunchConfig` | the config map, layer by layer, and the variables that carry it (operators only) |
| `Launch` | `camoufox.Launch`, `launch.Start` and `Stop`, `Browser.Close` |
| `LaunchProofs` | theorems of both |
| `Releases` | the order of versions and the scan of a release listing (operators only) |
| `Installer` | what the browser cache promises, without files: an install appears whole in one step, and stays until its removal is asked for |
| `BrowserCache` | `fetch.Fetch` and `Remove`, `addons.Resolve`, `geoip.Resolve` on one directory |
| `BrowserCacheProofs` | its theorems |
| `MC...` | the small instances TLC runs |

The modules compose along what each promises. `JugglerClient` establishes that events
are handled in order before the replies behind them (`EventsBeforeReply`), that
a call gets its own reply (`OwnReply`) and that a call ends (`WaitEnds`); `PageNav`,
`BrowserTargets`, `PageOps` and `PageHooks` take their wire and their `Call`s to be
like that, and `Launch` its handshake. `Launch` extends `LaunchConfig` and puts its
text into the environment; `MCBrowserCache` feeds `BrowserCache` from `Releases`.

### JugglerClient

A process is one execution of `Call` or `Send`. Its `pc` walks through the code:
`register` (the entry goes into `pending`), `lock` and `write`
(`PipeTransport.Send`: marshal, take `writeMu`, write), `wait` (the `select`),
`cleanup` (`delete(pending, id)` on the failing paths) and `returned`, with
`outcome` telling which arm it left by. Each critical section and each channel
operation is one step. `readLoop` is the variable `rl` with the message in its
hands: `receive`, then `deliver` (between the look-up under `pendingMu` and
`ch <- msg`) or `handler`, until `ended`. An event's handlers are one state that
lasts as long as a call made by a handler does: the calls in `Inline` are made
there. The pipe to the browser has a capacity and blocks the writer that holds
`writeMu`; the pipe from the browser includes the reader's buffer, so it has no
bound of its own (the browser has at most one reply per request and `MaxEvents`
events to write). `Close` is two steps, `done` and then the transport. The browser
reads requests in order, answers each at most once, in any order, or never, emits
events, and may exit at any time; what it had written stays readable.

The history variables are `served` and the fields `for` and `after` of a reply
(whose request it answers, how many events were written before it). No guard of the
client reads them.

Left out: params that do not marshal (Call returns before it does anything), the
handler table (all subscriptions precede the first event the code cares about),
logging, and replies the browser was not asked for. The reply's payload is not
distinguished from an error reply: `Call` treats both alike up to the last line.

`JugglerClient!KeepsPromise` is `RpcCalls` under the mapping `AbsCall`: idle is
new, returned is the outcome, everything else is open; a failed marshal or write
and an expired context are both "failed"; `down` is `done`. `KeepsFullPromise` adds
the fairness of `RpcCalls`.

### PageNav

`wire` is the pipe from the browser: a sequence of events and of the replies to
`Page.navigate`. A handler runs under `p.mu` on the `readLoop` goroutine, so it is
one step that takes the head of the wire. The reply only fills `reply[g]`, as it
fills the channel of the `Call`; the Goto's own goroutine goes on in later steps
(`CallReturns`, `PinNavID`, then the `select`), and that gap is where the
interesting schedules are. That events are handled before a later reply is what
`JugglerClient` establishes (`EventsBeforeReply`). A waiter is named by the `Goto`
that made it: `navWaiters`, `committed`, `navID` and `slot` are the list and the
fields of `navWaiter`.

`historyGo` is four steps: the first read (which may fail: the code ignores the
error), `history.go`, the poll that sees another URL, and the assignment of
`p.url`. Its evaluations are answered behind earlier events, so they read the
browser on an empty wire; the assignment happens later, with anything in between.

The browser is external: it starts navigations of the main frame or of a child
frame, on request or by itself, one pending navigation per frame; a real document has
a request, a response and a commit, about:blank just a commit; a navigation may be
aborted before it commits; the document shown becomes ready and then loaded, two events
with anything in between, another document included. A
history navigation shows a committed document again and sends no navigation
events, which is what the comments in `nav.go` report of this build.

Left out: time (`lastNetwork`), request interception, subresource requests.
The start of `Goto`, `waitReady`, belongs to `BrowserTargets`.

### BrowserTargets

`newPageIn` step by step, up to the three-armed selects of `waitAttach` and
`waitReady`; `onAttached`, `onDetached` and the two handlers that make a page
ready; the goroutine of a popup. `onAttached` sends on the waiter's channel after
the unlock; the channel was made for this one send and nobody else can see it, so
both are one step. The browser opens a page for a request or fails it, opens
popups from open pages, attaches, reports frame and context events in any order,
detaches, or exits.

### PageOps

`Program` gives the calls of each operation: `Locator.Check`, for instance, is
resolve, checked, scroll, quads, move, down, up. An execution is at one of them, in
phase `go` (about to send), `sent`, `answered` or `done`; `Send` reads
`page.execCtx` or `page.frameCtx` and puts it into the request, `Serve` is the browser
acting on it, and `Handle` is `readLoop`, which keeps `page` from the events and wakes
the caller. Between any two the page may navigate (`Navigate`: the contexts of the
new document are reported before or after the commit), shift its layout, move the
focus, and gain or lose a child frame. Any call may be refused (`Refuse`), which stands for
every answer the client takes for an error: the browser's own, an exception thrown by the
evaluated text, an element without content quads, a frame without owner. A mouse event lands on the element only if the
measured box is still the element's; a key lands if the element has the focus. A
selector matches one element, which is a check box that takes text.

`disturbed`, `landed` and `good` are history; a refused call counts as a disturbance of its
operation. `FrameBox` is `Frame.BoundingBox` on a
frame found by its URL; the wait for a missing context inside `frameContext` (one
second at most) is left out, the call fails then.

### PageHooks

Every goroutine (of a `Route`, an `AddInitScript`, an intercepted request, the
dialog) has a list of calls to make and makes them one after the other over an ordered
pipe; replies come back on the wire with the events. `Route`, `AddInitScript` and the
event handlers are the critical sections. Init scripts are read under the lock and sent
after it: the goroutine is in `send` in between, where another may overtake it.
Intercepted requests are decided by a goroutine per request. A console handler runs on
`readLoop` and may stall it until its own call times out. The browser holds a request
when interception is on, and refuses a second decision; it may refuse any other call too
(`Refuse`: `Abort` with an error code it does not know), and a call may fail to be sent
(`SendFails`). A decision counts as made all the same, because `handled` is set before the
call, and nothing falls back on `Continue`: a request whose decisions have all failed stays
held, and a dialog open. The properties except exactly that (`refused`, `AllRefused`).

### Launch and LaunchConfig

Launch walks `options`, `display`, `profile`, `prefs`, `env`, `pipes`, `exec`, `enable`,
`proxy`, each with its way to fail, to `open` or, through `next` and a second attempt, to
`failed`. Stop is `lock`, `send`, `wait`, `reap`, `client`, `remove`, `unlock` for whoever runs
it, Launch after a failed handshake or any number of `Close` calls; `cleanup` is
`Xvfb.Kill`. What a process holds is explicit: `child`, `ends` (the pipe's ends in
this process), `dirs` (temporary profiles), `xvfb`. Removing a profile may fail without
anybody being told: it is then in `kept`. A killed browser dies; one that is not may
hang for ever, and it may stop reading its pipe until that is `full`: the write of
`Browser.close` then waits (`Hung`), before the timer and under the mutex, until the browser
reads again or is gone. An Xvfb that stays silent is killed and not waited for
(xvfb.go:96): the state "killed" is that unreaped child, which `NothingLeaks` excepts.

`LaunchConfig` represents a value of the config map by who gave it (the map that is laid
over, "base", be it a generated fingerprint or the caller's own; GeoIP; the user; the WebGL
sample), which is what precedence is about, and keys that are always
set together by one key. `applyLaunchOptions` is a function of the options and the map,
with one result for each outcome of the WebGL sample; `EnvVars` cuts the text, whose runes
stand for key-value pairs here, in the canonical order of the keys; `buildEnv` lays the
variables between those inherited and `Options.Env`, and takes none out. `Givers` in `Launch`
says independently who should give each key, and `Overruled` names the keys for which the
code decides otherwise.

### BrowserCache and Releases

`disk` is a set of entries, each a file of a place. RemoveAll, extraction and the writes are
entry by entry, so a crash, or another process, may come anywhere; a truncating write
is two steps. A step that writes or removes may fail. Where the code looks at the error it
goes on with the next repository or returns it; where it drops it (the two RemoveAlls, the
removals of `.tmp`, chmod, the flag, config.json) it goes on as if the step had been done:
`WipeGivesUp`, `RemoveOldGivesUp`, `ClearTmpGivesUp`, `ChmodExecFails`, `TouchFlagFails`,
`WriteConfigFails`, `UndoAddonGivesUp`. os.Rename refuses a directory as its target.

`cut` remembers what a crash or such a failure has left half done: a place, or one of the three
marks `Mode(v)` (v was not made executable), `Active(v)` (config.json was not made to name v)
and `FlagMark` (the flag was not written, or a wipe gave up). The properties name what is in
`cut` as their exceptions, and nothing else. `hurt` is the processes whose Fetch or Remove
network or disk has failed. `served` is the versions that a Fetch has returned.

`InstallsAtOnce` is `Installer` under the mapping at the end of the module, for processes that
follow one another. An install is absent when its directory is, "spoilt" when it is in `cut`,
whole when every file and `version.json` are there, and torn otherwise; a version is active when
`config.json` names it; `promised` is `served`; `marked` is the flag; `leave` is the version a
`Replace` or a `Remove` is about, and `made` the one that has been renamed into place and not yet
returned. Of the steps of a Fetch that replaces nothing five show: the rename is `Install`,
the flag is `Mark`, truncating `config.json` is `Deactivate`, returning is
`HandOut`, and what the wipe unlinks is `Empty`, which `Installer` allows only in a cache without
the mark. `HandOut` needs the mark and makes the version active, unless this very operation was
`hurt`; a dropped error is `Fail`, which may spoil what was being removed and nothing else.
`Withdraw`, one entry of a removal, is the only other way to lose an install. If the flag is
not written, or an error of the extraction not looked at, the mapping fails.

`Releases` computes in int64 arithmetic on four limbs, as Go's wraps. It feeds `BrowserCache` the
version a listing leads to; no property is about the order itself, which is luck (see below).

## Runs

| Run | Instance | Shows |
|---|---|---|
| `ClientSafety` | two Calls, a Send, a pipe for one request, one event; symmetric in the calls; 1.5 million states | own replies, answerability of waiting calls, no leak, events first, implements `RpcCalls` |
| `ClientLive` | a Call and a Call inside a handler, neither with a deadline; fair | waits end, `done` and `Close` release everyone, the handler's call is never answered, `RpcCalls` with fairness |
| `NavWaiters` | two Gotos to a real document, two navigations, three kinds of origin; symmetric; 3.4 million states | what may release a waiter, what must, and that no handler blocks |
| `NavSettles` | a Goto, a history navigation, main and child frame, a pipe of two messages; 5.6 million states | cached page state agrees with the browser when all events are handled |
| `Targets` | one `newPageIn`, two targets that are its page, a popup, or its opener; fair; 256 thousand states | usable pages, no lost wake-up, no leak, settled maps, return |
| `PageOps` | each operation alone while the page does what it likes, and four pairs on one element; two documents, one shift; fair; 456 thousand states | the page knows its document, undisturbed operations act on their element, all return |
| `Hooks` | two overlapping routes and two requests; three init scripts; or a route, a request, a dialog and a console message; sends that fail and refusals; fair; 288 thousand states | the right route decides, scripts settle, nothing is left waiting |
| `Cache` | one process after another, one version, one addon, with crashes and failures anywhere, also unreported ones; 1.1 million states | fetched installs are ready, the active one and reused files whole, nothing stuck, implements `Installer` |
| `Launch` | the options layered over a preset, a used and a full map, ten sets of inherited and extra variables, each way to run; two Closes; fair; 108 thousand states | nothing leaks, profiles are owned, the configuration arrives, all return |
| `ClientDeadline`, `NavBlank`, `CacheShared` | one property each | disagreements between the code and what it says of itself, below |

**Why the bounds are enough.** `PipeCap` = 1 is what makes a writer block; two
calls and a send are the smallest system with a blocked writer, one behind its lock and one
waiting for a reply, and the smallest in which a shared id could be noticed. One
event suffices to be before or after a reply. Two navigations give a target
and an intruder. A pipe of two messages lets the wire hold the batch of a step and
a reply behind or before it; a longer one delays handlers further but they are
delayed without limit already, since a handler step is never forced. Two targets
are a page and its popup. In `PageOps` two documents give a stale context, frame and
element, one shift a stale box; `MaxShifts` and `MaxDocs` are the guards' only bounds. In
`Hooks` a third script can be added after two that overtook each other; the second of two routes matches what the first does, so order
counts. In `Cache` an archive is its executable alone (`Others` is empty): a half written
directory is then one without it; a second version adds only `config.json` naming another,
which `FetchedIsReady` excepts. `BoundedSpec` lets the cache hold an addon or a database but not both, which meet nowhere
but in the wipe; it bounds nothing else, and the theorems have no such bound. In `Launch` a chunk
holds three of thirteen keys, so a map is one to five variables with and without a short last
one; inherited variables are those of numbers 1, 1 and 2, 1 to 3, or 2 and 9, under a map of two
variables, so that one set is overwritten, one is joined, and one is out of reach. Two attempts
are the code's limit. Deadlock is not checked anywhere: the systems stop when every execution has
returned and the browser is quiet or gone.

**Fairness.** Weak fairness of a goroutine's next step is the Go scheduler's
promise. `LockWriter` has strong fairness: the lock is free again and again, and
`sync.Mutex` hands itself to a starving waiter. Timers fire: every `Call` has a
deadline (`DefaultCallTimeout`), every operation of a Browser or Page has one from
`opCtx`. Nothing is assumed of the browser, except, by name, in
`KeepsFullPromise`, which needs it to go on reading its pipe (`BrowserFairness`);
`ClientDeadline` shows that this assumption is not a convenience. In `PageOps` and
`PageHooks` the deadline of a call passes (`Elapse`, `ConsoleTimesOut`); in `PageHooks` the
browser serves or refuses the requests it has read, because nothing the client does can decide a
request that the browser will not look at, and in `PageOps` it need not. In `Launch` code
runs on, a killed process dies, and `WF(StopStep)` includes the five-second timer; `SF(Send)` is
that a write goes through when there is room in the pipe again and again. In `JugglerClient`
`readLoop` takes what there is to read, but a message that does not unmarshal may end it at any
time: that is a step without fairness.
`BrowserCache` has no liveness property: its loops are over finite lists.

## Findings

* **A deadline does not bound a Call** (`ClientDeadline`). The comment on
  `DefaultCallTimeout` says it does. The write in `PipeTransport.Send` looks at no
  context, so a browser that stops reading a full pipe holds the caller, and every
  later caller at `writeMu`, until somebody closes the client.
* **Goto("about:blank") can wait in vain** (`NavBlank`): the commit is handled before the
  id is pinned, and the rule for that time excludes about:blank.
* **Two processes can publish a torn install** (`CacheShared`): the comment promises an atomic
  install from a temporary directory, but the directory is the same for every process
  that fetches the version, and a process that finds no flag wipes the whole cache.

Met while modelling, in the modules, and without a run of their own: before the navigation
id is known any commit of a real document releases a Goto (page.go:207, against
page.go:73); `Response.URL` is copied from `Page.url` before the commit that
changes it (page.go:320); `historyGo` may assign the URL it polled after a newer commit
(nav.go:62); after an enabling call that failed, later `Route`s return nil although
interception is off (route.go:38); of two concurrent `AddInitScript` calls
the shorter list may be sent last (initscript.go:22); two concurrent `Check`s may toggle a box
twice (handle.go:211); a Route whose decision the browser refuses leaves the request held, since
`handled` is set before the call (route.go:73).

In the launch: an inherited `CAMOU_CONFIG_k` with the number after the last chunk's is joined to
the text, which is then no JSON (launch.go:134-139, against config.go:41-43: joining the chunks
yields the original); a forced WebGL pair does not replace the pair
of the map (launchopts.go:159-161, against camoufox.go:100-101), and is dropped when the map names no
OS; GeoIP's script survives a locale of the user's without one (launchopts.go:119); with a hung
browser and a full pipe every `Close` waits for ever under `p.mu`, before the timer
(launch.go:171); a profile whose removal fails stays without a word (launch.go:91, 113, 121, 186); a silent
Xvfb is killed and never waited for (xvfb.go:91, 96).

In the caches: `parseVersion` multiplies the first component by 20001^4, which overflows int64 for
every build there is, so the order of builds is luck ('rc.1' packs above '1'), and the comment's
base 100000 and clamping (fetch.go:150-152) are not what the code does (174-181); Fetch drops the
errors of the wipe (699), of the removal of the old install (735) and of `.tmp` (740), of chmod (771), of the flag (775-778) and of
config.json (787), and returns success; a crash in the middle of a removal leaves a directory
without `version.json`, over which every later Fetch without Replace fails, because os.Rename
refuses it (764).

## Proofs

`JugglerClientProofs` proves, for every set of calls and sends, every capacity and
every number of events, from the two named assumptions on the constants only:

1. `TypeCorrect`: `TypeOK`. Self-inductive; the phases of `readLoop` in it are
   used everywhere.
2. The executions' ids are distinct and handed out (`IdsDistinct`), so a message's id
   identifies its execution; every request and reply on its way carries the id of the
   execution it belongs to (`WireInv`); every reply that left the wire is with its
   call (`HandInv`). `ReplyIsOwn` follows. It is not inductive without the
   three: a late reply to a call that gave up is only harmless because no later
   call can have its id.
3. A call whose reply was looked up is no longer in `pending` (`SlotInv`), so a
   second reply cannot find it: `DeliveryNeverBlocks`, that `ch <- msg` always
   finds the slot empty.
4. `PendingDoesNotLeak`: with these, each return path but the one for a closed
   client has removed the entry.
5. Events are numbered in the order of the pipe (`EventOrderInv`) and each event
   written before a reply is handled, in a handler, or ahead of it on the wire
   (`BeforeReplyInv`): `HandlersFirst`.
6. `ClientRefinesRpcCalls`: each step maps to a step of `RpcCalls` or leaves
   its state alone; the answered case needs that a reply in a channel is of a call
   the browser served (`HandInv`).
7. `InlineCallsFail`: while a call made by a handler waits, `readLoop` is in that handler, so
   no step delivers its reply. `WaitersAnswerable`: a request goes into the pipe after its
   entry into `pending`, and what leaves one queue enters the next; that the reply's
   look-up takes the entry of this call and no other is `IdsDistinct` again.

`BrowserTargetsProofs` does the same for every set of openers and targets (the run
has one opener), again from the two named assumptions only:

1. `TargetsTypeCorrect`: `TypeOK`.
2. An opener's channel is registered under, filled with and read for the target
   of its own reply (`ChannelInv`), because the reply cannot change once it has
   been received: `OwnPageReturned`. With it, every way out of `waitAttach` but the
   one for a closed browser removes the right entry: `WaitersDoNotLeak`.
3. A target is promised to one opener, in the browser, on the wire or in the
   opener's hands, and is in use by then (`OnePromise`). So no opener overwrites or
   deletes another's entry in `attachWaiters`, which is a map with one channel per
   target, and who waits with an empty channel is registered (`RegisteredInv`).
   Then `onAttached` cannot miss it: `NoLostWakeup`. Without `OnePromise` the
   property is false; it is where the code relies on the browser.
4. A page is ready only when it has both its frame and its context, and stays so
   (`UsableInv`): `PagesAreUsable`.
5. `PagesCatchUp`: `PagesSettle`. On the wire the attach of a page is in front of its detach
   (`InOrder`), and the last of the two, or the maps when there is none, agrees with the
   browser (`LifeInv`). The two maps are equal throughout.

`PageNavProofs` proves, for every set of Gotos, history navigations and URLs, any bound on
the browser's navigations and any size of pipe (from `NavAssumption`, and from
`NoneAssumption`: "no value" and "the request failed" are not values that a waiter's channel or a reply carries):

1. `NavInvariant`: `IInv`. An event on the pipe, and the document a frame shows, is a
   navigation that was started (`WireInv`), so the handlers' types are kept
   (`NavTypeCorrect`); the browser's steps only append, and what was started keeps its
   URL (`UrlsKept`), which is all that the client's half needs of them (`BrowserStep`). A Goto
   that has not begun has left no trace (`FreshInv`).
2. `HandlersNeverBlock`: `ListedIsWaiting`, inductive with `FreshInv`: `onEventFired` and
   `onNavigationAborted` fill a channel and take its waiter off the list in one hold of
   `Page.mu`, so the next handler cannot find it again.
3. `ReleaseNeedsCommit`: `ReleasedByCommit`. It needs `CommitInv`: a commit that satisfied
   a waiter stays the right one, because the id is pinned only while `committed` is unset
   (page.go:430-436). Without that guard a late reply would rebind a waiter that an earlier commit
   has already satisfied.

`PageSettlesProofs` goes on from `IInv`. `PageSettles` and `RealLoadReleases` speak of an empty
pipe, so what is inductive is about the messages still in it (`SettleInv`). Every handler
moves them one place to the front and the browser appends one or two; a part of the invariant that
says nothing else of a step is carried by a lemma on such shifts.

1. `ShownInv`, `ResponseInv`: a shown document is committed; the document request and its
   response belong to the current navigation, which is why `onNavigationStarted` resets both.
2. `NetInv`: a request is announced before it is done and is in flight in between, one by one for all
   navigations. With an empty pipe, `inflight` is the browser's pending requests.
3. `FrameInv`: the last commit on its way to a frame is that of the document it shows, or the
   cached URL is right already; behind it come the load events of that document, as far as
   it has got. "Behind" matters: a load event of an older document is undone by the
   reset in `onNavigationCommitted`. History navigations are excepted, as in `PageSettles`.
4. `OwnInv`: a `Goto` has at most one navigation, to its own URL, and every id it hears is of
   that one. `WaitInv`: a `Goto` that waits is listed, the commit of its document has
   satisfied it or is on its way, and the load event comes behind. A commit that is
   handled early counts by the URL rule of page.go:207, which is false of about:blank: the
   theorem has that hypothesis, and `NavBlank` shows what is without it.
5. `PageCatchesUp` and `LoadEventReleases` follow with the pipe empty.

`PageHooksProofs` proves, for any routes, requests, adders, dialogs, patterns and handlers, from
`HooksAssumption` (the four kinds of goroutine are distinct, and "no route" is not one):

1. `HooksTypeCorrect`: with `ProcsInv` and `QueuesInv`, what each goroutine may ask for, in
   its hands, in the pipe, and in the reply.
2. `RoutesDecide`: `RouteDecides`. The first route's call has turned interception on if it
   returned well (`EnableInv`; a later `Route` makes no call, so it rests on the first one's); a
   request is announced once and gets one goroutine (`OnceInv`); until it is decided, the
   first decision in the pipe from its goroutine is the one its route asks for (`DecideInv`),
   unless that very call has been refused or could not be sent (`Tried`). The handler's second
   decision is behind the first, and the browser refuses it.
3. `ScriptsArrive`: `ScriptsSettle`. Every list that was snapshot is a beginning of the
   page's (`ScriptsInv`), and as long as nobody has overtaken, the last one in the pipe,
   or in the hands of the only sender, is the newest (`NewestInv`), or it was refused or not
   sent (`ListRefused`).

`PageOpsProofs` proves, for any operations in any number, any plans, any number of documents
and of layout changes, from two assumptions on the constants (`PageAssumption`; "none" is not
a value):

1. `OpsTypeCorrect`: `TypeOK`, with what makes it inductive (`TypesInv`): an operation is at a
   call of its program, an answer has been given where one is read, and the first event
   handled is the attach of the main frame. The programs are concatenations, so they are written
   out once (`Programs`), and what the other proofs need to know of the order of calls is
   stated of all of them (`Shapes`): what names an element comes after it was found, a button is
   released after it was pressed, at a box measured after the scroll.
2. `KnowsDocument`: `KnowsTheDocument` speaks of the moment when no event is left, so what is
   inductive is about the events still under way (`DocInv`): the last one about a frame's context
   says the context the frame has now, and when there is none Page has it; the same for the
   frames. It holds in either order of commit and contexts.
3. `UndisturbedOps`: `UndisturbedSucceeds`. At most one request or one answer of an operation is
   out, and it is for the call the operation is at (`RequestInv`): a late answer to an earlier call
   would be taken for this one's. Then (`SmoothInv`), while an operation is undisturbed: no
   event about the main context is under way, nor the end of a frame it may look up
   (`HeardAll`), so what `Send` puts into a request is the document's, and stays so (`NamesRight`);
   what its calls did is still there, because every call of another operation that could undo it
   disturbs (`HasEffect`); and an answer says what is still so (`IsAnswered`). `Check` needs
   the last: it toggles because of an answer given some calls ago. At the end the three give `good`.

`BrowserCacheProofs` proves, for any versions, addons and files:

1. `CacheTypeCorrect`, `TypeOK` for any number of processes at the same time, with `JobOfStep` (each step
   finds the local variables it reads). No run checks this `TypeOK`: the theorem covers them all.
2. `FetchReady`, `ReuseWhole`, `ActiveWhole` and `NeverStuck`, under `OneAtATime`: processes
   follow one another. This is the hypothesis the code needs, as the finding `CacheShared` shows;
   crashes and failures stay unrestricted, unreported ones included, and what each of them costs is
   named by the properties (`cut`). The invariant `OneIInv` says that a directory's entry outlives
   its files (`DirInv`), so that "the directory is there" is what the code may test; what the
   running Fetch has made so far (`MadeInv`); that an install is whole, has its `version.json`, is
   executable and active, or is being removed, or was cut (`InstInv`); that a cache with a returned
   install has the flag, so that no later Fetch wipes it, unless the write of the flag failed
   (`FlagInv`, `Unmarked`: between the rename and the flag is the window where a crash costs a wipe,
   and no install has been returned yet); and that the place of a new install is free, or half
   removed, or was unreadable to this very Fetch (`RoomInv`): in the last two cases the rename is
   refused, and the Fetch fails with the install in `cut` or itself in `hurt`.

   Two exceptions of `FetchedIsReady` came out of the attempt to prove it: config.json names one
   version for all, so while it is rewritten, and after a crash in
   the middle of that, ExecPath finds none of them.
3. `CacheImplementsInstaller`, under `OneAtATime` too: one lemma for each step that shows
   (`Begins`, `Withdraws`, `Empties`, `Installs`, `Completes`, `HandsOutFound`, `HandsOutMade`,
   `HandsOutUnnamed`, `Refuses`, `Finishes`, `Dies`), one for each way a failure shows or does not
   (`FetchFails`, `GivesUp`, `RemoveRefuses`, and `Fails` and `Spoils` under them), and two for the
   steps that do not show (`FetchStutters`, `OthersStutter`). The rename makes an absent or a spoilt
   install whole because its place is free (`RoomInv`) and what is extracted is complete (`MadeInv`);
   the wipe is allowed because it begins in a cache without the flag and nothing writes the flag
   before it has ended (`FlagInv`); a found install may be handed out from a marked cache
   (`FlagInv`) because one that is not being removed and not cut is whole (`InstInv`). A crash maps
   to `Die`, which spoils only what was being removed. The mapping needs one fact that no other
   proof asked for: only a Fetch with `Replace` comes to the removal of the old install (`JobOfStep`).

`LaunchProofs` proves, for every set of closers, every set of options and every chunk
size, from the named assumptions (the options are options; Launch is not one of the closers):

1. `LaunchInvariant`: `IInv`, four parts on top of `TypeOK`. Only the last attempt has
   anything (`AttemptInv`, without which a third process could appear unnoticed and `TypeOK`
   is not inductive); one actor at a time is inside Stop, nobody is through before it, and no
   Close begins unless Launch is open (`LockInv`); what exists of the last attempt at each
   stage, where a profile that could not be removed is one of `kept` (`StageInv`); the display
   (`DisplayInv`). `NothingLeaks` alone is not inductive: that a
   second Close finds nothing to do rests on `stopped` implying a clean attempt
   whenever nobody is inside Stop.
2. `LaunchTypeCorrect`, `ProfileIsOwned`, `NothingIsLeft` follow.
3. `ChunksHoldText`: every rune of the text is in the variable, at the place, where joining
   finds it. It rests on two lemmas about division by an arbitrary chunk size.
4. `TextArrives`: joining the variables of the child's environment gives back the text, whatever
   its length. `Decode` is a recursive function, so this is an induction. The library's induction
   theorem takes a predicate, which the provers cannot instantiate; the lemma `Induction` is
   the same fact about a set of numbers, from the least element that a well-founded relation
   gives (`LeastNumber`), and `RecursionDefines` is the existence of the function that the
   recursive equation defines. Its hypothesis is that no inherited variable has the number that
   follows the last chunk's: then the join stops there, because the new variables replace those
   inherited and have no gap. Without it the code joins a stale variable to the text.
5. `LayersTakePrecedence`: after `applyLaunchOptions` each key but those in `Overruled` has the
   value of one of its `Givers`, for all options and all maps. `OptionsReachBrowser` is the invariant that says at which stage
   of which attempt the map, then the environment, is that of the options, and
   `ConfigReachesBrowser`, `ConfigArrives`, follows from 4, 5 and it.

The proof of 5 found a slip of the model: the address that WebRTC is given was a CASE with
overlapping arms, of which TLC takes the first and a proof may take either.

Liveness, and so the fairness half of `RpcCalls`, is model-checked only:
ENABLED is out of the prover's reach. Every safety property of the passing runs has its theorem, and so has
each of the two refinements.

## Not modelled

* Fingerprint, locale, font and WebGL sampling beyond what they give the config map:
  sequential functions of a seed and embedded tables, without state.
* Emulation and the command line: one call, or none, and no state in the client.
* HTTP, archives and YAML as formats; the lookup in a GeoIP database; Firefox
  preferences; drags, double clicks, cookies and files written to disk in `PageOps`.
* Time as a quantity: `lastNetwork` of `WaitForNetworkIdle`, poll intervals.
* The data race on `Client.Log` (camoufox.go:292 against client.go:139): a logging hook.
* A browser of the first run that exits and leaves a successor process (camoufox.go:247-249): it
  would hold the profile unknown to Stop, so `BrowserOwnsProfile` is not about it.
* A cache directory that cannot be listed, or a flag that cannot be looked for, when Fetch checks
  for an older layout.
* More than one document request in a navigation: the guard of page.go:280, by which only the
  first counts, is in the model and always true there.

## Plan

What would come next, in this order:

1. `scanReleases` and `ListAvailable` give the same first build for every listing, which needs
   `Releases` restated with recursive functions, and an order of builds that is one.
2. A navigation whose document request is redirected, in `PageNav`.
