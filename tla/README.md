# Specifications of yolo-jail

yolo-jail starts a container ("jail") per project directory and runs a coding
agent in it. Around the container stand Go programs that share files, sockets
and credentials: several `yolo` processes of one user run at the same time, each
with goroutines of its own, and they coordinate with nothing but advisory locks,
PID files, rendezvous sockets and the names podman knows. These modules specify
that coordination.

A module here models the code named in its head comment; `PROJECT.json` maps each
definition to the lines it stands for. Paths below are relative to `src/internal/`.

## 1. The system

| part | state it keeps | operations | who it meets |
|---|---|---|---|
| Launch (`cli/run`) | `locks/<cname>.lock`, `owners/<cname>`, the host-services directory with its endpoint files, the container of the name | reap orphans, attach or start, hand the lock back, stop on a signal, tear down | other launches of the same workspace; podman; the host-wide daemons it ensures |
| TTY proxy (`ttyproxy`) | the child's terminal, the suspend-key automaton | spawn, copy, suspend, signals | runs the launch's `onStarted` and `onTerminate` |
| Host-wide daemon lifecycle (`broker`) | per name: flock, PID file, socket | ensure, stop, restart, migrate | every launch; `yolo host-daemon` |
| Claude OAuth broker (`oauthbroker`, `oauthterminator`) | one shared `.credentials.json`, `refresh.lock` | refresh, cached, proxied login and its mirror, background refresh | a terminator in each jail; Anthropic |
| OpenAI auth broker (`openaiauth`, `openaiauthdaemon`) | `credentials.json` with a generation, `refresh.lock` | token, refresh with a marker, login, import, logout, proactive refresh | every jail, the private host socket, OpenAI |
| AWS credential broker (`awsauth*`, `awschain`) | one cache file of minted credentials by profile, the mint lock beside it | fetch, mint, proactive re-mint | adapters in jails; the `aws` CLI; other daemons on the same cache |
| In-jail supervisor (`supervisor`) | per daemon: process, policy, stop flags | spawn, publish, wait, restart, terminate | the container's PID 1 and its daemons |
| Service endpoints (`svcendpoint`, `hostservice`, `frameproto`) | published endpoint files, listeners, sessions | publish, handshake, serve, close | fronts of a launch, clients in a jail |
| Images (`image`, `prune`) | loaded images, tags, one pointer per workspace, the copy and the housekeeping lock | build, copy, tag, record, sweep | concurrent launches, `yolo prune` |
| Capture store (`capture`, `cli/capturehost.go`) | content-addressed entries with marker and receipts, staging directories, a lock per program | capture, admit, select, materialise, reap | launches, launchers in jails, `yolo prune` |
| Host apply (`cli/apply`, `hostapply`) | host files and an undo record | compare, write, prune | the user's editors |
| Wire bridge (`wirebridge`, `wirebridged`) | held ports, a lazily booted upstream | hold, boot, translate | agents in a jail |
| Packs, configuration, rendering | files read once per launch | load, merge, validate, render | the launch that reads them |
| Reports, platform backends, CLI | none that outlives a command | | |

`PROJECT.json` lists them one by one, the ones not modelled with the reason.

What is hard about them, and therefore what the properties are about:

* **Interleaving without a common lock.** A launch has three goroutines, and a
  workspace has any number of launches. Some of their steps run under the flock
  (the re-check, the directory, the owner file, the endpoint file) and some
  deliberately do not (the reap, the close of the fronts, the final
  `clearOwnerPID`). Stop and restart of a daemon take no lock while an ensure does.
* **Single-use tokens.** Anthropic and OpenAI rotate refresh tokens: a second
  presentation of one token can revoke the grant of every jail. The token is
  consumed upstream before its successor is in the file.
* **Death anywhere.** SIGKILL leaves the owner file, the PID file, the socket, the
  directory and the container; the kernel drops only the flock.
* **Answers applied late.** Answers leave after the unlock; ticks are decided before
  the lock; a container is invisible between its creation and its start.
* **Views that age.** A prune judges a store from one scan and acts on it entry by entry;
  an image sweep lists, asks who is running and removes, while launches go on; a cached
  credential gets older while a request waits for the lock.
* **Timeouts that are decisions**: the 5 s polls of a launch, the 5 s socket wait of
  an ensure, the 10 s last wait of the supervisor.
* **Nobody may wait for ever**: an early return that keeps a lock stops every jail.

Correctness, part by part:

* launch: one container per name; nothing is removed under a live jail; its files are
  its own; no jail without a launcher unless the launcher was killed or podman did not
  carry out a stop; no exit path keeps the flock.
* singleton: one live daemon per name, and one that status, stop and the fronts find.
* OAuth brokers: the token presented is the file's, once; generations and logins are
  not undone; a refused grant stays refused until a human replaces it; a due token is tried
  while there is a broker; a request ends.
* supervisor: what was started is signalled; policies hold across failures; a stop ends.
* capture store: what a launcher places is one whole program of one installer run; the
  prune leaves what the resolver would select; the store fills after any failure.
* AWS broker: one mint per cold cache, no credential of a foreign narrowing, no entry of
  another profile lost, a re-mint before the credential runs out.
* images: no sweep takes the image of a running jail, nor a launch's sweep one that a pointer it
  has read names; one launch copies at a time, and not what it could have seen; every launch gets
  past the two machine-wide locks.
* not modelled: an apply overwrites no file that changed since it was compared; the
  endpoint a jail reads always belongs to a listener that will answer.

## 2. Modules

| module | models | extends / uses |
|---|---|---|
| `OpenAIGrant` | the abstract promise of the OpenAI broker: one cell, five atomic changes | |
| `OpenAIAuth` | the broker under its flock, its daemon's handlers, deaths | refines `OpenAIGrant` by `INSTANCE ... WITH cell <- file` |
| `OpenAIAuthProofs` | eight theorems, among them the refinement | `OpenAIAuth`, `TLAPS` |
| `JailLaunch` | the launches of one workspace, podman as an external | |
| `JailLaunchProofs` | eight theorems | `JailLaunch`, `TLAPS` |
| `Supervisor` | `superviseOne`, `terminate` and `Run` | |
| `SupervisorProofs` | four theorems | `Supervisor`, `TLAPS` |
| `HostSingleton` | ensure, stop, restart of host-wide daemons | |
| `HostSingletonProofs` | four theorems | `HostSingleton`, `TLAPS` |
| `ClaudeCredential` | the abstract promise of the Claude broker: one cell, three atomic changes | |
| `OAuthRefresh` | the Claude broker over the shared credentials file | refines `ClaudeCredential` by `INSTANCE ... WITH cell <- Cell` |
| `OAuthRefreshProofs` | six theorems, among them the refinement | `OAuthRefresh`, `TLAPS` |
| `CaptureStore` | captures, the prune and the launchers of one machine's store | |
| `CaptureStoreProofs` | five theorems | `CaptureStore`, `TLAPS` |
| `AwsAuth` | `Fetch` and the tickers of several daemons on one cache | |
| `AwsAuthProofs` | five theorems | `AwsAuth`, `TLAPS` |
| `ImageStore` | launches and sweeps over one podman store | |
| `ImageStoreProofs` | five theorems | `ImageStore`, `TLAPS` |
| `MC*` | instances for TLC | the module named |

No module uses a RECURSIVE operator. The components meet through promises that one
module makes and another takes: `JailLaunch` takes the daemons it ensures as
working (`HostSingleton` is where that is earned), the brokers take "there may be two
broker processes for a while" as the rule (their sessions share nothing but the file
and the flock), and `HostSingleton` shows when there is one. `ImageStore` takes from
`JailLaunch` that a workspace has one launch at a time, and `CaptureStore` takes a launch as what
asks for captures.

### 2.1 OpenAIAuth (`openaiauth/broker.go`, `openaiauthdaemon/`)

A *session* is one request being served, of a jail (`Jails`), of the host user
(`Hosts`), or the goroutine `runProactive` (`Proactive`). `pc` goes
`idle -> [browser] -> wait -> held -> [upstream -> answered] -> reply -> idle`.
`file` is `credentials.json`: absent, unreadable, or a generation with its access token
`at`, refresh token `rt`, `loginRequired` and `due`. Token sets are numbers in order of
issue. `spent` is OpenAI's knowledge (the tokens it consumed) and `excused` is history:
spent tokens whose successor was lost to a death, a lost answer or a failed write, or that
a human imported again. `Import` takes a token set of its own or one that was `imported` before:
the broker cannot tell that an auth.json holds a token it has already redeemed, or one that was refused.

| action | code |
|---|---|
| `Token`, `RefreshView`, `StartLogin`, `LoginExchanged`, `LoginFails`, `Import`, `Logout` | `buildHandler`, `LoginFlow` |
| `ProactiveTick` | `runProactive`: decides without the lock |
| `Acquire`, `Finish` | `withLock` |
| `RefreshWithoutUpstream`, `RefreshRedeem` | `Refresh` up to the call: reload, compare the marker, answer or redeem |
| `UpstreamGrants`, `UpstreamRefuses`, `UpstreamFails` | `Upstream.exchange` and what it may have done upstream |
| `WriteRotated`, `WriteRejected`, `KeepAfterTransient` | the three outcomes after the call, the failing write included |
| `ReplaceWrite`, `LogoutRemove` | `Replace`, `Logout` |
| `Deliver` | the answer leaves after the unlock |
| `Die` | the daemon is killed; enabled in every state but `idle` |
| `Expire` | the access token comes within `RefreshLead` |

`OpenAIGrant` is what a reader of `broker.go` may rely on without knowing that it locks:
the file changes only by install, rotate, reject, remove and expire, each computed from
the value it replaces. The refinement is the statement that no interleaving and no
death makes a lost update.

### 2.2 JailLaunch (`cli/run`: `run.go`, `lifecycle.go`, `flock.go`, `loopholesruntime.go`)

A launch is a process with `pc[l]["main"]` (`runContainer`), `hook[l]` (the `onStarted`
goroutine that polls and hands the lock back) and `pc[l]["signal"]` (the goroutine that
runs `onTerminate`). Every launch runs once. `lock` records who holds the flock *and
through which descriptor*: `launch` for `runContainer`'s own, `main` or `signal` for the one a
teardown opens. That is how flock works (two descriptors of one process exclude each
other), and it is what decides several properties.

The container passes `none -> created -> running -> none`; podman (`Create`,
`Boot`, `JailEnds`) is external. `Relic` is an exited container of an unclean host
shutdown. `client[l]` is the `podman run` process of the launch. `dir`, `owner` and
`published` are the shared files; `front` is the set of launches whose fronts listen.

Each line of the table is one step another process can see:

| actions | code |
|---|---|
| `ReapLook`, `ReapStop`, `ReapClear` | `reapOrphanedJails`: read the owner, `podman stop`, remove the owner file; no lock |
| `Look` | attach if running, else go for the lock |
| `Acquire`, `RecheckAttach`, `RecheckFree` | `acquireWorkspaceLock` and the second look under it |
| `StaleGone`, `StaleRefused`, `AwaitAttach`, `AwaitExpires` | removal of a stale container; a half-started one is waited for |
| `Prepare`, `Refuse`, `Accept`, `WriteOwnerPID`, `StartLoopholes` | directory, pre-flight refusal, owner file, endpoint file |
| `Spawn`, `SpawnFails`, `OnStarted`, `ChildExited` | the TTY proxy and its hook |
| `Interrupt`, `StopJail`, `Disown`, `Unlock` | `onTerminate` |
| `StopFronts`, `GuardBusy`, `GuardTake`, `Probe`, `Retire`, `ClearOwnerPID` | `teardownAfterExit`: close the fronts, try the flock, probe, remove the directory, clear the owner |
| `Crash` | SIGKILL |

`StopContainer` is best effort like `stopJail`: podman may leave the container running, the result
is not looked at, and the owner file goes all the same. `unstopped` (jails that survived a stop) and
`disowned` (launches whose owner file another launch removed) are history.

Four constants choose the environment: `Slow` (the 5 s polls may expire while podman
still works), `Early` (a signal or a kill may come between the spawn and the first moment
the jail runs), `Hatch` (the provider-credential escape hatch is set) and `Mute` (podman may leave
a query unanswered, which `findRunningContainer` reads as "no such jail").

### 2.3 Supervisor (`supervisor/supervisor.go`)

Per daemon, `pc[d]` is `superviseOne` (`loop -> spawn -> publish -> wait -> backoff`, or `gone`),
`term[d]` is `terminate` and `run` is `Run`. The instant between `cmd.Start` and the
assignment of `c.cmd` under `c.mu` is a state of its own (`publish`): the process exists
and teardown cannot see it. `Publish` and `Claim` are the two critical sections of `c.mu`;
each looks at what the other wrote. `hit[d]` is the strongest signal that `terminate` sent. A
process may ignore SIGTERM but not SIGKILL. `SlowSpawn` lets a spawn outlast `Run`'s 10 s.

### 2.4 HostSingleton (`broker/brokerlifecycle.go`, `brokercmd.go`)

Callers (launches and management commands) run `BrokerSpawn` step by step under
the name's flock, or `BrokerKill` without it. What they know of a daemon is what the
code knows: the PID in a file and whether something accepts at a path. Daemon processes
are instances that are never reborn; a daemon is `starting` until its bind, which
unlinks the path first. `Migrates` names have the `PrepareLocked` hook that stops the old
daemon under the lock; only an ensure sets it (`cli/run/loopholesruntime.go:823`), so a restart
stops the old daemon before it takes the lock and never migrates. `Strays` models `RealPgrepStrays`, which matches one name only.

Two constants choose the environment: `SlowBind` (a daemon may bind after its launcher has
stopped waiting) and `Orphans` (a caller may be killed while it alone answers for a
daemon, between the spawn and the end of its wait; `Responsible`). A kill at any other point
is always possible, up to `MaxCrashes`.

### 2.5 OAuthRefresh (`oauthbroker/`, `oauthterminator/`)

A session is a jail's terminator or the background refresher. The remaining life of
an access token is a number from 0 to 4, one for each interval the thresholds of
`oauthbroker.go` make (expired, < 90 s, < 300 s, < 360 s, more); `Age` lets time pass for
all of them. `DoRefresh` is `ServeCached`, `NothingToRedeem`, `Redeem`, `UpstreamGrants`,
`UpstreamFails`, `WriteTokens`, `WriteFails`. A login is proxied outside the lock
(`Login`) and mirrored under it (`MirrorWanted`, `Propagate`). `root` remembers which login
each token set descends from. A broker that dies takes its refresher along (`Die`, `down`); another one
is spawned by a user's next launch or restart (`Respawn`), which nothing promises.

`ClaudeCredential` is what a jail may rely on without knowing of the lock, of the other jails
or of the answers that get lost: the credential changes by a login, which replaces whatever is
there; by a rotation, which moves on from exactly the tokens it replaces, to a newer access token of the
same login; and by a loss, after which only a login helps. `Cell` is the refinement mapping:
the file, the login its tokens descend from, and whether its refresh token was consumed for
nothing. The consumption upstream, the write and the answer are three steps in
`OAuthRefresh` and one, the write, in the cell.

### 2.6 CaptureStore (`capture/`, `cli/capturehost.go`, `cli/autocapture.go`, `cli/capturematerialize.go`, `entrypoint/shims.go`)

An entry's key is the hash of its tree, so a key *is* a program together with the content an
installer run left; `Mixed` is the content of a tree two runs wrote into. Per entry, `dir` says
whether there is nothing, metadata alone (`bare`) or a tree, `frozen` that `freezeTree` is through,
`marker` that the completion marker is there, and `rec` is the age rank of its newest `record`
receipt (only the order of stamps matters; they have a resolution of one second, so they tie).
A capture holds `lock[b]` of its program from `tryFlockAt` to its return.

| actions | code |
|---|---|
| `Capture`, `AutoCapture` | lock and `Store.Stage`; the latter when `resolveCaptureFor` misses |
| `Install` | the capture jail's installer run into the staging directory |
| `Admit`, `Rename`, `Freeze`, `Mark` | `Store.admit`: already there, or clear, rename, freeze, mark last |
| `AppendReceipt`, `Cleanup` | the rest of `captureHost` |
| `Fail`, `CrashCapture` | an error return and a SIGKILL at any of these points |
| `List`, `ReadRecords`, `ReapMarker`, `ReapTree`, `EndPrune`, `CrashPrune` | `PruneSupersededCaptures`: markers, then receipts, then entry by entry; no lock |
| `Launch`, `ReadManifest`, `Place`, `PlaceFails`, `Materialized` | a cold launcher's `_try_materialize`: `Materialize`, path by path |
| `RunInstaller`, `Exit`, `CrashLaunch` | the fallback to the vendor, the program's run, a kill |

`crossed` and `undercut` are history: a capture of this program and a prune have overlapped;
a prune has removed a tree admitted after it took the earlier marker.

### 2.7 AwsAuth (`awsauth/`, `awsauthdaemon/`)

A daemon serves one profile under one narrowing; several, of one profile or of different ones, may
share the cache file, a map by profile, and the lock beside it. A process is a goroutine that answers a request (`Callers`) or a daemon's ticker (the
daemon itself). There is no clock: a credential carries the life it has `left`, and `PassTime`
takes one unit from everything that ages; a tick that is due comes before time goes on.

| actions | code |
|---|---|
| `Ask`, `Tick` | `BuildHandler`, `runProactive` with `RemintDue` |
| `ReadCache` | the lock-free fast path of `Fetch` |
| `Acquire`, `Reload` | `withLock` and the second look under it |
| `Mint`, `MintFails` | `Minter.Mint` |
| `Write`, `WriteFails` | `writeState` of the state *read under the lock*, with the new entry |
| `LoseCache` | the file becomes unreadable: `loadState` makes of it an empty cache |
| `Crash`, `Spawn` | death of a daemon with all its goroutines, and a new one |

`Left` is what daemons of earlier configurations may have left in the cache.

### 2.8 ImageStore (`image/autoload.go`, `image/copylock.go`, `prune/`, `cli/run/housekeeping.go`)

Images are named by content. A launch goes `off -> inspect -> [copywait -> writing -> tag] ->
record -> start -> up`, or by the stock tag or the stale hatch straight to `start`; between any
two of these steps another launch or a sweep may act. `Inspect` and `Record` wait for the
housekeeping lock, `LockCopy` for the copy lock. The `auto` sweeper is the housekeeping slot of a
launch that has come up, and holds the lock; the `manual` one is `yolo prune --apply`, which
takes none. A sweep is `ReadPointers`, `List`, `ReadRunning` and one `Rmi` per image, each one
runtime command or one read; `Unanswered` is a runtime that does not answer and makes the
sweep decline, `CutShort` its death. `podman rmi` without `-f` refuses an image a container
uses: that is podman's, external, and `Remove` says what goes with an image.

An inspect that cannot be run counts as one that found nothing (`InspectUnanswered`,
`LockCopyUnanswered`). A launch killed while it copies loses the lock, but its skopeo is a process of its own: it
may go on (`orphans`) and bring the image, or not, while the next launch copies (`OrphanLands`,
`OrphanFails`). A workspace's directory goes and comes back with its pointer (`Delete`, `Return`). `blind` are
the launches that copy an image which is there without their having been told, and `seen` the workspaces that were
there when the launch's sweep read the pointers.

## 3. What the runs check

| run | bounds | shows |
|---|---|---|
| `openai` | 1 jail, 1 host user, the refresher; 2 token sets; 1 callback port; 1 auth.json imported again | `PresentsCanonical`, `NoDoubleSpend`, `RefusalIsFinal`, and `GrantSpec`: the refinement |
| `openai_jails` | 2 jails, the refresher, no host user; 2 token sets | `StaleNeverRedeems`; `RequestsEnd` |
| `launch` | 3 launches, 1 kill, stops that fail, every initial leftover | `NoCollision`, `DirUnderJail`, `NoForeignEndpoint`, `OwnerStarted`, `NoAbandonedJail` |
| `launch_live` | 2 launches, 1 kill, escape hatch set | `LaunchSettles` |
| `supervisor` | 3 daemons, one of each policy, slow spawns | `ClaimedIsSignalled`, `NoSurvivor`, `PolicyKept`; `StopEnds`, `AlwaysRetried` |
| `singleton` | 3 ensuring callers, 4 daemon processes, 2 names, one of which migrates, 1 kill | `OneDaemon`, `Findable` |
| `singleton_live` | 2 callers of any verb, 2 processes, 1 kill | `EnsureEnds` |
| `claude_oauth` | 1 jail, the refresher and its successors; 3 token sets; 1 death or failed lock | `RedeemsTheFile`, `NeverBurnt`, `NotHandedBack`, and `CredentialSpec`: the refinement; `DueIsTried` |
| `capture` | 1 program in 2 versions of 2 files, 2 captures, 1 prune (twice), 1 launcher, 1 fault | `MaterializedIsWhole`, `OneRunPerEntry`, `TornOnlyByReap`, `SelectionSurvives`; `StoreFills` |
| `aws` | 3 daemons, 2 narrowings of one profile and 1 of another, 2 at a time, 1 request, entries left in the cache, lead 2, 1 fault | `NoNeedlessMint`, `ServedFits`, `WindowNotSkipped`, `NoLostMint`; `KeptWarm` |
| `image` | 2 workspaces, 2 images of which one workspace uses both, both sweepers, 1 fault | `RunningKept`, `PointedKept`, `NoDuplicateCopy`; `LaunchEnds` |
| `launch_reap_race` | 3 launches, 1 kill | violated: `ReapsOrphansOnly` |

Each module's `TypeOK` is a theorem for all values of the constants (section 5), so no run repeats it;
the same holds of `GenerationsAdvance`, which `GrantSpec` contains, and of `LoginKept`, which
`CredentialSpec` contains.

**Why the bounds are enough to meet the interesting cases.** A double redemption or a
lost update needs two sessions and one successor token, so two token sets; an undone
login needs a first grant, its successor and a second login, so three. A collision of
launches needs two; the third is the bystander that starts when the first two have met
in a teardown, and the kill supplies the leftovers. One kill is one set of
leftovers, and the initial states already hold a relic container and a stale directory. In
`singleton` a fourth process can be started after three have died. The policies of
the supervisor's daemons do not interact, but `Run`'s phases wait for all of them, hence
one daemon of each policy. A mixed capture needs a killed one and its successor; a reap that
undercuts needs the same content twice and, to have something to reap, a second version; two paths
are the fewest that can be torn. A needless mint needs two requests on one cold cache, a foreign
answer two daemons of one profile, a lost entry two of different profiles; with a lead of 2 the ticker looks every unit of time and lives of 2 and 4 fall on
both sides of it. A duplicate copy needs two launches of one image, a sweep something to
remove beside what it keeps: two images, both `Configured` for one workspace. A refusal that an import ends with the
same token needs one auth.json twice. Every bound is a CONSTANT (`MaxIssue`, `MaxAgain`, `MaxCrashes`, `MaxFaults`,
`MaxUp`, `Configured`, `LoginPorts`, `Instances`), and the proofs of section 5 do away with all of them for the
modules they cover. `CHECK_DEADLOCK FALSE` is set where the system may really
stop: when every launch is over, the supervisor has returned, or every process of the
bounded supply has been used.

**Fairness.** Weak fairness of a goroutine that can move. Strong fairness of each `Acquire`
and `Lock`, because flock(2) serves its waiters in turn; without it a busy broker could
starve one session. Steps under a lock end because the HTTP clients have a 30 s
timeout and the local ones their polls. SIGKILL is obeyed; a created container comes up or
goes away; a started daemon binds or dies. Nothing makes a flock fail: `EnsureEnds` holds
because its holder moves on (`InSpawn`) and its waiters are served. Nothing makes a user act, a jail end, a daemon exit,
a signal arrive, a token expire or a process die, and no property needs them to.
`MaxFaults` bounds failing flocks as well as deaths in `OAuthRefresh`: a flock that fails for ever
stops every refresh, and the code promises nothing then. Its refresher ticks only while its broker lives; nothing
makes a user spawn another, and `DueIsTried` excepts the time in between. In `CaptureStore` launches
keep coming (each auto-captures what the resolver misses) and a capture that has begun runs on;
nothing is asked of a prune or a launcher. The resolver asks for a marker and a receipt, not for a
tree, so an entry whose tree a reap took in its next life is a hit for auto-capture
(`cli/autocapture.go:98`) while every materialize fails: `StoreFills` excepts it, and
`MCCaptureStoreReap.cfg` below shows that it happens. In `AwsAuth` time passes, goroutines run,
tickers tick, a contended lock is got in the end and `aws` does not fail a ticker for ever; nobody
has to ask and nothing respawns a dead daemon (`KeptWarm` excepts it). In `ImageStore` a launch that
has begun is strongly fair in its steps, because it waits for both locks in the kernel, and a sweep
that has begun goes on. `MaxFaults` bounds failures there too: a copy that fails for ever delivers
nothing.

**Claims of the repository that the code does not keep.** The first is a listed run, quoted in
`PROJECT.json`. For the others a cfg and the property are kept beside the modules; each gives its
counterexample when TLC is run on it.

* `MCJailLaunchReap.cfg`, `ReapsOrphansOnly` (run `launch_reap_race`): the reap reads a dead owner and stops *by
  name* a step later. In between another launch may have replaced the orphan; its live jail is
  stopped. `cli/run/lifecycle.go:145` says it only reaps what it can prove orphaned.
* `MCJailLaunchEndpoint.cfg`, `EndpointKept`: a teardown closes its fronts *before* it tries the flock, and
  closing unlinks the published path whoever published there. If the next launch has
  published by then, its live jail is left without an endpoint file;
  `cli/run/loopholesloudness_test.go:59` says the flock keeps the teardown from that.
* `MCHostSingletonStop.cfg`, `OneDaemon` with a restart: `BrokerKill` waits for the old PID without a
  lock and then removes the PID file and the socket, which may be a new daemon's by now; the
  restart's own ensure sees nothing alive and starts a second daemon. `broker/brokerlifecycle.go:3` says
  one process per host.
* `MCHostSingletonStray.cfg`, `KillsItsOwn`: without a PID file the victims come from a search that
  matches the Claude broker, whatever daemon is being stopped; `broker/brokercmd.go:186` says all is a
  function of the name.
* `MCCaptureStoreReap.cfg`, `CompleteIsWhole`: between a reap's two removals a capture may admit the same
  content again; the new marker stays and the new tree goes. `capture/gc.go:60` takes the order of the
  removals for the cure of just that state.
* `MCCaptureStorePartial.cfg`, `RunsWhole`: a prune that removes the tree while a launch places it leaves a part
  of the program in the home; when the installer fails too, the launcher executes `$REAL_BIN` if it was
  among that part. `capture/gc.go:19` says reclaiming is never a correctness event.
* `MCAwsAuthWarm.cfg`, `NoAvoidableWait`: `warm` and `RemintDue` share one lead, so a credential is refused to
  requests at the very instant it becomes due, and the ticker looks only every half lead: a request in
  that gap mints inline although the credential has life left. `awsauth/broker.go:100` says a request must
  never wait on a mint it could have avoided.
* `MCImageStoreCurrent.cfg`, `KeepsCurrentImages`: a launch that takes the stock short-circuit
  (`image/autoload.go:418`) returns no store path, so `recordCurrentImage` leaves no pointer; once its jail
  stops, a sweep may select the image its workspace last launched against. `prune/currentimages.go:12` promises a
  pointer per workspace at that image, `cli/run/currentimage.go:54` excepts degraded launches only.

**Seen by turning a constant, without a run of their own.**

* `Hatch = TRUE` breaks `NoCollision`: the pre-flight closes the flock (`cli/run/run.go:1249`) and,
  with the escape hatch set, goes on to the spawn; `docs/reference/security-shim.md:96` says
  that a lock file serialises launches.
* `Early = TRUE` breaks `NoAbandonedJail`: a SIGTERM while podman creates the container stops
  nothing (`run.go:1341`), the owner file goes, and the jail then comes up with nobody
  behind it; `cli/run/proxy_linux.go:14` says a signal tears the jail down.
* `Slow = TRUE` breaks `NoCollision`: a poll that expires hands the lock back over a jail
  that is not visible yet. The code accepts that.
* `Mute = TRUE` breaks `NoCollision`, `DirUnderJail`, `NoForeignEndpoint` and `OwnerStarted`:
  `findRunningContainer` returns "" when podman does not answer (`lifecycle.go:70`), so the look, the
  re-check, the hook's poll and the teardown's probe (`loopholesruntime.go:448`) all fail open.
  `liveYoloContainers`, for the reap, tells the two apart. `NoAbandonedJail` holds with it.
* A `podman stop` that fails or outlasts its 10 s leaves the jail running with no launch and no owner file
  (`lifecycle.go:132`, "best-effort"), and no reap can prove it orphaned. This is in every run; `NoAbandonedJail`
  names it as the one other way to an abandoned jail beside a kill.
* `Orphans = TRUE` breaks `OneDaemon` and `Findable`: a launcher killed after the spawn and before the
  PID file and the socket are there (`brokerlifecycle.go:433`) leaves a daemon that no later ensure finds; it starts a
  second one. `SlowBind = TRUE` does the same without a kill, when the 5 s wait runs out.
* A launch whose jail ends before its hook has seen it finds *itself* at the flock in
  `GuardBusy` (`run.go:1444` does not close the launch's descriptor first), reports a
  concurrent relaunch and leaves its directory behind; `loopholesruntime.go:357` says a busy
  lock is a relaunch.
* `StaleNeverRedeems` with a host user: a logout restarts the generation at 1
  (`openaiauth/broker.go:161`), so a marker from before the logout can equal the new one and its stale
  holder redeems the new grant; `broker.go:195` says a stale caller causes no upstream call.
* `RefusalIsFinal` with the refused token counted as gone for good: `import` of the same auth.json
  (`openaiauthdaemon/handler.go:134`) clears `loginRequired` with the same refresh token, which the
  next refresh presents once more. A human asks for it; the broker cannot know better.
* `PointedKept` for every workspace there *now*: one that was away when the sweep read the pointers is back
  and finds its image chosen. `prune/currentimages.go:179` names the case and takes the re-copy.
* `NoDuplicateCopy` without `blind`: an inspect of a present image that cannot be run (`image/autoload.go:657`,
  `:776`) makes the launch copy it over itself, and the skopeo of a killed launch copies beside the next one.
* `Run` of the supervisor returns only after a stop (`supervisor.go:370`), also when every daemon
  has settled; the comment at `:357` promises both.
* The comment at `image/autoload.go:657` calls a window between the inspect and the sweep "closed outright" by
  the sentinel entry written under the lock; the sweep reads pointers, no longer the sentinel.
* The Claude cache serves above 360 s of life (`oauthbroker/refresh.go:57`); the comment at `:44` and the
  loophole's README say 90 s.

## 4. Reading the properties

Safety invariants relate what one process believes to what another has done:
`PresentsCanonical` the session's copy and the file, `NoDoubleSpend` the file's token and
the provider's, `ClaimedIsSignalled` two goroutines across one mutex, `Findable` a process and
the two files that lead to it, `DirUnderJail` a jail and the teardown of another.
The action properties speak of pairs of states no single invariant can:
`GenerationsAdvance` (no overwrite of what was not read), `RefusalIsFinal`, `CredentialSpec`, `PolicyKept`.
In `CaptureStore`, `TornOnlyByReap` and `SelectionSurvives` relate an entry to the *history* of the prunes and
captures that touched it: each excuses one interleaving, which the code has, and no other.
`NoLostMint` says of a whole map that one process's read-modify-write keeps everybody else's
entries; `WindowNotSkipped` ties the ticker's period, its phase and the age of a credential together.
`NoAbandonedJail` says of a jail without its launch which of the two ways it came about, and that after a kill the
owner file is there for the reap. `PointedKept` relates a listing some steps old to pointers written since; `RunningKept` needs podman's
refusal exactly in the window between `podman ps` and `rmi`.
`NoSurvivor` allows exactly two remainders, because the code has them: a process that has just been
sent SIGKILL and not been reaped within the 10 s, and a spawn that outlasts them.

## 5. What is proved

TLAPS checks every theorem below for all values of the constants, from the assumptions
named in the modules (`OpenAIAuthAssumption`, `AbsentAssumption`, `LaunchAssumption`,
`SupervisorAssumption`, `SingletonAssumption`, `RefreshAssumption`, and a `ConstantsAssumption` in the
three others: the sets of actors are disjoint, the bounds are
naturals, the sentinels are no actors). TLC evaluates these on the instances it runs.

| module | theorems | further hypothesis |
|---|---|---|
| `OpenAIAuthProofs` | `TypeCorrect`, `RedeemsCanonical`, `NeverSpentTwice`, `GenerationsNeverLost`, `RefusedStaysRefused`, `ImplementsGrant` | none |
| | `StaleViewsAnswered` | no step makes the private state unreadable (`[][Kept]_vars`) |
| | `JailsNeverStale` | only jails send requests (`Hosts = {}`) |
| `SupervisorProofs` | `SupervisorTypes`, `NoThirdOutcome`, `NothingSurvives`, `PoliciesKept` | none |
| `OAuthRefreshProofs` | `OAuthTypes`, `RedeemsWhatIsThere`, `NeverBurntTwice`, `LoginsKept`, `NeverHandedBack`, `ImplementsCredential` | none |
| `JailLaunchProofs` | `LaunchTypes`, `FlockGivenBack` | none |
| | `FlockExcludes` | not `Hatch` |
| | `NothingAbandoned` | not `Early` |
| | `NamesNeverCollide`, `DirectoryStays`, `FilesAreTheJails`, `EndpointIsOwn` | `Timely`: not `Slow`, `Early`, `Hatch` or `Mute` |
| `HostSingletonProofs` | `SingletonTypes`, `EnsuresExclude` | none |
| | `EnsuresMakeOne`, `EnsuresLeaveItFindable` | `Calm`: only ensures, not `Orphans`, not `SlowBind` |
| `CaptureStoreProofs` | `TypeCorrect`, `OneRun`, `TornByReap`, `MaterializeWhole`, `ReapSparesSelection` | none |
| `AwsAuthProofs` | `TypeCorrect`, `OneMint`, `MintsAreKept`, `AnswersFit`, `WindowKept` | none |
| `ImageStoreProofs` | `TypeCorrect`, `RunningImagesKept`, `PointedImagesKept`, `OneCopy`, `OnlyUnusedSwept` | none |

**OpenAIAuth.** None of the properties is inductive: that a session presents the file's token
depends on nobody else writing meanwhile, which depends on the lock. `LockInv` ties the
program counters to the holder; `HeldInv` says what the holder knows (its copy *is* the file,
due and not refused). From these follow the types and `PresentsCanonical`. For `NoDoubleSpend`
the invariant must speak of tokens on their way: `PendingInv` (what is about to be written is
issued, and unspent, excused or out of an auth.json), `DistinctInv` (no two sessions carry the same
tokens: an import and a login queue side by side; two imports may carry the same, `Brought`) and `FileInv` (the file's token is spent only with an
excuse, or while its successor is in hand under the lock). `ImplementsGrant` maps every step to
one of `OpenAIGrant`'s or to a stutter; it needs `HeldInv` exactly in the three writes that
follow an upstream call. `StaleNeverRedeems` is about generations that a jail has seen, so its
invariant must know what such a number still means: `MarkerInv` says that a redemption under way carries the
generation in the file, or none, and `ViewInv` that a view, and an answer on its way to become one,
is of an older generation or of the very tokens in the file. The second holds only while generations are never
started anew; a logout starts them anew, and TLC shows the property violated after one.
So the theorem is stated twice: under the hypothesis on behaviours that says exactly this, and with jails alone, whose requests
never take the state away.

**OAuthRefresh.** `SessionInv` plays the part of `LockInv` and `HeldInv` above, with one case
more: a login's tokens are in a session's hands *without* the lock while its mirror queues. So
`NeverBurnt` and `LoginKept` need that these are a login of their own and have never been in the
file (`TokenInv`) and that no other session carries them (`DistinctInv`), and that what a
refresh writes descends from what it read, which the lock keeps in place. `DueInv` adds the clock: a
token that was due when a jail asked is due for ever, the cache serves above a floor over the due
threshold, and a redemption returns a token younger than any the jail has seen; hence
`NotHandedBack`, whose proof is where the order of the three thresholds is used.
`ImplementsCredential` needs how token sets succeed each other (`SuccessorInv`: a refresh on its way brings a newer
access token, and a refresh token of its own or the one it redeemed, which is not lost), and that a token lost was
consumed. Then a step that writes the file is a rotation or a login, a step that adds to
`excused` is a loss of the file's own token, and `root` never changes under the file.

**JailLaunch.** The invariant has one part per idea: who holds the flock and through which
descriptor (`LockInv`), that a jail being started is still covered by it (`StartingInv`, where the
polls matter), that a signal has stopped the jail before it tears down (`SignalInv`), that a
client stands for its container (`ClientInv`), that past the re-check the name is free
(`EmptyInv`), and that files written under the lock last until the jail runs (`FilesInv`).
`NoCollision` alone is not inductive: it holds because the *lock* is kept from the re-check until the
jail is visible. `Timely` is what makes `StartingInv` true. Its four parts are all needed: with any one
of `Slow`, `Early`, `Hatch` and `Mute` TRUE, three launches and one kill, TLC finds `NoCollision`, `DirUnderJail`,
`NoForeignEndpoint` and `OwnerStarted` violated. What does not depend on `StartingInv` is proved from a
second invariant, `Base`, which holds of every behaviour: the flock belongs to a launch, and to a descriptor of it,
that has yet to give it back (`FlockGivenBack`); without the escape hatch nobody is inside without it
(`FlockExcludes`); and a jail outlives its launcher only by an early signal, a failed stop or a kill, after
which the owner file still names the dead launch unless another one removed it (`Recorded`,
`NothingAbandoned`).

**Supervisor.** `Handshake` says what `c.mu` buys: a child is published exactly while it is
waited for, and one still waited for when `terminate` is over has been killed. `PhaseInv`
orders `Run`'s phases against the teardown goroutines, `PolicyInv` says what the loop may
do next. `NoSurvivor` also needs that without slow spawns `Run` returns only after every loop.

**HostSingleton.** `Knows` says what each point of `BrokerSpawn` has established of its name:
settled, empty, or holding the one daemon just launched. `LockInv` hands that fact from one
holder of the flock to the next, and `Awaited` says a daemon that has not bound is one its
launcher still waits for, which is what `SlowBind` or a kill between the spawn and the end of the wait
would break. A kill anywhere else leaves `Settled` behind (`CrashKeeps`), so the two results hold for any number of kills.
Each of the three parts of `Calm` is needed: TLC refutes `OneDaemon` and `Findable` when one is
dropped. Under no hypothesis, `Base` gives the mutual exclusion itself: one caller at a time is inside `BrokerSpawn`'s
critical section for a name, and a held flock has a living holder inside it (`EnsuresExclude`). What
stops and restarts break is not the exclusion: they act outside of it.

**CaptureStore.** `OneRunInv` has two parts beside the types: whoever runs a capture holds its
program's lock, the staging tree is its own and what it moves into the store comes of one run
(`CaptureInv`); a tree in the store is therefore that of one run (`EntryInv`). For `TornOnlyByReap` add
`FillingInv`: an entry being filled has no marker, and when the marker is about to be written
the tree is whole or a prune has undercut it. `MaterializedIsWhole` is independent of the locks, which a
launcher does not take: `PlacedInv` says every path before the next one to place holds the content
wanted, because `Place` reads the entry's tree once per path and fails when it is gone.
`ReapSparesSelection` compares the winner of the store with the view a prune has of it. The invariant,
`SelectionInv`, follows the winner through the prune's steps: listed with its marker, its receipts read at a rank that no
listed entry beats, hence not among the losers. Ranks are renumbered at every receipt, so what
survives a step is the *order* of the receipts; that renumbering preserves it is `RanksOrder`, a lemma
about cardinalities. A program whose capture and prune overlap (`crossed`) is excepted, in the property as in the code.

**AwsAuth.** `LockInv` ties the point a process has reached under the lock to the holder
(`Locked`), says that the file is still what it read or has become unreadable (`Current`; only `LoseCache`
can touch it meanwhile), and that a mint under way is for an entry still cold (`Fresh`): two
daemons may share the lock, so both are needed before one knows that nobody has written. `WindowInv` is
arithmetic for *every* lead: until the tick that sees it, the life left of an entry plus the
interval exceeds the lead by the time to that tick, and `TickInterval <= Lead / 2`.

**ImageStore.** `OneCopy` needs that who wants an image knows it as its own (`Wanting`), that the copy
lock is held from the second inspect to the tag (`CopyHeld`), and that the image is not there
while it is held, unless an inspect was not answered or an orphaned skopeo brought it (`NotThere`). For
`PointedKept`, `PointerInv`: the automatic sweep is under the housekeeping lock from its first read to its last
removal, a pointer is written under that lock, hence the pointers of the workspaces it has `seen` are as it read
them. `RunningKept` follows from podman's refusal, an assumption
of the module, step by step. `OnlyUnusedSwept` turns both round: of all steps of launches and sweeps only an
`rmi` takes an image away, and then of an image that the sweep listed, that no jail runs, and, if the sweep is a
launch's own, that no pointer of a workspace it found there names. `yolo prune` has no lock, and the
last part does not hold of it.

**Only model-checked**: every liveness property (`RequestsEnd`, `LaunchSettles`, `StopEnds`,
`AlwaysRetried`, `EnsureEnds`, `DueIsTried`, `StoreFills`, `KeptWarm`, `LaunchEnds`), since TLAPS has no rules
for fairness and ENABLED here; and the violated claims, of which TLC gives the counterexample. Every invariant and every action
property that a run checks is a theorem.

## 6. Abstractions

Data are reduced to what the properties tell apart: token sets are numbers, launches,
daemons and names are model values, an endpoint file is the launch it names. Left out
of modelled parts: wire formats and their errors, log output, certificates, package and mount assembly,
the capability stamp of a singleton, `YOLO_JAIL_DAEMONS`, log rotation and readiness
descriptors of the supervisor, and the fallbacks for filesystems without flock, where the
code runs on unguarded (the copy lock's `warn` in `image/copylock.go:144` among them). `JailLaunch` is of the Linux build; elsewhere `onTerminate` is not wired and
a signal is the model's `Crash`. In `JailLaunch` podman and the jail are external; in the broker modules
the providers are, as far as the code lets one see them (an answer may be lost
after the token was consumed). PIDs are never reused. Claude Code writes the shared
credentials file under a protocol of its own, without yolo's lock: not modelled, since that
writer is not in this repository.

In `CaptureStore` a digest is the content it is of, so a tree cannot be mislabelled; the ways to place
a path (reflink, hardlink, copy) are one; what `inner.go` makes of an installer's run is its version. In
`AwsAuth` the clock is the life a credential has left and the output of `aws` is a life, a failure
or nothing. `ImageStore` is of podman on Linux and of one platform: the archive arm of the other
backends, legacy tars, the load sentinel and the GC roots are left out, an image build is a choice of the image, and
the sweep's debounce is left out, so that a sweep may come after any start.

**Not modelled.** These modules cover the code in which processes, goroutines or jails meet over
shared state. That is a small part of the repository's lines. Most of the rest is sequential and
stateless: argument parsing and argv assembly (`cli`), the generators of scripts and settings in
`entrypoint`, validation of `config`, the declaration and loading of packs (`packdecl`,
`packload`, `loopholedecl`), composition and codecs (`agentcfg`, `jsonx`, `json5`), provisioning through
`dscl` and `sudo` (`macosuser`), reports. Such code is functions from strings to strings and
from files to files, run once by one process; what can go wrong in it is the content of a string, which a
model abstracts away and the repository's table tests check directly. A specification of it would
repeat it. What is not of this kind and not modelled is the plan below.

## 7. Plan

Done, in this order: `OpenAIGrant` and `OpenAIAuth` (the most expensive thing to lose is a
grant), `JailLaunch` (the most concurrent code), `Supervisor`, `HostSingleton`, `OAuthRefresh`,
`CaptureStore` with its prune, `AwsAuth`, `ImageStore` with its sweeps, each with its proofs.

Next, most important first:

1. `Endpoint`: publication, handshake and close of `svcendpoint` with `hostservice` sessions;
   an abstract "a published name answers" that `JailLaunch`'s `published` and `front` refine.
2. `HostApply`: compare-and-swap as the abstract specification, the check-write-verify
   sequence over host files with its undo record as its implementation.
3. `ImageStore`: the archive arm with its load sentinel and the legacy tars; property: a killed
   load is not taken for a finished one.
4. `WireBridge` port holding and lazy boot; the suspend-key automaton of `ttyproxy`.
5. Pure algorithms against reference definitions: pack supersession, merge precedence,
   skill name precedence, base-home classification.
6. Proofs of what still holds when a daemon is stopped or restarted: which callers of
   `HostSingleton` a stop can surprise, and that a further ensure repairs the files.
