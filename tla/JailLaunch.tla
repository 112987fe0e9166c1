----------------------------- MODULE JailLaunch -----------------------------
(***************************************************************************)
(* internal/cli/run: the launches of one workspace.  They share a          *)
(* container name, the per-workspace flock, the owner-PID file and the     *)
(* host-services directory mounted in the jail.  A launch is a process of  *)
(* three goroutines: main (runContainer), the onStarted hook that hands    *)
(* the lock back, and the signal goroutine of the TTY proxy that runs      *)
(* onTerminate.  Every launch runs once; a new run is a new launch.        *)
(***************************************************************************)
EXTENDS Naturals, FiniteSets

CONSTANTS Launches,
          None,
          MaxCrashes,  \* bound: launches killed with SIGKILL in a behaviour
          Slow,        \* the 5 s polls may expire while the runtime starts a jail
          Early,       \* a signal or a kill may hit a launch in that time
          Hatch,       \* the user set the provider-credential escape hatch
          Mute         \* the runtime may leave a query unanswered

ASSUME LaunchAssumption ==
  /\ None \notin Launches
  /\ MaxCrashes \in Nat
  /\ Slow \in BOOLEAN
  /\ Early \in BOOLEAN
  /\ Hatch \in BOOLEAN
  /\ Mute \in BOOLEAN

Threads  == {"main", "signal"}
Critical == {"recheck", "stale", "await", "prepare", "check", "record", "fronts", "spawn"}
Closing  == {"close", "guard", "probe", "retire", "clear"}
Over     == {"done", "dead"}
Pcs == {"off", "reap", "reapstop", "reapclear", "look", "acquire", "proxy", "attached",
        "stop", "disown", "unlock"} \cup Critical \cup Closing \cup Over

Free   == [by |-> None, fd |-> "none"]
Locks  == {Free} \cup [by : Launches, fd : {"launch", "main", "signal"}]
NoJail == [state |-> "none", by |-> None]
Relic  == [state |-> "exited", by |-> None]  \* left by an unclean shutdown of the host
Jail(s, l) == [state |-> s, by |-> l]
Jails  == {NoJail, Relic} \cup [state : {"created", "running"}, by : Launches]

VARIABLES
  lock,      \* locks/<cname>.lock: launch and descriptor holding the flock
  ctr,       \* the container of that name
  client,    \* the `podman run` each launch spawned
  owner,     \* owners/<cname>: the launch whose PID it records
  dir,       \* the host-services directory exists
  published, \* the launch whose front the endpoint file in it names
  front,     \* launches whose fronts are listening
  pc,        \* where the main and signal goroutines of each launch are
  hook,      \* and its onStarted goroutine
  unstopped, \* history: the launch whose running jail a `podman stop` did not stop
  disowned   \* history: launches whose owner file another one removed or replaced

vars == <<lock, ctr, client, owner, dir, published, front, pc, hook, unstopped, disowned>>
files == <<owner, disowned, dir, published, front>>

Init ==
  /\ lock = Free
  /\ ctr \in {NoJail, Relic}
  /\ client = [l \in Launches |-> "none"]
  /\ owner = None
  /\ dir \in BOOLEAN
  /\ published = None
  /\ front = {}
  /\ pc = [l \in Launches |-> [t \in Threads |-> "off"]]
  /\ hook = [l \in Launches |-> "off"]
  /\ unstopped = {}
  /\ disowned = {}

Running == ctr.state = "running"
Starting(l) == client[l] = "starting" \/ ctr = Jail("created", l)
Alive(l) == pc[l]["main"] \notin Over
Holder(l, fd) == [by |-> l, fd |-> fd]

Goto(l, t, from, to) ==
  /\ pc[l][t] = from
  /\ pc' = [pc EXCEPT ![l][t] = to]

\* workspaceLock.Close: idempotent, and a no-op for a launch that holds nothing.
LockClose(l) == lock' = IF lock = Holder(l, "launch") THEN Free ELSE lock

\* The process is over: the kernel closes its descriptors and its fronts vanish
\* without unlinking anything.
ProcessEnds(l, how) ==
  /\ pc' = [pc EXCEPT ![l] = [t \in Threads |-> how]]
  /\ hook' = [hook EXCEPT ![l] = "off"]
  /\ front' = front \ {l}

\* findRunningContainer returns "": nothing runs, or the runtime did not answer.
SeenIdle == ~Running \/ Mute

\* The owner file is removed or rewritten, whosever it was.
TakeOwner(l, by) ==
  /\ owner' = by
  /\ disowned' = disowned \cup ({owner} \ {None, l})

\* The runtime removes the container, and the `podman run` that waits for it returns.
JailGone ==
  /\ ctr' = NoJail
  /\ client' = [client EXCEPT ![ctr.by] = "gone"]
  /\ unstopped' = unstopped \ {ctr.by}

\* `podman stop <cname>`: whichever container runs under the name; --rm removes
\* it.  Best effort: the result is ignored, and the call is cut short after 10 s.
StopContainer ==
  \/ /\ ~Running
     /\ UNCHANGED <<ctr, client, unstopped>>
  \/ Running /\ JailGone
  \/ /\ Running
     /\ unstopped' = unstopped \cup {ctr.by}
     /\ UNCHANGED <<ctr, client>>

-----------------------------------------------------------------------------
(* Before the lock: the orphan reap and the first attach decision.         *)

Start(l) ==
  /\ Goto(l, "main", "off", "reap")
  /\ UNCHANGED <<lock, ctr, client, unstopped, files, hook>>

Orphaned == Running /\ owner # None /\ ~Alive(owner)

ReapLook(l) ==
  /\ \/ Orphaned /\ Goto(l, "main", "reap", "reapstop")
     \/ (~Orphaned \/ Mute) /\ Goto(l, "main", "reap", "look")
  /\ UNCHANGED <<lock, ctr, client, unstopped, files, hook>>

ReapStop(l) ==
  /\ Goto(l, "main", "reapstop", "reapclear")
  /\ StopContainer
  /\ UNCHANGED <<lock, files, hook>>

ReapClear(l) ==
  /\ Goto(l, "main", "reapclear", "look")
  /\ TakeOwner(l, None)
  /\ UNCHANGED <<lock, ctr, client, unstopped, dir, published, front, hook>>

\* attachExisting, or the launch path; a declined config change ends the launch.
Look(l) ==
  /\ \/ Running /\ Goto(l, "main", "look", "attached")
     \/ SeenIdle /\ \E to \in {"acquire", "done"} : Goto(l, "main", "look", to)
  /\ UNCHANGED <<lock, ctr, client, unstopped, files, hook>>

-----------------------------------------------------------------------------
(* Under the workspace flock.                                              *)

\* Mutation of Acquire: a busy flock does not stop the launch.
AcquireAnyway(l) ==
  /\ Goto(l, "main", "acquire", "recheck")
  /\ lock' = Holder(l, "launch")
  /\ UNCHANGED <<ctr, client, unstopped, files, hook>>

Acquire(l) ==
  /\ lock = Free
  /\ Goto(l, "main", "acquire", "recheck")
  /\ lock' = Holder(l, "launch")
  /\ UNCHANGED <<ctr, client, unstopped, files, hook>>

\* Another process may have won while this one waited.
RecheckAttach(l) ==
  /\ Running
  /\ Goto(l, "main", "recheck", "attached")
  /\ LockClose(l)
  /\ UNCHANGED <<ctr, client, unstopped, files, hook>>

RecheckFree(l) ==
  /\ SeenIdle
  /\ Goto(l, "main", "recheck", "stale")
  /\ UNCHANGED <<lock, ctr, client, unstopped, files, hook>>

\* Nothing of that name, or a relic that `podman rm` removes; or no answer.
StaleGone(l) ==
  /\ Goto(l, "main", "stale", "prepare")
  /\ \/ ctr \in {NoJail, Relic} /\ ctr' = NoJail
     \/ Mute /\ UNCHANGED ctr
  /\ UNCHANGED <<lock, client, unstopped, files, hook>>

\* `podman rm` refuses a container that is coming up: wait until it is attachable.
StaleRefused(l) ==
  /\ ctr # NoJail /\ (ctr = Relic => Mute)
  /\ Goto(l, "main", "stale", "await")
  /\ UNCHANGED <<lock, ctr, client, unstopped, files, hook>>

AwaitAttach(l) ==
  /\ Running
  /\ Goto(l, "main", "await", "attached")
  /\ LockClose(l)
  /\ UNCHANGED <<ctr, client, unstopped, files, hook>>

AwaitExpires(l) ==
  /\ Slow \/ Mute \/ ctr.state \in {"none", "exited"}
  /\ Goto(l, "main", "await", "prepare")
  /\ UNCHANGED <<lock, ctr, client, unstopped, files, hook>>

\* Mutation of Refuse: an early return that forgets the lock.
RefuseLocked(l) ==
  /\ \E from \in {"prepare", "check"} : Goto(l, "main", from, "done")
  /\ UNCHANGED <<lock, ctr, client, unstopped, files, hook>>

\* Prefix, packages, image, relocations, AWS channel or provider credentials say no.
Refuse(l) ==
  /\ \E from \in {"prepare", "check"} : Goto(l, "main", from, "done")
  /\ LockClose(l)
  /\ UNCHANGED <<ctr, client, unstopped, files, hook>>

\* The image is ready; the services directory is created because the argv mounts it.
Prepare(l) ==
  /\ Goto(l, "main", "prepare", "check")
  /\ dir' = TRUE
  /\ UNCHANGED <<lock, ctr, client, unstopped, owner, disowned, published, front, hook>>

\* Credential pre-flight.  A refusal turned into a warning has already closed the lock.
Accept(l) ==
  /\ Goto(l, "main", "check", "record")
  /\ \/ UNCHANGED lock
     \/ Hatch /\ LockClose(l)
  /\ UNCHANGED <<ctr, client, unstopped, files, hook>>

WriteOwnerPID(l) ==
  /\ Goto(l, "main", "record", "fronts")
  /\ TakeOwner(l, l)
  /\ UNCHANGED <<lock, ctr, client, unstopped, dir, published, front, hook>>

\* A predecessor's endpoint file is unlinked, then a front is published if it comes up.
StartLoopholes(l) ==
  /\ Goto(l, "main", "fronts", "spawn")
  /\ dir' = TRUE
  /\ \/ published' = l /\ front' = front \cup {l}
     \/ published' = None /\ UNCHANGED front
  /\ UNCHANGED <<lock, ctr, client, unstopped, owner, disowned, hook>>

Spawn(l) ==
  /\ Goto(l, "main", "spawn", "proxy")
  /\ client' = [client EXCEPT ![l] = "starting"]
  /\ hook' = [hook EXCEPT ![l] = "polling"]
  /\ UNCHANGED <<lock, ctr, unstopped, files>>

\* The runtime is not on PATH: unlock, then the teardown chain.
SpawnFails(l) ==
  /\ Goto(l, "main", "spawn", "close")
  /\ LockClose(l)
  /\ UNCHANGED <<ctr, client, unstopped, files, hook>>

-----------------------------------------------------------------------------
(* The runtime.                                                            *)

\* `podman run` meets its name in use and exits 125, or creates the container.
Create(l) ==
  /\ client[l] = "starting"
  /\ client' = [client EXCEPT ![l] = IF ctr = NoJail THEN "attached" ELSE "gone"]
  /\ ctr' = IF ctr = NoJail THEN Jail("created", l) ELSE ctr
  /\ UNCHANGED <<lock, unstopped, files, pc, hook>>

Boot ==
  /\ ctr.state = "created"
  /\ ctr' = Jail("running", ctr.by)
  /\ UNCHANGED <<lock, client, unstopped, files, pc, hook>>

\* The jail fails to start, or its command exits: --rm removes it.
JailEnds ==
  /\ ctr.state \in {"created", "running"}
  /\ JailGone
  /\ UNCHANGED <<lock, files, pc, hook>>

-----------------------------------------------------------------------------
(* The session: the onStarted hook, the end of the child, a signal.        *)

\* Mutation of OnStarted: the lock is handed back without the visibility poll.
OnStartedAtOnce(l) ==
  /\ hook[l] = "polling"
  /\ hook' = [hook EXCEPT ![l] = "off"]
  /\ LockClose(l)
  /\ UNCHANGED <<ctr, client, unstopped, files, pc>>

\* The poll sees the jail, or runs out because there is none to see (any more).
OnStarted(l) ==
  /\ hook[l] = "polling"
  /\ Running \/ client[l] = "gone" \/ Slow \/ Mute
  /\ hook' = [hook EXCEPT ![l] = "off"]
  /\ LockClose(l)
  /\ UNCHANGED <<ctr, client, unstopped, files, pc>>

ChildExited(l) ==
  /\ client[l] = "gone"
  /\ Goto(l, "main", "proxy", "close")
  /\ UNCHANGED <<lock, ctr, client, unstopped, files, hook>>

Interrupt(l) ==
  /\ Early \/ ~Starting(l)
  /\ pc[l]["main"] = "proxy"
  /\ Goto(l, "signal", "off", "stop")
  /\ UNCHANGED <<lock, ctr, client, unstopped, files, hook>>

\* Mutation of StopJail: the signal goroutine goes straight to the teardown.
StopJailSkipped(l) ==
  /\ Goto(l, "signal", "stop", "disown")
  /\ UNCHANGED <<lock, ctr, client, unstopped, files, hook>>

StopJail(l) ==
  /\ Goto(l, "signal", "stop", "disown")
  /\ StopContainer
  /\ UNCHANGED <<lock, files, hook>>

Disown(l) ==
  /\ Goto(l, "signal", "disown", "unlock")
  /\ TakeOwner(l, None)
  /\ UNCHANGED <<lock, ctr, client, unstopped, dir, published, front, hook>>

Unlock(l) ==
  /\ Goto(l, "signal", "unlock", "close")
  /\ LockClose(l)
  /\ UNCHANGED <<ctr, client, unstopped, files, hook>>

-----------------------------------------------------------------------------
(* stopLoopholes, run by main (t = "main") or by the signal goroutine.     *)

\* Each front's Close unlinks the endpoint file at its path, whoever wrote it.
StopFronts(l, t) ==
  /\ Goto(l, t, "close", "guard")
  /\ published' = IF l \in front THEN None ELSE published
  /\ front' = front \ {l}
  /\ UNCHANGED <<lock, ctr, client, unstopped, owner, disowned, dir, hook>>

\* main goes on to clearOwnerPID; onTerminate has done so, and exits the process.
Leave(l, t) ==
  IF t = "main"
  THEN pc' = [pc EXCEPT ![l][t] = "clear"] /\ UNCHANGED <<front, hook>>
  ELSE ProcessEnds(l, "done")

\* The non-blocking flock: busy means a relaunch is in flight, leave its directory.
GuardBusy(l, t) ==
  /\ pc[l][t] = "guard"
  /\ lock # Free
  /\ Leave(l, t)
  /\ lock' = IF t = "signal" /\ lock.by = l THEN Free ELSE lock
  /\ UNCHANGED <<ctr, client, unstopped, owner, disowned, dir, published>>

GuardTake(l, t) ==
  /\ lock = Free
  /\ Goto(l, t, "guard", "probe")
  /\ lock' = Holder(l, t)
  /\ UNCHANGED <<ctr, client, unstopped, files, hook>>

\* Mutation of Probe: the directory is retired without asking for a running jail.
ProbeNothing(l, t) ==
  /\ Goto(l, t, "probe", "retire")
  /\ UNCHANGED <<lock, ctr, client, unstopped, files, hook>>

Probe(l, t) ==
  /\ pc[l][t] = "probe"
  /\ \/ Running /\ Leave(l, t) /\ lock' = Free
     \/ SeenIdle /\ Goto(l, t, "probe", "retire") /\ UNCHANGED <<lock, front, hook>>
  /\ UNCHANGED <<ctr, client, unstopped, owner, disowned, dir, published>>

Retire(l, t) ==
  /\ pc[l][t] = "retire"
  /\ dir' = FALSE
  /\ published' = None
  /\ lock' = Free
  /\ Leave(l, t)
  /\ UNCHANGED <<ctr, client, unstopped, owner, disowned>>

\* clearOwnerPID at the end of teardownAfterExit; then the process returns.
ClearOwnerPID(l) ==
  /\ pc[l]["main"] = "clear"
  /\ TakeOwner(l, None)
  /\ ProcessEnds(l, "done")
  /\ lock' = IF lock.by = l THEN Free ELSE lock
  /\ UNCHANGED <<ctr, client, unstopped, dir, published>>

\* SIGKILL: nothing runs; the owner file, the directory and the jail stay.
Crash(l) ==
  /\ pc[l]["main"] \notin Over \cup {"off", "attached"}
  /\ Cardinality({k \in Launches : pc[k]["main"] = "dead"}) < MaxCrashes
  /\ Early \/ ~Starting(l)
  /\ ProcessEnds(l, "dead")
  /\ lock' = IF lock.by = l THEN Free ELSE lock
  /\ UNCHANGED <<ctr, client, unstopped, owner, disowned, dir, published>>

-----------------------------------------------------------------------------
Teardown(l, t) ==
  \/ StopFronts(l, t) \/ GuardBusy(l, t) \/ GuardTake(l, t)
  \/ Probe(l, t) \/ Retire(l, t)

MainStep(l) ==
  \/ ReapLook(l) \/ ReapStop(l) \/ ReapClear(l) \/ Look(l)
  \/ Acquire(l) \/ RecheckAttach(l) \/ RecheckFree(l)
  \/ StaleGone(l) \/ StaleRefused(l) \/ AwaitAttach(l) \/ AwaitExpires(l)
  \/ Refuse(l) \/ Prepare(l) \/ Accept(l) \/ WriteOwnerPID(l) \/ StartLoopholes(l)
  \/ Spawn(l) \/ SpawnFails(l) \/ ChildExited(l) \/ Teardown(l, "main")
  \/ ClearOwnerPID(l)

SignalStep(l) == StopJail(l) \/ Disown(l) \/ Unlock(l) \/ Teardown(l, "signal")

Next ==
  \/ \E l \in Launches :
       \/ Start(l) \/ MainStep(l) \/ OnStarted(l) \/ Interrupt(l) \/ SignalStep(l)
       \/ Create(l) \/ Crash(l)
  \/ Boot \/ JailEnds

Spec == Init /\ [][Next]_vars

\* Every goroutine that can move does, the runtime answers, and a container that
\* was created comes up or goes away.  Nothing makes a jail end, a user start a
\* launch or a signal arrive.
Fairness ==
  /\ \A l \in Launches :
       WF_vars(MainStep(l)) /\ WF_vars(OnStarted(l)) /\ WF_vars(SignalStep(l))
       /\ WF_vars(Create(l))
  /\ WF_vars(Boot)
FairSpec == Spec /\ Fairness

-----------------------------------------------------------------------------
(* Properties.                                                             *)

TypeOK ==
  /\ lock \in Locks
  /\ ctr \in Jails
  /\ client \in [Launches -> {"none", "starting", "attached", "gone"}]
  /\ owner \in Launches \cup {None}
  /\ dir \in BOOLEAN
  /\ published \in Launches \cup {None}
  /\ front \in SUBSET Launches
  /\ pc \in [Launches -> [Threads -> Pcs]]
  /\ hook \in [Launches -> {"off", "polling"}]
  /\ unstopped \in SUBSET Launches
  /\ disowned \in SUBSET Launches

\* `podman run` never meets its own name in use: when one launch has spawned it,
\* there is no container of that name and no second launch that has.  This is what
\* the flock, the re-check, the awaited removal and the hook's poll are for
\* (run.go 937-988 and 1327-1334).
NoCollision ==
  \A l \in Launches : client[l] = "starting" =>
    ctr = NoJail /\ \A k \in Launches : client[k] = "starting" => k = l

\* The services directory is never taken from under a jail, nor from under a
\* launch that has created it and is about to mount it: a teardown that comes late
\* stops at the flock or at the running container (stopLoopholes' guard stack).
DirUnderJail ==
  /\ ctr.state \in {"created", "running"} => dir
  /\ \A l \in Launches :
       client[l] = "starting" \/ pc[l]["main"] \in {"check", "record", "fronts", "spawn"} => dir

\* The endpoint file in a jail's directory never names the front of another launch
\* (startExternalService unlinks a predecessor's and publishes under the flock).
NoForeignEndpoint == Running => published \in {None, ctr.by}

\* The owner file never records, for a running jail, a process that did not start
\* it: what the reaper proves from a dead owner is about this jail.
OwnerStarted == Running => owner \in {None, ctr.by}

\* A jail that runs without its launch was left by a kill, and then the owner file
\* names the dead launch for the reaper, unless another launch took the file away;
\* or podman did not carry out a stop, which nobody looks at.  A launch that ends
\* by itself or by a signal (onTerminate's stopJail) leaves no jail behind.
NoAbandonedJail ==
  Running /\ ~Alive(ctr.by) =>
    \/ ctr.by \in unstopped
    \/ /\ pc[ctr.by]["main"] = "dead"
       /\ owner = ctr.by \/ ctr.by \in disowned

\* A launch that waits for the flock gets out of it: attached, refused, at its own
\* jail, or gone.  No exit path keeps the flock from the launches behind it.
LaunchSettles ==
  \A l \in Launches :
    pc[l]["main"] = "acquire" ~> pc[l]["main"] \in Over \cup {"attached", "proxy"}

\* Claim of the teardown's tests: an ending launch does not delete the endpoint file
\* a concurrent launch has published; a live front's jail keeps its endpoint.
EndpointKept == Running /\ ctr.by \in front => published = ctr.by

\* Claim of reapOrphanedJails' comment: it stops only a jail whose owner is dead.
ReapsOrphansOnly ==
  [][\A l \in Launches :
       pc[l]["main"] = "reapstop" /\ pc'[l]["main"] = "reapclear" /\ Running /\ ~Running'
         => ~Alive(ctr.by)]_vars
=============================================================================
