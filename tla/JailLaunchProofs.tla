-------------------------- MODULE JailLaunchProofs --------------------------
(***************************************************************************)
(* Proofs about JailLaunch for every set of launches.  Base holds in every *)
(* behaviour.  Inv, and what follows from it, needs the runtime to answer  *)
(* (~Mute), and within the polls (~Slow), signals and kills to spare the   *)
(* start of a jail (~Early) and no escape hatch (~Hatch): drop any one of  *)
(* the four and TLC finds each of its consequences violated.               *)
(***************************************************************************)
EXTENDS JailLaunch, TLAPS

Timely == ~Slow /\ ~Early /\ ~Hatch /\ ~Mute

Main(l) == pc[l]["main"]
Signal(l) == pc[l]["signal"]
Holds(l) == lock = Holder(l, "launch")

\* Past the re-check and the removal nothing of that name exists; from Prepare on
\* the directory is about to be mounted.
Cleared == {"prepare", "check", "record", "fronts", "spawn"}
Mounting == {"check", "record", "fronts", "spawn"}

\* The flock: a launch in its critical section has it, and so has a teardown that
\* retires the directory, of a name under which nothing runs.
LockInv(l) ==
  /\ Main(l) \in Critical => Holds(l)
  /\ Main(l) \in {"probe", "retire"} => lock = Holder(l, "main")
  /\ Signal(l) \in {"probe", "retire"} => lock = Holder(l, "signal")
  /\ Main(l) = "retire" \/ Signal(l) = "retire" => ~Running

\* A jail that is starting is still covered by the lock of its launch.
StartingInv(l) ==
  Starting(l) => Holds(l) /\ Main(l) = "proxy" /\ Signal(l) = "off"

\* A signal is handled during the session; the onStarted hook exists from the spawn on.
SignalInv(l) ==
  /\ Main(l) \notin Closing \cup Over \cup {"proxy"} => Signal(l) = "off"
  /\ hook[l] = "polling" => Main(l) \in Closing \cup {"proxy"}

\* The runtime client of a launch stands for its container.
ClientInv(l) ==
  /\ client[l] = "attached" <=> ctr.by = l
  /\ client[l] = "starting" => ctr = NoJail
  /\ client[l] = "attached" => Main(l) \in {"proxy"} \cup Over

EmptyInv(l) ==
  /\ Main(l) \in Cleared => ctr = NoJail
  /\ Main(l) = "await" => ctr # Relic

\* What a launch writes before its jail runs is not overwritten until it does.
FilesInv(l) ==
  /\ Main(l) \in Mounting \/ Starting(l) => dir
  /\ Main(l) \in {"fronts", "spawn"} \/ Starting(l) => owner \in {None, l}
  /\ Main(l) = "spawn" \/ Starting(l) => published \in {None, l}

LaunchInv(l) ==
  /\ LockInv(l)
  /\ StartingInv(l)
  /\ SignalInv(l)
  /\ ClientInv(l)
  /\ EmptyInv(l)
  /\ FilesInv(l)

\* What a running jail can rely on.
RunningInv == Running => dir /\ published \in {None, ctr.by} /\ owner \in {None, ctr.by}

Inv ==
  /\ TypeOK
  /\ \A l \in Launches : LaunchInv(l)
  /\ RunningInv

USE LaunchAssumption

\* What one goroutine's step, and the end of a process, do to the program counters.
LEMMA GotoMain ==
  ASSUME TypeOK, NEW l \in Launches, NEW a, NEW b \in Pcs, Goto(l, "main", a, b)
  PROVE  /\ Main(l) = a /\ Main(l)' = b /\ Signal(l)' = Signal(l)
         /\ \A k \in Launches : k # l => Main(k)' = Main(k) /\ Signal(k)' = Signal(k)
         /\ pc' \in [Launches -> [Threads -> Pcs]]
  BY DEF TypeOK, Goto, Main, Signal, Threads

LEMMA GotoSignal ==
  ASSUME TypeOK, NEW l \in Launches, NEW a, NEW b \in Pcs, Goto(l, "signal", a, b)
  PROVE  /\ Signal(l) = a /\ Signal(l)' = b /\ Main(l)' = Main(l)
         /\ \A k \in Launches : k # l => Main(k)' = Main(k) /\ Signal(k)' = Signal(k)
         /\ pc' \in [Launches -> [Threads -> Pcs]]
  BY DEF TypeOK, Goto, Main, Signal, Threads

LEMMA Ends ==
  ASSUME TypeOK, NEW l \in Launches, NEW how \in Over, ProcessEnds(l, how)
  PROVE  /\ Main(l)' = how /\ Signal(l)' = how
         /\ \A k \in Launches : k # l => Main(k)' = Main(k) /\ Signal(k)' = Signal(k)
         /\ pc' \in [Launches -> [Threads -> Pcs]]
         /\ hook' \in [Launches -> {"off", "polling"}] /\ hook'[l] = "off"
         /\ \A k \in Launches : k # l => hook'[k] = hook[k]
         /\ front' \in SUBSET Launches
  BY DEF TypeOK, ProcessEnds, Over, Pcs, Main, Signal, Threads

LEMMA InitInv == Init => Inv
  BY DEF Init, Inv, TypeOK, LaunchInv, LockInv, StartingInv, SignalInv, ClientInv, EmptyInv,
     FilesInv, RunningInv, Critical, Closing, Over, Threads, Pcs, Starting, Running, Cleared,
     Mounting, Locks, Jails, Free, NoJail, Relic, Jail, Main, Signal

\* The orphan reap and the first attach decision.
LEMMA BeforeLock ==
  ASSUME Inv, Timely, NEW l \in Launches,
         Start(l) \/ ReapLook(l) \/ ReapStop(l) \/ ReapClear(l) \/ Look(l)
  PROVE  Inv'
<1> USE DEF LaunchInv, LockInv, StartingInv, SignalInv, ClientInv, EmptyInv, FilesInv,
         Critical, Closing, Over, Cleared, Mounting, Main, Signal, Holds, Holder, Starting, Running,
         Jails, NoJail, Relic, Jail, Locks, Free, TypeOK, files, SeenIdle, TakeOwner, Orphaned, StopContainer, JailGone
<1>1. /\ Main(l) \in {"off", "reap", "reapstop", "reapclear", "look"}
      /\ Main(l)' \in {"reap", "reapstop", "reapclear", "look", "attached", "acquire", "done"}
      /\ Signal(l)' = Signal(l)
      /\ \A k \in Launches : k # l => Main(k)' = Main(k) /\ Signal(k)' = Signal(k)
      /\ pc' \in [Launches -> [Threads -> Pcs]]
  BY GotoMain DEF Start, ReapLook, ReapStop, ReapClear, Look, Inv, Pcs
<1>2. TypeOK'
  BY <1>1 DEF Start, ReapLook, ReapStop, ReapClear, Look, Inv, Timely
<1>3. ASSUME NEW k \in Launches PROVE LaunchInv(k)'
  <2>1. TypeOK /\ LaunchInv(k) /\ LaunchInv(l) BY DEF Inv
  <2>2. CASE k = l
    BY <1>1, <2>1, <2>2 DEF Start, ReapLook, ReapStop, ReapClear, Look, Timely
  <2>3. CASE k # l
    BY <1>1, <2>1, <2>3 DEF Start, ReapLook, ReapStop, ReapClear, Look, Timely
  <2>4. QED BY <2>2, <2>3
<1>4. RunningInv'
  <2>1. TypeOK /\ LaunchInv(l) /\ RunningInv BY DEF Inv
  <2>2. QED BY <1>1, <2>1 DEF Start, ReapLook, ReapStop, ReapClear, Look, RunningInv, Timely
<1>5. QED BY <1>2, <1>3, <1>4 DEF Inv

\* Taking the flock, and the ways out of it before anything is written.
LEMMA UnderLock ==
  ASSUME Inv, Timely, NEW l \in Launches,
         Acquire(l) \/ RecheckAttach(l) \/ RecheckFree(l) \/ StaleGone(l) \/ StaleRefused(l) \/ AwaitAttach(l) \/ AwaitExpires(l) \/ Refuse(l)
  PROVE  Inv'
<1> USE DEF LaunchInv, LockInv, StartingInv, SignalInv, ClientInv, EmptyInv, FilesInv,
         Critical, Closing, Over, Cleared, Mounting, Main, Signal, Holds, Holder, Starting, Running,
         Jails, NoJail, Relic, Jail, Locks, Free, TypeOK, files, SeenIdle, TakeOwner, LockClose
<1>1. /\ <<Main(l), Main(l)'>> \in
            {<<"acquire", "recheck">>, <<"recheck", "attached">>, <<"recheck", "stale">>,
             <<"stale", "prepare">>, <<"stale", "await">>, <<"await", "attached">>,
             <<"await", "prepare">>, <<"prepare", "done">>, <<"check", "done">>}
      /\ Signal(l)' = Signal(l)
      /\ \A k \in Launches : k # l => Main(k)' = Main(k) /\ Signal(k)' = Signal(k)
      /\ pc' \in [Launches -> [Threads -> Pcs]]
  BY GotoMain DEF Acquire, RecheckAttach, RecheckFree, StaleGone, StaleRefused, AwaitAttach, AwaitExpires, Refuse, Inv, Pcs
<1>2. TypeOK'
  BY <1>1 DEF Acquire, RecheckAttach, RecheckFree, StaleGone, StaleRefused, AwaitAttach, AwaitExpires, Refuse, Inv, Timely
<1>3. ASSUME NEW k \in Launches PROVE LaunchInv(k)'
  <2>1. TypeOK /\ LaunchInv(k) /\ LaunchInv(l) BY DEF Inv
  <2>2. CASE k = l
    <3>1. CASE Acquire(l)
      <4>1. Main(l) = "acquire" /\ Main(l)' = "recheck"
        BY <2>1, <3>1, GotoMain DEF Acquire , Pcs
      <4>2. QED
        BY <1>1, <2>1, <2>2, <3>1, <4>1 DEF Acquire, Timely
    <3>2. CASE RecheckAttach(l)
      <4>1. Main(l) = "recheck" /\ Main(l)' = "attached"
        BY <2>1, <3>2, GotoMain DEF RecheckAttach , Pcs
      <4>2. QED
        BY <1>1, <2>1, <2>2, <3>2, <4>1 DEF RecheckAttach, Timely
    <3>3. CASE RecheckFree(l)
      <4>1. Main(l) = "recheck" /\ Main(l)' = "stale"
        BY <2>1, <3>3, GotoMain DEF RecheckFree , Pcs
      <4>2. QED
        BY <1>1, <2>1, <2>2, <3>3, <4>1 DEF RecheckFree, Timely
    <3>4. CASE StaleGone(l)
      <4>1. Main(l) = "stale" /\ Main(l)' = "prepare"
        BY <2>1, <3>4, GotoMain DEF StaleGone , Pcs
      <4>2. QED
        BY <1>1, <2>1, <2>2, <3>4, <4>1 DEF StaleGone, Timely
    <3>5. CASE StaleRefused(l)
      <4>1. Main(l) = "stale" /\ Main(l)' = "await"
        BY <2>1, <3>5, GotoMain DEF StaleRefused , Pcs
      <4>2. QED
        BY <1>1, <2>1, <2>2, <3>5, <4>1 DEF StaleRefused, Timely
    <3>6. CASE AwaitAttach(l)
      <4>1. Main(l) = "await" /\ Main(l)' = "attached"
        BY <2>1, <3>6, GotoMain DEF AwaitAttach , Pcs
      <4>2. QED
        BY <1>1, <2>1, <2>2, <3>6, <4>1 DEF AwaitAttach, Timely
    <3>7. CASE AwaitExpires(l)
      <4>1. Main(l) = "await" /\ Main(l)' = "prepare"
        BY <2>1, <3>7, GotoMain DEF AwaitExpires , Pcs
      <4>2. QED
        BY <1>1, <2>1, <2>2, <3>7, <4>1 DEF AwaitExpires, Timely
    <3>8. CASE Refuse(l)
      <4>1. (Main(l) = "prepare" /\ Main(l)' = "done") \/ (Main(l) = "check" /\ Main(l)' = "done")
        BY <2>1, <3>8, GotoMain DEF Refuse , Pcs
      <4>2. QED
        BY <1>1, <2>1, <2>2, <3>8, <4>1 DEF Refuse, Timely
    <3>9. QED BY <3>1, <3>2, <3>3, <3>4, <3>5, <3>6, <3>7, <3>8
  <2>3. CASE k # l
    BY <1>1, <2>1, <2>3 DEF Acquire, RecheckAttach, RecheckFree, StaleGone, StaleRefused, AwaitAttach, AwaitExpires, Refuse, Timely
  <2>4. QED BY <2>2, <2>3
<1>4. RunningInv'
  <2>1. TypeOK /\ LaunchInv(l) /\ RunningInv BY DEF Inv
  <2>2. QED BY <1>1, <2>1 DEF Acquire, RecheckAttach, RecheckFree, StaleGone, StaleRefused, AwaitAttach, AwaitExpires, Refuse, RunningInv, Timely
<1>5. QED BY <1>2, <1>3, <1>4 DEF Inv

\* The directory, the owner file, the fronts and the spawn.
LEMMA Preparing ==
  ASSUME Inv, Timely, NEW l \in Launches,
         Prepare(l) \/ Accept(l) \/ WriteOwnerPID(l) \/ StartLoopholes(l) \/ Spawn(l) \/ SpawnFails(l)
  PROVE  Inv'
<1> USE DEF LaunchInv, LockInv, StartingInv, SignalInv, ClientInv, EmptyInv, FilesInv,
         Critical, Closing, Over, Cleared, Mounting, Main, Signal, Holds, Holder, Starting, Running,
         Jails, NoJail, Relic, Jail, Locks, Free, TypeOK, files, SeenIdle, TakeOwner, LockClose
<1>1. /\ <<Main(l), Main(l)'>> \in
            {<<"prepare", "check">>, <<"check", "record">>, <<"record", "fronts">>,
             <<"fronts", "spawn">>, <<"spawn", "proxy">>, <<"spawn", "close">>}
      /\ Signal(l)' = Signal(l)
      /\ \A k \in Launches : k # l => Main(k)' = Main(k) /\ Signal(k)' = Signal(k)
      /\ pc' \in [Launches -> [Threads -> Pcs]]
  BY GotoMain DEF Prepare, Accept, WriteOwnerPID, StartLoopholes, Spawn, SpawnFails, Inv, Pcs
<1>2. TypeOK'
  <2>1. TypeOK BY DEF Inv
  <2>2. lock' \in Locks /\ ctr' \in Jails
    BY <1>1, <2>1 DEF Prepare, Accept, WriteOwnerPID, StartLoopholes, Spawn, SpawnFails
  <2>3. client' \in [Launches -> {"none", "starting", "attached", "gone"}] /\ hook' \in [Launches -> {"off", "polling"}]
    BY <1>1, <2>1 DEF Prepare, Accept, WriteOwnerPID, StartLoopholes, Spawn, SpawnFails
  <2>4. owner' \in Launches \cup {None} /\ dir' \in BOOLEAN /\ unstopped' \in SUBSET Launches /\ disowned' \in SUBSET Launches
    BY <1>1, <2>1 DEF Prepare, Accept, WriteOwnerPID, StartLoopholes, Spawn, SpawnFails
  <2>5. published' \in Launches \cup {None} /\ front' \in SUBSET Launches
    BY <1>1, <2>1 DEF Prepare, Accept, WriteOwnerPID, StartLoopholes, Spawn, SpawnFails
  <2>6. QED BY <1>1, <2>2, <2>3, <2>4, <2>5 DEF TypeOK
<1>3. ASSUME NEW k \in Launches PROVE LaunchInv(k)'
  <2>1. TypeOK /\ LaunchInv(k) /\ LaunchInv(l) BY DEF Inv
  <2>2. CASE k = l
    <3>1. CASE Prepare(l)
      <4>1. Main(l) = "prepare" /\ Main(l)' = "check"
        BY <2>1, <3>1, GotoMain DEF Prepare , Pcs
      <4>2. QED
        BY <1>1, <2>1, <2>2, <3>1, <4>1 DEF Prepare, Timely
    <3>2. CASE Accept(l)
      <4>1. Main(l) = "check" /\ Main(l)' = "record"
        BY <2>1, <3>2, GotoMain DEF Accept , Pcs
      <4>2. QED
        BY <1>1, <2>1, <2>2, <3>2, <4>1 DEF Accept, Timely
    <3>3. CASE WriteOwnerPID(l)
      <4>1. Main(l) = "record" /\ Main(l)' = "fronts"
        BY <2>1, <3>3, GotoMain DEF WriteOwnerPID , Pcs
      <4>2. QED
        BY <1>1, <2>1, <2>2, <3>3, <4>1 DEF WriteOwnerPID, Timely
    <3>4. CASE StartLoopholes(l)
      <4>1. Main(l) = "fronts" /\ Main(l)' = "spawn"
        BY <2>1, <3>4, GotoMain DEF StartLoopholes , Pcs
      <4>2. QED
        BY <1>1, <2>1, <2>2, <3>4, <4>1 DEF StartLoopholes, Timely
    <3>5. CASE Spawn(l)
      <4>1. Main(l) = "spawn" /\ Main(l)' = "proxy"
        BY <2>1, <3>5, GotoMain DEF Spawn , Pcs
      <4>2. QED
        BY <1>1, <2>1, <2>2, <3>5, <4>1 DEF Spawn, Timely
    <3>6. CASE SpawnFails(l)
      <4>1. Main(l) = "spawn" /\ Main(l)' = "close"
        BY <2>1, <3>6, GotoMain DEF SpawnFails , Pcs
      <4>2. QED
        BY <1>1, <2>1, <2>2, <3>6, <4>1 DEF SpawnFails, Timely
    <3>7. QED BY <3>1, <3>2, <3>3, <3>4, <3>5, <3>6
  <2>3. CASE k # l
    BY <1>1, <2>1, <2>3 DEF Prepare, Accept, WriteOwnerPID, StartLoopholes, Spawn, SpawnFails, Timely
  <2>4. QED BY <2>2, <2>3
<1>4. RunningInv'
  <2>1. TypeOK /\ LaunchInv(l) /\ RunningInv BY DEF Inv
  <2>2. QED BY <1>1, <2>1 DEF Prepare, Accept, WriteOwnerPID, StartLoopholes, Spawn, SpawnFails, RunningInv, Timely
<1>5. QED BY <1>2, <1>3, <1>4 DEF Inv

\* The child is gone and the proxy returns.
LEMMA ChildEnds ==
  ASSUME Inv, Timely, NEW l \in Launches,
         ChildExited(l)
  PROVE  Inv'
<1> USE DEF LaunchInv, LockInv, StartingInv, SignalInv, ClientInv, EmptyInv, FilesInv,
         Critical, Closing, Over, Cleared, Mounting, Main, Signal, Holds, Holder, Starting, Running,
         Jails, NoJail, Relic, Jail, Locks, Free, TypeOK, files, SeenIdle, TakeOwner, JailGone
<1>1. /\ Main(l) = "proxy" /\ Main(l)' = "close" /\ Signal(l)' = Signal(l)
      /\ \A k \in Launches : k # l => Main(k)' = Main(k) /\ Signal(k)' = Signal(k)
      /\ pc' \in [Launches -> [Threads -> Pcs]]
  BY GotoMain DEF ChildExited, Inv, Pcs
<1>2. TypeOK'
  BY <1>1 DEF ChildExited, Inv, Timely
<1>3. ASSUME NEW k \in Launches PROVE LaunchInv(k)'
  <2>1. TypeOK /\ LaunchInv(k) /\ LaunchInv(l) BY DEF Inv
  <2>2. CASE k = l
    BY <1>1, <2>1, <2>2 DEF ChildExited, Timely
  <2>3. CASE k # l
    BY <1>1, <2>1, <2>3 DEF ChildExited, Timely
  <2>4. QED BY <2>2, <2>3
<1>4. RunningInv'
  <2>1. TypeOK /\ LaunchInv(l) /\ RunningInv BY DEF Inv
  <2>2. QED BY <1>1, <2>1 DEF ChildExited, RunningInv, Timely
<1>5. QED BY <1>2, <1>3, <1>4 DEF Inv

\* A signal, and the steps of onTerminate before stopLoopholes.
LEMMA Signalled ==
  ASSUME Inv, Timely, NEW l \in Launches,
         Interrupt(l) \/ StopJail(l) \/ Disown(l) \/ Unlock(l)
  PROVE  Inv'
<1> USE DEF LaunchInv, LockInv, StartingInv, SignalInv, ClientInv, EmptyInv, FilesInv,
         Critical, Closing, Over, Cleared, Mounting, Main, Signal, Holds, Holder, Starting, Running,
         Jails, NoJail, Relic, Jail, Locks, Free, TypeOK, files, SeenIdle, TakeOwner, LockClose, StopContainer, JailGone
<1>1. /\ <<Signal(l), Signal(l)'>> \in
            {<<"off", "stop">>, <<"stop", "disown">>, <<"disown", "unlock">>, <<"unlock", "close">>}
      /\ Main(l)' = Main(l)
      /\ \A k \in Launches : k # l => Main(k)' = Main(k) /\ Signal(k)' = Signal(k)
      /\ pc' \in [Launches -> [Threads -> Pcs]]
  BY GotoSignal DEF Interrupt, StopJail, Disown, Unlock, Inv, Pcs
<1>2. TypeOK'
  <2>1. TypeOK BY DEF Inv
  <2>2. lock' \in Locks /\ ctr' \in Jails
    BY <1>1, <2>1 DEF Interrupt, StopJail, Disown, Unlock
  <2>3. client' \in [Launches -> {"none", "starting", "attached", "gone"}] /\ hook' \in [Launches -> {"off", "polling"}]
    BY <1>1, <2>1 DEF Interrupt, StopJail, Disown, Unlock
  <2>4. owner' \in Launches \cup {None} /\ dir' \in BOOLEAN /\ unstopped' \in SUBSET Launches /\ disowned' \in SUBSET Launches
    BY <1>1, <2>1 DEF Interrupt, StopJail, Disown, Unlock
  <2>5. published' \in Launches \cup {None} /\ front' \in SUBSET Launches
    BY <1>1, <2>1 DEF Interrupt, StopJail, Disown, Unlock
  <2>6. QED BY <1>1, <2>2, <2>3, <2>4, <2>5 DEF TypeOK
<1>3. ASSUME NEW k \in Launches PROVE LaunchInv(k)'
  <2>1. TypeOK /\ LaunchInv(k) /\ LaunchInv(l) BY DEF Inv
  <2>2. CASE k = l
    <3>1. CASE Interrupt(l)
      <4>1. Signal(l) = "off" /\ Signal(l)' = "stop"
        BY <2>1, <3>1, GotoSignal DEF Interrupt , Pcs
      <4>2. QED
        BY <1>1, <2>1, <2>2, <3>1, <4>1 DEF Interrupt, Timely
    <3>2. CASE StopJail(l)
      <4>1. Signal(l) = "stop" /\ Signal(l)' = "disown"
        BY <2>1, <3>2, GotoSignal DEF StopJail , Pcs
      <4>2. QED
        BY <1>1, <2>1, <2>2, <3>2, <4>1 DEF StopJail, Timely
    <3>3. CASE Disown(l)
      <4>1. Signal(l) = "disown" /\ Signal(l)' = "unlock"
        BY <2>1, <3>3, GotoSignal DEF Disown , Pcs
      <4>2. QED
        BY <1>1, <2>1, <2>2, <3>3, <4>1 DEF Disown, Timely
    <3>4. CASE Unlock(l)
      <4>1. Signal(l) = "unlock" /\ Signal(l)' = "close"
        BY <2>1, <3>4, GotoSignal DEF Unlock , Pcs
      <4>2. QED
        BY <1>1, <2>1, <2>2, <3>4, <4>1 DEF Unlock, Timely
    <3>5. QED BY <3>1, <3>2, <3>3, <3>4
  <2>3. CASE k # l
    BY <1>1, <2>1, <2>3 DEF Interrupt, StopJail, Disown, Unlock, Timely
  <2>4. QED BY <2>2, <2>3
<1>4. RunningInv'
  <2>1. TypeOK /\ LaunchInv(l) /\ RunningInv BY DEF Inv
  <2>2. QED BY <1>1, <2>1 DEF Interrupt, StopJail, Disown, Unlock, RunningInv, Timely
<1>5. QED BY <1>2, <1>3, <1>4 DEF Inv

\* `podman run` and the onStarted hook of one launch.
LEMMA Creating ==
  ASSUME Inv, Timely, NEW l \in Launches, Create(l) \/ OnStarted(l)
  PROVE  Inv'
<1> USE DEF LaunchInv, LockInv, StartingInv, SignalInv, ClientInv, EmptyInv, FilesInv,
         Critical, Closing, Over, Cleared, Mounting, Main, Signal, Holds, Holder, Starting, Running,
         Jails, NoJail, Relic, Jail, Locks, Free, TypeOK, files, SeenIdle, TakeOwner, LockClose
<1>1. /\ \A k \in Launches : Main(k)' = Main(k) /\ Signal(k)' = Signal(k)
      /\ pc' \in [Launches -> [Threads -> Pcs]]
  BY DEF Create, OnStarted, Inv
<1>2. TypeOK'
  <2>1. CASE Create(l)
    BY <1>1, <2>1 DEF Create, Inv, Timely
  <2>2. CASE OnStarted(l)
    BY <1>1, <2>2 DEF OnStarted, Inv, Timely
  <2>3. QED BY <2>1, <2>2
<1>3. ASSUME NEW k \in Launches PROVE LaunchInv(k)'
  <2>1. TypeOK /\ LaunchInv(k) /\ LaunchInv(l) BY DEF Inv
  <2>2. CASE k = l
    <3>1. CASE Create(l)
      BY <1>1, <2>1, <2>2, <3>1 DEF Create, Timely
    <3>2. CASE OnStarted(l)
      BY <1>1, <2>1, <2>2, <3>2 DEF OnStarted, Timely
    <3>3. QED BY <3>1, <3>2
  <2>3. CASE k # l
    BY <1>1, <2>1, <2>3 DEF Create, OnStarted, Timely
  <2>4. QED BY <2>2, <2>3
<1>4. RunningInv'
  <2>1. TypeOK /\ LaunchInv(l) /\ RunningInv BY DEF Inv
  <2>2. QED BY <1>1, <2>1 DEF Create, OnStarted, RunningInv, Timely
<1>5. QED BY <1>2, <1>3, <1>4 DEF Inv

\* The container comes up, or ends and is removed.
LEMMA Booting ==
  ASSUME Inv, Timely, Boot \/ JailEnds
  PROVE  Inv'
<1> USE DEF LaunchInv, LockInv, StartingInv, SignalInv, ClientInv, EmptyInv, FilesInv,
         Critical, Closing, Over, Cleared, Mounting, Main, Signal, Holds, Holder, Starting, Running,
         Jails, NoJail, Relic, Jail, Locks, Free, TypeOK, files, SeenIdle, TakeOwner, JailGone
<1>0. PICK b \in Launches : ctr.by = b
  BY DEF Boot, JailEnds, Inv
<1>1. /\ \A k \in Launches : Main(k)' = Main(k) /\ Signal(k)' = Signal(k)
      /\ pc' \in [Launches -> [Threads -> Pcs]]
  BY DEF Boot, JailEnds, Inv
<1>2. TypeOK'
  <2>1. CASE Boot
    BY <1>1, <1>0, <2>1 DEF Boot, Inv, Timely
  <2>2. CASE JailEnds
    BY <1>1, <1>0, <2>2 DEF JailEnds, Inv, Timely
  <2>3. QED BY <2>1, <2>2
<1>3. ASSUME NEW k \in Launches PROVE LaunchInv(k)'
  <2>1. TypeOK /\ LaunchInv(k) /\ LaunchInv(b) BY DEF Inv
  <2>2. CASE k = b
    <3>1. CASE Boot
      BY <1>1, <2>1, <2>2, <1>0, <3>1 DEF Boot, Timely
    <3>2. CASE JailEnds
      BY <1>1, <2>1, <2>2, <1>0, <3>2 DEF JailEnds, Timely
    <3>3. QED BY <3>1, <3>2
  <2>3. CASE k # b
    BY <1>1, <2>1, <2>3, <1>0 DEF Boot, JailEnds, Timely
  <2>4. QED BY <2>2, <2>3
<1>4. RunningInv'
  <2>1. TypeOK /\ LaunchInv(b) /\ RunningInv BY DEF Inv
  <2>2. QED BY <1>1, <2>1, <1>0 DEF Boot, JailEnds, RunningInv, Timely
<1>5. QED BY <1>2, <1>3, <1>4 DEF Inv

\* Closing the fronts of one goroutine's teardown.
LEMMA StopFrontsInv ==
  ASSUME Inv, Timely, NEW l \in Launches, NEW t \in Threads, StopFronts(l, t)
  PROVE  Inv'
<1> USE DEF LaunchInv, LockInv, StartingInv, SignalInv, ClientInv, EmptyInv, FilesInv,
         Critical, Closing, Over, Cleared, Mounting, Main, Signal, Holds, Holder, Starting, Running,
         Jails, NoJail, Relic, Jail, Locks, Free, TypeOK, files, SeenIdle, TakeOwner, JailGone
<1>1. /\ \/ t = "main" /\ Main(l) = "close" /\ Main(l)' = "guard" /\ Signal(l)' = Signal(l)
         \/ t = "signal" /\ Signal(l) = "close" /\ Signal(l)' = "guard" /\ Main(l)' = Main(l)
      /\ \A k \in Launches : k # l => Main(k)' = Main(k) /\ Signal(k)' = Signal(k)
      /\ pc' \in [Launches -> [Threads -> Pcs]]
  <2>1. CASE t = "main"
    BY <2>1, GotoMain DEF StopFronts, Inv, Pcs
  <2>2. CASE t = "signal"
    BY <2>2, GotoSignal DEF StopFronts, Inv, Pcs
  <2>3. QED BY <2>1, <2>2 DEF Threads
<1>2. TypeOK'
  BY <1>1 DEF StopFronts, Inv, Timely
<1>3. ASSUME NEW k \in Launches PROVE LaunchInv(k)'
  <2>1. TypeOK /\ LaunchInv(k) /\ LaunchInv(l) BY DEF Inv
  <2>2. CASE k = l
    BY <1>1, <2>1, <2>2 DEF StopFronts, Timely
  <2>3. CASE k # l
    BY <1>1, <2>1, <2>3 DEF StopFronts, Timely
  <2>4. QED BY <2>2, <2>3
<1>4. RunningInv'
  <2>1. TypeOK /\ LaunchInv(l) /\ RunningInv BY DEF Inv
  <2>2. QED BY <1>1, <2>1 DEF StopFronts, RunningInv, Timely
<1>5. QED BY <1>2, <1>3, <1>4 DEF Inv

\* The teardown takes the free flock.
LEMMA GuardTakeInv ==
  ASSUME Inv, Timely, NEW l \in Launches, NEW t \in Threads, GuardTake(l, t)
  PROVE  Inv'
<1> USE DEF LaunchInv, LockInv, StartingInv, SignalInv, ClientInv, EmptyInv, FilesInv,
         Critical, Closing, Over, Cleared, Mounting, Main, Signal, Holds, Holder, Starting, Running,
         Jails, NoJail, Relic, Jail, Locks, Free, TypeOK, files, SeenIdle, TakeOwner, JailGone
<1>1. /\ \/ t = "main" /\ Main(l) = "guard" /\ Main(l)' = "probe" /\ Signal(l)' = Signal(l)
         \/ t = "signal" /\ Signal(l) = "guard" /\ Signal(l)' = "probe" /\ Main(l)' = Main(l)
      /\ \A k \in Launches : k # l => Main(k)' = Main(k) /\ Signal(k)' = Signal(k)
      /\ pc' \in [Launches -> [Threads -> Pcs]]
  <2>1. CASE t = "main"
    BY <2>1, GotoMain DEF GuardTake, Inv, Pcs
  <2>2. CASE t = "signal"
    BY <2>2, GotoSignal DEF GuardTake, Inv, Pcs
  <2>3. QED BY <2>1, <2>2 DEF Threads
<1>2. TypeOK'
  BY <1>1 DEF GuardTake, Inv, Timely
<1>3. ASSUME NEW k \in Launches PROVE LaunchInv(k)'
  <2>1. TypeOK /\ LaunchInv(k) /\ LaunchInv(l) BY DEF Inv
  <2>2. CASE k = l
    BY <1>1, <2>1, <2>2 DEF GuardTake, Timely
  <2>3. CASE k # l
    BY <1>1, <2>1, <2>3 DEF GuardTake, Timely
  <2>4. QED BY <2>2, <2>3
<1>4. RunningInv'
  <2>1. TypeOK /\ LaunchInv(l) /\ RunningInv BY DEF Inv
  <2>2. QED BY <1>1, <2>1 DEF GuardTake, RunningInv, Timely
<1>5. QED BY <1>2, <1>3, <1>4 DEF Inv

LEMMA ThreadAt ==
  ASSUME NEW l \in Launches, NEW t \in Threads, NEW a, pc[l][t] = a
  PROVE  (t = "main" /\ Main(l) = a) \/ (t = "signal" /\ Signal(l) = a)
  BY DEF Threads, Main, Signal

\* Leaving stopLoopholes: on to clearOwnerPID, or out of the process.
LEMMA Leaving ==
  ASSUME TypeOK, NEW l \in Launches, NEW t \in Threads, Leave(l, t)
  PROVE  /\ \/ t = "main" /\ Main(l)' = "clear" /\ Signal(l)' = Signal(l) /\ hook' = hook
            \/ t = "signal" /\ Main(l)' = "done" /\ Signal(l)' = "done" /\ hook'[l] = "off"
         /\ hook' \in [Launches -> {"off", "polling"}] /\ front' \in SUBSET Launches
         /\ \A k \in Launches : k # l => hook'[k] = hook[k]
         /\ \A k \in Launches : k # l => Main(k)' = Main(k) /\ Signal(k)' = Signal(k)
         /\ pc' \in [Launches -> [Threads -> Pcs]]
<1>1. CASE t = "main"
  <2>1. Goto(l, "main", Main(l), "clear") /\ front' = front /\ hook' = hook
    BY <1>1 DEF Leave, Goto, Main
  <2>2. QED BY <1>1, <2>1, GotoMain DEF TypeOK, Pcs, Closing
<1>2. CASE t = "signal"
  BY <1>2, Ends DEF Leave, Over
<1>3. QED BY <1>1, <1>2 DEF Threads

\* The flock is busy: leave.
LEMMA GuardBusyInv ==
  ASSUME Inv, Timely, NEW l \in Launches, NEW t \in Threads, GuardBusy(l, t)
  PROVE  Inv'
<1> USE DEF LaunchInv, LockInv, StartingInv, SignalInv, ClientInv, EmptyInv, FilesInv,
         Critical, Closing, Over, Cleared, Mounting, Main, Signal, Holds, Holder, Starting, Running,
         Jails, NoJail, Relic, Jail, Locks, Free, TypeOK, files, SeenIdle, TakeOwner, JailGone
<1>1. /\ \/ t = "main" /\ Main(l)' = "clear" /\ Signal(l)' = Signal(l) /\ hook' = hook
         \/ t = "signal" /\ Main(l)' = "done" /\ Signal(l)' = "done" /\ hook'[l] = "off"
      /\ (t = "main" /\ Main(l) = "guard") \/ (t = "signal" /\ Signal(l) = "guard")
      /\ hook' \in [Launches -> {"off", "polling"}] /\ front' \in SUBSET Launches
      /\ \A k \in Launches : k # l => hook'[k] = hook[k]
      /\ \A k \in Launches : k # l => Main(k)' = Main(k) /\ Signal(k)' = Signal(k)
      /\ pc' \in [Launches -> [Threads -> Pcs]]
  <2>1. TypeOK /\ Leave(l, t) /\ pc[l][t] = "guard" BY DEF GuardBusy, Inv
  <2>2. (t = "main" /\ Main(l) = "guard") \/ (t = "signal" /\ Signal(l) = "guard") BY <2>1, ThreadAt
  <2>3. QED BY <2>1, <2>2, Leaving
<1>2. TypeOK'
  BY <1>1 DEF GuardBusy, Inv, Timely
<1>3. ASSUME NEW k \in Launches PROVE LaunchInv(k)'
  <2>1. TypeOK /\ LaunchInv(k) /\ LaunchInv(l) BY DEF Inv
  <2>2. CASE k = l
    BY <1>1, <2>1, <2>2 DEF GuardBusy, Timely
  <2>3. CASE k # l
    BY <1>1, <2>1, <2>3 DEF GuardBusy, Timely
  <2>4. QED BY <2>2, <2>3
<1>4. RunningInv'
  <2>1. TypeOK /\ LaunchInv(l) /\ RunningInv BY DEF Inv
  <2>2. QED BY <1>1, <2>1 DEF GuardBusy, RunningInv, Timely
<1>5. QED BY <1>2, <1>3, <1>4 DEF Inv

\* The directory goes, under the flock.
LEMMA RetireInv ==
  ASSUME Inv, Timely, NEW l \in Launches, NEW t \in Threads, Retire(l, t)
  PROVE  Inv'
<1> USE DEF LaunchInv, LockInv, StartingInv, SignalInv, ClientInv, EmptyInv, FilesInv,
         Critical, Closing, Over, Cleared, Mounting, Main, Signal, Holds, Holder, Starting, Running,
         Jails, NoJail, Relic, Jail, Locks, Free, TypeOK, files, SeenIdle, TakeOwner, JailGone
<1>1. /\ \/ t = "main" /\ Main(l)' = "clear" /\ Signal(l)' = Signal(l) /\ hook' = hook
         \/ t = "signal" /\ Main(l)' = "done" /\ Signal(l)' = "done" /\ hook'[l] = "off"
      /\ (t = "main" /\ Main(l) = "retire") \/ (t = "signal" /\ Signal(l) = "retire")
      /\ hook' \in [Launches -> {"off", "polling"}] /\ front' \in SUBSET Launches
      /\ \A k \in Launches : k # l => hook'[k] = hook[k]
      /\ \A k \in Launches : k # l => Main(k)' = Main(k) /\ Signal(k)' = Signal(k)
      /\ pc' \in [Launches -> [Threads -> Pcs]]
  <2>1. TypeOK /\ Leave(l, t) /\ pc[l][t] = "retire" BY DEF Retire, Inv
  <2>2. (t = "main" /\ Main(l) = "retire") \/ (t = "signal" /\ Signal(l) = "retire") BY <2>1, ThreadAt
  <2>3. QED BY <2>1, <2>2, Leaving
<1>2. TypeOK'
  BY <1>1 DEF Retire, Inv, Timely
<1>3. ASSUME NEW k \in Launches PROVE LaunchInv(k)'
  <2>1. TypeOK /\ LaunchInv(k) /\ LaunchInv(l) BY DEF Inv
  <2>2. CASE k = l
    BY <1>1, <2>1, <2>2 DEF Retire, Timely
  <2>3. CASE k # l
    BY <1>1, <2>1, <2>3 DEF Retire, Timely
  <2>4. QED BY <2>2, <2>3
<1>4. RunningInv'
  <2>1. TypeOK /\ LaunchInv(l) /\ RunningInv BY DEF Inv
  <2>2. QED BY <1>1, <2>1 DEF Retire, RunningInv, Timely
<1>5. QED BY <1>2, <1>3, <1>4 DEF Inv

\* A running jail keeps its directory.
LEMMA ProbeInv ==
  ASSUME Inv, Timely, NEW l \in Launches, NEW t \in Threads, Probe(l, t)
  PROVE  Inv'
<1> USE DEF LaunchInv, LockInv, StartingInv, SignalInv, ClientInv, EmptyInv, FilesInv,
         Critical, Closing, Over, Cleared, Mounting, Main, Signal, Holds, Holder, Starting, Running,
         Jails, NoJail, Relic, Jail, Locks, Free, TypeOK, files, SeenIdle, TakeOwner, JailGone
<1>1. /\ IF Running
         THEN \/ t = "main" /\ Main(l)' = "clear" /\ Signal(l)' = Signal(l) /\ hook' = hook
              \/ t = "signal" /\ Main(l)' = "done" /\ Signal(l)' = "done" /\ hook'[l] = "off"
         ELSE /\ hook' = hook
              /\ \/ t = "main" /\ Main(l)' = "retire" /\ Signal(l)' = Signal(l)
                 \/ t = "signal" /\ Signal(l)' = "retire" /\ Main(l)' = Main(l)
      /\ (t = "main" /\ Main(l) = "probe") \/ (t = "signal" /\ Signal(l) = "probe")
      /\ hook' \in [Launches -> {"off", "polling"}] /\ front' \in SUBSET Launches
      /\ \A k \in Launches : k # l => hook'[k] = hook[k]
      /\ \A k \in Launches : k # l => Main(k)' = Main(k) /\ Signal(k)' = Signal(k)
      /\ pc' \in [Launches -> [Threads -> Pcs]]
  <2>0. TypeOK /\ pc[l][t] = "probe" BY DEF Probe, Inv
  <2>1. CASE Running
    <3>1. Leave(l, t) BY <2>1 DEF Probe, Timely
    <3>2. (t = "main" /\ Main(l) = "probe") \/ (t = "signal" /\ Signal(l) = "probe") BY <2>0, ThreadAt
    <3>3. QED BY <2>0, <2>1, <3>1, <3>2, Leaving
  <2>2. CASE ~Running
    <3>1. Goto(l, t, "probe", "retire") /\ hook' = hook /\ front' = front
      BY <2>2 DEF Probe
    <3>2. CASE t = "main"
      <4>1. Goto(l, "main", "probe", "retire") BY <3>1, <3>2
      <4>2. QED BY <2>0, <2>2, <3>1, <3>2, <4>1, GotoMain DEF Pcs
    <3>3. CASE t = "signal"
      BY <2>0, <2>2, <3>1, <3>3, GotoSignal DEF Pcs
    <3>4. QED BY <3>2, <3>3 DEF Threads
  <2>3. QED BY <2>1, <2>2
<1>2. TypeOK'
  BY <1>1 DEF Probe, Inv, Timely
<1>3. ASSUME NEW k \in Launches PROVE LaunchInv(k)'
  <2>1. TypeOK /\ LaunchInv(k) /\ LaunchInv(l) BY DEF Inv
  <2>2. CASE k = l
    BY <1>1, <2>1, <2>2 DEF Probe, Timely
  <2>3. CASE k # l
    BY <1>1, <2>1, <2>3 DEF Probe, Timely
  <2>4. QED BY <2>2, <2>3
<1>4. RunningInv'
  <2>1. TypeOK /\ LaunchInv(l) /\ RunningInv BY DEF Inv
  <2>2. QED BY <1>1, <2>1 DEF Probe, RunningInv, Timely
<1>5. QED BY <1>2, <1>3, <1>4 DEF Inv

\* The end of a launch: clearOwnerPID, or SIGKILL.
LEMMA Ending ==
  ASSUME Inv, Timely, NEW l \in Launches, ClearOwnerPID(l) \/ Crash(l)
  PROVE  Inv'
<1> USE DEF LaunchInv, LockInv, StartingInv, SignalInv, ClientInv, EmptyInv, FilesInv,
         Critical, Closing, Over, Cleared, Mounting, Main, Signal, Holds, Holder, Starting, Running,
         Jails, NoJail, Relic, Jail, Locks, Free, TypeOK, files, SeenIdle, TakeOwner, JailGone
<1>1. /\ \/ Main(l) = "clear" /\ Main(l)' = "done" /\ Signal(l)' = "done"
         \/ ~Starting(l) /\ Main(l)' = "dead" /\ Signal(l)' = "dead"
      /\ front' \in SUBSET Launches /\ hook' \in [Launches -> {"off", "polling"}]
      /\ hook'[l] = "off" /\ \A k \in Launches : k # l => hook'[k] = hook[k]
      /\ \A k \in Launches : k # l => Main(k)' = Main(k) /\ Signal(k)' = Signal(k)
      /\ pc' \in [Launches -> [Threads -> Pcs]]
  BY Ends DEF ClearOwnerPID, Crash, Inv, Timely
<1>2. TypeOK'
  BY <1>1 DEF ClearOwnerPID, Crash, Inv, Timely
<1>3. ASSUME NEW k \in Launches PROVE LaunchInv(k)'
  <2>1. TypeOK /\ LaunchInv(k) /\ LaunchInv(l) BY DEF Inv
  <2>2. CASE k = l
    BY <1>1, <2>1, <2>2 DEF ClearOwnerPID, Crash, Timely
  <2>3. CASE k # l
    BY <1>1, <2>1, <2>3 DEF ClearOwnerPID, Crash, Timely
  <2>4. QED BY <2>2, <2>3
<1>4. RunningInv'
  <2>1. TypeOK /\ LaunchInv(l) /\ RunningInv BY DEF Inv
  <2>2. QED BY <1>1, <2>1 DEF ClearOwnerPID, Crash, RunningInv, Timely
<1>5. QED BY <1>2, <1>3, <1>4 DEF Inv

LEMMA Tearing ==
  ASSUME Inv, Timely, NEW l \in Launches, NEW t \in Threads, Teardown(l, t)
  PROVE  Inv'
  BY StopFrontsInv, GuardBusyInv, GuardTakeInv, ProbeInv, RetireInv DEF Teardown

LEMMA StepInv == Inv /\ Timely /\ [Next]_vars => Inv'
<1> SUFFICES ASSUME Inv, Timely, [Next]_vars PROVE Inv' OBVIOUS
<1>1. CASE UNCHANGED vars
  BY <1>1 DEF vars, Inv, TypeOK, LaunchInv, LockInv, StartingInv, SignalInv, ClientInv, EmptyInv,
     FilesInv, RunningInv, Main, Signal, Holds, Starting, Running
<1>2. ASSUME NEW l \in Launches, MainStep(l) PROVE Inv'
  BY <1>2, BeforeLock, UnderLock, Preparing, ChildEnds, Tearing, Ending DEF MainStep, Threads
<1>3. ASSUME NEW l \in Launches, SignalStep(l) PROVE Inv'
  BY <1>3, Signalled, Tearing DEF SignalStep, Threads
<1>4. ASSUME NEW l \in Launches,
             Start(l) \/ OnStarted(l) \/ Interrupt(l) \/ Create(l) \/ Crash(l)
      PROVE Inv'
  BY <1>4, BeforeLock, Creating, Signalled, Ending
<1>5. QED BY <1>1, <1>2, <1>3, <1>4, Booting DEF Next

LEMMA InvAlways == ASSUME Timely PROVE Spec => []Inv
<1>1. Inv /\ [Next]_vars => Inv' BY StepInv
<1>2. QED BY <1>1, InitInv, PTL DEF Spec

-----------------------------------------------------------------------------
(* What holds whatever the polls, the signals and the hatch do.            *)

\* Each descriptor of the flock belongs to a place in its launch's code.
FlockInv(l) ==
  /\ lock = Holder(l, "launch") => Main(l) \in Critical \cup Closing \cup {"proxy"}
  /\ lock = Holder(l, "main") <=> Main(l) \in {"probe", "retire"}
  /\ lock = Holder(l, "signal") <=> Signal(l) \in {"probe", "retire"}
  /\ ~Hatch /\ Main(l) \in Critical => lock = Holder(l, "launch")

\* The signal goroutine and the hook exist during the session only.
SessionInv(l) ==
  /\ Main(l) \in {"proxy"} \cup Closing \cup Over \/ Signal(l) = "off"
  /\ Main(l) \in Over => Signal(l) \in {"off"} \cup Over
  /\ hook[l] = "polling" => Main(l) \in Closing \cup {"proxy"}

\* The launch's PID is in the owner file, or another launch took the file.
Recorded(l) == owner = l \/ l \in disowned

\* The runtime client of a launch stands for its container; a signal that spares
\* the start of the jail finds it running, and stops it before anything else.  A
\* jail outlives that only if the stop failed; until then it has its owner file.
ChildInv(l) ==
  /\ client[l] = "attached" <=> ctr.by = l
  /\ client[l] \in {"starting", "attached"} =>
       Main(l) = "proxy" \/ (Main(l) \in Over /\ Signal(l) = Main(l))
  /\ ~Early /\ Starting(l) => Main(l) = "proxy" /\ Signal(l) = "off"
  /\ Main(l) \in {"fronts", "spawn"} => Recorded(l)
  /\ ~Early /\ client[l] = "starting" => Recorded(l)
  /\ ~Early /\ client[l] = "attached" =>
       \/ l \in unstopped
       \/ /\ Main(l) \in {"proxy", "dead"} /\ Signal(l) \in {"off", "stop", "dead"}
          /\ Recorded(l)

Base == TypeOK /\ \A l \in Launches : FlockInv(l) /\ SessionInv(l) /\ ChildInv(l)

LEMMA BaseInit == Init => Base
  BY DEF Init, Base, FlockInv, SessionInv, ChildInv, Recorded, TypeOK, Critical, Closing, Over, Threads, Pcs,
     Starting, Locks, Jails, Free, Holder, NoJail, Relic, Jail, Main, Signal

\* The orphan reap and the first attach decision.
LEMMA BaseBefore ==
  ASSUME Base, NEW l \in Launches,
         Start(l) \/ ReapLook(l) \/ ReapStop(l) \/ ReapClear(l) \/ Look(l)
  PROVE  Base'
<1> USE DEF FlockInv, SessionInv, ChildInv, Recorded, Critical, Closing, Over, Main, Signal, Holder, Starting,
         Running, Jails, NoJail, Relic, Jail, Locks, Free, TypeOK, files, SeenIdle, TakeOwner, LockClose, StopContainer, JailGone
<1>1. /\ Start(l) => Main(l) = "off" /\ Main(l)' = "reap"
      /\ ReapLook(l) => (Main(l) = "reap" /\ Main(l)' = "reapstop") \/ (Main(l) = "reap" /\ Main(l)' = "look")
      /\ ReapStop(l) => Main(l) = "reapstop" /\ Main(l)' = "reapclear"
      /\ ReapClear(l) => Main(l) = "reapclear" /\ Main(l)' = "look"
      /\ Look(l) => (Main(l) = "look" /\ Main(l)' = "attached") \/ (Main(l) = "look" /\ Main(l)' = "acquire") \/ (Main(l) = "look" /\ Main(l)' = "done")
      /\ Signal(l)' = Signal(l)
      /\ \A k \in Launches : k # l => Main(k)' = Main(k) /\ Signal(k)' = Signal(k)
      /\ pc' \in [Launches -> [Threads -> Pcs]]
  BY GotoMain DEF Start, ReapLook, ReapStop, ReapClear, Look, Base, Pcs
<1>2. TypeOK'
  <2>1. CASE Start(l)
    BY <1>1, <2>1 DEF Start, Base
  <2>2. CASE ReapLook(l)
    BY <1>1, <2>2 DEF ReapLook, Base
  <2>3. CASE ReapStop(l)
    BY <1>1, <2>3 DEF ReapStop, Base
  <2>4. CASE ReapClear(l)
    BY <1>1, <2>4 DEF ReapClear, Base
  <2>5. CASE Look(l)
    BY <1>1, <2>5 DEF Look, Base
  <2>6. QED BY <2>1, <2>2, <2>3, <2>4, <2>5
<1>3. ASSUME NEW k \in Launches PROVE FlockInv(k)' /\ SessionInv(k)' /\ ChildInv(k)'
  <2>1. /\ TypeOK /\ FlockInv(k) /\ SessionInv(k) /\ ChildInv(k)
        /\ FlockInv(l) /\ SessionInv(l) /\ ChildInv(l)
    BY DEF Base
  <2>2. CASE k = l
    <3>1. CASE Start(l)
      BY <1>1, <2>1, <2>2, <3>1 DEF Start
    <3>2. CASE ReapLook(l)
      BY <1>1, <2>1, <2>2, <3>2 DEF ReapLook
    <3>3. CASE ReapStop(l)
      BY <1>1, <2>1, <2>2, <3>3 DEF ReapStop
    <3>4. CASE ReapClear(l)
      BY <1>1, <2>1, <2>2, <3>4 DEF ReapClear
    <3>5. CASE Look(l)
      BY <1>1, <2>1, <2>2, <3>5 DEF Look
    <3>6. QED BY <3>1, <3>2, <3>3, <3>4, <3>5
  <2>3. CASE k # l
    BY <1>1, <2>1, <2>3 DEF Start, ReapLook, ReapStop, ReapClear, Look
  <2>4. QED BY <2>2, <2>3
<1>4. QED BY <1>2, <1>3 DEF Base

\* Taking the flock, and the ways out of it before anything is written.
LEMMA BaseLocked ==
  ASSUME Base, NEW l \in Launches,
         Acquire(l) \/ RecheckAttach(l) \/ RecheckFree(l) \/ StaleGone(l) \/ StaleRefused(l) \/ AwaitAttach(l) \/ AwaitExpires(l) \/ Refuse(l)
  PROVE  Base'
<1> USE DEF FlockInv, SessionInv, ChildInv, Recorded, Critical, Closing, Over, Main, Signal, Holder, Starting,
         Running, Jails, NoJail, Relic, Jail, Locks, Free, TypeOK, files, SeenIdle, TakeOwner, LockClose, StopContainer, JailGone
<1>1. /\ Acquire(l) => Main(l) = "acquire" /\ Main(l)' = "recheck"
      /\ RecheckAttach(l) => Main(l) = "recheck" /\ Main(l)' = "attached"
      /\ RecheckFree(l) => Main(l) = "recheck" /\ Main(l)' = "stale"
      /\ StaleGone(l) => Main(l) = "stale" /\ Main(l)' = "prepare"
      /\ StaleRefused(l) => Main(l) = "stale" /\ Main(l)' = "await"
      /\ AwaitAttach(l) => Main(l) = "await" /\ Main(l)' = "attached"
      /\ AwaitExpires(l) => Main(l) = "await" /\ Main(l)' = "prepare"
      /\ Refuse(l) => (Main(l) = "prepare" /\ Main(l)' = "done") \/ (Main(l) = "check" /\ Main(l)' = "done")
      /\ Signal(l)' = Signal(l)
      /\ \A k \in Launches : k # l => Main(k)' = Main(k) /\ Signal(k)' = Signal(k)
      /\ pc' \in [Launches -> [Threads -> Pcs]]
  BY GotoMain DEF Acquire, RecheckAttach, RecheckFree, StaleGone, StaleRefused, AwaitAttach, AwaitExpires, Refuse, Base, Pcs
<1>2. TypeOK'
  <2>1. CASE Acquire(l)
    BY <1>1, <2>1 DEF Acquire, Base
  <2>2. CASE RecheckAttach(l)
    BY <1>1, <2>2 DEF RecheckAttach, Base
  <2>3. CASE RecheckFree(l)
    BY <1>1, <2>3 DEF RecheckFree, Base
  <2>4. CASE StaleGone(l)
    BY <1>1, <2>4 DEF StaleGone, Base
  <2>5. CASE StaleRefused(l)
    BY <1>1, <2>5 DEF StaleRefused, Base
  <2>6. CASE AwaitAttach(l)
    BY <1>1, <2>6 DEF AwaitAttach, Base
  <2>7. CASE AwaitExpires(l)
    BY <1>1, <2>7 DEF AwaitExpires, Base
  <2>8. CASE Refuse(l)
    BY <1>1, <2>8 DEF Refuse, Base
  <2>9. QED BY <2>1, <2>2, <2>3, <2>4, <2>5, <2>6, <2>7, <2>8
<1>3. ASSUME NEW k \in Launches PROVE FlockInv(k)' /\ SessionInv(k)' /\ ChildInv(k)'
  <2>1. /\ TypeOK /\ FlockInv(k) /\ SessionInv(k) /\ ChildInv(k)
        /\ FlockInv(l) /\ SessionInv(l) /\ ChildInv(l)
    BY DEF Base
  <2>2. CASE k = l
    <3>1. CASE Acquire(l)
      BY <1>1, <2>1, <2>2, <3>1 DEF Acquire
    <3>2. CASE RecheckAttach(l)
      BY <1>1, <2>1, <2>2, <3>2 DEF RecheckAttach
    <3>3. CASE RecheckFree(l)
      BY <1>1, <2>1, <2>2, <3>3 DEF RecheckFree
    <3>4. CASE StaleGone(l)
      BY <1>1, <2>1, <2>2, <3>4 DEF StaleGone
    <3>5. CASE StaleRefused(l)
      BY <1>1, <2>1, <2>2, <3>5 DEF StaleRefused
    <3>6. CASE AwaitAttach(l)
      BY <1>1, <2>1, <2>2, <3>6 DEF AwaitAttach
    <3>7. CASE AwaitExpires(l)
      BY <1>1, <2>1, <2>2, <3>7 DEF AwaitExpires
    <3>8. CASE Refuse(l)
      BY <1>1, <2>1, <2>2, <3>8 DEF Refuse
    <3>9. QED BY <3>1, <3>2, <3>3, <3>4, <3>5, <3>6, <3>7, <3>8
  <2>3. CASE k # l
    BY <1>1, <2>1, <2>3 DEF Acquire, RecheckAttach, RecheckFree, StaleGone, StaleRefused, AwaitAttach, AwaitExpires, Refuse
  <2>4. QED BY <2>2, <2>3
<1>4. QED BY <1>2, <1>3 DEF Base

\* The directory, the owner file, the fronts, the spawn and its end.
LEMMA BasePreparing ==
  ASSUME Base, NEW l \in Launches,
         Prepare(l) \/ Accept(l) \/ WriteOwnerPID(l) \/ StartLoopholes(l) \/ Spawn(l) \/ SpawnFails(l) \/ ChildExited(l)
  PROVE  Base'
<1> USE DEF FlockInv, SessionInv, ChildInv, Recorded, Critical, Closing, Over, Main, Signal, Holder, Starting,
         Running, Jails, NoJail, Relic, Jail, Locks, Free, TypeOK, files, SeenIdle, TakeOwner, LockClose, StopContainer, JailGone
<1>1. /\ Prepare(l) => Main(l) = "prepare" /\ Main(l)' = "check"
      /\ Accept(l) => Main(l) = "check" /\ Main(l)' = "record"
      /\ WriteOwnerPID(l) => Main(l) = "record" /\ Main(l)' = "fronts"
      /\ StartLoopholes(l) => Main(l) = "fronts" /\ Main(l)' = "spawn"
      /\ Spawn(l) => Main(l) = "spawn" /\ Main(l)' = "proxy"
      /\ SpawnFails(l) => Main(l) = "spawn" /\ Main(l)' = "close"
      /\ ChildExited(l) => Main(l) = "proxy" /\ Main(l)' = "close"
      /\ Signal(l)' = Signal(l)
      /\ \A k \in Launches : k # l => Main(k)' = Main(k) /\ Signal(k)' = Signal(k)
      /\ pc' \in [Launches -> [Threads -> Pcs]]
  BY GotoMain DEF Prepare, Accept, WriteOwnerPID, StartLoopholes, Spawn, SpawnFails, ChildExited, Base, Pcs
<1>2. TypeOK'
  <2>1. CASE Prepare(l)
    BY <1>1, <2>1 DEF Prepare, Base
  <2>2. CASE Accept(l)
    BY <1>1, <2>2 DEF Accept, Base
  <2>3. CASE WriteOwnerPID(l)
    BY <1>1, <2>3 DEF WriteOwnerPID, Base
  <2>4. CASE StartLoopholes(l)
    BY <1>1, <2>4 DEF StartLoopholes, Base
  <2>5. CASE Spawn(l)
    BY <1>1, <2>5 DEF Spawn, Base
  <2>6. CASE SpawnFails(l)
    BY <1>1, <2>6 DEF SpawnFails, Base
  <2>7. CASE ChildExited(l)
    BY <1>1, <2>7 DEF ChildExited, Base
  <2>8. QED BY <2>1, <2>2, <2>3, <2>4, <2>5, <2>6, <2>7
<1>3. ASSUME NEW k \in Launches PROVE FlockInv(k)' /\ SessionInv(k)' /\ ChildInv(k)'
  <2>1. /\ TypeOK /\ FlockInv(k) /\ SessionInv(k) /\ ChildInv(k)
        /\ FlockInv(l) /\ SessionInv(l) /\ ChildInv(l)
    BY DEF Base
  <2>2. CASE k = l
    <3>1. CASE Prepare(l)
      BY <1>1, <2>1, <2>2, <3>1 DEF Prepare
    <3>2. CASE Accept(l)
      BY <1>1, <2>1, <2>2, <3>2 DEF Accept
    <3>3. CASE WriteOwnerPID(l)
      BY <1>1, <2>1, <2>2, <3>3 DEF WriteOwnerPID
    <3>4. CASE StartLoopholes(l)
      BY <1>1, <2>1, <2>2, <3>4 DEF StartLoopholes
    <3>5. CASE Spawn(l)
      BY <1>1, <2>1, <2>2, <3>5 DEF Spawn
    <3>6. CASE SpawnFails(l)
      BY <1>1, <2>1, <2>2, <3>6 DEF SpawnFails
    <3>7. CASE ChildExited(l)
      BY <1>1, <2>1, <2>2, <3>7 DEF ChildExited
    <3>8. QED BY <3>1, <3>2, <3>3, <3>4, <3>5, <3>6, <3>7
  <2>3. CASE k # l
    BY <1>1, <2>1, <2>3 DEF Prepare, Accept, WriteOwnerPID, StartLoopholes, Spawn, SpawnFails, ChildExited
  <2>4. QED BY <2>2, <2>3
<1>4. QED BY <1>2, <1>3 DEF Base

\* A signal, and the steps of onTerminate before stopLoopholes.
LEMMA BaseSignal ==
  ASSUME Base, NEW l \in Launches,
         Interrupt(l) \/ StopJail(l) \/ Disown(l) \/ Unlock(l)
  PROVE  Base'
<1> USE DEF FlockInv, SessionInv, ChildInv, Recorded, Critical, Closing, Over, Main, Signal, Holder, Starting,
         Running, Jails, NoJail, Relic, Jail, Locks, Free, TypeOK, files, SeenIdle, TakeOwner, LockClose, StopContainer, JailGone
<1>1. /\ Interrupt(l) => Signal(l) = "off" /\ Signal(l)' = "stop"
      /\ StopJail(l) => Signal(l) = "stop" /\ Signal(l)' = "disown"
      /\ Disown(l) => Signal(l) = "disown" /\ Signal(l)' = "unlock"
      /\ Unlock(l) => Signal(l) = "unlock" /\ Signal(l)' = "close"
      /\ Main(l)' = Main(l)
      /\ \A k \in Launches : k # l => Main(k)' = Main(k) /\ Signal(k)' = Signal(k)
      /\ pc' \in [Launches -> [Threads -> Pcs]]
  BY GotoSignal DEF Interrupt, StopJail, Disown, Unlock, Base, Pcs
<1>2. TypeOK'
  <2>1. CASE Interrupt(l)
    BY <1>1, <2>1 DEF Interrupt, Base
  <2>2. CASE StopJail(l)
    BY <1>1, <2>2 DEF StopJail, Base
  <2>3. CASE Disown(l)
    BY <1>1, <2>3 DEF Disown, Base
  <2>4. CASE Unlock(l)
    BY <1>1, <2>4 DEF Unlock, Base
  <2>5. QED BY <2>1, <2>2, <2>3, <2>4
<1>3. ASSUME NEW k \in Launches PROVE FlockInv(k)' /\ SessionInv(k)' /\ ChildInv(k)'
  <2>1. /\ TypeOK /\ FlockInv(k) /\ SessionInv(k) /\ ChildInv(k)
        /\ FlockInv(l) /\ SessionInv(l) /\ ChildInv(l)
    BY DEF Base
  <2>2. CASE k = l
    <3>1. CASE Interrupt(l)
      BY <1>1, <2>1, <2>2, <3>1 DEF Interrupt
    <3>2. CASE StopJail(l)
      BY <1>1, <2>1, <2>2, <3>2 DEF StopJail
    <3>3. CASE Disown(l)
      BY <1>1, <2>1, <2>2, <3>3 DEF Disown
    <3>4. CASE Unlock(l)
      BY <1>1, <2>1, <2>2, <3>4 DEF Unlock
    <3>5. QED BY <3>1, <3>2, <3>3, <3>4
  <2>3. CASE k # l
    BY <1>1, <2>1, <2>3 DEF Interrupt, StopJail, Disown, Unlock
  <2>4. QED BY <2>2, <2>3
<1>4. QED BY <1>2, <1>3 DEF Base

\* `podman run` and the onStarted hook.
LEMMA BaseChild ==
  ASSUME Base, NEW l \in Launches, Create(l) \/ OnStarted(l)
  PROVE  Base'
<1> USE DEF FlockInv, SessionInv, ChildInv, Recorded, Critical, Closing, Over, Main, Signal, Holder, Starting,
         Running, Jails, NoJail, Relic, Jail, Locks, Free, TypeOK, files, SeenIdle, TakeOwner, LockClose, StopContainer, JailGone
<1>1. /\ \A k \in Launches : Main(k)' = Main(k) /\ Signal(k)' = Signal(k)
      /\ pc' \in [Launches -> [Threads -> Pcs]]
  BY DEF Create, OnStarted, Base
<1>2. TypeOK'
  <2>1. CASE Create(l)
    BY <1>1, <2>1 DEF Create, Base
  <2>2. CASE OnStarted(l)
    BY <1>1, <2>2 DEF OnStarted, Base
  <2>3. QED BY <2>1, <2>2
<1>3. ASSUME NEW k \in Launches PROVE FlockInv(k)' /\ SessionInv(k)' /\ ChildInv(k)'
  <2>1. /\ TypeOK /\ FlockInv(k) /\ SessionInv(k) /\ ChildInv(k)
        /\ FlockInv(l) /\ SessionInv(l) /\ ChildInv(l)
    BY DEF Base
  <2>2. CASE k = l
    <3>1. CASE Create(l)
      BY <1>1, <2>1, <2>2, <3>1 DEF Create
    <3>2. CASE OnStarted(l)
      BY <1>1, <2>1, <2>2, <3>2 DEF OnStarted
    <3>3. QED BY <3>1, <3>2
  <2>3. CASE k # l
    BY <1>1, <2>1, <2>3 DEF Create, OnStarted
  <2>4. QED BY <2>2, <2>3
<1>4. QED BY <1>2, <1>3 DEF Base

\* The container comes up, or ends and is removed.
LEMMA BaseRuntime ==
  ASSUME Base, Boot \/ JailEnds
  PROVE  Base'
<1> USE DEF FlockInv, SessionInv, ChildInv, Recorded, Critical, Closing, Over, Main, Signal, Holder, Starting,
         Running, Jails, NoJail, Relic, Jail, Locks, Free, TypeOK, files, SeenIdle, TakeOwner, LockClose, StopContainer, JailGone
<1>0. PICK b \in Launches : ctr.by = b
  BY DEF Boot, JailEnds, Base
<1>1. /\ \A k \in Launches : Main(k)' = Main(k) /\ Signal(k)' = Signal(k)
      /\ pc' \in [Launches -> [Threads -> Pcs]]
  BY DEF Boot, JailEnds, Base
<1>2. TypeOK'
  <2>1. CASE Boot
    BY <1>1, <1>0, <2>1 DEF Boot, Base
  <2>2. CASE JailEnds
    BY <1>1, <1>0, <2>2 DEF JailEnds, Base
  <2>3. QED BY <2>1, <2>2
<1>3. ASSUME NEW k \in Launches PROVE FlockInv(k)' /\ SessionInv(k)' /\ ChildInv(k)'
  <2>1. /\ TypeOK /\ FlockInv(k) /\ SessionInv(k) /\ ChildInv(k)
        /\ FlockInv(b) /\ SessionInv(b) /\ ChildInv(b)
    BY <1>0 DEF Base
  <2>2. CASE k = b
    <3>1. CASE Boot
      BY <1>1, <2>1, <2>2, <1>0, <3>1 DEF Boot
    <3>2. CASE JailEnds
      BY <1>1, <2>1, <2>2, <1>0, <3>2 DEF JailEnds
    <3>3. QED BY <3>1, <3>2
  <2>3. CASE k # b
    <3>1. CASE Boot
      BY <1>1, <2>1, <2>3, <1>0, <3>1 DEF Boot
    <3>2. CASE JailEnds
      BY <1>1, <2>1, <2>3, <1>0, <3>2 DEF JailEnds
    <3>3. QED BY <3>1, <3>2
  <2>4. QED BY <2>2, <2>3
<1>4. QED BY <1>2, <1>3 DEF Base

\* Closing the fronts of one goroutine's teardown.
LEMMA BaseStopFronts ==
  ASSUME Base, NEW l \in Launches, NEW t \in Threads, StopFronts(l, t)
  PROVE  Base'
<1> USE DEF FlockInv, SessionInv, ChildInv, Recorded, Critical, Closing, Over, Main, Signal, Holder, Starting,
         Running, Jails, NoJail, Relic, Jail, Locks, Free, TypeOK, files, SeenIdle, TakeOwner, LockClose, StopContainer, JailGone
<1>1. /\ \/ t = "main" /\ Main(l) = "close" /\ Main(l)' = "guard" /\ Signal(l)' = Signal(l)
         \/ t = "signal" /\ Signal(l) = "close" /\ Signal(l)' = "guard" /\ Main(l)' = Main(l)
      /\ \A k \in Launches : k # l => Main(k)' = Main(k) /\ Signal(k)' = Signal(k)
      /\ pc' \in [Launches -> [Threads -> Pcs]]
  <2>1. CASE t = "main"
    BY <2>1, GotoMain DEF StopFronts, Base, Pcs
  <2>2. CASE t = "signal"
    BY <2>2, GotoSignal DEF StopFronts, Base, Pcs
  <2>3. QED BY <2>1, <2>2 DEF Threads
<1>2. TypeOK'
  BY <1>1 DEF StopFronts, Base
<1>3. ASSUME NEW k \in Launches PROVE FlockInv(k)' /\ SessionInv(k)' /\ ChildInv(k)'
  <2>1. /\ TypeOK /\ FlockInv(k) /\ SessionInv(k) /\ ChildInv(k)
        /\ FlockInv(l) /\ SessionInv(l) /\ ChildInv(l)
    BY DEF Base
  <2>2. CASE k = l
    BY <1>1, <2>1, <2>2 DEF StopFronts
  <2>3. CASE k # l
    BY <1>1, <2>1, <2>3 DEF StopFronts
  <2>4. QED BY <2>2, <2>3
<1>4. QED BY <1>2, <1>3 DEF Base

\* The teardown takes the free flock.
LEMMA BaseGuardTake ==
  ASSUME Base, NEW l \in Launches, NEW t \in Threads, GuardTake(l, t)
  PROVE  Base'
<1> USE DEF FlockInv, SessionInv, ChildInv, Recorded, Critical, Closing, Over, Main, Signal, Holder, Starting,
         Running, Jails, NoJail, Relic, Jail, Locks, Free, TypeOK, files, SeenIdle, TakeOwner, LockClose, StopContainer, JailGone
<1>1. /\ \/ t = "main" /\ Main(l) = "guard" /\ Main(l)' = "probe" /\ Signal(l)' = Signal(l)
         \/ t = "signal" /\ Signal(l) = "guard" /\ Signal(l)' = "probe" /\ Main(l)' = Main(l)
      /\ \A k \in Launches : k # l => Main(k)' = Main(k) /\ Signal(k)' = Signal(k)
      /\ pc' \in [Launches -> [Threads -> Pcs]]
  <2>1. CASE t = "main"
    BY <2>1, GotoMain DEF GuardTake, Base, Pcs
  <2>2. CASE t = "signal"
    BY <2>2, GotoSignal DEF GuardTake, Base, Pcs
  <2>3. QED BY <2>1, <2>2 DEF Threads
<1>2. TypeOK'
  BY <1>1 DEF GuardTake, Base
<1>3. ASSUME NEW k \in Launches PROVE FlockInv(k)' /\ SessionInv(k)' /\ ChildInv(k)'
  <2>1. /\ TypeOK /\ FlockInv(k) /\ SessionInv(k) /\ ChildInv(k)
        /\ FlockInv(l) /\ SessionInv(l) /\ ChildInv(l)
    BY DEF Base
  <2>2. CASE k = l
    BY <1>1, <2>1, <2>2 DEF GuardTake
  <2>3. CASE k # l
    BY <1>1, <2>1, <2>3 DEF GuardTake
  <2>4. QED BY <2>2, <2>3
<1>4. QED BY <1>2, <1>3 DEF Base

\* The flock is busy: leave.
LEMMA BaseGuardBusy ==
  ASSUME Base, NEW l \in Launches, NEW t \in Threads, GuardBusy(l, t)
  PROVE  Base'
<1> USE DEF FlockInv, SessionInv, ChildInv, Recorded, Critical, Closing, Over, Main, Signal, Holder, Starting,
         Running, Jails, NoJail, Relic, Jail, Locks, Free, TypeOK, files, SeenIdle, TakeOwner, LockClose, StopContainer, JailGone
<1>1. /\ \/ t = "main" /\ Main(l)' = "clear" /\ Signal(l)' = Signal(l) /\ hook' = hook
         \/ t = "signal" /\ Main(l)' = "done" /\ Signal(l)' = "done" /\ hook'[l] = "off"
      /\ (t = "main" /\ Main(l) = "guard") \/ (t = "signal" /\ Signal(l) = "guard")
      /\ hook' \in [Launches -> {"off", "polling"}] /\ front' \in SUBSET Launches
      /\ \A k \in Launches : k # l => hook'[k] = hook[k]
      /\ \A k \in Launches : k # l => Main(k)' = Main(k) /\ Signal(k)' = Signal(k)
      /\ pc' \in [Launches -> [Threads -> Pcs]]
  <2>1. TypeOK /\ Leave(l, t) /\ pc[l][t] = "guard" BY DEF GuardBusy, Base
  <2>2. (t = "main" /\ Main(l) = "guard") \/ (t = "signal" /\ Signal(l) = "guard") BY <2>1, ThreadAt
  <2>3. QED BY <2>1, <2>2, Leaving
<1>2. TypeOK'
  BY <1>1 DEF GuardBusy, Base
<1>3. ASSUME NEW k \in Launches PROVE FlockInv(k)' /\ SessionInv(k)' /\ ChildInv(k)'
  <2>1. /\ TypeOK /\ FlockInv(k) /\ SessionInv(k) /\ ChildInv(k)
        /\ FlockInv(l) /\ SessionInv(l) /\ ChildInv(l)
    BY DEF Base
  <2>2. CASE k = l
    BY <1>1, <2>1, <2>2 DEF GuardBusy
  <2>3. CASE k # l
    BY <1>1, <2>1, <2>3 DEF GuardBusy
  <2>4. QED BY <2>2, <2>3
<1>4. QED BY <1>2, <1>3 DEF Base

\* The directory goes, under the flock.
LEMMA BaseRetire ==
  ASSUME Base, NEW l \in Launches, NEW t \in Threads, Retire(l, t)
  PROVE  Base'
<1> USE DEF FlockInv, SessionInv, ChildInv, Recorded, Critical, Closing, Over, Main, Signal, Holder, Starting,
         Running, Jails, NoJail, Relic, Jail, Locks, Free, TypeOK, files, SeenIdle, TakeOwner, LockClose, StopContainer, JailGone
<1>1. /\ \/ t = "main" /\ Main(l)' = "clear" /\ Signal(l)' = Signal(l) /\ hook' = hook
         \/ t = "signal" /\ Main(l)' = "done" /\ Signal(l)' = "done" /\ hook'[l] = "off"
      /\ (t = "main" /\ Main(l) = "retire") \/ (t = "signal" /\ Signal(l) = "retire")
      /\ hook' \in [Launches -> {"off", "polling"}] /\ front' \in SUBSET Launches
      /\ \A k \in Launches : k # l => hook'[k] = hook[k]
      /\ \A k \in Launches : k # l => Main(k)' = Main(k) /\ Signal(k)' = Signal(k)
      /\ pc' \in [Launches -> [Threads -> Pcs]]
  <2>1. TypeOK /\ Leave(l, t) /\ pc[l][t] = "retire" BY DEF Retire, Base
  <2>2. (t = "main" /\ Main(l) = "retire") \/ (t = "signal" /\ Signal(l) = "retire") BY <2>1, ThreadAt
  <2>3. QED BY <2>1, <2>2, Leaving
<1>2. TypeOK'
  BY <1>1 DEF Retire, Base
<1>3. ASSUME NEW k \in Launches PROVE FlockInv(k)' /\ SessionInv(k)' /\ ChildInv(k)'
  <2>1. /\ TypeOK /\ FlockInv(k) /\ SessionInv(k) /\ ChildInv(k)
        /\ FlockInv(l) /\ SessionInv(l) /\ ChildInv(l)
    BY DEF Base
  <2>2. CASE k = l
    BY <1>1, <2>1, <2>2 DEF Retire
  <2>3. CASE k # l
    BY <1>1, <2>1, <2>3 DEF Retire
  <2>4. QED BY <2>2, <2>3
<1>4. QED BY <1>2, <1>3 DEF Base

\* A running jail keeps its directory.
LEMMA BaseProbe ==
  ASSUME Base, NEW l \in Launches, NEW t \in Threads, Probe(l, t)
  PROVE  Base'
<1> USE DEF FlockInv, SessionInv, ChildInv, Recorded, Critical, Closing, Over, Main, Signal, Holder, Starting,
         Running, Jails, NoJail, Relic, Jail, Locks, Free, TypeOK, files, SeenIdle, TakeOwner, LockClose, StopContainer, JailGone
<1>1. /\ \/ /\ \/ t = "main" /\ Main(l)' = "clear" /\ Signal(l)' = Signal(l) /\ hook' = hook
               \/ t = "signal" /\ Main(l)' = "done" /\ Signal(l)' = "done" /\ hook'[l] = "off"
            /\ lock' = Free
         \/ /\ hook' = hook /\ lock' = lock
            /\ \/ t = "main" /\ Main(l)' = "retire" /\ Signal(l)' = Signal(l)
               \/ t = "signal" /\ Signal(l)' = "retire" /\ Main(l)' = Main(l)
      /\ (t = "main" /\ Main(l) = "probe") \/ (t = "signal" /\ Signal(l) = "probe")
      /\ hook' \in [Launches -> {"off", "polling"}] /\ front' \in SUBSET Launches
      /\ \A k \in Launches : k # l => hook'[k] = hook[k]
      /\ \A k \in Launches : k # l => Main(k)' = Main(k) /\ Signal(k)' = Signal(k)
      /\ pc' \in [Launches -> [Threads -> Pcs]]
  <2>0. TypeOK /\ pc[l][t] = "probe" BY DEF Probe, Base
  <2>1. CASE Leave(l, t) /\ lock' = Free
    <3>1. (t = "main" /\ Main(l) = "probe") \/ (t = "signal" /\ Signal(l) = "probe") BY <2>0, ThreadAt
    <3>2. QED BY <2>0, <2>1, <3>1, Leaving
  <2>2. CASE Goto(l, t, "probe", "retire") /\ UNCHANGED <<lock, front, hook>>
    <3>1. CASE t = "main"
      <4>1. Goto(l, "main", "probe", "retire") BY <2>2, <3>1
      <4>2. QED BY <2>0, <2>2, <3>1, <4>1, GotoMain DEF Pcs
    <3>2. CASE t = "signal"
      <4>1. Goto(l, "signal", "probe", "retire") BY <2>2, <3>2
      <4>2. QED BY <2>0, <2>2, <3>2, <4>1, GotoSignal DEF Pcs
    <3>3. QED BY <3>1, <3>2 DEF Threads
  <2>3. QED BY <2>1, <2>2 DEF Probe
<1>2. TypeOK'
  BY <1>1 DEF Probe, Base
<1>3. ASSUME NEW k \in Launches PROVE FlockInv(k)' /\ SessionInv(k)' /\ ChildInv(k)'
  <2>1. /\ TypeOK /\ FlockInv(k) /\ SessionInv(k) /\ ChildInv(k)
        /\ FlockInv(l) /\ SessionInv(l) /\ ChildInv(l)
    BY DEF Base
  <2>2. CASE k = l
    BY <1>1, <2>1, <2>2 DEF Probe
  <2>3. CASE k # l
    BY <1>1, <2>1, <2>3 DEF Probe
  <2>4. QED BY <2>2, <2>3
<1>4. QED BY <1>2, <1>3 DEF Base

\* The end of a launch: clearOwnerPID, or SIGKILL.
LEMMA BaseEnding ==
  ASSUME Base, NEW l \in Launches, ClearOwnerPID(l) \/ Crash(l)
  PROVE  Base'
<1> USE DEF FlockInv, SessionInv, ChildInv, Recorded, Critical, Closing, Over, Main, Signal, Holder, Starting,
         Running, Jails, NoJail, Relic, Jail, Locks, Free, TypeOK, files, SeenIdle, TakeOwner, LockClose, StopContainer, JailGone
<1>1. /\ \/ ClearOwnerPID(l) /\ Main(l) = "clear" /\ Main(l)' = "done" /\ Signal(l)' = "done"
         \/ Crash(l) /\ (Early \/ ~Starting(l)) /\ Main(l)' = "dead" /\ Signal(l)' = "dead"
      /\ front' \in SUBSET Launches /\ hook' \in [Launches -> {"off", "polling"}]
      /\ hook'[l] = "off" /\ \A k \in Launches : k # l => hook'[k] = hook[k]
      /\ \A k \in Launches : k # l => Main(k)' = Main(k) /\ Signal(k)' = Signal(k)
      /\ pc' \in [Launches -> [Threads -> Pcs]]
  BY Ends DEF ClearOwnerPID, Crash, Base
<1>2. TypeOK'
  <2>1. CASE ClearOwnerPID(l)
    BY <1>1, <2>1 DEF ClearOwnerPID, Base
  <2>2. CASE Crash(l)
    BY <1>1, <2>2 DEF Crash, Base
  <2>3. QED BY <2>1, <2>2
<1>3. ASSUME NEW k \in Launches PROVE FlockInv(k)' /\ SessionInv(k)' /\ ChildInv(k)'
  <2>1. /\ TypeOK /\ FlockInv(k) /\ SessionInv(k) /\ ChildInv(k)
        /\ FlockInv(l) /\ SessionInv(l) /\ ChildInv(l)
    BY DEF Base
  <2>2. CASE k = l
    <3>1. CASE ClearOwnerPID(l)
      BY <1>1, <2>1, <2>2, <3>1 DEF ClearOwnerPID
    <3>2. CASE Crash(l)
      BY <1>1, <2>1, <2>2, <3>2 DEF Crash
    <3>3. QED BY <3>1, <3>2
  <2>3. CASE k # l
    BY <1>1, <2>1, <2>3 DEF ClearOwnerPID, Crash
  <2>4. QED BY <2>2, <2>3
<1>4. QED BY <1>2, <1>3 DEF Base

LEMMA BaseStep == Base /\ [Next]_vars => Base'
<1> SUFFICES ASSUME Base, [Next]_vars PROVE Base' OBVIOUS
<1>1. CASE UNCHANGED vars
  BY <1>1 DEF vars, Base, TypeOK, FlockInv, SessionInv, ChildInv, Recorded, Main, Signal, Starting
<1>2. ASSUME NEW l \in Launches, NEW t \in Threads, Teardown(l, t) PROVE Base'
  BY <1>2, BaseStopFronts, BaseGuardBusy, BaseGuardTake, BaseProbe, BaseRetire DEF Teardown
<1>3. ASSUME NEW l \in Launches, MainStep(l) PROVE Base'
  BY <1>2, <1>3, BaseBefore, BaseLocked, BasePreparing, BaseEnding DEF MainStep, Threads
<1>4. ASSUME NEW l \in Launches, SignalStep(l) PROVE Base'
  BY <1>2, <1>4, BaseSignal DEF SignalStep, Threads
<1>5. ASSUME NEW l \in Launches,
             Start(l) \/ OnStarted(l) \/ Interrupt(l) \/ Create(l) \/ Crash(l)
      PROVE Base'
  BY <1>5, BaseBefore, BaseChild, BaseSignal, BaseEnding
<1>6. QED BY <1>1, <1>3, <1>4, <1>5, BaseRuntime DEF Next

LEMMA BaseAlways == Spec => []Base
  BY BaseInit, BaseStep, PTL DEF Spec

\* Every variable of a launch keeps its type, under no hypothesis.
THEOREM LaunchTypes == Spec => []TypeOK
  BY BaseAlways, PTL DEF Base

\* No exit path keeps the workspace flock (run.go's Close on every return, the
\* kernel's on a kill): whoever holds it is alive and at a place in the code that
\* gives it back.  This is the safety part of LaunchSettles.
FlockIsLive ==
  lock # Free =>
    /\ Alive(lock.by)
    /\ pc[lock.by]["main"] \in Critical \cup Closing \cup {"proxy"}

THEOREM FlockGivenBack == Spec => []FlockIsLive
<1>1. Base => FlockIsLive
  <2> SUFFICES ASSUME Base, lock # Free PROVE FlockIsLive
    BY DEF FlockIsLive
  <2>1. PICK l \in Launches : /\ lock.by = l
                              /\ \/ lock = Holder(l, "launch") \/ lock = Holder(l, "main")
                                 \/ lock = Holder(l, "signal")
    BY DEF Base, TypeOK, Locks, Holder
  <2>2. FlockInv(l) /\ SessionInv(l)
    BY DEF Base
  <2>3. Main(l) \in Critical \cup Closing \cup {"proxy"}
    BY <2>1, <2>2 DEF FlockInv, SessionInv, Critical, Closing, Over
  <2>4. QED BY <2>1, <2>3 DEF FlockIsLive, Alive, Main, Critical, Closing, Over
<1>2. QED BY <1>1, BaseAlways, PTL

\* Without the escape hatch (which closes the lock before the spawn), at most one
\* launch is between the acquisition and the spawn, and no teardown is between its
\* probe and the retirement of the directory while one is there.
OneInside ==
  \A l, k \in Launches :
    pc[l]["main"] \in Critical =>
      /\ pc[k]["main"] \in Critical => k = l
      /\ \A t \in Threads : pc[k][t] \notin {"probe", "retire"}

THEOREM FlockExcludes == ASSUME ~Hatch PROVE Spec => []OneInside
<1>1. Base => OneInside
  <2> SUFFICES ASSUME Base, NEW l \in Launches, NEW k \in Launches, Main(l) \in Critical
               PROVE  /\ Main(k) \in Critical => k = l
                      /\ Main(k) \notin {"probe", "retire"} /\ Signal(k) \notin {"probe", "retire"}
    BY DEF OneInside, Threads, Main, Signal
  <2>1. lock = Holder(l, "launch")
    BY DEF Base, FlockInv
  <2>2. FlockInv(k)
    BY DEF Base
  <2>3. QED BY <2>1, <2>2 DEF FlockInv, Holder
<1>2. QED BY <1>1, BaseAlways, PTL

\* A jail without its launch was left by a kill, with the owner file that lets the
\* reaper prove it unless another launch took that file, or by a `podman stop` that
\* failed, as long as no signal comes while the runtime is still starting the jail.
\* Polls that expire, queries without an answer and the hatch make no difference.
THEOREM NothingAbandoned == ASSUME ~Early PROVE Spec => []NoAbandonedJail
<1>1. Base => NoAbandonedJail
  <2> SUFFICES ASSUME Base, Running, Main(ctr.by) \in Over, ctr.by \notin unstopped
               PROVE  Main(ctr.by) = "dead" /\ Recorded(ctr.by)
    BY DEF NoAbandonedJail, Alive, Main, Recorded
  <2>1. ctr.by \in Launches /\ client[ctr.by] = "attached"
    BY DEF Base, TypeOK, ChildInv, Running, Jails, NoJail, Relic
  <2>2. QED BY <2>1 DEF Base, ChildInv, Over
<1>2. QED BY <1>1, BaseAlways, PTL

-----------------------------------------------------------------------------
(* When the runtime answers, and within the polls, signals and kills spare   *)
(* the start of a jail and no escape hatch is set.                           *)

\* `podman run` never meets its own name in use (run.go 937-988, 1327-1334).
THEOREM NamesNeverCollide == ASSUME Timely PROVE Spec => []NoCollision
<1>1. Inv => NoCollision
  BY DEF Inv, TypeOK, LaunchInv, StartingInv, ClientInv, NoCollision, Starting, Holds, Holder
<1>2. QED BY <1>1, InvAlways, PTL

\* The services directory stays under a jail and under a launch about to mount it
\* (stopLoopholes' guard stack, loopholesruntime.go 355-360).
THEOREM DirectoryStays == ASSUME Timely PROVE Spec => []DirUnderJail
<1>1. Inv => DirUnderJail
  BY DEF Inv, TypeOK, LaunchInv, FilesInv, RunningInv, DirUnderJail, Starting, Running, Mounting,
     Main, Jails, NoJail, Relic, Jail
<1>2. QED BY <1>1, InvAlways, PTL

\* A running jail's endpoint file and owner file are its own launch's, or absent.
THEOREM FilesAreTheJails == ASSUME Timely PROVE Spec => [](NoForeignEndpoint /\ OwnerStarted)
<1>1. Inv => NoForeignEndpoint /\ OwnerStarted
  BY DEF Inv, RunningInv, NoForeignEndpoint, OwnerStarted
<1>2. QED BY <1>1, InvAlways, PTL

\* The endpoint file a running jail reads is never another launch's.
THEOREM EndpointIsOwn == ASSUME Timely PROVE Spec => []NoForeignEndpoint
<1>1. Inv => NoForeignEndpoint
  BY DEF Inv, RunningInv, NoForeignEndpoint
<1>2. QED BY <1>1, InvAlways, PTL
=============================================================================
