--------------------------- MODULE HostSingleton ----------------------------
(***************************************************************************)
(* internal/broker: the host-wide daemons, one per loophole name, ensured  *)
(* by every launch and stopped or restarted by `yolo host-daemon`.  An     *)
(* ensure works under the name's flock; a stop and the first half of a     *)
(* restart take no lock.  What the callers know of a daemon is its socket  *)
(* and its PID file.                                                       *)
(***************************************************************************)
EXTENDS Naturals

CONSTANTS Callers,     \* launches and management commands
          Instances,   \* bound: daemon processes of a behaviour; a PID is never reused
          Names,       \* loopholes with scope "host"
          Claude,      \* the one whose argv RealPgrepStrays matches
          Migrates,    \* names whose launches have a PrepareLocked hook
          Verbs,       \* what the callers of a behaviour ask for
          MaxCrashes,  \* bound: callers killed in a behaviour
          SlowBind,    \* a daemon may take longer than the 5 s wait to bind
          Orphans,     \* a kill may also hit a caller that is Responsible
          None

ASSUME SingletonAssumption ==
  /\ None \notin Callers \cup Instances \cup Names
  /\ Migrates \subseteq Names
  /\ Verbs \subseteq {"ensure", "stop", "restart"}
  /\ MaxCrashes \in Nat
  /\ SlowBind \in BOOLEAN
  /\ Orphans \in BOOLEAN

VARIABLES
  lock,    \* /tmp/yolo-<name>.lock: the caller holding the flock
  sock,    \* /tmp/yolo-<name>.sock: the daemon whose bind made it
  pidf,    \* /tmp/yolo-<name>.pid: the daemon whose PID it records
  life,    \* each daemon process
  kind,    \* the name it serves
  termed,  \* it has a SIGTERM pending
  pc, verb, name,
  own,     \* the daemon a caller has just spawned
  victims, \* the PIDs its BrokerKill waits for
  crashes

vars == <<lock, sock, pidf, life, kind, termed, pc, verb, name, own, victims, crashes>>
files == <<sock, pidf>>
daemons == <<life, kind, termed>>
request == <<verb, name>>

Init ==
  /\ lock = [n \in Names |-> None]
  /\ sock = [n \in Names |-> None]
  /\ pidf = [n \in Names |-> None]
  /\ life = [i \in Instances |-> "unborn"]
  /\ kind = [i \in Instances |-> None]
  /\ termed = [i \in Instances |-> FALSE]
  /\ pc = [c \in Callers |-> "idle"]
  /\ verb = [c \in Callers |-> "none"]
  /\ name = [c \in Callers |-> None]
  /\ own = [c \in Callers |-> None]
  /\ victims = [c \in Callers |-> {}]
  /\ crashes = 0

Live(i) == life[i] \in {"starting", "serving"}
Stays(i) == Live(i) /\ ~termed[i]
Accepts(i) == life[i] = "serving" /\ ~termed[i]

\* BrokerIsAlive: a PID file, a live process of that PID, a socket that accepts.
IsAlive(n) ==
  /\ pidf[n] # None /\ Live(pidf[n])
  /\ sock[n] # None /\ Accepts(sock[n])

Goto(c, from, to) ==
  /\ pc[c] = from
  /\ pc' = [pc EXCEPT ![c] = to]

\* The command returns.
Done(c) ==
  /\ pc' = [pc EXCEPT ![c] = "idle"]
  /\ verb' = [verb EXCEPT ![c] = "none"]
  /\ name' = [name EXCEPT ![c] = None]
  /\ own' = [own EXCEPT ![c] = None]

\* BrokerSpawn returns: the deferred close drops the flock.
Return(c) == Done(c) /\ lock' = [lock EXCEPT ![name[c]] = None]

Continue == UNCHANGED <<lock, request, own>>

-----------------------------------------------------------------------------
(* BrokerSpawn.                                                            *)

Ask(c) ==
  /\ \E v \in Verbs : /\ Goto(c, "idle", IF v = "ensure" THEN "lock" ELSE "kill")
                      /\ verb' = [verb EXCEPT ![c] = v]
  /\ \E n \in Names : name' = [name EXCEPT ![c] = n]
  /\ UNCHANGED <<lock, files, daemons, own, victims, crashes>>

Lock(c) ==
  /\ Goto(c, "lock", "prepare")
  /\ lock[name[c]] = None
  /\ lock' = [lock EXCEPT ![name[c]] = c]
  /\ UNCHANGED <<files, daemons, request, own, victims, crashes>>

\* The lock file cannot be opened or locked: nothing is started.
LockFails(c) ==
  /\ pc[c] = "lock"
  /\ Done(c)
  /\ UNCHANGED <<lock, files, daemons, victims, crashes>>

\* Nothing to migrate, a state to migrate once the old daemon has stopped, or an
\* error that ends the ensure; a restart's spawn has no hook.
Prepare(c) ==
  /\ pc[c] = "prepare"
  /\ \/ Goto(c, "prepare", "probe") /\ Continue
     \/ name[c] \in Migrates /\ verb[c] = "ensure" /\ Goto(c, "prepare", "kill") /\ Continue
     \/ name[c] \in Migrates /\ verb[c] = "ensure" /\ Return(c)
  /\ UNCHANGED <<files, daemons, victims, crashes>>

\* Mutation of Probe: the liveness re-check inside the lock is skipped.
ProbeNothing(c) ==
  /\ Goto(c, "probe", "clear")
  /\ UNCHANGED <<lock, files, daemons, request, own, victims, crashes>>

\* The race loser finds the winner's daemon and returns.
Probe(c) ==
  /\ pc[c] = "probe"
  /\ IF IsAlive(name[c])
     THEN Return(c)
     ELSE Goto(c, "probe", "clear") /\ Continue
  /\ UNCHANGED <<files, daemons, victims, crashes>>

\* A second bind on a stale path would fail.
Clear(c) ==
  /\ Goto(c, "clear", "spawn")
  /\ sock' = [sock EXCEPT ![name[c]] = None]
  /\ UNCHANGED <<lock, pidf, daemons, request, own, victims, crashes>>

Spawn(c) ==
  /\ Goto(c, "spawn", "record")
  /\ \E i \in Instances :
       /\ life[i] = "unborn"
       /\ life' = [life EXCEPT ![i] = "starting"]
       /\ kind' = [kind EXCEPT ![i] = name[c]]
       /\ own' = [own EXCEPT ![c] = i]
  /\ UNCHANGED <<lock, files, termed, request, victims, crashes>>

SpawnFails(c) ==
  /\ pc[c] = "spawn"
  /\ Return(c)
  /\ UNCHANGED <<files, daemons, victims, crashes>>

\* Mutation of Record: the PID file is left to the daemon's first bind.
RecordNothing(c) ==
  /\ Goto(c, "record", "wait")
  /\ UNCHANGED <<lock, files, daemons, request, own, victims, crashes>>

Record(c) ==
  /\ Goto(c, "record", "wait")
  /\ pidf' = [pidf EXCEPT ![name[c]] = own[c]]
  /\ UNCHANGED <<lock, sock, daemons, request, own, victims, crashes>>

\* Mutation of Wait: only the socket ends the wait.
WaitForSocket(c) ==
  /\ pc[c] = "wait"
  /\ sock[name[c]] # None
  /\ Return(c)
  /\ UNCHANGED <<files, daemons, victims, crashes>>

\* The socket appears, the child is seen dead, or 5 s pass: without SlowBind that
\* is only when a kill has removed the socket again.
Wait(c) ==
  /\ pc[c] = "wait"
  /\ sock[name[c]] # None \/ life[own[c]] # "starting" \/ SlowBind
  /\ Return(c)
  /\ UNCHANGED <<files, daemons, victims, crashes>>

-----------------------------------------------------------------------------
(* BrokerKill.                                                             *)

\* What follows a kill: Restart spawns, a migration goes on or fails, Stop is done.
AfterKill(c) ==
  \/ verb[c] = "stop" /\ Done(c) /\ UNCHANGED lock
  \/ verb[c] = "restart" /\ pc' = [pc EXCEPT ![c] = "lock"] /\ Continue
  \/ verb[c] = "ensure" /\ pc' = [pc EXCEPT ![c] = "probe"] /\ Continue
  \/ verb[c] = "ensure" /\ Return(c)

Strays == {i \in Instances : Live(i) /\ kind[i] = Claude}
Targets(n) == IF pidf[n] # None THEN {pidf[n]} ELSE Strays

\* The PIDs are read and each is sent SIGTERM.
Kill(c) ==
  /\ Goto(c, "kill", "reap")
  /\ Targets(name[c]) # {}
  /\ victims' = [victims EXCEPT ![c] = Targets(name[c])]
  /\ termed' = [i \in Instances |-> termed[i] \/ (i \in Targets(name[c]) /\ Live(i))]
  /\ UNCHANGED <<lock, files, life, kind, request, own, crashes>>

KillNothing(c) ==
  /\ pc[c] = "kill"
  /\ Targets(name[c]) = {}
  /\ sock' = [sock EXCEPT ![name[c]] = None]
  /\ AfterKill(c)
  /\ UNCHANGED <<pidf, daemons, victims, crashes>>

\* The victims have exited, or the grace period is over and they are killed.
Killed(c) ==
  /\ Goto(c, "reap", "unpid")
  /\ life' = [i \in Instances |-> IF i \in victims[c] THEN "dead" ELSE life[i]]
  /\ victims' = [victims EXCEPT ![c] = {}]
  /\ UNCHANGED <<lock, files, kind, termed, request, own, crashes>>

RemovePID(c) ==
  /\ Goto(c, "unpid", "unsock")
  /\ pidf' = [pidf EXCEPT ![name[c]] = None]
  /\ UNCHANGED <<lock, sock, daemons, request, own, victims, crashes>>

RemoveSocket(c) ==
  /\ pc[c] = "unsock"
  /\ sock' = [sock EXCEPT ![name[c]] = None]
  /\ AfterKill(c)
  /\ UNCHANGED <<pidf, daemons, victims, crashes>>

-----------------------------------------------------------------------------
(* The daemons.                                                            *)

\* bindUnixSocket: whatever is at the path is replaced.
Bind(i) ==
  /\ life[i] = "starting"
  /\ life' = [life EXCEPT ![i] = "serving"]
  /\ sock' = [sock EXCEPT ![kind[i]] = i]
  /\ UNCHANGED <<lock, pidf, kind, termed, pc, request, own, victims, crashes>>

\* A crash, or the end of a graceful shutdown; the socket file stays.
Dies(i) ==
  /\ Live(i)
  /\ life' = [life EXCEPT ![i] = "dead"]
  /\ UNCHANGED <<lock, files, kind, termed, pc, request, own, victims, crashes>>

\* The daemon a caller has just spawned runs, and is not recorded or not bound yet.
Responsible(c) ==
  \/ pc[c] = "record" /\ Live(own[c])
  \/ pc[c] = "wait" /\ life[own[c]] = "starting"

\* A caller is killed; the kernel drops its flock, a daemon it spawned lives on.
Crash(c) ==
  /\ pc[c] # "idle" /\ crashes < MaxCrashes
  /\ Orphans \/ ~Responsible(c)
  /\ crashes' = crashes + 1
  /\ Done(c)
  /\ lock' = [n \in Names |-> IF lock[n] = c THEN None ELSE lock[n]]
  /\ victims' = [victims EXCEPT ![c] = {}]
  /\ UNCHANGED <<files, daemons>>

-----------------------------------------------------------------------------
InSpawn(c) ==
  \/ Prepare(c) \/ Probe(c) \/ Clear(c)
  \/ Spawn(c) \/ SpawnFails(c) \/ Record(c) \/ Wait(c)

BrokerSpawn(c) == Lock(c) \/ LockFails(c) \/ InSpawn(c)

BrokerKill(c) ==
  \/ Kill(c) \/ KillNothing(c) \/ Killed(c) \/ RemovePID(c) \/ RemoveSocket(c)

Next ==
  \/ \E c \in Callers : Ask(c) \/ BrokerSpawn(c) \/ BrokerKill(c) \/ Crash(c)
  \/ \E i \in Instances : Bind(i) \/ Dies(i)

Spec == Init /\ [][Next]_vars

\* A caller that can move does; flock serves its waiters in turn, and need not fail; a
\* daemon that was started binds or dies.
Fairness ==
  /\ \A c \in Callers : WF_vars(InSpawn(c) \/ BrokerKill(c)) /\ SF_vars(Lock(c))
  /\ \A i \in Instances : WF_vars(Bind(i))
FairSpec == Spec /\ Fairness

-----------------------------------------------------------------------------
(* Properties.                                                             *)

TypeOK ==
  /\ lock \in [Names -> Callers \cup {None}]
  /\ sock \in [Names -> Instances \cup {None}]
  /\ pidf \in [Names -> Instances \cup {None}]
  /\ life \in [Instances -> {"unborn", "starting", "serving", "dead"}]
  /\ kind \in [Instances -> Names \cup {None}]
  /\ termed \in [Instances -> BOOLEAN]
  /\ pc \in [Callers -> {"idle", "lock", "prepare", "probe", "clear", "spawn", "record",
                         "wait", "kill", "reap", "unpid", "unsock"}]
  /\ verb \in [Callers -> {"none", "ensure", "stop", "restart"}]
  /\ name \in [Callers -> Names \cup {None}]
  /\ own \in [Callers -> Instances \cup {None}]
  /\ victims \in [Callers -> SUBSET Instances]
  /\ crashes \in 0..MaxCrashes

\* One process per name and host, however many launches ensure it at once, whatever
\* dies meanwhile and whichever state is migrated; one that is about to exit does
\* not count.
OneDaemon ==
  \A i, j \in Instances : Stays(i) /\ Stays(j) /\ kind[i] = kind[j] => i = j

\* No daemon is lost sight of: outside an ensure, the live daemon of a name is the
\* one its PID file records, and its socket is the one at the path, so that status,
\* stop and every front find it.
Findable ==
  \A i \in Instances : Stays(i) /\ lock[kind[i]] = None =>
    pidf[kind[i]] = i /\ sock[kind[i]] = i /\ life[i] = "serving"

\* An ensure ends, whoever is ahead of it in the lock's queue and whatever dies.
EnsureEnds == \A c \in Callers : pc[c] = "lock" ~> pc[c] = "idle"

\* Claim of Stop's comment: a kill is aimed at this name's daemon only.
KillsItsOwn ==
  \A c \in Callers : \A i \in victims[c] : kind[i] = name[c]
=============================================================================
