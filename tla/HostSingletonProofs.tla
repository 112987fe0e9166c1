------------------------ MODULE HostSingletonProofs -------------------------
(***************************************************************************)
(* Proofs about HostSingleton, for every number of callers, daemons, names *)
(* and kills of a caller.  Types hold under no hypothesis.  The other two  *)
(* results are about callers that only ensure, daemons that bind or die    *)
(* within the wait, and kills that spare a caller whose daemon is not yet  *)
(* recorded and bound (Calm): a run refutes them without any one of these. *)
(* Their inductive invariant says what each point of BrokerSpawn has       *)
(* established about the daemons of its name.                              *)
(***************************************************************************)
EXTENDS HostSingleton, TLAPS

Calm == Verbs = {"ensure"} /\ ~Orphans /\ ~SlowBind

\* Nothing of the name stays up; or only what both files name.
Empty(n) == \A i \in Instances : kind[i] = n => ~Stays(i)
Settled(n) == \A i \in Instances :
  kind[i] = n /\ Stays(i) => pidf[n] = i /\ sock[n] = i /\ life[i] = "serving"

\* The caller's daemon is the only one, and the socket is its own or not there yet.
Launched(n, i) ==
  /\ i \in Instances /\ kind[i] = n
  /\ \A j \in Instances : kind[j] = n /\ Stays(j) => j = i
  /\ life[i] = "starting" => sock[n] = None
  /\ life[i] = "serving" => sock[n] = i

\* A caller past the lock holds it, and knows this of its name's daemons.
Knows(c) ==
  /\ pc[c] \in {"prepare", "probe", "kill"} => Settled(name[c])
  /\ pc[c] \in {"reap", "unpid", "unsock", "clear", "spawn"} => Empty(name[c])
  /\ pc[c] = "spawn" => sock[name[c]] = None
  /\ pc[c] \in {"record", "wait"} => Launched(name[c], own[c])
  /\ pc[c] = "wait" => pidf[name[c]] = own[c]

CallerInv(c) ==
  /\ pc[c] # "idle" => verb[c] = "ensure" /\ name[c] \in Names
  /\ pc[c] \notin {"idle", "lock"} => lock[name[c]] = c
  /\ Knows(c)

LockInv == \A n \in Names :
  /\ lock[n] = None => Settled(n)
  /\ lock[n] # None => pc[lock[n]] \notin {"idle", "lock"} /\ name[lock[n]] = n

\* A daemon that has not bound yet is one its launcher waits for.
Awaited(i) == \E c \in Callers :
  lock[kind[i]] = c /\ name[c] = kind[i] /\ own[c] = i /\ pc[c] \in {"record", "wait"}

DaemonInv(i) ==
  /\ life[i] = "unborn" => kind[i] = None
  /\ Live(i) => kind[i] \in Names
  /\ life[i] = "starting" => Awaited(i)

Inv == /\ TypeOK /\ LockInv
       /\ \A c \in Callers : CallerInv(c)
       /\ \A i \in Instances : DaemonInv(i)

-----------------------------------------------------------------------------
LEMMA InitInv == Init => Inv
  BY SingletonAssumption
  DEF Init, Inv, TypeOK, LockInv, CallerInv, Knows, DaemonInv, Settled, Stays, Live

\* A caller inside BrokerSpawn's critical section; a migration's kill is part of it,
\* a stop's and a restart's are not.
Inside(c) ==
  \/ pc[c] \in {"prepare", "probe", "clear", "spawn", "record", "wait"}
  \/ verb[c] = "ensure" /\ pc[c] \in {"kill", "reap", "unpid", "unsock"}

HolderInv(c) ==
  /\ pc[c] # "idle" => name[c] \in Names /\ verb[c] # "none"
  /\ pc[c] \in {"lock", "prepare", "probe", "clear", "spawn", "record", "wait"} =>
       verb[c] # "stop"
  /\ Inside(c) => lock[name[c]] = c
FlockIsLive == \A n \in Names : lock[n] # None => Inside(lock[n]) /\ name[lock[n]] = n
OneInside == \A c, d \in Callers : Inside(c) /\ Inside(d) /\ name[c] = name[d] => c = d

\* What every step keeps, whatever the callers ask for and whoever is killed.
Base == TypeOK /\ FlockIsLive /\ \A c \in Callers : HolderInv(c)

LEMMA BaseKept == ASSUME Base, [Next]_vars PROVE Base'
<1> USE SingletonAssumption DEF Base, TypeOK, FlockIsLive, HolderInv, Inside
<1>1. ASSUME NEW c \in Callers, Ask(c) PROVE Base'
  BY <1>1 DEF Ask, Goto, files, daemons
<1>2. ASSUME NEW c \in Callers, BrokerSpawn(c) PROVE Base'
  <2> USE DEF files, daemons, request, Continue, Goto, Return, Done
  <2>1. CASE Lock(c) \/ LockFails(c) \/ Prepare(c) \/ Probe(c)
    BY <2>1 DEF Lock, LockFails, Prepare, Probe
  <2>2. CASE Clear(c) \/ SpawnFails(c) \/ Record(c) \/ Wait(c)
    BY <2>2 DEF Clear, SpawnFails, Record, Wait
  <2>3. CASE Spawn(c)
    BY <2>3 DEF Spawn
  <2> QED BY <1>2, <2>1, <2>2, <2>3 DEF BrokerSpawn, InSpawn
<1>3. ASSUME NEW c \in Callers, BrokerKill(c) PROVE Base'
  <2> USE DEF files, daemons, request, Continue, Goto, Return, Done
  <2>1. CASE Kill(c)
    <3>1. Targets(name[c]) \subseteq Instances
      BY <2>1 DEF Kill, Targets, Strays
    <3>2. termed' \in [Instances -> BOOLEAN]
      BY <2>1, Zenon DEF Kill
    <3> QED BY <2>1, <3>1, <3>2 DEF Kill
  <2>2. CASE Killed(c)
    BY <2>2 DEF Killed
  <2>3. CASE RemovePID(c)
    BY <2>3 DEF RemovePID
  <2>4. ASSUME pc[c] \in {"kill", "unsock"}, AfterKill(c),
               sock' = [sock EXCEPT ![name[c]] = None],
               UNCHANGED <<pidf, daemons, victims, crashes>>
        PROVE  Base'
    <3>1. CASE verb[c] = "stop"
      BY <2>4, <3>1 DEF AfterKill, daemons
    <3>2. CASE verb[c] = "restart"
      BY <2>4, <3>2 DEF AfterKill, daemons
    <3>3. CASE verb[c] = "ensure"
      BY <2>4, <3>3 DEF AfterKill, daemons
    <3> QED BY <2>4, <3>1, <3>2, <3>3
  <2>5. CASE KillNothing(c) \/ RemoveSocket(c)
    BY <2>4, <2>5 DEF KillNothing, RemoveSocket
  <2> QED BY <1>3, <2>1, <2>2, <2>3, <2>5 DEF BrokerKill
<1>4. ASSUME NEW c \in Callers, Crash(c) PROVE Base'
  BY <1>4 DEF Crash, Done, files, daemons
<1>5. ASSUME NEW i \in Instances, Bind(i) \/ Dies(i) PROVE Base'
  BY <1>5 DEF Bind, Dies, Live, files, daemons, request
<1>6. CASE UNCHANGED vars
  BY <1>6 DEF vars
<1> QED BY <1>1, <1>2, <1>3, <1>4, <1>5, <1>6 DEF Next

LEMMA BaseHolds == Spec => []Base
<1>1. Init => Base
  BY SingletonAssumption DEF Init, Base, TypeOK, FlockIsLive, HolderInv, Inside
<1>2. Base /\ [Next]_vars => Base'
  BY BaseKept
<1> QED BY <1>1, <1>2, PTL DEF Spec

LEMMA AskKeeps ==
  ASSUME Inv, Calm, NEW c \in Callers, Ask(c), TypeOK'
  PROVE  Inv'
<1> USE SingletonAssumption DEF Inv, TypeOK, Calm, Ask, Goto, files, daemons, request
<1>1. LockInv'
  BY DEF LockInv, CallerInv, Knows, Settled, Empty, Launched, Stays, Live
<1>2. ASSUME NEW k \in Callers PROVE CallerInv(k)'
  BY DEF LockInv, CallerInv, Knows, Settled, Empty, Launched, Stays, Live
<1>3. ASSUME NEW i \in Instances PROVE DaemonInv(i)'
  BY DEF LockInv, CallerInv, DaemonInv, Awaited, Live
<1> QED BY <1>1, <1>2, <1>3

LEMMA LockKeeps ==
  ASSUME Inv, Calm, NEW c \in Callers, Lock(c), TypeOK'
  PROVE  Inv'
<1> USE SingletonAssumption DEF Inv, TypeOK, Calm, Lock, Goto, files, daemons, request
<1>1. LockInv'
  BY DEF LockInv, CallerInv, Knows, Settled, Empty, Launched, Stays, Live
<1>2. ASSUME NEW k \in Callers PROVE CallerInv(k)'
  BY DEF LockInv, CallerInv, Knows, Settled, Empty, Launched, Stays, Live
<1>3. ASSUME NEW i \in Instances PROVE DaemonInv(i)'
  BY DEF LockInv, CallerInv, DaemonInv, Awaited, Live
<1> QED BY <1>1, <1>2, <1>3

LEMMA LockFailsKeeps ==
  ASSUME Inv, Calm, NEW c \in Callers, LockFails(c), TypeOK'
  PROVE  Inv'
<1> USE SingletonAssumption DEF Inv, TypeOK, Calm, LockFails, Done, files, daemons, request
<1>1. LockInv'
  BY DEF LockInv, CallerInv, Knows, Settled, Empty, Launched, Stays, Live
<1>2. ASSUME NEW k \in Callers PROVE CallerInv(k)'
  BY DEF LockInv, CallerInv, Knows, Settled, Empty, Launched, Stays, Live
<1>3. ASSUME NEW i \in Instances PROVE DaemonInv(i)'
  BY DEF LockInv, CallerInv, DaemonInv, Awaited, Live
<1> QED BY <1>1, <1>2, <1>3

LEMMA PrepareKeeps ==
  ASSUME Inv, Calm, NEW c \in Callers, Prepare(c), TypeOK'
  PROVE  Inv'
<1> USE SingletonAssumption DEF Inv, TypeOK, Calm, Prepare, Goto, Continue, Return, Done, files, daemons, request
<1>1. LockInv'
  BY DEF LockInv, CallerInv, Knows, Settled, Empty, Launched, Stays, Live
<1>2. ASSUME NEW k \in Callers PROVE CallerInv(k)'
  BY DEF LockInv, CallerInv, Knows, Settled, Empty, Launched, Stays, Live
<1>3. ASSUME NEW i \in Instances PROVE DaemonInv(i)'
  BY DEF LockInv, CallerInv, DaemonInv, Awaited, Live
<1> QED BY <1>1, <1>2, <1>3

LEMMA ProbeKeeps ==
  ASSUME Inv, Calm, NEW c \in Callers, Probe(c), TypeOK'
  PROVE  Inv'
<1> USE SingletonAssumption DEF Inv, TypeOK, Calm, Probe, IsAlive, Accepts, Goto, Continue, Return, Done, files, daemons, request
<1>1. LockInv'
  BY DEF LockInv, CallerInv, Knows, Settled, Empty, Launched, Stays, Live
<1>2. ASSUME NEW k \in Callers PROVE CallerInv(k)'
  BY DEF LockInv, CallerInv, Knows, Settled, Empty, Launched, Stays, Live
<1>3. ASSUME NEW i \in Instances PROVE DaemonInv(i)'
  BY DEF LockInv, CallerInv, DaemonInv, Awaited, Live
<1> QED BY <1>1, <1>2, <1>3

LEMMA ClearKeeps ==
  ASSUME Inv, Calm, NEW c \in Callers, Clear(c), TypeOK'
  PROVE  Inv'
<1> USE SingletonAssumption DEF Inv, TypeOK, Calm, Clear, Goto, files, daemons, request
<1>1. LockInv'
  BY DEF LockInv, CallerInv, Knows, Settled, Empty, Launched, Stays, Live
<1>2. ASSUME NEW k \in Callers PROVE CallerInv(k)'
  BY DEF LockInv, CallerInv, Knows, Settled, Empty, Launched, Stays, Live
<1>3. ASSUME NEW i \in Instances PROVE DaemonInv(i)'
  BY DEF LockInv, CallerInv, DaemonInv, Awaited, Live
<1> QED BY <1>1, <1>2, <1>3

LEMMA SpawnKeeps ==
  ASSUME Inv, Calm, NEW c \in Callers, Spawn(c), TypeOK'
  PROVE  Inv'
<1> USE SingletonAssumption DEF Inv, TypeOK, Calm, Spawn, Goto, files, daemons, request
<1>1. LockInv'
  BY DEF LockInv, CallerInv, Knows, Settled, Empty, Launched, Stays, Live
<1>2. ASSUME NEW k \in Callers PROVE CallerInv(k)'
  <2>1. PICK i \in Instances :
          /\ life[i] = "unborn"
          /\ life' = [life EXCEPT ![i] = "starting"]
          /\ kind' = [kind EXCEPT ![i] = name[c]]
          /\ own' = [own EXCEPT ![c] = i]
    OBVIOUS
  <2>2. /\ kind'[i] = name[c] /\ life'[i] = "starting"
        /\ \A j \in Instances \ {i} : kind'[j] = kind[j] /\ life'[j] = life[j]
    BY <2>1
  <2>3. CASE k = c
    BY <2>1, <2>2, <2>3 DEF LockInv, CallerInv, Knows, Settled, Empty, Launched, Stays, Live
  <2>4. CASE k # c
    <3>1. pc[k] \notin {"idle", "lock"} => name[k] # name[c]
      BY <2>4 DEF CallerInv
    <3>2. Launched(name[k], own[k]) /\ name[k] \in Names => own[k] # i
      BY <2>1 DEF Launched, DaemonInv
    <3> QED BY <2>1, <2>2, <2>4, <3>1, <3>2 DEF LockInv, CallerInv, Knows, Settled, Empty, Launched, Stays, Live
  <2> QED BY <2>3, <2>4
<1>3. ASSUME NEW i \in Instances PROVE DaemonInv(i)'
  BY DEF LockInv, CallerInv, DaemonInv, Awaited, Live
<1> QED BY <1>1, <1>2, <1>3

LEMMA SpawnFailsKeeps ==
  ASSUME Inv, Calm, NEW c \in Callers, SpawnFails(c), TypeOK'
  PROVE  Inv'
<1> USE SingletonAssumption DEF Inv, TypeOK, Calm, SpawnFails, Return, Done, files, daemons, request
<1>1. LockInv'
  BY DEF LockInv, CallerInv, Knows, Settled, Empty, Launched, Stays, Live
<1>2. ASSUME NEW k \in Callers PROVE CallerInv(k)'
  BY DEF LockInv, CallerInv, Knows, Settled, Empty, Launched, Stays, Live
<1>3. ASSUME NEW i \in Instances PROVE DaemonInv(i)'
  BY DEF LockInv, CallerInv, DaemonInv, Awaited, Live
<1> QED BY <1>1, <1>2, <1>3

LEMMA RecordKeeps ==
  ASSUME Inv, Calm, NEW c \in Callers, Record(c), TypeOK'
  PROVE  Inv'
<1> USE SingletonAssumption DEF Inv, TypeOK, Calm, Record, Goto, files, daemons, request
<1>1. LockInv'
  BY DEF LockInv, CallerInv, Knows, Settled, Empty, Launched, Stays, Live
<1>2. ASSUME NEW k \in Callers PROVE CallerInv(k)'
  BY DEF LockInv, CallerInv, Knows, Settled, Empty, Launched, Stays, Live
<1>3. ASSUME NEW i \in Instances PROVE DaemonInv(i)'
  BY DEF LockInv, CallerInv, DaemonInv, Awaited, Live
<1> QED BY <1>1, <1>2, <1>3

LEMMA WaitKeeps ==
  ASSUME Inv, Calm, NEW c \in Callers, Wait(c), TypeOK'
  PROVE  Inv'
<1> USE SingletonAssumption DEF Inv, TypeOK, Calm, Wait, Return, Done, files, daemons, request
<1>1. LockInv'
  BY DEF LockInv, CallerInv, Knows, Settled, Empty, Launched, Stays, Live
<1>2. ASSUME NEW k \in Callers PROVE CallerInv(k)'
  BY DEF LockInv, CallerInv, Knows, Settled, Empty, Launched, Stays, Live
<1>3. ASSUME NEW i \in Instances PROVE DaemonInv(i)'
  <2>1. life[own[c]] # "starting"
    BY DEF CallerInv, Knows, Launched
  <2>2. CASE life[i] = "starting"
    <3>1. PICK k \in Callers : /\ lock[kind[i]] = k /\ name[k] = kind[i]
                              /\ own[k] = i /\ pc[k] \in {"record", "wait"}
      BY <2>2 DEF DaemonInv, Awaited
    <3>2. k # c /\ kind[i] # name[c] /\ kind[i] \in Names
      BY <2>1, <2>2, <3>1 DEF CallerInv, DaemonInv, Live
    <3> QED BY <2>2, <3>1, <3>2 DEF DaemonInv, Awaited, Live
  <2>3. CASE life[i] # "starting"
    BY <2>3 DEF DaemonInv, Live
  <2> QED BY <2>2, <2>3
<1> QED BY <1>1, <1>2, <1>3

LEMMA KillKeeps ==
  ASSUME Inv, Calm, NEW c \in Callers, Kill(c), TypeOK'
  PROVE  Inv'
<1> USE SingletonAssumption DEF Inv, TypeOK, Calm, Kill, Targets, Strays, Goto, files, daemons, request
<1>1. LockInv'
  BY DEF LockInv, CallerInv, Knows, Settled, Empty, Launched, Stays, Live
<1>2. ASSUME NEW k \in Callers PROVE CallerInv(k)'
  <2>1. ASSUME NEW i \in Instances, Stays(i)' PROVE Stays(i) /\ i # pidf[name[c]]
    <3>1. termed'[i] = (termed[i] \/ (i \in Targets(name[c]) /\ Live(i)))
      BY Zenon
    <3>2. name[c] \in Names /\ (i = pidf[name[c]] => i \in Targets(name[c]))
      BY SingletonAssumption DEF CallerInv
    <3> QED BY <2>1, <3>1, <3>2 DEF Stays, Live
  <2>2. CASE k = c
    BY <2>1, <2>2 DEF CallerInv, Knows, Settled, Empty
  <2>3. CASE k # c
    BY <2>1, <2>3 DEF CallerInv, Knows, Settled, Empty, Launched
  <2> QED BY <2>2, <2>3
<1>3. ASSUME NEW i \in Instances PROVE DaemonInv(i)'
  BY DEF LockInv, CallerInv, DaemonInv, Awaited, Live
<1> QED BY <1>1, <1>2, <1>3

LEMMA KillNothingKeeps ==
  ASSUME Inv, Calm, NEW c \in Callers, KillNothing(c), TypeOK'
  PROVE  Inv'
<1> USE SingletonAssumption DEF Inv, TypeOK, Calm, KillNothing, Targets, AfterKill, Continue, Return, Done, files, daemons, request
<1>1. LockInv'
  <2>1. pidf[name[c]] = None /\ Settled(name[c])
    BY DEF CallerInv, Knows
  <2>2. Empty(name[c])
    BY <2>1 DEF Settled, Empty
  <2>3. ASSUME NEW n \in Names PROVE Settled(n) => Settled(n)'
    BY <2>2, <2>3 DEF Settled, Empty, Stays, Live
  <2> QED BY <2>1, <2>3 DEF LockInv, CallerInv
<1>2. ASSUME NEW k \in Callers PROVE CallerInv(k)'
  <2>1. CASE k = c
    <3>1. pidf[name[c]] = None /\ Settled(name[c])
      BY DEF CallerInv, Knows
    <3>2. \A i \in Instances : kind[i] = name[c] => ~Stays(i)
      BY <3>1 DEF Settled
    <3> QED BY <2>1, <3>2 DEF CallerInv, Knows, Settled, Stays, Live
  <2>2. CASE k # c
    <3>1. pc[k] \notin {"idle", "lock"} => name[k] # name[c]
      BY <2>2 DEF CallerInv
    <3> QED BY <2>2, <3>1 DEF LockInv, CallerInv, Knows, Settled, Empty, Launched, Stays, Live
  <2> QED BY <2>1, <2>2
<1>3. ASSUME NEW i \in Instances PROVE DaemonInv(i)'
  BY DEF LockInv, CallerInv, DaemonInv, Awaited, Live
<1> QED BY <1>1, <1>2, <1>3

LEMMA KilledKeeps ==
  ASSUME Inv, Calm, NEW c \in Callers, Killed(c), TypeOK'
  PROVE  Inv'
<1> USE SingletonAssumption DEF Inv, TypeOK, Calm, Killed, Goto, files, daemons, request
<1>1. LockInv'
  BY DEF LockInv, CallerInv, Knows, Settled, Empty, Launched, Stays, Live
<1>2. ASSUME NEW k \in Callers PROVE CallerInv(k)'
  BY DEF LockInv, CallerInv, Knows, Settled, Empty, Launched, Stays, Live
<1>3. ASSUME NEW i \in Instances PROVE DaemonInv(i)'
  BY DEF LockInv, CallerInv, DaemonInv, Awaited, Live
<1> QED BY <1>1, <1>2, <1>3

LEMMA RemovePIDKeeps ==
  ASSUME Inv, Calm, NEW c \in Callers, RemovePID(c), TypeOK'
  PROVE  Inv'
<1> USE SingletonAssumption DEF Inv, TypeOK, Calm, RemovePID, Goto, files, daemons, request
<1>1. LockInv'
  BY DEF LockInv, CallerInv, Knows, Settled, Empty, Launched, Stays, Live
<1>2. ASSUME NEW k \in Callers PROVE CallerInv(k)'
  BY DEF LockInv, CallerInv, Knows, Settled, Empty, Launched, Stays, Live
<1>3. ASSUME NEW i \in Instances PROVE DaemonInv(i)'
  BY DEF LockInv, CallerInv, DaemonInv, Awaited, Live
<1> QED BY <1>1, <1>2, <1>3

LEMMA RemoveSocketKeeps ==
  ASSUME Inv, Calm, NEW c \in Callers, RemoveSocket(c), TypeOK'
  PROVE  Inv'
<1> USE SingletonAssumption DEF Inv, TypeOK, Calm, RemoveSocket, AfterKill, Continue, Return, Done, files, daemons, request
<1>1. LockInv'
  BY DEF LockInv, CallerInv, Knows, Settled, Empty, Launched, Stays, Live
<1>2. ASSUME NEW k \in Callers PROVE CallerInv(k)'
  BY DEF LockInv, CallerInv, Knows, Settled, Empty, Launched, Stays, Live
<1>3. ASSUME NEW i \in Instances PROVE DaemonInv(i)'
  BY DEF LockInv, CallerInv, DaemonInv, Awaited, Live
<1> QED BY <1>1, <1>2, <1>3

LEMMA BindKeeps ==
  ASSUME Inv, Calm, NEW d \in Instances, Bind(d), TypeOK'
  PROVE  Inv'
<1> USE SingletonAssumption DEF Inv, TypeOK, Calm, Bind, files, daemons, request
<1>1. PICK l \in Callers : /\ lock[kind[d]] = l /\ name[l] = kind[d]
                          /\ own[l] = d /\ pc[l] \in {"record", "wait"}
  BY DEF DaemonInv, Awaited
<1>2. kind[d] \in Names
  BY DEF DaemonInv, Live
<1>3. LockInv'
  BY <1>1, <1>2 DEF LockInv, Settled, Stays, Live
<1>4. ASSUME NEW k \in Callers PROVE CallerInv(k)'
  <2>1. CASE k = l
    BY <1>1, <1>2, <2>1 DEF CallerInv, Knows, Launched, Stays, Live
  <2>2. CASE k # l
    <3>1. pc[k] \notin {"idle", "lock"} => name[k] # kind[d]
      BY <1>1, <2>2 DEF CallerInv
    <3> QED BY <1>2, <2>2, <3>1 DEF LockInv, CallerInv, Knows, Settled, Empty, Launched, Stays, Live
  <2> QED BY <2>1, <2>2
<1>5. ASSUME NEW i \in Instances PROVE DaemonInv(i)'
  BY <1>2 DEF DaemonInv, Awaited, Live
<1> QED BY <1>3, <1>4, <1>5

LEMMA DiesKeeps ==
  ASSUME Inv, Calm, NEW d \in Instances, Dies(d), TypeOK'
  PROVE  Inv'
<1> USE SingletonAssumption DEF Inv, TypeOK, Calm, Dies, files, daemons, request
<1>1. LockInv'
  BY DEF LockInv, Settled, Stays, Live
<1>2. ASSUME NEW k \in Callers PROVE CallerInv(k)'
  BY DEF CallerInv, Knows, Settled, Empty, Launched, Stays, Live
<1>3. ASSUME NEW i \in Instances PROVE DaemonInv(i)'
  BY DEF DaemonInv, Awaited, Live
<1> QED BY <1>1, <1>2, <1>3

\* A caller that is killed leaves its name settled: nothing is up before the spawn,
\* and afterwards its daemon is recorded and bound, or dead.
LEMMA CrashKeeps ==
  ASSUME Inv, Calm, NEW c \in Callers, Crash(c), TypeOK'
  PROVE  Inv'
<1> USE SingletonAssumption DEF Inv, TypeOK, Calm, Crash, Done, files, daemons, request
<1>1. pc[c] \notin {"idle", "lock"} => Settled(name[c])
  BY DEF CallerInv, Knows, Responsible, Launched, Settled, Empty, Stays, Live
<1>2. ASSUME NEW n \in Names PROVE Settled(n)' <=> Settled(n)
  BY DEF Settled, Stays, Live
<1>3. LockInv'
  BY <1>1, <1>2 DEF LockInv
<1>4. ASSUME NEW k \in Callers PROVE CallerInv(k)'
  BY DEF LockInv, CallerInv, Knows, Settled, Empty, Launched, Stays, Live
<1>5. ASSUME NEW i \in Instances PROVE DaemonInv(i)'
  <2>1. CASE life[i] = "starting"
    <3>1. PICK k \in Callers : /\ lock[kind[i]] = k /\ name[k] = kind[i]
                              /\ own[k] = i /\ pc[k] \in {"record", "wait"}
      BY <2>1 DEF DaemonInv, Awaited
    <3>2. k # c
      BY <2>1, <3>1 DEF Responsible, Live
    <3> QED BY <2>1, <3>1, <3>2 DEF DaemonInv, Awaited, Live
  <2>2. CASE life[i] # "starting"
    BY <2>2 DEF DaemonInv, Live
  <2> QED BY <2>1, <2>2
<1> QED BY <1>3, <1>4, <1>5

LEMMA NextKeeps == ASSUME Inv, Calm, [Next]_vars PROVE Inv'
<1>1. TypeOK'
  <2>1. Base
    BY DEF Base, Inv, TypeOK, LockInv, CallerInv, FlockIsLive, HolderInv, Inside
  <2> QED BY <2>1, BaseKept DEF Base
<1>2. ASSUME NEW c \in Callers, Ask(c) PROVE Inv'
  BY <1>1, <1>2, AskKeeps
<1>3. ASSUME NEW c \in Callers, BrokerSpawn(c) PROVE Inv'
  BY <1>1, <1>3, LockKeeps, LockFailsKeeps, PrepareKeeps, ProbeKeeps, ClearKeeps,
     SpawnKeeps, SpawnFailsKeeps, RecordKeeps, WaitKeeps
     DEF BrokerSpawn, InSpawn
<1>4. ASSUME NEW c \in Callers, BrokerKill(c) PROVE Inv'
  BY <1>1, <1>4, KillKeeps, KillNothingKeeps, KilledKeeps, RemovePIDKeeps,
     RemoveSocketKeeps DEF BrokerKill
<1>5. ASSUME NEW c \in Callers, Crash(c) PROVE Inv'
  BY <1>1, <1>5, CrashKeeps
<1>6. ASSUME NEW i \in Instances, Bind(i) \/ Dies(i) PROVE Inv'
  BY <1>1, <1>6, BindKeeps, DiesKeeps
<1>7. CASE UNCHANGED vars
  BY <1>1, <1>7 DEF vars, Inv, LockInv, CallerInv, Knows, DaemonInv, Awaited,
     Settled, Empty, Launched, Stays, Live
<1> QED BY <1>2, <1>3, <1>4, <1>5, <1>6, <1>7 DEF Next

LEMMA Invariant == ASSUME Calm PROVE Spec => []Inv
<1>1. Inv /\ [Next]_vars => Inv'
  BY NextKeeps
<1> QED BY InitInv, <1>1, PTL DEF Spec

-----------------------------------------------------------------------------
\* Every step keeps the lock files, PID files, sockets and callers well formed
\* (TypeOK), whatever the callers ask for, however slow a daemon is and whoever is
\* killed.
THEOREM SingletonTypes == Spec => []TypeOK
<1>1. Base => TypeOK
  BY DEF Base
<1> QED BY BaseHolds, <1>1, PTL

\* Two callers are never inside BrokerSpawn for one name (OneInside), and the flock is
\* never left behind by a caller that returned, failed or was killed (FlockIsLive),
\* whatever the callers ask for.
THEOREM EnsuresExclude == Spec => [](OneInside /\ FlockIsLive)
<1>1. Base => OneInside /\ FlockIsLive
  BY DEF Base, HolderInv, OneInside
<1> QED BY BaseHolds, <1>1, PTL

\* Whatever number of launches ensure the daemons at once, and whatever daemons and
\* launches die, a name never has two (OneDaemon).
THEOREM EnsuresMakeOne == ASSUME Calm PROVE Spec => []OneDaemon
<1>1. Inv => OneDaemon
  <2> SUFFICES ASSUME Inv, NEW i \in Instances, NEW j \in Instances,
                      Stays(i), Stays(j), kind[i] = kind[j]
               PROVE  i = j
    BY DEF OneDaemon
  <2>1. kind[i] \in Names
    BY DEF Inv, DaemonInv, Stays
  <2>2. CASE lock[kind[i]] = None
    BY <2>1, <2>2 DEF Inv, LockInv, Settled
  <2>3. CASE lock[kind[i]] # None
    <3>1. PICK c \in Callers : lock[kind[i]] = c
      BY <2>1, <2>3 DEF Inv, TypeOK
    <3>2. name[c] = kind[i] /\ pc[c] \notin {"idle", "lock"}
      BY <2>1, <2>3, <3>1 DEF Inv, LockInv
    <3> QED BY <3>2 DEF Inv, TypeOK, CallerInv, Knows, Settled, Empty, Launched
  <2> QED BY <2>2, <2>3
<1> QED BY Invariant, <1>1, PTL

\* When no ensure is under way, a live daemon serves at its name's socket and its
\* name's PID file records it (Findable).
THEOREM EnsuresLeaveItFindable == ASSUME Calm PROVE Spec => []Findable
<1>1. Inv => Findable
  BY DEF Inv, DaemonInv, Stays, LockInv, Settled, Findable
<1> QED BY Invariant, <1>1, PTL
=============================================================================
