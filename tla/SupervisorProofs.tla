-------------------------- MODULE SupervisorProofs --------------------------
(***************************************************************************)
(* Proofs about Supervisor, for every set of daemons and policies.  The    *)
(* safety theorems follow from one inductive invariant, Inv: the types,    *)
(* the phase Run has reached, and for each daemon what superviseOne and    *)
(* terminate know of each other (Handshake) and what its policy lets the   *)
(* loop do next (PolicyInv).                                               *)
(***************************************************************************)
EXTENDS Supervisor, TLAPS

\* Run's phases, and what each implies for every teardown goroutine.
PhaseInv ==
  /\ ~stop => run = "waiting"
  /\ run = "waiting" => \A d \in Daemons : term[d] = "off"
  /\ run \in {"settling", "returned"} => \A d \in Daemons : term[d] = "over"

\* What c.mu buys: a child is published exactly while superviseOne waits for it,
\* it is claimed exactly from terminate's first step on, and a claimed child that
\* is still waited for has been killed by the time terminate is over.
Handshake(d) ==
  /\ cmd[d] = "current" <=> pc[d] = "wait"
  /\ pc[d] \in {"loop", "spawn", "backoff", "gone"} => proc[d] # "alive"
  /\ stopping[d] <=> term[d] \notin {"off", "claim"}
  /\ pc[d] = "wait" /\ term[d] = "over" => hit[d] = "kill"

\* What may be spawned again.
PolicyInv(d) ==
  /\ pc[d] \in {"loop", "spawn"} /\ Restart[d] = "no" => proc[d] = "none"
  /\ pc[d] = "backoff" => Restart[d] # "no"
  /\ pc[d] \in {"loop", "spawn", "backoff"} /\ Restart[d] = "on-failure" => proc[d] # "clean"

DaemonInv(d) == Handshake(d) /\ PolicyInv(d)

Inv == TypeOK /\ PhaseInv /\ \A d \in Daemons : DaemonInv(d)

LEMMA InitInv == Init => Inv
<1> SUFFICES ASSUME Init PROVE Inv
  OBVIOUS
<1>1. TypeOK
  BY DEF Init, TypeOK
<1>2. PhaseInv
  BY DEF Init, PhaseInv
<1>3. ASSUME NEW d \in Daemons PROVE DaemonInv(d)
  BY DEF Init, DaemonInv, Handshake, PolicyInv
<1> QED BY <1>1, <1>2, <1>3 DEF Inv

LEMMA TypesKept == TypeOK /\ [Next]_vars => TypeOK'
<1> SUFFICES ASSUME TypeOK, [Next]_vars PROVE TypeOK'
  OBVIOUS
<1> USE DEF TypeOK
<1>1. ASSUME NEW d \in Daemons, Supervise(d) PROVE TypeOK'
  BY <1>1 DEF Supervise, LoopTurn, SpawnStarts, SpawnFails, Publish, Reap, BackoffEnds, Goto
<1>2. ASSUME NEW d \in Daemons, Terminate(d) PROVE TypeOK'
  BY <1>2 DEF Terminate, Claim, SendTerm, GraceReaped, GraceExpires
<1>3. ASSUME NEW d \in Daemons, Exits(d) PROVE TypeOK'
  BY <1>3 DEF Exits
<1>4. CASE Signal \/ Run
  BY <1>4 DEF Signal, Run, RunTerminates, RunSettles, RunReturns, RunGivesUp
<1>5. CASE UNCHANGED vars
  BY <1>5 DEF vars
<1> QED BY <1>1, <1>2, <1>3, <1>4, <1>5 DEF Next

LEMMA PhaseKept == Inv /\ [Next]_vars => PhaseInv'
<1> SUFFICES ASSUME Inv, [Next]_vars PROVE PhaseInv'
  OBVIOUS
<1> USE DEF Inv, TypeOK, PhaseInv
<1>1. ASSUME NEW d \in Daemons, Supervise(d) \/ Exits(d) PROVE PhaseInv'
  BY <1>1 DEF Supervise, LoopTurn, SpawnStarts, SpawnFails, Publish, Reap, BackoffEnds, Goto, Exits
<1>2. ASSUME NEW d \in Daemons, Terminate(d) PROVE PhaseInv'
  BY <1>2 DEF Terminate, Claim, SendTerm, GraceReaped, GraceExpires
<1>3. CASE Signal
  BY <1>3 DEF Signal
<1>4. CASE Run
  BY <1>4 DEF Run, RunTerminates, RunSettles, RunReturns, RunGivesUp
<1>5. CASE UNCHANGED vars
  BY <1>5 DEF vars
<1> QED BY <1>1, <1>2, <1>3, <1>4, <1>5 DEF Next

\* A step of one daemon's goroutines leaves the others' conjuncts alone.
LEMMA DaemonKept ==
  ASSUME Inv, [Next]_vars, NEW k \in Daemons
  PROVE  DaemonInv(k)'
<1> USE DEF Inv, TypeOK, DaemonInv, Handshake, PolicyInv
<1>1. ASSUME NEW d \in Daemons, Supervise(d) PROVE DaemonInv(k)'
  <2>1. CASE k # d
    BY <1>1, <2>1
    DEF Supervise, LoopTurn, SpawnStarts, SpawnFails, Publish, Reap, BackoffEnds, Goto
  <2>2. CASE k = d
    <3>1. CASE LoopTurn(d)
      BY <2>2, <3>1 DEF LoopTurn, Goto
    <3>2. CASE SpawnStarts(d)
      BY <2>2, <3>2 DEF SpawnStarts, Goto
    <3>3. CASE SpawnFails(d)
      BY <2>2, <3>3 DEF SpawnFails, Goto
    <3>4. CASE Publish(d)
      BY <2>2, <3>4 DEF Publish, Goto
    <3>5. CASE Reap(d)
      BY <2>2, <3>5 DEF Reap, Restarts, Goto
    <3>6. CASE BackoffEnds(d)
      BY <2>2, <3>6 DEF BackoffEnds, Goto
    <3> QED BY <1>1, <3>1, <3>2, <3>3, <3>4, <3>5, <3>6 DEF Supervise
  <2> QED BY <2>1, <2>2
<1>2. ASSUME NEW d \in Daemons, Terminate(d) PROVE DaemonInv(k)'
  <2>1. CASE k # d
    BY <1>2, <2>1 DEF Terminate, Claim, SendTerm, GraceReaped, GraceExpires
  <2>2. CASE k = d
    BY <1>2, <2>2 DEF Terminate, Claim, SendTerm, GraceReaped, GraceExpires
  <2> QED BY <2>1, <2>2
<1>3. ASSUME NEW d \in Daemons, Exits(d) PROVE DaemonInv(k)'
  BY <1>3 DEF Exits
<1>4. CASE Signal
  BY <1>4 DEF Signal
<1>5. CASE Run
  BY <1>5 DEF Run, RunTerminates, RunSettles, RunReturns, RunGivesUp, PhaseInv
<1>6. CASE UNCHANGED vars
  BY <1>6 DEF vars
<1> QED BY <1>1, <1>2, <1>3, <1>4, <1>5, <1>6 DEF Next

LEMMA NextInv == Inv /\ [Next]_vars => Inv'
  BY TypesKept, PhaseKept, DaemonKept DEF Inv

LEMMA Invariant == Spec => []Inv
  BY InitInv, NextInv, PTL DEF Spec

\* Type correctness of the supervisor (TypeOK).
THEOREM SupervisorTypes == Spec => []TypeOK
<1>1. Inv => TypeOK
  BY DEF Inv
<1> QED BY <1>1, Invariant, PTL

\* A spawn in flight and teardown exclude each other: no process is waited for that
\* teardown has passed over (start and terminate under c.mu).
THEOREM NoThirdOutcome == Spec => []ClaimedIsSignalled
<1>1. Inv => ClaimedIsSignalled
  BY DEF Inv, TypeOK, DaemonInv, Handshake, ClaimedIsSignalled
<1> QED BY <1>1, Invariant, PTL

\* Without slow spawns Run returns when every superviseOne has.
ReturnInv == ~SlowSpawn /\ run = "returned" => \A d \in Daemons : pc[d] = "gone"

\* Run does not return while a daemon it started still runs, but for one it has just
\* killed or one whose spawn outlasts waitTimeout's 10 s.
THEOREM NothingSurvives == Spec => []NoSurvivor
<1>1. Init => ReturnInv
  BY DEF Init, ReturnInv
<1>2. Inv /\ ReturnInv /\ [Next]_vars => ReturnInv'
  <2> SUFFICES ASSUME Inv, ReturnInv, ~SlowSpawn, [Next]_vars PROVE ReturnInv'
    BY DEF ReturnInv
  <2> USE DEF Inv, TypeOK, ReturnInv, Up
  <2>1. ASSUME NEW d \in Daemons, Supervise(d) \/ Terminate(d) \/ Exits(d) PROVE ReturnInv'
    BY <2>1 DEF Supervise, LoopTurn, SpawnStarts, SpawnFails, Publish, Reap, BackoffEnds, Goto,
                Terminate, Claim, SendTerm, GraceReaped, GraceExpires, Exits
  <2>2. ~RunGivesUp
    BY DEF RunGivesUp, Lingers, PhaseInv, DaemonInv, Handshake
  <2>3. CASE Signal
    BY <2>3 DEF Signal
  <2>4. CASE Run
    BY <2>2, <2>4 DEF Run, RunTerminates, RunSettles, RunReturns
  <2>5. CASE UNCHANGED vars
    BY <2>5 DEF vars
  <2> QED BY <2>1, <2>3, <2>4, <2>5 DEF Next
<1>3. Inv /\ ReturnInv => NoSurvivor
  BY SupervisorAssumption
  DEF Inv, TypeOK, PhaseInv, ReturnInv, DaemonInv, Handshake, NoSurvivor
<1> QED BY <1>1, <1>2, <1>3, Invariant, PTL DEF Spec

\* No sequence of exits and failed spawns makes a daemon run against its policy.
THEOREM PoliciesKept == Spec => PolicyKept
<1>1. ASSUME Inv, Next, NEW d \in Daemons, proc[d] # "alive", proc'[d] = "alive"
      PROVE  pc[d] = "spawn"
  <2> USE <1>1 DEF Inv, TypeOK
  <2>1. ASSUME NEW k \in Daemons, Supervise(k) PROVE pc[d] = "spawn"
    BY <2>1 DEF Supervise, LoopTurn, SpawnStarts, SpawnFails, Publish, Reap, BackoffEnds, Goto
  <2>2. ASSUME NEW k \in Daemons, Terminate(k) \/ Exits(k) PROVE FALSE
    BY <2>2 DEF Terminate, Claim, SendTerm, GraceReaped, GraceExpires, Exits
  <2>3. CASE Signal \/ Run
    BY <2>3 DEF Signal, Run, RunTerminates, RunSettles, RunReturns, RunGivesUp
  <2> QED BY <1>1, <2>1, <2>2, <2>3 DEF Next
<1>2. ASSUME Inv, [Next]_vars
      PROVE [\A d \in Daemons : proc[d] # "alive" /\ proc'[d] = "alive" =>
               CASE Restart[d] = "always" -> TRUE
                 [] Restart[d] = "on-failure" -> proc[d] # "clean"
                 [] Restart[d] = "no" -> proc[d] = "none"]_vars
  BY <1>1, <1>2, SupervisorAssumption DEF Inv, DaemonInv, PolicyInv, Policies, vars
<1> QED BY <1>2, Invariant, PTL DEF Spec, PolicyKept
=============================================================================
