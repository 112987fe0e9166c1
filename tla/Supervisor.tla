----------------------------- MODULE Supervisor -----------------------------
(***************************************************************************)
(* internal/supervisor: yolo-jaild's supervision of the jail's daemons.    *)
(* Per daemon one goroutine spawns, waits and restarts (superviseOne); on  *)
(* SIGTERM one more per daemon tears it down (terminate), and Run gives    *)
(* the first ones 10 s to settle before the supervisor exits.              *)
(***************************************************************************)
EXTENDS Naturals

CONSTANTS Daemons,
          Restart,   \* Spec.Restart of each daemon
          SlowSpawn  \* a spawn may take longer than the 10 s of waitTimeout

Policies == {"no", "on-failure", "always"}

ASSUME SupervisorAssumption ==
  /\ Restart \in [Daemons -> Policies]
  /\ SlowSpawn \in BOOLEAN

VARIABLES
  stop,     \* the channel closed by SIGTERM or SIGINT
  run,      \* where Run is
  pc,       \* where superviseOne of each daemon is
  proc,     \* the last process of each daemon, or how its last spawn failed
  cmd,      \* c.cmd and c.done: nil, published, or published and reaped
  stopping, \* c.stopping
  term,     \* where terminate of each daemon is
  hit       \* the strongest signal terminate sent to the process

vars == <<stop, run, pc, proc, cmd, stopping, term, hit>>

Init ==
  /\ stop = FALSE
  /\ run = "waiting"
  /\ pc = [d \in Daemons |-> "loop"]
  /\ proc = [d \in Daemons |-> "none"]
  /\ cmd = [d \in Daemons |-> "nil"]
  /\ stopping = [d \in Daemons |-> FALSE]
  /\ term = [d \in Daemons |-> "off"]
  /\ hit = [d \in Daemons |-> "none"]

Up == run # "returned"

Goto(d, from, to) ==
  /\ Up
  /\ pc[d] = from
  /\ pc' = [pc EXCEPT ![d] = to]

-----------------------------------------------------------------------------
(* superviseOne.                                                           *)

LoopTurn(d) ==
  /\ Goto(d, "loop", IF stop THEN "gone" ELSE "spawn")
  /\ UNCHANGED <<stop, run, proc, cmd, stopping, term, hit>>

\* cmd.Start succeeds.  The new process is published in a step of its own.
SpawnStarts(d) ==
  /\ Goto(d, "spawn", "publish")
  /\ proc' = [proc EXCEPT ![d] = "alive"]
  /\ hit' = [hit EXCEPT ![d] = "none"]
  /\ UNCHANGED <<stop, run, cmd, stopping, term>>

\* Mutation of SpawnFails: every spawn failure is retried.
SpawnFailsRetried(d) ==
  /\ Goto(d, "spawn", "backoff")
  /\ proc' = [proc EXCEPT ![d] = "unspawned"]
  /\ UNCHANGED <<stop, run, cmd, stopping, term, hit>>

\* The log or the command cannot be opened: governed by the policy like an exit.
SpawnFails(d) ==
  /\ Goto(d, "spawn", IF Restart[d] = "no" THEN "gone" ELSE "backoff")
  /\ proc' = [proc EXCEPT ![d] = "unspawned"]
  /\ UNCHANGED <<stop, run, cmd, stopping, term, hit>>

\* Mutation of Publish: the stopping flag is not consulted.
PublishAnyway(d) ==
  /\ Goto(d, "publish", "wait")
  /\ cmd' = [cmd EXCEPT ![d] = "current"]
  /\ UNCHANGED <<stop, run, proc, stopping, term, hit>>

\* Under c.mu: either the process becomes visible to terminate, or terminate has
\* been here and start kills and reaps what it started.
Publish(d) ==
  /\ IF stopping[d]
     THEN /\ Goto(d, "publish", "gone")
          /\ proc' = [proc EXCEPT ![d] = "failed"]
          /\ UNCHANGED cmd
     ELSE /\ Goto(d, "publish", "wait")
          /\ cmd' = [cmd EXCEPT ![d] = "current"]
          /\ UNCHANGED proc
  /\ UNCHANGED <<stop, run, stopping, term, hit>>

\* Mutation of Restarts: a clean exit is final whatever the policy.
RestartsFailures(d) == Restart[d] # "no" /\ proc[d] = "failed"

Restarts(d) == \/ Restart[d] = "always"
               \/ Restart[d] = "on-failure" /\ proc[d] = "failed"

\* waitAndMaybeRestart: Wait returns, done is closed, the policy decides.
Reap(d) ==
  /\ proc[d] # "alive"
  /\ Goto(d, "wait", IF ~stop /\ Restarts(d) THEN "backoff" ELSE "gone")
  /\ cmd' = [cmd EXCEPT ![d] = "reaped"]
  /\ UNCHANGED <<stop, run, proc, stopping, term, hit>>

\* The interruptible sleep of 1 s to 30 s is over.
BackoffEnds(d) ==
  /\ Goto(d, "backoff", "loop")
  /\ UNCHANGED <<stop, run, proc, cmd, stopping, term, hit>>

-----------------------------------------------------------------------------
(* The daemon itself: it may exit at any time, and must after SIGKILL.     *)

Exits(d) ==
  /\ proc[d] = "alive"
  /\ \E how \in IF hit[d] = "kill" THEN {"failed"} ELSE {"failed", "clean"} :
       proc' = [proc EXCEPT ![d] = how]
  /\ UNCHANGED <<stop, run, pc, cmd, stopping, term, hit>>

-----------------------------------------------------------------------------
(* Teardown.                                                               *)

Signal ==
  /\ ~stop
  /\ stop' = TRUE
  /\ UNCHANGED <<run, pc, proc, cmd, stopping, term, hit>>

RunTerminates ==
  /\ run = "waiting" /\ stop
  /\ run' = "terminating"
  /\ term' = [d \in Daemons |-> "claim"]
  /\ UNCHANGED <<stop, pc, proc, cmd, stopping, hit>>

\* Mutation of Claim: a child with no process yet is left unclaimed.
ClaimLiveOnly(d) ==
  /\ Up /\ term[d] = "claim"
  /\ stopping' = [stopping EXCEPT ![d] = cmd[d] # "nil"]
  /\ term' = [term EXCEPT ![d] = IF cmd[d] = "nil" THEN "over" ELSE "signal"]
  /\ UNCHANGED <<stop, run, pc, proc, cmd, hit>>

\* Under c.mu: the child is claimed before its command is read.
Claim(d) ==
  /\ Up /\ term[d] = "claim"
  /\ stopping' = [stopping EXCEPT ![d] = TRUE]
  /\ term' = [term EXCEPT ![d] = IF cmd[d] = "nil" THEN "over" ELSE "signal"]
  /\ UNCHANGED <<stop, run, pc, proc, cmd, hit>>

\* SIGTERM, unless done is closed already.
SendTerm(d) ==
  /\ Up /\ term[d] = "signal"
  /\ IF cmd[d] = "reaped"
     THEN term' = [term EXCEPT ![d] = "over"] /\ UNCHANGED hit
     ELSE term' = [term EXCEPT ![d] = "grace"] /\ hit' = [hit EXCEPT ![d] = "term"]
  /\ UNCHANGED <<stop, run, pc, proc, cmd, stopping>>

GraceReaped(d) ==
  /\ Up /\ term[d] = "grace"
  /\ cmd[d] = "reaped"
  /\ term' = [term EXCEPT ![d] = "over"]
  /\ UNCHANGED <<stop, run, pc, proc, cmd, stopping, hit>>

\* Mutation of GraceExpires: the child is given up on without SIGKILL.
GraceGivesUp(d) ==
  /\ Up /\ term[d] = "grace"
  /\ term' = [term EXCEPT ![d] = "over"]
  /\ UNCHANGED <<stop, run, pc, proc, cmd, stopping, hit>>

\* 5 s after SIGTERM: SIGKILL.
GraceExpires(d) ==
  /\ Up /\ term[d] = "grace"
  /\ hit' = [hit EXCEPT ![d] = "kill"]
  /\ term' = [term EXCEPT ![d] = "over"]
  /\ UNCHANGED <<stop, run, pc, proc, cmd, stopping>>

RunSettles ==
  /\ run = "terminating" /\ \A d \in Daemons : term[d] = "over"
  /\ run' = "settling"
  /\ UNCHANGED <<stop, pc, proc, cmd, stopping, term, hit>>

RunReturns ==
  /\ run = "settling" /\ \A d \in Daemons : pc[d] = "gone"
  /\ run' = "returned"
  /\ UNCHANGED <<stop, pc, proc, cmd, stopping, term, hit>>

\* What outlasts the 10 s of waitTimeout: a child nobody killed, or a slow spawn.
Lingers(d) ==
  \/ pc[d] = "wait" /\ proc[d] = "alive" /\ hit[d] # "kill"
  \/ SlowSpawn /\ pc[d] \in {"spawn", "publish"}

RunGivesUp ==
  /\ run = "settling" /\ \E d \in Daemons : Lingers(d)
  /\ run' = "returned"
  /\ UNCHANGED <<stop, pc, proc, cmd, stopping, term, hit>>

-----------------------------------------------------------------------------
Supervise(d) ==
  \/ LoopTurn(d) \/ SpawnStarts(d) \/ SpawnFails(d) \/ Publish(d)
  \/ Reap(d) \/ BackoffEnds(d)

Terminate(d) == Claim(d) \/ SendTerm(d) \/ GraceReaped(d) \/ GraceExpires(d)

Run == RunTerminates \/ RunSettles \/ RunReturns \/ RunGivesUp

Next ==
  \/ \E d \in Daemons : Supervise(d) \/ Terminate(d) \/ Exits(d)
  \/ Signal
  \/ Run

Spec == Init /\ [][Next]_vars

\* Goroutines run, spawns return, timers fire, and SIGKILL is obeyed.  No daemon
\* need ever exit by itself, and no signal need ever come.
Fairness ==
  /\ \A d \in Daemons :
       /\ WF_vars(Supervise(d))
       /\ WF_vars(Terminate(d))
       /\ WF_vars(hit[d] = "kill" /\ Exits(d))
  /\ WF_vars(Run)
FairSpec == Spec /\ Fairness

-----------------------------------------------------------------------------
(* Properties.                                                             *)

TypeOK ==
  /\ stop \in BOOLEAN
  /\ run \in {"waiting", "terminating", "settling", "returned"}
  /\ pc \in [Daemons -> {"loop", "spawn", "publish", "wait", "backoff", "gone"}]
  /\ proc \in [Daemons -> {"none", "alive", "failed", "clean", "unspawned"}]
  /\ cmd \in [Daemons -> {"nil", "current", "reaped"}]
  /\ stopping \in [Daemons -> BOOLEAN]
  /\ term \in [Daemons -> {"off", "claim", "signal", "grace", "over"}]
  /\ hit \in [Daemons -> {"none", "term", "kill"}]

\* "Under one lock there is no third outcome": a process that is waited for after
\* teardown claimed its daemon is one that teardown signals (start and terminate,
\* supervisor.go 196-224 and 299-320).
ClaimedIsSignalled ==
  \A d \in Daemons : stopping[d] /\ pc[d] = "wait" /\ proc[d] = "alive" =>
    term[d] \in {"signal", "grace"} \/ hit[d] = "kill"

\* The supervisor does not exit while a daemon it started still runs, whatever the
\* signal interrupted: a survivor holds its port against the next boot.  Only a
\* process it has just killed may be left, or one whose spawn outlasts the 10 s.
NoSurvivor ==
  run = "returned" => \A d \in Daemons : proc[d] = "alive" =>
    hit[d] = "kill" \/ (SlowSpawn /\ pc[d] = "publish")

\* A daemon runs again only as its policy says, through any number of exits and
\* failed spawns: "no" is tried once, "on-failure" never after a clean exit.
PolicyKept ==
  [][\A d \in Daemons : proc[d] # "alive" /\ proc'[d] = "alive" =>
       CASE Restart[d] = "always" -> TRUE
         [] Restart[d] = "on-failure" -> proc[d] # "clean"
         [] Restart[d] = "no" -> proc[d] = "none"]_vars

\* The supervisor exits once it is told to, wherever the signal found its daemons and
\* whether or not they obey SIGTERM, and by then no daemon runs (but for a spawn that
\* outlasts the 10 s).
StopEnds ==
  stop ~> run = "returned" /\ \A d \in Daemons :
            proc[d] # "alive" \/ (SlowSpawn /\ pc[d] = "publish")

\* "always" means always: while nothing stops the supervisor, every end of the
\* daemon and every failed spawn is followed by another attempt.
AlwaysRetried ==
  \A d \in Daemons :
    Restart[d] = "always" /\ proc[d] \in {"failed", "clean", "unspawned"}
      ~> pc[d] = "spawn" \/ stop
=============================================================================
