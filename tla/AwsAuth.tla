------------------------------- MODULE AwsAuth -------------------------------
(***************************************************************************)
(* The AWS credential broker: the yolo-aws-auth daemons of a machine, one   *)
(* configuration (profile and narrowing) each, sharing one cache file and   *)
(* one mint lock.  A jail's request and the daemon's own pre-mint ticker    *)
(* run the same Fetch: a lock-free read of the cache, then, when it is not  *)
(* warm, the lock, a second read, and at most one mint.                     *)
(*                                                                         *)
(* There is no clock: a credential carries the life it has LEFT, and        *)
(* PassTime takes one unit off everything that ages.                        *)
(***************************************************************************)
EXTENDS Integers, FiniteSets

CONSTANTS Daemons,     \* the machine's configurations; d is also d's ticker goroutine
          Callers,     \* goroutines serving a jail's request
          Profiles, Digests,
          DaemonOf,    \* the daemon a caller is a goroutine of
          Profile,     \* per daemon, from its settings at spawn
          Narrowing,   \* per daemon: the digest of its narrowing
          Lives,       \* per daemon: the life a fresh credential may have
          Left,        \* what daemons of earlier configurations may have left in the cache
          Lead,        \* RemintLead
          MaxUp,       \* bound: daemons that run at a time
          MaxFaults    \* bound: kills, unreadable caches and failed writes

NoOne == "no one"
NoDigest == "no digest"
Procs == Callers \cup Daemons

Credential == [digest : Digests \cup {NoDigest}, left : Nat]
NoCred == [digest |-> NoDigest, left |-> 0]
State == [Profiles -> Credential]
Empty == [q \in Profiles |-> NoCred]

ASSUME ConstantsAssumption ==
    /\ Callers \cap Daemons = {} /\ NoOne \notin Procs /\ NoDigest \notin Digests
    /\ DaemonOf \in [Callers -> Daemons]
    /\ Profile \in [Daemons -> Profiles]
    /\ Narrowing \in [Daemons -> Digests]
    /\ Lives \in [Daemons -> SUBSET (Nat \ {0})]
    /\ Left \subseteq State
    /\ Lead \in Nat /\ Lead > 1
    /\ MaxUp \in Nat /\ MaxFaults \in Nat

(* Mutation of TickInterval: as long as the window it must not skip. *)
TickWholeLead == Lead

(* Half the lead.                                                           *)
TickInterval == Lead \div 2

VARIABLES
    file,     \* what loadState makes of the cache: Empty too when it is unreadable
    lock,     \* who holds the flock beside it
    up,       \* the daemon process lives
    pc,       \* a Fetch's step; "idle" outside one
    loaded,   \* the state a Fetch read under the lock
    minted,   \* the credential `aws` gave it
    answer,   \* the narrowing of what a caller was last answered, NoDigest for an error
    wait,     \* time to the ticker's next tick
    tried,    \* the ticker has ticked, and its last Fetch did not end in an error
    faults

vars == <<file, lock, up, pc, loaded, minted, answer, wait, tried, faults>>

Steps == {"idle", "asked", "waiting", "locked", "minting", "write"}
Holding == {"locked", "minting", "write"}

TypeOK ==
    /\ file \in State
    /\ lock \in Procs \cup {NoOne}
    /\ up \in [Daemons -> BOOLEAN]
    /\ pc \in [Procs -> Steps]
    /\ loaded \in [Procs -> State]
    /\ minted \in [Procs -> Credential]
    /\ answer \in [Callers -> Digests \cup {NoDigest}]
    /\ wait \in [Daemons -> 0..TickInterval]
    /\ tried \in [Daemons -> BOOLEAN]
    /\ faults \in 0..MaxFaults

Running == {d \in Daemons : up[d]}

Init ==
    /\ file \in Left
    /\ lock = NoOne
    /\ up \in [Daemons -> BOOLEAN] /\ Cardinality(Running) <= MaxUp
    /\ pc = [p \in Procs |-> "idle"]
    /\ loaded = [p \in Procs |-> Empty]
    /\ minted = [p \in Procs |-> NoCred]
    /\ answer = [c \in Callers |-> NoDigest]
    /\ wait = [d \in Daemons |-> 0]
    /\ tried = [d \in Daemons |-> FALSE]
    /\ faults = 0

-----------------------------------------------------------------------------
Home(p) == IF p \in Daemons THEN p ELSE DaemonOf[p]
Slot(p) == Profile[Home(p)]

(* Mutation of Warm: the narrowing is not compared. *)
WarmWhateverNarrowing(state, d) == state[Profile[d]].left > Lead

(* Complete, of the daemon's own narrowing, and outside the re-mint lead.   *)
Warm(state, d) ==
    /\ state[Profile[d]].digest = Narrowing[d]
    /\ state[Profile[d]].left > Lead

(* Mutation of RemintDue: only a missing entry is due. *)
RemintDueMissing(d) == file[Profile[d]] = NoCred

RemintDue(d) == ~Warm(file, d)

Go(p, step) == pc' = [pc EXCEPT ![p] = step]

(* The Fetch returns: `cred`, or NoCred for an error.  The ticker keeps only *)
(* whether there was one.                                                   *)
Return(p, cred) ==
    /\ Go(p, "idle")
    /\ loaded' = [loaded EXCEPT ![p] = Empty]
    /\ minted' = [minted EXCEPT ![p] = NoCred]
    /\ answer' = [c \in Callers |-> IF c = p THEN cred.digest ELSE answer[c]]
    /\ tried' = [d \in Daemons |-> IF d = p THEN cred # NoCred ELSE tried[d]]

Unlock == lock' = NoOne

-----------------------------------------------------------------------------
Ask(c) ==
    /\ pc[c] = "idle" /\ up[DaemonOf[c]]
    /\ answer' = [answer EXCEPT ![c] = NoDigest]
    /\ Go(c, "asked")
    /\ UNCHANGED <<file, lock, up, loaded, minted, wait, tried, faults>>

(* The ticker's first round is at once, the next one a TickInterval later.  *)
Tick(d) ==
    /\ up[d] /\ pc[d] = "idle" /\ wait[d] = 0
    /\ wait' = [wait EXCEPT ![d] = TickInterval]
    /\ tried' = [tried EXCEPT ![d] = TRUE]
    /\ IF RemintDue(d) THEN Go(d, "asked") ELSE UNCHANGED pc
    /\ UNCHANGED <<file, lock, up, loaded, minted, answer, faults>>

(* The lock-free read.                                                      *)
ReadCache(p) ==
    /\ pc[p] = "asked"
    /\ IF Warm(file, Home(p))
       THEN Return(p, file[Slot(p)])
       ELSE Go(p, "waiting") /\ UNCHANGED <<loaded, minted, answer, tried>>
    /\ UNCHANGED <<file, lock, up, wait, faults>>

(* Mutation of Acquire: the cache is read and written back without the flock. *)
AcquireAnyway(p) ==
    /\ pc[p] = "waiting"
    /\ lock' = p
    /\ Go(p, "locked")
    /\ UNCHANGED <<file, up, loaded, minted, answer, wait, tried, faults>>

Acquire(p) ==
    /\ pc[p] = "waiting" /\ lock = NoOne
    /\ lock' = p
    /\ Go(p, "locked")
    /\ UNCHANGED <<file, up, loaded, minted, answer, wait, tried, faults>>

(* Mutation of Reload: the cache is read for the write-back, not for a hit. *)
ReloadForWrite(p) ==
    /\ pc[p] = "locked"
    /\ loaded' = [loaded EXCEPT ![p] = file]
    /\ Go(p, "minting")
    /\ UNCHANGED <<file, lock, up, minted, answer, wait, tried, faults>>

(* The read under the lock: what another Fetch minted meanwhile serves both. *)
Reload(p) ==
    /\ pc[p] = "locked"
    /\ IF Warm(file, Home(p))
       THEN Return(p, file[Slot(p)]) /\ Unlock
       ELSE /\ loaded' = [loaded EXCEPT ![p] = file]
            /\ Go(p, "minting")
            /\ UNCHANGED <<lock, minted, answer, tried>>
    /\ UNCHANGED <<file, up, wait, faults>>

(* `aws` answers with a credential of the configured narrowing.             *)
Mint(p) ==
    /\ pc[p] = "minting"
    /\ \E life \in Lives[Home(p)] :
          minted' = [minted EXCEPT ![p] = [digest |-> Narrowing[Home(p)], left |-> life]]
    /\ Go(p, "write")
    /\ UNCHANGED <<file, lock, up, loaded, answer, wait, tried, faults>>

(* No CLI, a lapsed session, a refusal, an incomplete credential, a timeout. *)
MintFails(p) ==
    /\ pc[p] = "minting"
    /\ Return(p, NoCred) /\ Unlock
    /\ UNCHANGED <<file, up, wait, faults>>

(* The whole state that was read under the lock, with the new entry.        *)
Write(p) ==
    /\ pc[p] = "write"
    /\ file' = [loaded[p] EXCEPT ![Slot(p)] = minted[p]]
    /\ Return(p, minted[p]) /\ Unlock
    /\ UNCHANGED <<up, wait, faults>>

WriteFails(p) ==
    /\ pc[p] = "write" /\ faults < MaxFaults
    /\ faults' = faults + 1
    /\ Return(p, NoCred) /\ Unlock
    /\ UNCHANGED <<file, up, wait>>

-----------------------------------------------------------------------------
(* The cache file is lost or no longer parses.                              *)
LoseCache ==
    /\ faults < MaxFaults
    /\ faults' = faults + 1
    /\ file' = Empty
    /\ UNCHANGED <<lock, up, pc, loaded, minted, answer, wait, tried>>

(* A killed daemon's goroutines go with it, and the kernel drops its flock. *)
Crash(d) ==
    /\ up[d] /\ faults < MaxFaults
    /\ faults' = faults + 1
    /\ up' = [up EXCEPT ![d] = FALSE]
    /\ lock' = IF lock # NoOne /\ Home(lock) = d THEN NoOne ELSE lock
    /\ pc' = [p \in Procs |-> IF Home(p) = d THEN "idle" ELSE pc[p]]
    /\ loaded' = [p \in Procs |-> IF Home(p) = d THEN Empty ELSE loaded[p]]
    /\ minted' = [p \in Procs |-> IF Home(p) = d THEN NoCred ELSE minted[p]]
    /\ answer' = [c \in Callers |-> IF DaemonOf[c] = d THEN NoDigest ELSE answer[c]]
    /\ wait' = [wait EXCEPT ![d] = 0]
    /\ tried' = [tried EXCEPT ![d] = FALSE]
    /\ UNCHANGED file

Spawn(d) ==
    /\ ~up[d] /\ Cardinality(Running) < MaxUp
    /\ up' = [up EXCEPT ![d] = TRUE]
    /\ UNCHANGED <<file, lock, pc, loaded, minted, answer, wait, tried, faults>>

(* A tick that is due is taken before time goes on, and a write takes none: *)
(* what lasts is a mint, and the wait for the lock.                         *)
OnTime(d) == up[d] /\ pc[d] = "idle" => wait[d] > 0

Less(n) == IF n > 0 THEN n - 1 ELSE 0
Aged(cred) == [cred EXCEPT !.left = Less(@)]

PassTime ==
    /\ \A d \in Daemons : OnTime(d)
    /\ \A p \in Procs : pc[p] # "write"
    /\ file' = [q \in Profiles |-> Aged(file[q])]
    /\ loaded' = [p \in Procs |-> [q \in Profiles |-> Aged(loaded[p][q])]]
    /\ wait' = [d \in Daemons |-> Less(wait[d])]
    /\ UNCHANGED <<lock, up, pc, minted, answer, tried, faults>>

-----------------------------------------------------------------------------
Work(p) == ReadCache(p) \/ Reload(p) \/ Mint(p) \/ MintFails(p) \/ Write(p) \/ WriteFails(p)

Next ==
    \/ \E c \in Callers : Ask(c)
    \/ \E d \in Daemons : Tick(d) \/ Crash(d) \/ Spawn(d)
    \/ \E p \in Procs : Acquire(p) \/ Work(p)
    \/ LoseCache
    \/ PassTime

Spec == Init /\ [][Next]_vars

(* Goroutines run, time passes, a ticker gets a contended flock in the end, *)
(* and `aws` does not fail it for ever.  Nothing asks, nothing respawns.    *)
Fairness ==
    /\ SF_vars(PassTime)
    /\ \A p \in Procs : WF_vars(Work(p))
    /\ \A d \in Daemons : WF_vars(Tick(d)) /\ SF_vars(Acquire(d)) /\ SF_vars(Mint(d))

FairSpec == Spec /\ Fairness

-----------------------------------------------------------------------------
Own(d) == file[Profile[d]].digest = Narrowing[d]
Outlives(d) ==
    \A e \in Daemons : Profile[e] = Profile[d] /\ Narrowing[e] = Narrowing[d] =>
        \A life \in Lives[e] : life > Lead

(* A mint runs only while the cache holds nothing that would have served:   *)
(* of any number of requests and tickers of any number of daemons that      *)
(* found it cold, one mints (broker.go: the reload under the lock "is what  *)
(* makes one mint").                                                        *)
NoNeedlessMint ==
    \A p \in Procs : pc[p] \in {"minting", "write"} => lock = p /\ ~Warm(file, Home(p))

(* An answer carries the asking daemon's narrowing, whoever filled the      *)
(* cache and whenever (broker.go: a wider entry "must never be served").    *)
ServedFits ==
    \A c \in Callers :
        answer[c] # NoDigest => answer[c] = Narrowing[DaemonOf[c]]

(* The ticker cannot sleep through the re-mint window: once it has looked,  *)
(* and unless its last mint failed, an own credential that began outside    *)
(* the lead keeps more than half of it (broker.go, TickInterval: "so the    *)
(* window cannot be skipped over by one tick").                             *)
WindowNotSkipped ==
    \A d \in Daemons :
        tried[d] /\ pc[d] = "idle" /\ Own(d) /\ Outlives(d)
        => 2 * file[Profile[d]].left > Lead

(* A mint replaces its own profile's entry and no other: no daemon takes    *)
(* back what a daemon of another profile has written since it read the file *)
(* (only a lost file and time do; what was read before the file was lost    *)
(* comes back with the mint).                                               *)
NoLostMint ==
    [][\A q \in Profiles :
          \/ file'[q] \in {file[q], Aged(file[q])}
          \/ faults' > faults \/ file[q] = NoCred
          \/ \E p \in Procs : pc[p] = "write" /\ Slot(p) = q /\ file'[q] = minted[p]]_vars

(* A live daemon whose credentials outlast the lead finds its cache warm    *)
(* again and again, through failed mints, a lost cache, kills of its peers  *)
(* and a peer of another narrowing under the same profile.                  *)
KeptWarm == \A d \in Daemons : Outlives(d) => []<>(Warm(file, d) \/ ~up[d])

(* broker.go, RemintDue: "a request must never wait on a mint it could have *)
(* avoided" - while its own credential has life left it need not.           *)
NoAvoidableWait ==
    \A c \in Callers :
        pc[c] = "minting" => ~(Own(DaemonOf[c]) /\ file[Slot(c)].left > 0)
=============================================================================
