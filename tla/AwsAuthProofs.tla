---------------------------- MODULE AwsAuthProofs ----------------------------
(***************************************************************************)
(* Proofs about AwsAuth for any number of daemons, callers, profiles and    *)
(* narrowings, any lives and any lead.                                      *)
(***************************************************************************)
EXTENDS AwsAuth, TLAPS

LEMMA Interval == TickInterval \in Nat /\ TickInterval > 0 /\ 2 * TickInterval <= Lead
BY ConstantsAssumption DEF TickInterval

LEMMA Homes ==
    ASSUME NEW p \in Procs
    PROVE  /\ Home(p) \in Daemons
           /\ Slot(p) \in Profiles
           /\ Narrowing[Home(p)] \in Digests
           /\ Lives[Home(p)] \subseteq Nat \ {0}
BY ConstantsAssumption DEF Procs, Home, Slot

LEMMA HomeOfDaemon == \A d \in Daemons : d \in Procs /\ Home(d) = d /\ Slot(d) = Profile[d]
BY DEF Procs, Home, Slot

LEMMA HomeOfCaller == \A c \in Callers : c \in Procs /\ Home(c) = DaemonOf[c] /\ c \notin Daemons
BY ConstantsAssumption DEF Procs, Home

(* One Fetch's step, one lemma's case each.                                 *)
Fetching(p) ==
    \/ ReadCache(p) \/ Acquire(p) \/ Reload(p) \/ Mint(p)
    \/ MintFails(p) \/ Write(p) \/ WriteFails(p)

LEMMA StepCases ==
    ASSUME [Next]_vars
    PROVE  \/ \E c \in Callers : Ask(c)
           \/ \E d \in Daemons : Tick(d)
           \/ \E d \in Daemons : Crash(d)
           \/ \E d \in Daemons : Spawn(d)
           \/ \E p \in Procs : Fetching(p)
           \/ LoseCache
           \/ PassTime
           \/ UNCHANGED vars
BY DEF Next, Work, Fetching

-----------------------------------------------------------------------------
(* Types.                                                                   *)

LEMMA Data ==
    /\ NoCred \in Credential
    /\ Empty \in State
    /\ NoCred.digest = NoDigest /\ NoCred.left = 0
    /\ NoDigest \notin Digests
    /\ \A d \in Digests : \A n \in Nat : [digest |-> d, left |-> n] \in Credential
    /\ \A s \in State : \A q \in Profiles : s[q] \in Credential
    /\ \A s \in State : \A q \in Profiles : \A c \in Credential :
          [s EXCEPT ![q] = c] \in State
BY ConstantsAssumption DEF NoCred, Credential, Empty, State

LEMMA Ages ==
    ASSUME NEW c \in Credential
    PROVE  /\ Aged(c) \in Credential
           /\ Aged(c).digest = c.digest
           /\ Aged(c).left = Less(c.left)
           /\ c.left \in Nat /\ Less(c.left) \in Nat
           /\ c.digest \in Digests \cup {NoDigest}
<1> c.left \in Nat /\ c.digest \in Digests \cup {NoDigest}
  BY DEF Credential
<1> Less(c.left) \in Nat
  BY DEF Less
<1> QED BY DEF Aged, Credential

LEMMA NothingAges == Aged(NoCred) = NoCred
<1> NoCred.left = 0
  BY DEF NoCred
<1> Less(0) = 0
  BY DEF Less
<1> QED BY DEF Aged, NoCred

LEMMA TypeInit == Init => TypeOK
BY Data, Interval, ConstantsAssumption DEF Init, TypeOK, Steps

LEMMA ReturnType ==
    ASSUME TypeOK, NEW p \in Procs, NEW cred \in Credential, Return(p, cred)
    PROVE  /\ pc' \in [Procs -> Steps]
           /\ loaded' \in [Procs -> State]
           /\ minted' \in [Procs -> Credential]
           /\ answer' \in [Callers -> Digests \cup {NoDigest}]
           /\ tried' \in [Daemons -> BOOLEAN]
<1> cred.digest \in Digests \cup {NoDigest}
  BY Ages
<1> QED BY Data DEF TypeOK, Return, Go, Steps

LEMMA TypeFetch == ASSUME TypeOK, NEW p \in Procs, Fetching(p) PROVE TypeOK'
<1> USE Data, Homes DEF TypeOK
<1> file[Slot(p)] \in Credential /\ minted[p] \in Credential
  OBVIOUS
<1>1. CASE ReadCache(p)
  <2>1. CASE Warm(file, Home(p))
    <3> Return(p, file[Slot(p)])
      BY <1>1, <2>1 DEF ReadCache
    <3> QED BY <1>1, ReturnType DEF ReadCache
  <2>2. CASE ~Warm(file, Home(p))
    BY <1>1, <2>2 DEF ReadCache, Go, Steps
  <2> QED BY <2>1, <2>2
<1>2. CASE Acquire(p)
  BY <1>2 DEF Acquire, Go, Steps
<1>3. CASE Reload(p)
  <2>1. CASE Warm(file, Home(p))
    <3> Return(p, file[Slot(p)]) /\ lock' = NoOne
      BY <1>3, <2>1 DEF Reload, Unlock
    <3> QED BY <1>3, ReturnType DEF Reload
  <2>2. CASE ~Warm(file, Home(p))
    BY <1>3, <2>2 DEF Reload, Go, Steps
  <2> QED BY <2>1, <2>2
<1>4. CASE Mint(p)
  <2> PICK life \in Lives[Home(p)] :
         minted' = [minted EXCEPT ![p] = [digest |-> Narrowing[Home(p)], left |-> life]]
    BY <1>4 DEF Mint
  <2> [digest |-> Narrowing[Home(p)], left |-> life] \in Credential
    OBVIOUS
  <2> QED BY <1>4 DEF Mint, Go, Steps
<1>5. CASE MintFails(p)
  <2> Return(p, NoCred) /\ lock' = NoOne
    BY <1>5 DEF MintFails, Unlock
  <2> QED BY <1>5, ReturnType DEF MintFails
<1>6. CASE Write(p)
  <2> Return(p, minted[p]) /\ lock' = NoOne
    BY <1>6 DEF Write, Unlock
  <2> file' \in State
    BY <1>6 DEF Write
  <2> QED BY <1>6, ReturnType DEF Write
<1>7. CASE WriteFails(p)
  <2> Return(p, NoCred) /\ lock' = NoOne
    BY <1>7 DEF WriteFails, Unlock
  <2> faults' \in 0..MaxFaults
    BY <1>7, ConstantsAssumption DEF WriteFails
  <2> QED BY <1>7, ReturnType DEF WriteFails
<1> QED BY <1>1, <1>2, <1>3, <1>4, <1>5, <1>6, <1>7 DEF Fetching

LEMMA TypeStep == ASSUME TypeOK, [Next]_vars PROVE TypeOK'
<1> USE Data, Interval, ConstantsAssumption DEF TypeOK
<1>1. ASSUME NEW c \in Callers, Ask(c) PROVE TypeOK'
  BY <1>1, HomeOfCaller DEF Ask, Go, Steps
<1>2. ASSUME NEW d \in Daemons, Tick(d) PROVE TypeOK'
  <2> pc' \in [Procs -> Steps]
    BY <1>2, HomeOfDaemon DEF Tick, Go, Steps
  <2> QED BY <1>2 DEF Tick
<1>3. ASSUME NEW d \in Daemons, Crash(d) PROVE TypeOK'
  <2> /\ pc' \in [Procs -> Steps]
      /\ loaded' \in [Procs -> State]
      /\ minted' \in [Procs -> Credential]
      /\ answer' \in [Callers -> Digests \cup {NoDigest}]
    BY <1>3 DEF Crash, Steps
  <2> QED BY <1>3 DEF Crash
<1>4. ASSUME NEW d \in Daemons, Spawn(d) PROVE TypeOK'
  BY <1>4 DEF Spawn
<1>5. CASE LoseCache
  BY <1>5 DEF LoseCache
<1>6. CASE PassTime
  <2> file' \in State
    <3> \A q \in Profiles : Aged(file[q]) \in Credential
      BY Ages
    <3> QED BY <1>6 DEF PassTime, State
  <2> loaded' \in [Procs -> State]
    <3> \A p \in Procs : \A q \in Profiles : Aged(loaded[p][q]) \in Credential
      BY Ages
    <3> QED BY <1>6 DEF PassTime, State
  <2> wait' \in [Daemons -> 0..TickInterval]
    BY <1>6 DEF PassTime, Less
  <2> QED BY <1>6 DEF PassTime
<1>7. CASE UNCHANGED vars
  BY <1>7 DEF vars
<1> QED BY <1>1, <1>2, <1>3, <1>4, <1>5, <1>6, <1>7, TypeFetch, StepCases

(* Every variable of the cache, of the Fetches and of the daemons keeps its *)
(* type; in particular a credential's life never goes below zero.           *)
THEOREM TypeCorrect == Spec => []TypeOK
BY TypeInit, TypeStep, PTL DEF Spec

-----------------------------------------------------------------------------
(* The lock: who is past it holds it, what it holds of the cache is what    *)
(* the cache holds unless that was lost, and its credential is its own.     *)

Locked(p) == pc[p] \in Holding => lock = p

Current(p) ==
    pc[p] \in {"minting", "write"} =>
        /\ ~Warm(file, Home(p))
        /\ \A q \in Profiles : file[q] \in {loaded[p][q], NoCred}

Fresh(p) ==
    pc[p] = "write" =>
        /\ minted[p].digest = Narrowing[Home(p)]
        /\ minted[p].left \in Lives[Home(p)]

LockInv == \A p \in Procs : Locked(p) /\ Current(p) /\ Fresh(p)

(* What the end of a Fetch does to any Fetch.                               *)
LEMMA Returned ==
    ASSUME TypeOK, NEW p \in Procs, NEW cred, Return(p, cred), NEW r \in Procs
    PROVE  /\ r = p => pc'[r] = "idle"
           /\ r # p => pc'[r] = pc[r] /\ loaded'[r] = loaded[r] /\ minted'[r] = minted[r]
BY DEF TypeOK, Return, Go

LEMMA NotWarm == \A d \in Daemons : ~Warm(Empty, d)
BY ConstantsAssumption, Data DEF Warm, Empty

LEMMA LockFetch ==
    ASSUME TypeOK, LockInv, NEW p \in Procs, Fetching(p), NEW r \in Procs
    PROVE  Locked(r)' /\ Current(r)' /\ Fresh(r)'
<1> USE Data, Homes DEF LockInv, Locked, Current, Fresh, Holding
<1> NoOne \notin Procs
  BY ConstantsAssumption
<1>1. CASE ReadCache(p)
  <2>1. CASE Warm(file, Home(p))
    <3> Return(p, file[Slot(p)])
      BY <1>1, <2>1 DEF ReadCache
    <3> QED BY <1>1, Returned DEF ReadCache, Warm
  <2>2. CASE ~Warm(file, Home(p))
    BY <1>1, <2>2 DEF ReadCache, Go, TypeOK, Warm
  <2> QED BY <2>1, <2>2
<1>2. CASE Acquire(p)
  BY <1>2 DEF Acquire, Go, TypeOK, Warm
<1>3. CASE Reload(p)
  <2>1. CASE Warm(file, Home(p))
    <3> Return(p, file[Slot(p)])
      BY <1>3, <2>1 DEF Reload
    <3> lock = p
      BY <1>3 DEF Reload
    <3> QED BY <1>3, Returned DEF Reload, Warm
  <2>2. CASE ~Warm(file, Home(p))
    <3> lock = p
      BY <1>3 DEF Reload
    <3>1. CASE r = p
      BY <1>3, <2>2, <3>1 DEF Reload, Go, TypeOK, Warm
    <3>2. CASE r # p
      BY <1>3, <2>2, <3>2 DEF Reload, Go, TypeOK, Warm
    <3> QED BY <3>1, <3>2
  <2> QED BY <2>1, <2>2
<1>4. CASE Mint(p)
  <2> lock = p
    BY <1>4 DEF Mint
  <2>1. CASE r = p
    BY <1>4, <2>1 DEF Mint, Go, TypeOK, Warm
  <2>2. CASE r # p
    BY <1>4, <2>2 DEF Mint, Go, TypeOK, Warm
  <2> QED BY <2>1, <2>2
<1>5. CASE MintFails(p)
  <2> Return(p, NoCred) /\ lock = p
    BY <1>5 DEF MintFails
  <2> QED BY <1>5, Returned DEF MintFails, Warm
<1>6. CASE Write(p)
  <2> Return(p, minted[p]) /\ lock = p
    BY <1>6 DEF Write
  <2> QED BY <1>6, Returned DEF Write, Warm
<1>7. CASE WriteFails(p)
  <2> Return(p, NoCred) /\ lock = p
    BY <1>7 DEF WriteFails
  <2> QED BY <1>7, Returned DEF WriteFails, Warm
<1> QED BY <1>1, <1>2, <1>3, <1>4, <1>5, <1>6, <1>7 DEF Fetching

(* Time makes no cold entry warm.                                           *)
LEMMA ColdStaysCold ==
    ASSUME TypeOK, PassTime, NEW d \in Daemons, ~Warm(file, d)
    PROVE  ~Warm(file', d)
<1> Profile[d] \in Profiles
  BY ConstantsAssumption
<1> file[Profile[d]] \in Credential
  BY Data DEF TypeOK
<1> file'[Profile[d]] = Aged(file[Profile[d]])
  BY DEF PassTime
<1> QED BY Ages, ConstantsAssumption DEF Warm, Less

LEMMA LockStep == ASSUME TypeOK, LockInv, [Next]_vars PROVE LockInv'
<1> USE Data, Homes
<1> NoOne \notin Procs
  BY ConstantsAssumption
<1>1. ASSUME NEW c \in Callers, Ask(c) PROVE LockInv'
  BY <1>1, HomeOfCaller DEF Ask, Go, TypeOK, LockInv, Locked, Current, Fresh, Holding, Warm
<1>2. ASSUME NEW d \in Daemons, Tick(d) PROVE LockInv'
  <2> \A r \in Procs : pc'[r] = pc[r] \/ pc'[r] = "asked"
    BY <1>2 DEF Tick, Go, TypeOK
  <2> QED BY <1>2 DEF Tick, LockInv, Locked, Current, Fresh, Holding, Warm
<1>3. ASSUME NEW d \in Daemons, Crash(d) PROVE LockInv'
  <2> SUFFICES ASSUME NEW r \in Procs PROVE Locked(r)' /\ Current(r)' /\ Fresh(r)'
    BY DEF LockInv
  <2>1. CASE Home(r) = d
    <3> pc'[r] = "idle"
      BY <1>3, <2>1 DEF Crash
    <3> QED BY DEF Locked, Current, Fresh, Holding
  <2>2. CASE Home(r) # d
    <3>1. /\ pc'[r] = pc[r] /\ loaded'[r] = loaded[r] /\ minted'[r] = minted[r]
          /\ lock = r => lock' = r
          /\ UNCHANGED file
      BY <1>3, <2>2 DEF Crash
    <3> QED BY <3>1 DEF LockInv, Locked, Current, Fresh, Warm
  <2> QED BY <2>1, <2>2
<1>4. ASSUME NEW d \in Daemons, Spawn(d) PROVE LockInv'
  BY <1>4 DEF Spawn, LockInv, Locked, Current, Fresh, Warm
<1>5. CASE LoseCache
  <2> \A p \in Procs : ~Warm(file', Home(p))
    BY <1>5, NotWarm DEF LoseCache, Warm
  <2> \A q \in Profiles : file'[q] = NoCred
    BY <1>5 DEF LoseCache, Empty
  <2> QED BY <1>5 DEF LoseCache, LockInv, Locked, Current, Fresh
<1>6. CASE PassTime
  <2> SUFFICES ASSUME NEW r \in Procs PROVE Locked(r)' /\ Current(r)' /\ Fresh(r)'
    BY DEF LockInv
  <2>1. \A q \in Profiles : file'[q] = Aged(file[q]) /\ loaded'[r][q] = Aged(loaded[r][q])
    BY <1>6 DEF PassTime
  <2>2. Current(r)'
    BY <1>6, <2>1, ColdStaysCold, NothingAges DEF PassTime, LockInv, Current, Warm
  <2> QED BY <1>6, <2>2 DEF PassTime, LockInv, Locked, Fresh
<1>7. CASE UNCHANGED vars
  BY <1>7 DEF vars, LockInv, Locked, Current, Fresh, Warm
<1>8. ASSUME NEW p \in Procs, Fetching(p) PROVE LockInv'
  BY <1>8, LockFetch DEF LockInv
<1> QED BY <1>1, <1>2, <1>3, <1>4, <1>5, <1>6, <1>7, <1>8, StepCases

LEMMA LockInit == Init => LockInv
BY DEF Init, LockInv, Locked, Current, Fresh, Holding

(* The lock's invariant, on every state.                                    *)
THEOREM LockHeld == Spec => []LockInv
BY TypeCorrect, LockInit, LockStep, PTL DEF Spec

(* No Fetch mints while the cache holds what would have served it: of all   *)
(* the requests and tickers that found it cold, one mints.                  *)
THEOREM OneMint == Spec => []NoNeedlessMint
<1>1. LockInv => NoNeedlessMint
  BY DEF LockInv, Locked, Current, Holding, NoNeedlessMint
<1> QED BY <1>1, LockHeld, PTL

(* A mint replaces its own profile's entry only.                            *)
LEMMA KeepsOthers ==
    ASSUME TypeOK, LockInv, [Next]_vars, NEW q \in Profiles
    PROVE  \/ file'[q] \in {file[q], Aged(file[q])}
           \/ faults' > faults \/ file[q] = NoCred
           \/ \E p \in Procs : pc[p] = "write" /\ Slot(p) = q /\ file'[q] = minted[p]
<1>1. ASSUME NEW p \in Procs, Fetching(p), file' # file PROVE Write(p)
  BY <1>1 DEF Fetching, ReadCache, Acquire, Reload, Mint, MintFails, Write, WriteFails
<1>2. ASSUME NEW p \in Procs, Write(p)
      PROVE  \/ file'[q] = file[q] \/ file[q] = NoCred
             \/ pc[p] = "write" /\ Slot(p) = q /\ file'[q] = minted[p]
  <2> file' = [loaded[p] EXCEPT ![Slot(p)] = minted[p]] /\ pc[p] = "write"
    BY <1>2 DEF Write
  <2> loaded[p] \in State
    BY DEF TypeOK
  <2> Slot(p) = q => file'[q] = minted[p]
    BY DEF State
  <2> Slot(p) # q => file'[q] = loaded[p][q]
    BY DEF State
  <2> QED BY DEF LockInv, Current
<1>3. CASE LoseCache
  BY <1>3 DEF LoseCache, TypeOK
<1>4. CASE PassTime
  BY <1>4 DEF PassTime
<1>5. CASE UNCHANGED file
  BY <1>5
<1>6. ASSUME file' # file PROVE (\E p \in Procs : Write(p)) \/ LoseCache \/ PassTime
  BY <1>1, <1>6, StepCases DEF Ask, Tick, Crash, Spawn, vars
<1> QED BY <1>2, <1>3, <1>4, <1>5, <1>6

(* No daemon's write takes back what another has written since.             *)
THEOREM MintsAreKept == Spec => NoLostMint
<1>1. ASSUME TypeOK, LockInv, [Next]_vars
      PROVE  [\A q \in Profiles :
                \/ file'[q] \in {file[q], Aged(file[q])}
                \/ faults' > faults \/ file[q] = NoCred
                \/ \E p \in Procs : pc[p] = "write" /\ Slot(p) = q /\ file'[q] = minted[p]]_vars
  BY <1>1, KeepsOthers
<1> QED BY <1>1, TypeCorrect, LockHeld, PTL DEF Spec, NoLostMint

-----------------------------------------------------------------------------
(* Answers.                                                                 *)

LEMMA FitsStep == ASSUME TypeOK, LockInv, ServedFits, [Next]_vars PROVE ServedFits'
<1> USE Data
<1> SUFFICES ASSUME NEW c \in Callers, answer'[c] # NoDigest
             PROVE  answer'[c] = Narrowing[DaemonOf[c]]
  BY DEF ServedFits
<1>0. c \in Procs /\ Home(c) = DaemonOf[c]
  BY HomeOfCaller
<1>1. CASE answer'[c] = answer[c]
  BY <1>1 DEF ServedFits
<1>2. ASSUME NEW p \in Procs, NEW cred, Return(p, cred), cred # NoCred => cred.digest = Narrowing[Home(p)]
      PROVE  answer'[c] = Narrowing[DaemonOf[c]]
  <2>1. CASE c = p
    <3> answer'[c] = cred.digest
      BY <1>2, <2>1 DEF Return
    <3> QED BY <1>2, <2>1, <1>0
  <2>2. CASE c # p
    BY <1>2, <2>2, <1>1 DEF Return
  <2> QED BY <2>1, <2>2
<1>3. ASSUME NEW p \in Procs, Fetching(p) PROVE answer'[c] = Narrowing[DaemonOf[c]]
  <2>1. ASSUME Warm(file, Home(p)) PROVE file[Slot(p)].digest = Narrowing[Home(p)]
    BY <2>1 DEF Warm, Slot
  <2>2. ASSUME pc[p] = "write" PROVE minted[p].digest = Narrowing[Home(p)]
    BY <2>2 DEF LockInv, Fresh
  <2>3. CASE ReadCache(p)
    BY <2>1, <2>3, <1>1, <1>2 DEF ReadCache
  <2>4. CASE Reload(p)
    BY <2>1, <2>4, <1>1, <1>2 DEF Reload
  <2>5. CASE Write(p)
    BY <2>2, <2>5, <1>2 DEF Write
  <2>6. CASE MintFails(p) \/ WriteFails(p)
    BY <2>6, <1>2 DEF MintFails, WriteFails
  <2>7. CASE Acquire(p) \/ Mint(p)
    BY <2>7, <1>1 DEF Acquire, Mint
  <2> QED BY <1>3, <2>3, <2>4, <2>5, <2>6, <2>7 DEF Fetching
<1>4. CASE \E d \in Callers : Ask(d)
  BY <1>4, <1>1 DEF Ask, TypeOK
<1>5. CASE \E d \in Daemons : Tick(d) \/ Spawn(d)
  BY <1>5, <1>1 DEF Tick, Spawn
<1>6. CASE \E d \in Daemons : Crash(d)
  BY <1>6, <1>1 DEF Crash
<1>7. CASE LoseCache \/ PassTime \/ UNCHANGED vars
  BY <1>7, <1>1 DEF LoseCache, PassTime, vars
<1> QED BY <1>3, <1>4, <1>5, <1>6, <1>7, StepCases

LEMMA FitsInit == Init => ServedFits
BY DEF Init, ServedFits

(* Whoever filled the cache, and whatever has become of it since, an answer *)
(* carries the narrowing of the daemon that was asked.                      *)
THEOREM AnswersFit == Spec => []ServedFits
BY TypeCorrect, LockHeld, FitsInit, FitsStep, PTL DEF Spec

-----------------------------------------------------------------------------
(* The re-mint window.  Between two ticks a credential that began outside   *)
(* the lead has lost no more life than the ticker has slept.                *)

Keeps(cred, d) ==
    cred.digest = Narrowing[d] => cred.left + TickInterval > Lead + wait[d]

Alive(d) ==
    /\ tried[d] => up[d]
    /\ \A p \in Procs : pc[p] # "idle" /\ Home(p) = d => up[d]

Window(d) ==
    tried[d] /\ pc[d] = "idle" /\ Outlives(d) =>
        /\ Keeps(file[Profile[d]], d)
        /\ \A p \in Procs : pc[p] \in {"minting", "write"} => Keeps(loaded[p][Profile[d]], d)

WindowInv == \A d \in Daemons : Alive(d) /\ Window(d)

LEMMA WindowInit == Init => WindowInv
BY HomeOfDaemon DEF Init, WindowInv, Alive, Window

LEMMA WarmKeeps ==
    ASSUME TypeOK, NEW d \in Daemons, Warm(file, d)
    PROVE  Keeps(file[Profile[d]], d)
<1> Profile[d] \in Profiles
  BY ConstantsAssumption
<1> file[Profile[d]].left \in Nat /\ wait[d] \in 0..TickInterval
  BY Data, Ages DEF TypeOK
<1> QED BY ConstantsAssumption, Interval DEF Warm, Keeps

(* While the cache is warm, whoever holds the lock has read it so.          *)
LEMMA WarmLoaded ==
    ASSUME TypeOK, LockInv, NEW d \in Daemons, Warm(file, d), NEW p \in Procs,
           pc[p] \in {"minting", "write"}
    PROVE  loaded[p][Profile[d]] = file[Profile[d]]
<1> Profile[d] \in Profiles /\ Narrowing[d] \in Digests
  BY ConstantsAssumption
<1> file[Profile[d]] # NoCred
  BY Data DEF Warm
<1> QED BY DEF LockInv, Current

LEMMA WarmWindow ==
    ASSUME TypeOK, LockInv, NEW d \in Daemons, Warm(file, d)
    PROVE  /\ Keeps(file[Profile[d]], d)
           /\ \A p \in Procs : pc[p] \in {"minting", "write"} => Keeps(loaded[p][Profile[d]], d)
BY WarmKeeps, WarmLoaded

(* The steps of d's own ticker.                                             *)
LEMMA WindowOwn ==
    ASSUME TypeOK, LockInv, WindowInv, NEW d \in Daemons, Fetching(d)
    PROVE  Window(d)'
<1> USE Data, HomeOfDaemon
<1> SUFFICES ASSUME tried'[d], pc'[d] = "idle", Outlives(d)
             PROVE  /\ Keeps(file[Profile[d]], d)'
                    /\ \A p \in Procs : pc'[p] \in {"minting", "write"}
                                           => Keeps(loaded[p][Profile[d]], d)'
  BY DEF Window
<1>1. pc[d] # "idle"
  BY DEF Fetching, ReadCache, Acquire, Reload, Mint, MintFails, Write, WriteFails
<1>2. wait' = wait
  BY DEF Fetching, ReadCache, Acquire, Reload, Mint, MintFails, Write, WriteFails
<1>3. CASE ReadCache(d) \/ Reload(d)
  <2>1. Warm(file, d) /\ Return(d, file[Slot(d)]) /\ UNCHANGED file
    BY <1>3 DEF ReadCache, Reload, Go, TypeOK
  <2>2. \A p \in Procs : pc'[p] \in {"minting", "write"} =>
            pc[p] \in {"minting", "write"} /\ loaded'[p] = loaded[p]
    BY <2>1, Returned
  <2> QED BY <2>1, <2>2, <1>2, WarmWindow DEF Keeps
<1>4. CASE MintFails(d) \/ WriteFails(d)
  <2> Return(d, NoCred)
    BY <1>4 DEF MintFails, WriteFails
  <2> ~tried'[d]
    BY DEF Return
  <2> QED OBVIOUS
<1>5. CASE Write(d)
  <2>1. Return(d, minted[d]) /\ file' = [loaded[d] EXCEPT ![Profile[d]] = minted[d]] /\ pc[d] = "write"
    BY <1>5 DEF Write
  <2>2. loaded[d] \in State /\ Profile[d] \in Profiles
    BY ConstantsAssumption DEF TypeOK
  <2>3. file'[Profile[d]] = minted[d]
    BY <2>1, <2>2 DEF State
  <2>4. minted[d].left \in Lives[d] /\ Lives[d] \subseteq Nat
    BY <2>1, Homes DEF LockInv, Fresh
  <2>5. minted[d].left > Lead
    BY <2>4 DEF Outlives
  <2>6. wait[d] \in 0..TickInterval
    BY DEF TypeOK
  <2>7. Keeps(file[Profile[d]], d)'
    BY <1>2, <2>3, <2>4, <2>5, <2>6, Interval, ConstantsAssumption DEF Keeps
  <2>8. \A p \in Procs : pc'[p] \notin {"minting", "write"}
    <3> SUFFICES ASSUME NEW p \in Procs PROVE pc'[p] \notin {"minting", "write"}
      OBVIOUS
    <3>1. CASE p = d
      BY <3>1, <2>1, Returned
    <3>2. CASE p # d
      BY <3>2, <2>1, Returned DEF LockInv, Locked, Holding
    <3> QED BY <3>1, <3>2
  <2> QED BY <2>7, <2>8
<1>6. CASE Acquire(d) \/ Mint(d)
  BY <1>6 DEF Acquire, Mint, Go, TypeOK
<1> QED BY <1>3, <1>4, <1>5, <1>6 DEF Fetching

(* The steps of every other Fetch.                                          *)
LEMMA WindowOther ==
    ASSUME TypeOK, LockInv, WindowInv, NEW d \in Daemons, NEW p \in Procs \ {d}, Fetching(p)
    PROVE  Window(d)'
<1> USE Data, HomeOfDaemon
<1>0. pc'[d] = pc[d] /\ tried'[d] = tried[d] /\ wait' = wait
  BY Returned DEF Fetching, ReadCache, Acquire, Reload, Mint, MintFails, Write, WriteFails,
                  Go, TypeOK, Return
<1> SUFFICES ASSUME tried[d], pc[d] = "idle", Outlives(d)
             PROVE  /\ Keeps(file[Profile[d]], d)'
                    /\ \A r \in Procs : pc'[r] \in {"minting", "write"}
                                           => Keeps(loaded[r][Profile[d]], d)'
  BY <1>0 DEF Window
<1>1. /\ Keeps(file[Profile[d]], d)
      /\ \A r \in Procs : pc[r] \in {"minting", "write"} => Keeps(loaded[r][Profile[d]], d)
  BY DEF WindowInv, Window
<1>2. ASSUME NEW r \in Procs, r # p PROVE pc'[r] = pc[r] /\ loaded'[r] = loaded[r]
  BY <1>2, Returned DEF Fetching, ReadCache, Acquire, Reload, Mint, MintFails, Write, WriteFails,
                        Go, TypeOK
<1>3. CASE Write(p)
  <2>1. Return(p, minted[p]) /\ file' = [loaded[p] EXCEPT ![Slot(p)] = minted[p]] /\ pc[p] = "write"
    BY <1>3 DEF Write
  <2>2. loaded[p] \in State /\ Slot(p) \in Profiles /\ Profile[d] \in Profiles
    BY Homes, ConstantsAssumption DEF TypeOK
  <2>3. Keeps(file[Profile[d]], d)'
    <3>1. CASE Slot(p) # Profile[d]
      <4> file'[Profile[d]] = loaded[p][Profile[d]]
        BY <2>1, <2>2, <3>1 DEF State
      <4> QED BY <1>0, <1>1, <2>1 DEF Keeps
    <3>2. CASE Slot(p) = Profile[d] /\ minted[p].digest = Narrowing[d]
      <4>1. file'[Profile[d]] = minted[p]
        BY <2>1, <2>2, <3>2 DEF State
      <4>2. Narrowing[Home(p)] = Narrowing[d] /\ minted[p].left \in Lives[Home(p)]
        BY <2>1, <3>2 DEF LockInv, Fresh
      <4>3. minted[p].left > Lead /\ minted[p].left \in Nat
        BY <4>2, <3>2, Homes DEF Outlives, Slot
      <4>4. wait[d] \in 0..TickInterval
        BY DEF TypeOK
      <4> QED BY <1>0, <4>1, <4>3, <4>4, Interval, ConstantsAssumption DEF Keeps
    <3>3. CASE Slot(p) = Profile[d] /\ minted[p].digest # Narrowing[d]
      <4> file'[Profile[d]] = minted[p]
        BY <2>1, <2>2, <3>3 DEF State
      <4> QED BY <3>3 DEF Keeps
    <3> QED BY <3>1, <3>2, <3>3
  <2>4. pc'[p] = "idle"
    BY <2>1, Returned
  <2> QED BY <1>0, <1>1, <1>2, <2>3, <2>4 DEF Keeps
<1>4. CASE ~Write(p)
  <2>1. UNCHANGED file
    BY <1>4 DEF Fetching, ReadCache, Acquire, Reload, Mint, MintFails, WriteFails
  <2>2. pc'[p] \in {"minting", "write"} =>
          \/ pc[p] \in {"minting", "write"} /\ loaded'[p] = loaded[p]
          \/ loaded'[p] = file
    BY <1>4, Returned DEF Fetching, ReadCache, Acquire, Reload, Mint, MintFails, WriteFails,
                          Go, TypeOK
  <2> QED BY <1>0, <1>1, <1>2, <2>1, <2>2 DEF Keeps
<1> QED BY <1>3, <1>4

(* Time: the tick that is due comes first.                                  *)
LEMMA WindowTime ==
    ASSUME TypeOK, WindowInv, PassTime, NEW d \in Daemons
    PROVE  Window(d)'
<1> USE Data, HomeOfDaemon
<1> SUFFICES ASSUME tried[d], pc[d] = "idle", Outlives(d)
             PROVE  /\ Keeps(file[Profile[d]], d)'
                    /\ \A p \in Procs : pc[p] \in {"minting", "write"}
                                           => Keeps(loaded[p][Profile[d]], d)'
  BY DEF Window, PassTime
<1>1. /\ Keeps(file[Profile[d]], d)
      /\ \A r \in Procs : pc[r] \in {"minting", "write"} => Keeps(loaded[r][Profile[d]], d)
  BY DEF WindowInv, Window
<1>2. up[d]
  BY DEF WindowInv, Alive
<1>3. wait[d] \in 1..TickInterval /\ wait'[d] = wait[d] - 1
  BY <1>2, Interval DEF PassTime, OnTime, Less, TypeOK
<1>4. ASSUME NEW cred \in Credential, Keeps(cred, d)
      PROVE  Aged(cred).digest = Narrowing[d] =>
                 Aged(cred).left + TickInterval > Lead + wait'[d]
  <2>1. Aged(cred).digest = cred.digest /\ Aged(cred).left = Less(cred.left) /\ cred.left \in Nat
    BY Ages
  <2> QED BY <2>1, <1>3, <1>4, Interval, ConstantsAssumption DEF Keeps, Less
<1>5. Profile[d] \in Profiles
  BY ConstantsAssumption
<1>6. file'[Profile[d]] = Aged(file[Profile[d]]) /\ file[Profile[d]] \in Credential
  BY <1>5 DEF PassTime, TypeOK
<1>7. \A p \in Procs : /\ loaded'[p][Profile[d]] = Aged(loaded[p][Profile[d]])
                       /\ loaded[p][Profile[d]] \in Credential
  BY <1>5 DEF PassTime, TypeOK
<1> QED BY <1>1, <1>4, <1>6, <1>7 DEF Keeps

LEMMA WindowStep == ASSUME TypeOK, LockInv, WindowInv, [Next]_vars PROVE WindowInv'
<1> USE Data, HomeOfDaemon
<1> SUFFICES ASSUME NEW d \in Daemons PROVE Alive(d)' /\ Window(d)'
  BY DEF WindowInv
<1>0. Alive(d) /\ Window(d)
  BY DEF WindowInv
<1>1. CASE \E c \in Callers : Ask(c)
  <2> PICK c \in Callers : Ask(c)
    BY <1>1
  <2> UNCHANGED <<file, loaded, wait, tried, up>> /\ pc' = [pc EXCEPT ![c] = "asked"] /\ c # d
      /\ up[DaemonOf[c]]
    BY HomeOfCaller DEF Ask, Go
  <2> QED BY <1>0, HomeOfCaller DEF Alive, Window, Keeps, TypeOK
<1>2. CASE \E e \in Daemons : Tick(e)
  <2> PICK e \in Daemons : Tick(e)
    BY <1>2
  <2>0. UNCHANGED <<file, loaded, up>> /\ up[e]
        /\ \A p \in Procs : pc'[p] = pc[p] \/ (p = e /\ pc'[p] = "asked")
    BY DEF Tick, Go, TypeOK
  <2>1. CASE e = d
    <3>1. wait'[d] = TickInterval
      BY <2>1 DEF Tick, TypeOK
    <3>2. CASE Warm(file, d)
      <4>1. pc' = pc /\ file[Profile[d]].left > Lead /\ file[Profile[d]].left \in Nat
        BY <2>1, <3>2, Ages, ConstantsAssumption DEF Tick, RemintDue, Warm, TypeOK
      <4>2. Keeps(file[Profile[d]], d)'
        BY <2>0, <3>1, <4>1, Interval, ConstantsAssumption DEF Keeps
      <4>3. Window(d)'
        BY <2>0, <3>2, <4>1, <4>2, WarmLoaded DEF Window, Keeps
      <4> QED BY <1>0, <2>0, <2>1, <4>3 DEF Alive
    <3>3. CASE ~Warm(file, d)
      <4> pc'[d] = "asked"
        BY <2>1, <3>3 DEF Tick, RemintDue, Go, TypeOK
      <4> QED BY <1>0, <2>0, <2>1 DEF Alive, Window
    <3> QED BY <3>2, <3>3
  <2>2. CASE e # d
    <3> wait'[d] = wait[d] /\ tried'[d] = tried[d] /\ pc'[d] = pc[d]
      BY <2>0, <2>2 DEF Tick, TypeOK
    <3> QED BY <1>0, <2>0, <2>2 DEF Alive, Window, Keeps
  <2> QED BY <2>1, <2>2
<1>3. CASE \E e \in Daemons : Crash(e)
  <2> PICK e \in Daemons : Crash(e)
    BY <1>3
  <2>1. CASE e = d
    <3> ~tried'[d] /\ \A p \in Procs : Home(p) = d => pc'[p] = "idle"
      BY <2>1 DEF Crash, TypeOK
    <3> QED BY DEF Alive, Window
  <2>2. CASE e # d
    <3> /\ wait'[d] = wait[d] /\ tried'[d] = tried[d] /\ up'[d] = up[d] /\ file' = file
        /\ \A p \in Procs : \/ Home(p) = e /\ pc'[p] = "idle"
                            \/ pc'[p] = pc[p] /\ loaded'[p] = loaded[p]
      BY <2>2 DEF Crash, TypeOK
    <3> Home(d) # e
      BY <2>2
    <3> pc'[d] = pc[d]
      OBVIOUS
    <3> QED BY <1>0, <2>2 DEF Alive, Window, Keeps
  <2> QED BY <2>1, <2>2
<1>4. CASE \E e \in Daemons : Spawn(e)
  <2> UNCHANGED <<file, loaded, wait, tried, pc>> /\ (up[d] => up'[d])
    BY <1>4 DEF Spawn, TypeOK
  <2> QED BY <1>0 DEF Alive, Window, Keeps
<1>5. CASE \E p \in Procs : Fetching(p)
  <2> PICK p \in Procs : Fetching(p)
    BY <1>5
  <2>1. Window(d)'
    BY WindowOwn, WindowOther
  <2>2. UNCHANGED up /\ pc[p] # "idle"
    BY DEF Fetching, ReadCache, Acquire, Reload, Mint, MintFails, Write, WriteFails
  <2>3. \A r \in Procs : r # p => pc'[r] = pc[r]
    BY Returned DEF Fetching, ReadCache, Acquire, Reload, Mint, MintFails, Write, WriteFails,
                    Go, TypeOK
  <2>4. tried'[d] => tried[d] \/ p = d
    BY DEF Fetching, ReadCache, Acquire, Reload, Mint, MintFails, Write, WriteFails, Return
  <2> QED BY <1>0, <2>1, <2>2, <2>3, <2>4 DEF Alive
<1>6. CASE LoseCache
  <2> UNCHANGED <<up, pc, loaded, wait, tried>> /\ file' = Empty
    BY <1>6 DEF LoseCache
  <2> file'[Profile[d]] = NoCred /\ Narrowing[d] # NoDigest
    BY ConstantsAssumption DEF Empty
  <2> QED BY <1>0 DEF Alive, Window, Keeps
<1>7. CASE PassTime
  BY <1>0, <1>7, WindowTime DEF PassTime, Alive
<1>8. CASE UNCHANGED vars
  BY <1>0, <1>8 DEF vars, Alive, Window, Keeps
<1> QED BY <1>1, <1>2, <1>3, <1>4, <1>5, <1>6, <1>7, <1>8, StepCases

(* No lead, no lives and no number of peers let the ticker sleep through    *)
(* the window: a credential that began outside the lead keeps more than     *)
(* half of it unless the ticker's last mint failed.                         *)
THEOREM WindowKept == Spec => []WindowNotSkipped
<1>1. ASSUME TypeOK, WindowInv PROVE WindowNotSkipped
  <2> SUFFICES ASSUME NEW d \in Daemons, tried[d], pc[d] = "idle", Own(d), Outlives(d)
               PROVE  2 * file[Profile[d]].left > Lead
    BY DEF WindowNotSkipped
  <2>1. Keeps(file[Profile[d]], d)
    BY <1>1 DEF WindowInv, Window
  <2>2. file[Profile[d]].left \in Nat /\ wait[d] \in Nat
    BY <1>1, Data, Ages, Interval, ConstantsAssumption DEF TypeOK
  <2> QED BY <2>1, <2>2, Interval, ConstantsAssumption DEF Own, Keeps
<1> QED BY <1>1, TypeCorrect, LockHeld, WindowInit, WindowStep, PTL DEF Spec
=============================================================================
