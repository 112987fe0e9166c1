---------------------------- MODULE OpenAIAuth -----------------------------
(***************************************************************************)
(* internal/openaiauth and internal/openaiauthdaemon: one OpenAI grant     *)
(* shared by every jail and by the host user.  Sessions of the daemon(s)   *)
(* read and write credentials.json under one flock; the refresh token in   *)
(* it is redeemed at OpenAI while the lock is held.  A session can die at  *)
(* any step: the kernel drops its flock and keeps the file.                *)
(***************************************************************************)
EXTENDS Naturals, FiniteSets

CONSTANTS Jails,       \* sessions on the jail-facing socket
          Hosts,       \* sessions on the private 0600 host socket
          Proactive,   \* the runProactive goroutine
          LoginPorts,  \* browser callback ports that can be bound at once
          MaxIssue,    \* bound: token sets issued in a behaviour
          MaxAgain,    \* bound: times an auth.json is imported again
          NoState, Unreadable, Nobody

Procs  == Jails \cup Hosts \cup {Proactive}
Issues == 1..MaxIssue
Pcs    == {"idle", "browser", "wait", "held", "upstream", "answered", "reply"}
Ops    == {"none", "refresh", "replace", "logout"}
Answers == {"none", "tokens", "permanent", "transient"}

ASSUME OpenAIAuthAssumption ==
  /\ Proactive \notin Jails \cup Hosts
  /\ Jails \cap Hosts = {}
  /\ Nobody \notin Procs
  /\ MaxIssue \in Nat
  /\ MaxAgain \in Nat
  /\ LoginPorts \in Nat
  /\ NoState # Unreadable

VARIABLES
  file,    \* credentials.json
  lock,    \* who holds refresh.lock
  pc, op,  \* where each session is and what it was asked to do
  marker,  \* Request.CallerGeneration: 0, or the generation of the caller's view
  mem,     \* the state loadState returned to the session holding the lock
  got,     \* token set in hand: issue number and refresh token (0, 0 when none)
  answer,  \* what OpenAI answered the redemption in progress
  view,    \* generation and access token each client last received (0 = none)
  issued,  \* number of token sets handed out so far
  spent,   \* refresh tokens OpenAI has consumed and will refuse
  excused, \* spent tokens no redemption can be blamed for presenting again:
           \* their successor was lost, or a human brought them back
  imported, \* history: token sets that came out of an auth.json
  again     \* times one of them was imported again

vars == <<file, lock, pc, op, marker, mem, got, answer, view, issued, spent, excused,
          imported, again>>

Grant == INSTANCE OpenAIGrant WITH cell <- file
GrantSpec == Grant!Spec
Generation == Grant!Generation
Readable == file \notin {NoState, Unreadable}

ASSUME AbsentAssumption == NoState \notin Generation /\ Unreadable \notin Generation

NoTokens == [at |-> 0, rt |-> 0]
NoView   == [gen |-> 0, at |-> 0]

Init ==
  /\ file \in {NoState, Unreadable}
  /\ lock = Nobody
  /\ pc = [p \in Procs |-> "idle"]
  /\ op = [p \in Procs |-> "none"]
  /\ marker = [p \in Procs |-> 0]
  /\ mem = [p \in Procs |-> NoState]
  /\ got = [p \in Procs |-> NoTokens]
  /\ answer = [p \in Procs |-> "none"]
  /\ view = [p \in Procs |-> NoView]
  /\ issued = 0
  /\ spent = {}
  /\ excused = {}
  /\ imported = {}
  /\ again = 0

-----------------------------------------------------------------------------
(* Requests, before the lock.                                              *)

Submit(p, o, m) ==
  /\ pc[p] = "idle"
  /\ pc' = [pc EXCEPT ![p] = "wait"]
  /\ op' = [op EXCEPT ![p] = o]
  /\ marker' = [marker EXCEPT ![p] = m]
  /\ UNCHANGED <<file, lock, mem, answer, view>>

\* action "token": no generation is presented.
Token(p) == /\ p \in Jails \cup Hosts
            /\ Submit(p, "refresh", 0)
            /\ UNCHANGED <<got, issued, spent, excused, imported, again>>

\* action "refresh": the Codex view's marker; a zero marker does not parse.
RefreshView(p) == /\ p \in Jails \cup Hosts
                  /\ view[p].gen # 0
                  /\ Submit(p, "refresh", view[p].gen)
                  /\ UNCHANGED <<got, issued, spent, excused, imported, again>>

\* runProactive: RefreshDue is read with no lock, and may be stale by the time
\* the redemption it asks for holds the lock.
ProactiveTick == /\ Readable /\ ~file.loginRequired /\ file.due
                 /\ Submit(Proactive, "refresh", 0)
                 /\ UNCHANGED <<got, issued, spent, excused, imported, again>>

\* action "login": a callback port is bound until Wait returns.
StartLogin(p) ==
  /\ p \in Jails \cup Hosts
  /\ pc[p] = "idle"
  /\ Cardinality({q \in Procs : pc[q] = "browser"}) < LoginPorts
  /\ pc' = [pc EXCEPT ![p] = "browser"]
  /\ UNCHANGED <<file, lock, op, marker, mem, got, answer, view, issued, spent, excused, imported, again>>

\* The one code accepted by the callback is exchanged; Replace then queues.
LoginExchanged(p) ==
  /\ pc[p] = "browser"
  /\ issued < MaxIssue
  /\ issued' = issued + 1
  /\ got' = [got EXCEPT ![p] = [at |-> issued', rt |-> issued']]
  /\ pc' = [pc EXCEPT ![p] = "wait"]
  /\ op' = [op EXCEPT ![p] = "replace"]
  /\ UNCHANGED <<file, lock, marker, mem, answer, view, spent, excused, imported, again>>

\* Timeout, refused exchange or incomplete tokens.
LoginFails(p) ==
  /\ pc[p] = "browser"
  /\ pc' = [pc EXCEPT ![p] = "idle"]
  /\ UNCHANGED <<file, lock, op, marker, mem, got, answer, view, issued, spent, excused, imported, again>>

\* action "import": a human names an auth.json, a new one or one imported
\* before.  The refresh token in it may be dead: OpenAI consumed it for this
\* daemon since, or for the Codex that wrote the file.
Import(p) ==
  /\ p \in Hosts
  /\ \E i \in imported \cup {issued + 1} :
       /\ i \in Issues
       /\ IF i \in imported THEN again < MaxAgain /\ again' = again + 1 /\ UNCHANGED issued
                            ELSE issued' = i /\ UNCHANGED again
       /\ imported' = imported \cup {i}
       /\ got' = [got EXCEPT ![p] = [at |-> i, rt |-> i]]
       /\ \/ UNCHANGED <<spent, excused>>
          \/ /\ i \notin spent
             /\ spent' = spent \cup {i}
             /\ excused' = excused \cup {i}
  /\ Submit(p, "replace", 0)

Logout(p) == /\ p \in Hosts
             /\ Submit(p, "logout", 0)
             /\ UNCHANGED <<got, issued, spent, excused, imported, again>>

-----------------------------------------------------------------------------
(* Under the lock.                                                         *)

\* Mutation of Acquire: the flock is not waited for.
AcquireAnyway(p) ==
  /\ pc[p] = "wait"
  /\ lock' = p
  /\ pc' = [pc EXCEPT ![p] = "held"]
  /\ UNCHANGED <<file, op, marker, mem, got, answer, view, issued, spent, excused, imported, again>>

Acquire(p) ==
  /\ pc[p] = "wait"
  /\ lock = Nobody
  /\ lock' = p
  /\ pc' = [pc EXCEPT ![p] = "held"]
  /\ UNCHANGED <<file, op, marker, mem, got, answer, view, issued, spent, excused, imported, again>>

\* Mutation of Finish: an early return that keeps the flock.
FinishLocked(p, next) ==
  /\ pc' = [pc EXCEPT ![p] = next]
  /\ op' = [op EXCEPT ![p] = "none"]
  /\ marker' = [marker EXCEPT ![p] = 0]
  /\ answer' = [answer EXCEPT ![p] = "none"]
  /\ UNCHANGED lock

\* withLock returns: the deferred unlock runs and the session's locals go.
Finish(p, next) ==
  /\ lock' = Nobody
  /\ pc' = [pc EXCEPT ![p] = next]
  /\ op' = [op EXCEPT ![p] = "none"]
  /\ marker' = [marker EXCEPT ![p] = 0]
  /\ answer' = [answer EXCEPT ![p] = "none"]

Forget(p) == /\ mem' = [mem EXCEPT ![p] = NoState]
             /\ got' = [got EXCEPT ![p] = NoTokens]

\* A result returned to the caller carries the whole state.
Answer(p, s) == /\ mem' = [mem EXCEPT ![p] = s]
                /\ got' = [got EXCEPT ![p] = NoTokens]

\* Mutation of Stale: only a marker from the future is noticed.
StaleAhead(p, s) == marker[p] > s.gen

Stale(p, s) == marker[p] # 0 /\ marker[p] # s.gen

\* Refresh's answers that need no redemption: stale caller first, then the
\* refused grant, then the cached generation.
RefreshWithoutUpstream(p) ==
  /\ pc[p] = "held" /\ op[p] = "refresh"
  /\ \/ Readable /\ (Stale(p, file) \/ (~file.loginRequired /\ ~file.due))
          /\ Finish(p, "reply") /\ Answer(p, file)
     \/ ~Readable /\ Finish(p, "idle") /\ Forget(p)
     \/ Readable /\ ~Stale(p, file) /\ file.loginRequired
          /\ Finish(p, "idle") /\ Forget(p)
  /\ UNCHANGED <<file, view, issued, spent, excused, imported, again>>

\* Mutation of RefreshRedeem: the flock is dropped before the upstream call.
RedeemUnlocked(p) ==
  /\ pc[p] = "held" /\ op[p] = "refresh"
  /\ Readable /\ ~Stale(p, file) /\ ~file.loginRequired /\ file.due
  /\ mem' = [mem EXCEPT ![p] = file]
  /\ pc' = [pc EXCEPT ![p] = "upstream"]
  /\ lock' = Nobody
  /\ UNCHANGED <<file, op, marker, got, answer, view, issued, spent, excused, imported, again>>

\* Mutation of RefreshRedeem: the refused grant is tried again.
RedeemRefused(p) ==
  /\ pc[p] = "held" /\ op[p] = "refresh"
  /\ Readable /\ ~Stale(p, file) /\ file.due
  /\ mem' = [mem EXCEPT ![p] = file]
  /\ pc' = [pc EXCEPT ![p] = "upstream"]
  /\ UNCHANGED <<file, lock, op, marker, got, answer, view, issued, spent, excused, imported, again>>

RefreshRedeem(p) ==
  /\ pc[p] = "held" /\ op[p] = "refresh"
  /\ Readable
  /\ ~Stale(p, file)
  /\ ~file.loginRequired
  /\ file.due
  /\ mem' = [mem EXCEPT ![p] = file]
  /\ pc' = [pc EXCEPT ![p] = "upstream"]
  /\ UNCHANGED <<file, lock, op, marker, got, answer, view, issued, spent, excused, imported, again>>

\* OpenAI honours the token, rotating it or keeping it.
UpstreamGrants(p) ==
  /\ pc[p] = "upstream"
  /\ mem[p].rt \notin spent
  /\ issued < MaxIssue
  /\ issued' = issued + 1
  /\ \/ /\ spent' = spent \cup {mem[p].rt}
        /\ got' = [got EXCEPT ![p] = [at |-> issued', rt |-> issued']]
     \/ /\ got' = [got EXCEPT ![p] = [at |-> issued', rt |-> mem[p].rt]]
        /\ UNCHANGED spent
  /\ answer' = [answer EXCEPT ![p] = "tokens"]
  /\ pc' = [pc EXCEPT ![p] = "answered"]
  /\ UNCHANGED <<file, lock, op, marker, mem, view, excused, imported, again>>

\* A 4xx other than 429 is permanent, whatever the token's real state; a dead
\* token is always refused so.
UpstreamRefuses(p) ==
  /\ pc[p] = "upstream"
  /\ answer' = [answer EXCEPT ![p] = "permanent"]
  /\ pc' = [pc EXCEPT ![p] = "answered"]
  /\ UNCHANGED <<file, lock, op, marker, mem, got, view, issued, spent, excused, imported, again>>

\* Network error, 429, 5xx or a body that does not parse: before OpenAI acted,
\* or after it consumed the token.
UpstreamFails(p) ==
  /\ pc[p] = "upstream"
  /\ \/ UNCHANGED <<spent, excused>>
     \/ /\ mem[p].rt \notin spent
        /\ spent' = spent \cup {mem[p].rt}
        /\ excused' = excused \cup {mem[p].rt}
  /\ answer' = [answer EXCEPT ![p] = "transient"]
  /\ pc' = [pc EXCEPT ![p] = "answered"]
  /\ UNCHANGED <<file, lock, op, marker, mem, got, view, issued, imported, again>>

\* Mutation of Rotated: the provider's new refresh token is ignored.
RotatedKeepsToken(p) == [gen |-> mem[p].gen + 1, at |-> got[p].at, rt |-> mem[p].rt,
                         loginRequired |-> FALSE, due |-> FALSE]

Rotated(p) == [gen |-> mem[p].gen + 1, at |-> got[p].at, rt |-> got[p].rt,
               loginRequired |-> FALSE, due |-> FALSE]

\* The tokens in hand go nowhere: whatever was spent for them is lost.
DropAnswer(p) ==
  excused' = excused \cup {r \in spent : pc[p] = "answered" /\ r = mem[p].rt}

\* The successful tail of Refresh: the state loaded under this lock, advanced.
\* A write that fails leaves the old file and the consumed token in it.
WriteRotated(p) ==
  /\ pc[p] = "answered" /\ answer[p] = "tokens"
  /\ \/ /\ file' = Rotated(p)
        /\ Finish(p, "reply") /\ Answer(p, Rotated(p))
        /\ UNCHANGED excused
     \/ /\ Finish(p, "idle") /\ Forget(p)
        /\ DropAnswer(p)
        /\ UNCHANGED file
  /\ UNCHANGED <<view, issued, spent, imported, again>>

\* A permanent refusal is recorded on the generation that was refused.
WriteRejected(p) ==
  /\ pc[p] = "answered" /\ answer[p] = "permanent"
  /\ file' \in {file, [mem[p] EXCEPT !.loginRequired = TRUE]}
  /\ Finish(p, "idle") /\ Forget(p)
  /\ UNCHANGED <<view, issued, spent, excused, imported, again>>

KeepAfterTransient(p) ==
  /\ pc[p] = "answered" /\ answer[p] = "transient"
  /\ Finish(p, "idle") /\ Forget(p)
  /\ UNCHANGED <<file, view, issued, spent, excused, imported, again>>

Installed(p, due) ==
  [gen |-> IF Readable THEN file.gen + 1 ELSE 1, at |-> got[p].at, rt |-> got[p].rt,
   loginRequired |-> FALSE, due |-> due]

\* Replace takes whatever it is given, refused or spent, and clears
\* LoginRequired.
ReplaceWrite(p) ==
  /\ pc[p] = "held" /\ op[p] = "replace"
  /\ \/ /\ \E due \in BOOLEAN : file' = Installed(p, due)
        /\ excused' = excused \cup ({got[p].rt} \cap spent \cap imported)
     \/ UNCHANGED <<file, excused>>
  /\ Finish(p, "idle") /\ Forget(p)
  /\ UNCHANGED <<view, issued, spent, imported, again>>

LogoutRemove(p) ==
  /\ pc[p] = "held" /\ op[p] = "logout"
  /\ file' \in {NoState, file}
  /\ Finish(p, "idle") /\ Forget(p)
  /\ UNCHANGED <<view, issued, spent, excused, imported, again>>

-----------------------------------------------------------------------------
\* The reply reaches the client after the unlock, in any order with others.
Deliver(p) ==
  /\ pc[p] = "reply"
  /\ view' = [view EXCEPT ![p] = [gen |-> mem[p].gen, at |-> mem[p].at]]
  /\ mem' = [mem EXCEPT ![p] = NoState]
  /\ pc' = [pc EXCEPT ![p] = "idle"]
  /\ UNCHANGED <<file, lock, op, marker, got, answer, issued, spent, excused, imported, again>>

Die(p) ==
  /\ pc[p] # "idle"
  /\ lock' = IF lock = p THEN Nobody ELSE lock
  /\ pc' = [pc EXCEPT ![p] = "idle"]
  /\ op' = [op EXCEPT ![p] = "none"]
  /\ marker' = [marker EXCEPT ![p] = 0]
  /\ answer' = [answer EXCEPT ![p] = "none"]
  /\ Forget(p)
  /\ DropAnswer(p)
  /\ UNCHANGED <<file, view, issued, spent, imported, again>>

\* The access token comes within RefreshLead of its expiry.
Expire ==
  /\ Readable /\ ~file.due
  /\ file' = [file EXCEPT !.due = TRUE]
  /\ UNCHANGED <<lock, pc, op, marker, mem, got, answer, view, issued, spent, excused, imported, again>>

UnderLock(p) ==
  \/ RefreshWithoutUpstream(p) \/ RefreshRedeem(p)
  \/ UpstreamGrants(p) \/ UpstreamRefuses(p) \/ UpstreamFails(p)
  \/ WriteRotated(p) \/ WriteRejected(p) \/ KeepAfterTransient(p)
  \/ ReplaceWrite(p) \/ LogoutRemove(p)

Request(p) ==
  Token(p) \/ RefreshView(p) \/ StartLogin(p) \/ LoginExchanged(p)
    \/ LoginFails(p) \/ Import(p) \/ Logout(p)

Next ==
  \/ \E p \in Procs : Request(p) \/ Acquire(p) \/ UnderLock(p) \/ Deliver(p) \/ Die(p)
  \/ ProactiveTick
  \/ Expire

\* Steps under the lock end by themselves: the upstream client has a 30 s
\* timeout.  flock serves its waiters in turn, so a waiter that finds the lock
\* free again and again gets it.
Fairness ==
  /\ \A p \in Procs : WF_vars(UnderLock(p)) /\ WF_vars(Deliver(p)) /\ SF_vars(Acquire(p))

Spec == Init /\ [][Next]_vars
FairSpec == Spec /\ Fairness

-----------------------------------------------------------------------------
Holding == {"held", "upstream", "answered"}

TypeOK ==
  /\ file \in {NoState, Unreadable} \cup Generation
  /\ lock \in Procs \cup {Nobody}
  /\ pc \in [Procs -> Pcs]
  /\ op \in [Procs -> Ops]
  /\ marker \in [Procs -> Nat]
  /\ mem \in [Procs -> {NoState} \cup Generation]
  /\ got \in [Procs -> [at : 0..MaxIssue, rt : 0..MaxIssue]]
  /\ answer \in [Procs -> Answers]
  /\ view \in [Procs -> [gen : Nat, at : 0..MaxIssue]]
  /\ issued \in 0..MaxIssue
  /\ spent \subseteq Issues
  /\ excused \subseteq Issues
  /\ imported \subseteq Issues
  /\ again \in 0..MaxAgain

\* "It reloads state only after acquiring the machine-wide lock": a session that
\* presents a refresh token presents the file's own, and no session does so
\* while another redemption is in progress or its answer unwritten.
PresentsCanonical ==
  \A p \in Procs : pc[p] \in {"upstream", "answered"} =>
    /\ mem[p] = file
    /\ \A q \in Procs \ {p} : pc[q] \notin {"upstream", "answered"}

\* No refresh token is presented to OpenAI after OpenAI consumed it, unless its
\* successor was lost to a crash, a lost answer or a failed write, or a human
\* imported an auth.json that still holds it.  Two holders of one token is how a
\* rotating provider revokes a whole grant.
NoDoubleSpend ==
  \A p \in Procs : pc[p] = "upstream" /\ mem[p].rt \in spent => mem[p].rt \in excused

\* "A stale Codex caller receives the current generation without upstream I/O":
\* a redemption asked for with a marker is asked for by a holder of the current
\* token set.  Markers restart at 1 after a logout, so this needs no logout.
StaleNeverRedeems ==
  \A p \in Procs : pc[p] = "upstream" /\ marker[p] # 0 => view[p].at = mem[p].at

\* A generation number names one token set for as long as a grant exists, and
\* generations are never skipped: no session overwrites what it has not read.
GenerationsAdvance ==
  [][ Readable /\ Readable' =>
        \/ file'.gen = file.gen /\ file'.at = file.at /\ file'.rt = file.rt
        \/ file'.gen = file.gen + 1 ]_vars

\* ErrLoginRequired: a refused grant is never redeemed or revived.  What ends a
\* refusal while the file lives is a human's login or import, in the next
\* generation, and the refused token comes back only out of an auth.json.
RefusalIsFinal ==
  [][ Readable /\ file.loginRequired /\ Readable' /\ ~file'.loginRequired =>
        \E p \in Procs :
          /\ lock = p /\ op[p] = "replace" /\ file'.at = got[p].at
          /\ file'.gen = file.gen + 1
          /\ file'.rt # file.rt \/ file.rt \in imported ]_vars

\* Every request gets its answer, whoever crashes and whatever OpenAI says.
RequestsEnd == \A p \in Procs : pc[p] = "wait" ~> pc[p] \in {"idle", "reply"}
=============================================================================
