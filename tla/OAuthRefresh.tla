---------------------------- MODULE OAuthRefresh ----------------------------
(***************************************************************************)
(* internal/oauthbroker: the host's Claude OAuth broker.  Every jail's     *)
(* refresh and the background refresher's redeem the single-use refresh    *)
(* token of one shared .credentials.json under one flock; a login is       *)
(* proxied upstream without the lock and mirrored into the file with it.   *)
(* The broker that serves a session can die at any step.                   *)
(***************************************************************************)
EXTENDS Naturals

CONSTANTS Jails,      \* sessions of the jails' terminators
          Background, \* the RunBackgroundRefresher goroutine
          MaxIssue,   \* bound: token sets Anthropic issues in a behaviour
          MaxFaults,  \* bound: sessions that die with their broker, and failing flocks
          Absent,     \* no file, a file that does not parse, or no tokens in it
          Nobody

Sessions == Jails \cup {Background}
Issues == 1..MaxIssue

ASSUME RefreshAssumption ==
  /\ Background \notin Jails
  /\ Nobody \notin Sessions
  /\ MaxIssue \in Nat
  /\ MaxFaults \in Nat
  /\ Absent \notin [at : Issues, rt : Issues]

\* The remaining life of an access token, in the intervals the thresholds make:
\* expired, under 90 s, under 300 s, under 360 s, longer.
Lives == 0..4
LiveTokenFloor == 2     \* 90 s: what the `cached` action serves
ConsumerRefreshDue == 3 \* 300 s: under it the agent and the background refresher are due
RefreshCacheFloor == 4  \* 360 s: what a refresh serves without redeeming

VARIABLES
  file,    \* .credentials.json: the number of its access and of its refresh token
  life,    \* remaining life of each access token
  root,    \* the login each token set descends from
  lock,    \* who holds refresh.lock
  pc,
  mirror,  \* the session queues to mirror a login, not to refresh
  own,     \* the due access token a jail asked a refresh for (0: none, or not due)
  mem,     \* the tokens read under the lock
  got,     \* the token set in hand (0s when none)
  view,    \* the access token each jail last received
  issued, spent, excused, faults

vars == <<file, life, root, lock, pc, mirror, own, mem, got, view, issued, spent, excused, faults>>
tokens == <<life, root, issued, spent, excused>>

NoTokens == [at |-> 0, rt |-> 0]
Tokens == [at : Issues, rt : Issues]
Readable == file # Absent

\* The file as one atomic cell.
Cell == IF Readable
        THEN [at |-> file.at, rt |-> file.rt, login |-> root[file.at],
              dead |-> file.rt \in excused]
        ELSE [at |-> 0, rt |-> 0, login |-> 0, dead |-> FALSE]
Credential == INSTANCE ClaudeCredential WITH cell <- Cell

Init ==
  /\ file = Absent
  /\ life = [i \in Issues |-> 0]
  /\ root = [i \in Issues |-> 0]
  /\ lock = Nobody
  /\ pc = [s \in Sessions |-> "idle"]
  /\ mirror = [s \in Sessions |-> FALSE]
  /\ own = [s \in Sessions |-> 0]
  /\ mem = [s \in Sessions |-> NoTokens]
  /\ got = [s \in Sessions |-> NoTokens]
  /\ view = [s \in Sessions |-> 0]
  /\ issued = 0
  /\ spent = {}
  /\ excused = {}
  /\ faults = 0

Due(at) == life[at] < ConsumerRefreshDue

Goto(s, from, to) ==
  /\ pc[s] = from
  /\ pc' = [pc EXCEPT ![s] = to]

\* A token set is born with more life than any floor.
Issue(r) ==
  /\ issued < MaxIssue
  /\ issued' = issued + 1
  /\ life' = [life EXCEPT ![issued'] = RefreshCacheFloor]
  /\ root' = [root EXCEPT ![issued'] = IF r = 0 THEN issued' ELSE r]

-----------------------------------------------------------------------------
(* Requests.                                                               *)

\* action "refresh".  The jail's own refresh token stays in the jail.
Refresh(j) ==
  /\ Goto(j, "idle", "wait")
  /\ own' = [own EXCEPT ![j] = IF view[j] # 0 /\ Due(view[j]) THEN view[j] ELSE 0]
  /\ UNCHANGED <<file, lock, mirror, mem, got, view, tokens, faults>>

\* action "cached", read without the lock.
Cached(j) ==
  /\ pc[j] = "idle"
  /\ Readable /\ life[file.at] >= LiveTokenFloor
  /\ view' = [view EXCEPT ![j] = file.at]
  /\ UNCHANGED <<file, lock, pc, mirror, own, mem, got, tokens, faults>>

\* action "proxy" of a login's code exchange: upstream answers 200, with tokens of
\* Claude Code's own client and scopes, or with others that are not mirrored.
Login(j) ==
  /\ Goto(j, "idle", "mirror")
  /\ Issue(0)
  /\ got' = [got EXCEPT ![j] = [at |-> issued', rt |-> issued']]
  /\ UNCHANGED <<file, lock, mirror, own, mem, view, spent, excused, faults>>

MirrorSkipped(j) ==
  /\ Goto(j, "mirror", "reply")
  /\ UNCHANGED <<file, lock, mirror, own, mem, got, view, tokens, faults>>

MirrorWanted(j) ==
  /\ Goto(j, "mirror", "wait")
  /\ mirror' = [mirror EXCEPT ![j] = TRUE]
  /\ UNCHANGED <<file, lock, own, mem, got, view, tokens, faults>>

\* A tick: RefreshDue is read without the lock.
BackgroundRefreshTick ==
  /\ Readable /\ Due(file.at)
  /\ Goto(Background, "idle", "wait")
  /\ UNCHANGED <<file, lock, mirror, own, mem, got, view, tokens, faults>>

-----------------------------------------------------------------------------
(* Under the lock.                                                         *)

\* Mutation of Acquire: a failed flock is ignored.
AcquireAnyway(s) ==
  /\ Goto(s, "wait", "held")
  /\ lock' = s
  /\ UNCHANGED <<file, mirror, own, mem, got, view, tokens, faults>>

Acquire(s) ==
  /\ Goto(s, "wait", "held")
  /\ lock = Nobody
  /\ lock' = s
  /\ UNCHANGED <<file, mirror, own, mem, got, view, tokens, faults>>

\* The lock file cannot be opened or flocked: never on without it.  A mirrored login
\* is still answered.
LockFails(s) ==
  /\ Goto(s, "wait", IF mirror[s] THEN "reply" ELSE "idle")
  /\ faults < MaxFaults
  /\ faults' = faults + 1
  /\ mirror' = [mirror EXCEPT ![s] = FALSE]
  /\ own' = [own EXCEPT ![s] = 0]
  /\ UNCHANGED <<file, lock, mem, got, view, tokens>>

\* withRefreshLock returns, with an answer to deliver or with an error.
Finish(s, next) ==
  /\ pc' = [pc EXCEPT ![s] = next]
  /\ lock' = Nobody
  /\ mirror' = [mirror EXCEPT ![s] = FALSE]
  /\ mem' = [mem EXCEPT ![s] = NoTokens]

\* Mutation of Fail: an early return keeps the lock.
FailLocked(s) ==
  /\ pc' = [pc EXCEPT ![s] = "idle"]
  /\ mem' = [mem EXCEPT ![s] = NoTokens]
  /\ got' = [got EXCEPT ![s] = NoTokens]
  /\ own' = [own EXCEPT ![s] = 0]
  /\ UNCHANGED <<lock, mirror>>

Fail(s) ==
  /\ Finish(s, "idle")
  /\ got' = [got EXCEPT ![s] = NoTokens]
  /\ own' = [own EXCEPT ![s] = 0]

\* Mutation of CacheHit: any live token is served.
CacheHitWhileLive == Readable /\ life[file.at] >= LiveTokenFloor

CacheHit == Readable /\ life[file.at] >= RefreshCacheFloor

ServeCached(s) ==
  /\ pc[s] = "held" /\ ~mirror[s]
  /\ CacheHit
  /\ Finish(s, "reply")
  /\ got' = [got EXCEPT ![s] = file]
  /\ UNCHANGED <<file, own, view, tokens, faults>>

NothingToRedeem(s) ==
  /\ pc[s] = "held" /\ ~mirror[s]
  /\ ~Readable
  /\ Fail(s)
  /\ UNCHANGED <<file, view, tokens, faults>>

\* Mutation of Redeem: the lock is not held across the upstream call.
RedeemUnlocked(s) ==
  /\ ~mirror[s]
  /\ Readable /\ ~CacheHit
  /\ Goto(s, "held", "upstream")
  /\ lock' = Nobody
  /\ mem' = [mem EXCEPT ![s] = file]
  /\ UNCHANGED <<file, mirror, own, got, view, tokens, faults>>

Redeem(s) ==
  /\ ~mirror[s]
  /\ Readable /\ ~CacheHit
  /\ Goto(s, "held", "upstream")
  /\ mem' = [mem EXCEPT ![s] = file]
  /\ UNCHANGED <<file, lock, mirror, own, got, view, tokens, faults>>

\* Anthropic honours an unspent token; a response without a refresh token keeps
\* the old one.
UpstreamGrants(s) ==
  /\ Goto(s, "upstream", "answered")
  /\ mem[s].rt \notin spent
  /\ Issue(root[mem[s].at])
  /\ \/ /\ spent' = spent \cup {mem[s].rt}
        /\ got' = [got EXCEPT ![s] = [at |-> issued', rt |-> issued']]
     \/ /\ got' = [got EXCEPT ![s] = [at |-> issued', rt |-> mem[s].rt]]
        /\ UNCHANGED spent
  /\ UNCHANGED <<file, lock, mirror, own, mem, view, excused, faults>>

\* upstream_http, upstream_bad_response or upstream_unreachable: the last two may
\* come after Anthropic consumed the token.
UpstreamFails(s) ==
  /\ pc[s] = "upstream"
  /\ \/ UNCHANGED <<spent, excused>>
     \/ /\ mem[s].rt \notin spent
        /\ spent' = spent \cup {mem[s].rt}
        /\ excused' = excused \cup {mem[s].rt}
  /\ Fail(s)
  /\ UNCHANGED <<file, life, root, issued, view, faults>>

\* Mutation of Rotated: the response's refresh token is dropped.
RotatedKeepsToken(s) == [at |-> got[s].at, rt |-> mem[s].rt]

\* NormalizeOAuth over the tokens read under this lock.
Rotated(s) == [at |-> got[s].at, rt |-> got[s].rt]

\* Whatever was spent for an answer that goes nowhere is lost.
DropAnswer(s) ==
  excused' = excused \cup {r \in spent : pc[s] = "answered" /\ r = mem[s].rt}

WriteTokens(s) ==
  /\ pc[s] = "answered"
  /\ file' = Rotated(s)
  /\ Finish(s, "reply")
  /\ UNCHANGED <<own, got, view, tokens, faults>>

WriteFails(s) ==
  /\ pc[s] = "answered"
  /\ Fail(s)
  /\ DropAnswer(s)
  /\ UNCHANGED <<file, life, root, issued, spent, view, faults>>

\* propagate: the login's tokens over whatever the file holds now, or a failed
\* write; the jail gets its answer either way.
Propagate(s) ==
  /\ pc[s] = "held" /\ mirror[s]
  /\ file' \in {got[s], file}
  /\ Finish(s, "reply")
  /\ UNCHANGED <<own, got, view, tokens, faults>>

-----------------------------------------------------------------------------
\* The reply reaches its client after the unlock (the refresher only logs it).
Deliver(s) ==
  /\ Goto(s, "reply", "idle")
  /\ view' = [view EXCEPT ![s] = got[s].at]
  /\ got' = [got EXCEPT ![s] = NoTokens]
  /\ own' = [own EXCEPT ![s] = 0]
  /\ UNCHANGED <<file, lock, mirror, mem, tokens, faults>>

\* What the death of its broker makes of a session: a jail's next request is a new
\* one, to whichever broker there is then; a refresher is gone with its process.
Bereft(s) == IF s = Background THEN "down" ELSE "idle"

\* The broker dies under the session; the kernel drops its flock.
Die(s) ==
  /\ pc[s] # Bereft(s) /\ faults < MaxFaults
  /\ faults' = faults + 1
  /\ pc' = [pc EXCEPT ![s] = Bereft(s)]
  /\ lock' = IF lock = s THEN Nobody ELSE lock
  /\ mirror' = [mirror EXCEPT ![s] = FALSE]
  /\ own' = [own EXCEPT ![s] = 0]
  /\ mem' = [mem EXCEPT ![s] = NoTokens]
  /\ got' = [got EXCEPT ![s] = NoTokens]
  /\ DropAnswer(s)
  /\ UNCHANGED <<file, life, root, issued, spent, view>>

\* Another broker, spawned by a user's next launch or restart of the host daemons.
Respawn ==
  /\ Goto(Background, "down", "idle")
  /\ UNCHANGED <<file, lock, mirror, own, mem, got, view, tokens, faults>>

\* Time passes for all the access tokens at once.
Age ==
  /\ \E i \in Issues : life[i] > 0
  /\ life' = [i \in Issues |-> IF life[i] > 0 THEN life[i] - 1 ELSE 0]
  /\ UNCHANGED <<file, root, lock, pc, mirror, own, mem, got, view, issued, spent, excused, faults>>

DoRefresh(s) ==
  \/ ServeCached(s) \/ NothingToRedeem(s) \/ Redeem(s)
  \/ UpstreamGrants(s) \/ UpstreamFails(s) \/ WriteTokens(s) \/ WriteFails(s)

Request(j) ==
  Refresh(j) \/ Cached(j) \/ Login(j) \/ MirrorSkipped(j) \/ MirrorWanted(j)

Next ==
  \/ \E j \in Jails : Request(j)
  \/ BackgroundRefreshTick \/ Respawn
  \/ \E s \in Sessions : Acquire(s) \/ LockFails(s) \/ DoRefresh(s) \/ Propagate(s)
                          \/ Deliver(s) \/ Die(s)
  \/ Age

Spec == Init /\ [][Next]_vars

\* The upstream client gives up after 30 s, flock serves its waiters in turn, and
\* the refresher ticks for as long as its broker lives.  Nothing makes a user
\* bring back a broker that died.
Fairness ==
  /\ \A s \in Sessions : /\ WF_vars(DoRefresh(s) \/ Propagate(s))
                         /\ WF_vars(Deliver(s)) /\ SF_vars(Acquire(s))
  /\ WF_vars(BackgroundRefreshTick)
FairSpec == Spec /\ Fairness

-----------------------------------------------------------------------------
(* Properties.                                                             *)

TypeOK ==
  /\ file \in {Absent} \cup Tokens
  /\ life \in [Issues -> Lives]
  /\ root \in [Issues -> 0..MaxIssue]
  /\ lock \in Sessions \cup {Nobody}
  /\ pc \in [Sessions -> {"idle", "down", "mirror", "wait", "held", "upstream", "answered", "reply"}]
  /\ mirror \in [Sessions -> BOOLEAN]
  /\ own \in [Sessions -> 0..MaxIssue]
  /\ mem \in [Sessions -> Tokens \cup {NoTokens}]
  /\ got \in [Sessions -> Tokens \cup {NoTokens}]
  /\ view \in [Sessions -> 0..MaxIssue]
  /\ issued \in 0..MaxIssue
  /\ spent \subseteq Issues
  /\ excused \subseteq Issues
  /\ faults \in 0..MaxFaults

\* The flock is the single-use-token contract (refresh.go 31): who redeems, redeems
\* what the file holds, and nobody else redeems or replaces it meanwhile, a login
\* that is mirrored included.
RedeemsTheFile ==
  \A s \in Sessions : pc[s] \in {"upstream", "answered"} =>
    /\ file = mem[s]
    /\ \A t \in Sessions \ {s} : pc[t] \notin {"held", "upstream", "answered"}

\* Nobody burns the single-use refresh token: none is presented after Anthropic
\* consumed it, unless its successor died with a broker, a response or a write.
NeverBurnt ==
  \A s \in Sessions : pc[s] = "upstream" /\ mem[s].rt \in spent => mem[s].rt \in excused

\* A jail that asks because its access token is due is never answered with that
\* very token, which Claude counts as a failed refresh (oauthbroker.go 66-82).
NotHandedBack ==
  \A j \in Jails : pc[j] = "reply" /\ own[j] # 0 => got[j].at # own[j]

\* Whatever the sessions do to the file in four steps, with a broker dying between any
\* two, is one atomic change of ClaudeCredential: a refresh never undoes a login, goes
\* back to an older access token or writes over tokens it has not redeemed, and a
\* refresh token that was lost is not redeemed again before a login.
CredentialSpec == Credential!Spec

\* In particular the file leaves the descendants of a login only for the token set of
\* another.
LoginKept ==
  [][ Readable /\ file' # Absent /\ root[file'.at] # root[file.at]
        => root[file'.at] = file'.at ]_vars

\* A due token does not stay untried while there is a refresher: whatever lock, write
\* or call of its own fails, and whichever jail's session dies with the lock, it
\* redeems again until the file's token is no longer due, or dies itself.
DueIsTried ==
  Readable /\ Due(file.at)
    ~> pc[Background] \in {"upstream", "down"} \/ (Readable /\ ~Due(file.at))
=============================================================================
