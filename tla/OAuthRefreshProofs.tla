------------------------- MODULE OAuthRefreshProofs -------------------------
(***************************************************************************)
(* Proofs about OAuthRefresh for every number of jails, token sets and     *)
(* faults.  The first invariant is about the lock and what its holder      *)
(* knows, the second about the tokens on their way to the file, the third  *)
(* about how they succeed each other, for the refinement.                  *)
(***************************************************************************)
EXTENDS OAuthRefresh, TLAPS

Holding == {"held", "upstream", "answered"}

\* A session with the tokens of a login that has not been mirrored yet.
Carries(s) == pc[s] = "mirror" \/ mirror[s]

\* The flock and the program counters agree, the tokens read under the lock are
\* the file's, and what may be written is a token set.
SessionInv(s) ==
  /\ pc[s] \in Holding <=> lock = s
  /\ pc[s] \in {"upstream", "answered"} => Readable /\ mem[s] = file /\ ~mirror[s]
  /\ pc[s] = "answered" => got[s] \in Tokens
  /\ mirror[s] => pc[s] \in {"wait", "held"}
  /\ Carries(s) => got[s] \in Tokens

LockedInv == TypeOK /\ \A s \in Sessions : SessionInv(s)

USE RefreshAssumption

\* The numbers of token sets, and the absence of one.
LEMMA Numbers ==
  /\ Issues \subseteq 0..MaxIssue
  /\ NoTokens \notin Tokens
  /\ Absent \notin Tokens
  /\ \A a, r \in Issues : [at |-> a, rt |-> r] \in Tokens
  /\ \A t \in Tokens \cup {NoTokens} : t.at \in 0..MaxIssue /\ t.rt \in 0..MaxIssue
  /\ \A t \in Tokens : t.at \in Issues /\ t.rt \in Issues
  BY DEF Issues, Tokens, NoTokens

LEMMA LockedInit == Init => LockedInv
<1> SUFFICES ASSUME Init PROVE LockedInv
  OBVIOUS
<1>1. TypeOK
  BY DEF Init, TypeOK, Lives, Issues
<1>2. ASSUME NEW s \in Sessions PROVE SessionInv(s)
  BY DEF Init, SessionInv, Holding, Carries
<1> QED BY <1>1, <1>2 DEF LockedInv

\* A token set issued in a step.
LEMMA IssueTypes ==
  ASSUME TypeOK, NEW r \in 0..MaxIssue, Issue(r)
  PROVE  /\ issued' \in Issues /\ issued' \in 0..MaxIssue /\ issued' = issued + 1
         /\ life' \in [Issues -> Lives] /\ root' \in [Issues -> 0..MaxIssue]
  BY DEF TypeOK, Issue, Issues, Lives, RefreshCacheFloor

LEMMA TypesKept == ASSUME LockedInv, [Next]_vars PROVE TypeOK'
<1> USE Numbers DEF LockedInv, TypeOK, tokens
<1>1. ASSUME NEW j \in Jails, Request(j) PROVE TypeOK'
  <2> j \in Sessions
    BY DEF Sessions
  <2>1. CASE Refresh(j) \/ MirrorSkipped(j) \/ MirrorWanted(j)
    <3>1. CASE Refresh(j)
      BY <3>1 DEF Refresh, Goto
    <3>2. CASE MirrorSkipped(j)
      BY <3>2 DEF MirrorSkipped, Goto
    <3>3. CASE MirrorWanted(j)
      BY <3>3 DEF MirrorWanted, Goto
    <3> QED BY <2>1, <3>1, <3>2, <3>3
  <2>2. CASE Cached(j)
    BY <2>2 DEF Cached, Readable
  <2>3. CASE Login(j)
    <3>1. Issue(0) /\ 0 \in 0..MaxIssue
      BY <2>3 DEF Login
    <3>2. /\ issued' \in Issues /\ issued' \in 0..MaxIssue
          /\ life' \in [Issues -> Lives] /\ root' \in [Issues -> 0..MaxIssue]
      BY <3>1, IssueTypes
    <3>3. [at |-> issued', rt |-> issued'] \in Tokens
      BY <3>2
    <3> QED BY <2>3, <3>2, <3>3 DEF Login, Goto
  <2> QED BY <1>1, <2>1, <2>2, <2>3 DEF Request
<1>2. CASE BackgroundRefreshTick \/ Respawn
  BY <1>2 DEF BackgroundRefreshTick, Respawn, Goto, Sessions
<1>3. ASSUME NEW s \in Sessions, Acquire(s) \/ LockFails(s) PROVE TypeOK'
  <2>1. CASE Acquire(s)
    BY <2>1 DEF Acquire, Goto
  <2>2. CASE LockFails(s)
    BY <2>2 DEF LockFails, Goto
  <2> QED BY <1>3, <2>1, <2>2
<1>4. ASSUME NEW s \in Sessions, DoRefresh(s) \/ Propagate(s) PROVE TypeOK'
  <2> USE DEF Goto, Finish, Fail
  <2>1. CASE ServeCached(s) \/ NothingToRedeem(s) \/ Redeem(s)
    <3>1. CASE ServeCached(s)
      BY <3>1 DEF ServeCached, CacheHit, Readable
    <3>2. CASE NothingToRedeem(s)
      BY <3>2 DEF NothingToRedeem
    <3>3. CASE Redeem(s)
      BY <3>3 DEF Redeem, Readable
    <3> QED BY <2>1, <3>1, <3>2, <3>3
  <2>2. CASE UpstreamGrants(s)
    <3>1. mem[s] \in Tokens
      BY <2>2 DEF UpstreamGrants, SessionInv, Readable
    <3>2. root[mem[s].at] \in 0..MaxIssue /\ Issue(root[mem[s].at])
      BY <2>2, <3>1 DEF UpstreamGrants
    <3>3. /\ issued' \in Issues /\ issued' \in 0..MaxIssue
          /\ life' \in [Issues -> Lives] /\ root' \in [Issues -> 0..MaxIssue]
      BY <3>2, IssueTypes
    <3>4. got' \in [Sessions -> Tokens \cup {NoTokens}] /\ spent' \subseteq Issues
      BY <2>2, <3>1, <3>3 DEF UpstreamGrants
    <3> QED BY <2>2, <3>3, <3>4 DEF UpstreamGrants
  <2>3. CASE UpstreamFails(s)
    <3>1. mem[s].rt \in Issues
      BY <2>3 DEF UpstreamFails, SessionInv, Readable
    <3>2. spent' \subseteq Issues /\ excused' \subseteq Issues
      BY <2>3, <3>1 DEF UpstreamFails
    <3> QED BY <2>3, <3>2 DEF UpstreamFails
  <2>4. CASE WriteTokens(s)
    <3>1. got[s] \in Tokens /\ Rotated(s) = got[s]
      BY <2>4 DEF WriteTokens, SessionInv, Rotated, Tokens
    <3> QED BY <2>4, <3>1 DEF WriteTokens
  <2>5. CASE WriteFails(s)
    <3>1. excused' \subseteq Issues
      BY <2>5 DEF WriteFails, DropAnswer
    <3> QED BY <2>5, <3>1 DEF WriteFails
  <2>6. CASE Propagate(s)
    <3>1. got[s] \in Tokens
      BY <2>6 DEF Propagate, SessionInv, Carries
    <3> QED BY <2>6, <3>1 DEF Propagate
  <2> QED BY <1>4, <2>1, <2>2, <2>3, <2>4, <2>5, <2>6 DEF DoRefresh
<1>5. ASSUME NEW s \in Sessions, Deliver(s) \/ Die(s) PROVE TypeOK'
  <2>1. CASE Deliver(s)
    BY <2>1 DEF Deliver, Goto
  <2>2. CASE Die(s)
    <3>1. excused' \subseteq Issues
      BY <2>2 DEF Die, Bereft, DropAnswer
    <3> QED BY <2>2, <3>1 DEF Die, Bereft
  <2> QED BY <1>5, <2>1, <2>2
<1>6. CASE Age
  BY <1>6 DEF Age, Lives
<1>7. CASE UNCHANGED vars
  BY <1>7 DEF vars
<1> QED BY <1>1, <1>2, <1>3, <1>4, <1>5, <1>6, <1>7 DEF Next

\* What a session knows outlives the steps of the others: they do not hold the lock.
LEMMA SessionKept ==
  ASSUME LockedInv, [Next]_vars, NEW k \in Sessions
  PROVE  SessionInv(k)'
<1> USE Numbers DEF LockedInv, TypeOK, SessionInv, Holding, Carries, Readable, tokens
<1>1. ASSUME NEW j \in Jails, Request(j) PROVE SessionInv(k)'
  <2> j \in Sessions
    BY DEF Sessions
  <2>1. CASE Refresh(j)
    BY <2>1 DEF Refresh, Goto
  <2>2. CASE Cached(j)
    BY <2>2 DEF Cached
  <2>3. CASE Login(j)
    <3>1. [at |-> issued', rt |-> issued'] \in Tokens
      BY <2>3, IssueTypes DEF Login
    <3> QED BY <2>3, <3>1 DEF Login, Goto
  <2>4. CASE MirrorSkipped(j)
    BY <2>4 DEF MirrorSkipped, Goto
  <2>5. CASE MirrorWanted(j)
    BY <2>5 DEF MirrorWanted, Goto
  <2> QED BY <1>1, <2>1, <2>2, <2>3, <2>4, <2>5 DEF Request
<1>2. CASE BackgroundRefreshTick \/ Respawn
  BY <1>2 DEF BackgroundRefreshTick, Respawn, Goto, Sessions
<1>3. ASSUME NEW s \in Sessions, Acquire(s) \/ LockFails(s) PROVE SessionInv(k)'
  <2>1. CASE Acquire(s)
    BY <2>1 DEF Acquire, Goto
  <2>2. CASE LockFails(s)
    BY <2>2 DEF LockFails, Goto
  <2> QED BY <1>3, <2>1, <2>2
<1>4. ASSUME NEW s \in Sessions, DoRefresh(s) \/ Propagate(s) PROVE SessionInv(k)'
  <2> USE DEF Goto, Finish, Fail
  <2>1. CASE ServeCached(s)
    BY <2>1 DEF ServeCached, CacheHit
  <2>2. CASE NothingToRedeem(s)
    BY <2>2 DEF NothingToRedeem
  <2>3. CASE Redeem(s)
    BY <2>3 DEF Redeem
  <2>4. CASE UpstreamGrants(s)
    <3>1. got'[s] \in Tokens
      <4>1. mem[s] \in Tokens
        BY <2>4 DEF UpstreamGrants
      <4>2. issued' \in Issues
        BY <2>4, <4>1, IssueTypes DEF UpstreamGrants
      <4> QED BY <2>4, <4>1, <4>2 DEF UpstreamGrants
    <3>2. k # s => got'[k] = got[k]
      BY <2>4 DEF UpstreamGrants
    <3> QED BY <2>4, <3>1, <3>2 DEF UpstreamGrants
  <2>5. CASE UpstreamFails(s)
    BY <2>5 DEF UpstreamFails
  <2>6. CASE WriteTokens(s)
    BY <2>6 DEF WriteTokens
  <2>7. CASE WriteFails(s)
    BY <2>7 DEF WriteFails
  <2>8. CASE Propagate(s)
    BY <2>8 DEF Propagate
  <2> QED BY <1>4, <2>1, <2>2, <2>3, <2>4, <2>5, <2>6, <2>7, <2>8 DEF DoRefresh
<1>5. ASSUME NEW s \in Sessions, Deliver(s) PROVE SessionInv(k)'
  BY <1>5 DEF Deliver, Goto
<1>6. ASSUME NEW s \in Sessions, Die(s) PROVE SessionInv(k)'
  BY <1>6 DEF Die, Bereft
<1>7. CASE Age
  BY <1>7 DEF Age
<1>8. CASE UNCHANGED vars
  BY <1>8 DEF vars
<1> QED BY <1>1, <1>2, <1>3, <1>4, <1>5, <1>6, <1>7, <1>8 DEF Next

LEMMA LockedStep == LockedInv /\ [Next]_vars => LockedInv'
  BY TypesKept, SessionKept DEF LockedInv

LEMMA LockedAlways == Spec => []LockedInv
  BY LockedInit, LockedStep, PTL DEF Spec

\* Type correctness: no file, copy or answer ever holds half a token set.
THEOREM OAuthTypes == Spec => []TypeOK
<1>1. LockedInv => TypeOK
  BY DEF LockedInv
<1> QED BY LockedAlways, <1>1, PTL

\* The single-use-token contract of refresh.go 31: a redemption presents what the file
\* holds, and nobody else redeems or replaces it meanwhile.
THEOREM RedeemsWhatIsThere == Spec => []RedeemsTheFile
<1>1. LockedInv => RedeemsTheFile
  BY DEF LockedInv, TypeOK, SessionInv, RedeemsTheFile, Holding
<1> QED BY LockedAlways, <1>1, PTL

-----------------------------------------------------------------------------
(* Tokens on their way.                                                    *)

\* A session with tokens that it may write to the file.
Pending(s) == Carries(s) \/ pc[s] = "answered"

\* Whatever a session has seen was issued.  What it may write is unspent; a login
\* descends from itself and has never been in the file, a refresh descends from what
\* the file holds.
TokenInv(s) ==
  /\ view[s] <= issued /\ own[s] <= issued /\ got[s].at <= issued /\ got[s].rt <= issued
  /\ Pending(s) => got[s].rt \notin spent
  /\ Carries(s) => root[got[s].at] = got[s].at /\ (Readable => got[s].rt # file.rt)
  /\ pc[s] = "answered" => root[got[s].at] = root[mem[s].at]

\* No other session is about to write the tokens of a login.
DistinctInv == \A s, t \in Sessions :
  s # t /\ Carries(s) /\ Pending(t) => got[s].rt # got[t].rt

\* The file's refresh token is spent only with an excuse, or while its successor is in
\* hand under the lock.
FileInv ==
  /\ \A r \in spent : r <= issued
  /\ \A i \in Issues : i <= issued => root[i] # 0
  /\ Readable => /\ file.at <= issued /\ file.rt <= issued
                 /\ file.rt \in spent => \/ file.rt \in excused
                                        \/ \E s \in Sessions : pc[s] = "answered"

TokensInv == LockedInv /\ FileInv /\ DistinctInv /\ \A s \in Sessions : TokenInv(s)

LEMMA TokensInit == Init => TokensInv
<1> SUFFICES ASSUME Init PROVE TokensInv
  OBVIOUS
<1>1. FileInv /\ DistinctInv
  BY DEF Init, FileInv, DistinctInv, Carries, Readable, Issues
<1>2. ASSUME NEW s \in Sessions PROVE TokenInv(s)
  BY DEF Init, TokenInv, Pending, Carries, NoTokens
<1> QED BY <1>1, <1>2, LockedInit DEF TokensInv

\* The number of a new token set is one that nothing else has.
LEMMA IssueFresh ==
  ASSUME TypeOK, NEW r \in 0..MaxIssue, Issue(r)
  PROVE  /\ issued' = issued + 1 /\ issued' \in Issues /\ issued \in Nat
         /\ root'[issued'] = IF r = 0 THEN issued' ELSE r
         /\ \A i \in Issues : i <= issued => root'[i] = root[i] /\ life'[i] = life[i]
         /\ \A i \in Issues : i <= issued' => i <= issued \/ i = issued'
  BY DEF TypeOK, Issue, Issues

\* Every token set that was issued descends from a login.
LEMMA RootsKept ==
  ASSUME TypeOK, FileInv, NEW r \in 0..MaxIssue, Issue(r)
  PROVE  \A i \in Issues : i <= issued' => root'[i] # 0
<1> SUFFICES ASSUME NEW i \in Issues, i <= issued' PROVE root'[i] # 0
  OBVIOUS
<1>1. CASE i = issued'
  BY <1>1, IssueFresh DEF Issues
<1>2. CASE i <= issued
  BY <1>2, IssueFresh DEF FileInv
<1> QED BY <1>1, <1>2, IssueFresh

LEMMA FileKept == ASSUME TokensInv, [Next]_vars PROVE FileInv'
<1> USE Numbers DEF TokensInv, LockedInv, TypeOK, FileInv, Readable, tokens
<1>1. ASSUME NEW j \in Jails, Request(j) PROVE FileInv'
  <2> j \in Sessions
    BY DEF Sessions
  <2>1. CASE Refresh(j)
    BY <2>1 DEF Refresh, Goto
  <2>2. CASE Cached(j)
    BY <2>2 DEF Cached
  <2>3. CASE Login(j)
    <3>1. issued' = issued + 1 /\ issued \in Nat
      BY <2>3, IssueFresh DEF Login
    <3>2. \A i \in Issues : i <= issued' => root'[i] # 0
      BY <2>3, RootsKept DEF Login
    <3> QED BY <2>3, <3>1, <3>2 DEF Login, Goto, Issues
  <2>4. CASE MirrorSkipped(j)
    BY <2>4 DEF MirrorSkipped, Goto
  <2>5. CASE MirrorWanted(j)
    BY <2>5 DEF MirrorWanted, Goto
  <2> QED BY <1>1, <2>1, <2>2, <2>3, <2>4, <2>5 DEF Request
<1>2. CASE BackgroundRefreshTick \/ Respawn
  <2>1. Background \in Sessions
    BY DEF Sessions
  <2>2. CASE BackgroundRefreshTick
    BY <2>1, <2>2 DEF BackgroundRefreshTick, Goto
  <2>3. CASE Respawn
    BY <2>1, <2>3 DEF Respawn, Goto
  <2> QED BY <1>2, <2>2, <2>3
<1>3. ASSUME NEW s \in Sessions, Acquire(s) \/ LockFails(s) PROVE FileInv'
  <2>1. CASE Acquire(s)
    BY <2>1 DEF Acquire, Goto
  <2>2. CASE LockFails(s)
    BY <2>2 DEF LockFails, Goto
  <2> QED BY <1>3, <2>1, <2>2
<1>4. ASSUME NEW s \in Sessions, DoRefresh(s) \/ Propagate(s) PROVE FileInv'
  <2> USE DEF Goto, Finish, Fail, SessionInv, TokenInv, Pending, Holding
  <2>1. CASE ServeCached(s) \/ NothingToRedeem(s) \/ Redeem(s)
    <3>1. CASE ServeCached(s)
      BY <3>1 DEF ServeCached, CacheHit
    <3>2. CASE NothingToRedeem(s)
      BY <3>2 DEF NothingToRedeem
    <3>3. CASE Redeem(s)
      BY <3>3 DEF Redeem
    <3> QED BY <2>1, <3>1, <3>2, <3>3
  <2>2. CASE UpstreamGrants(s)
    <3>1. mem[s] \in Tokens /\ mem[s] = file
      BY <2>2 DEF UpstreamGrants
    <3>2. issued' = issued + 1 /\ issued \in Nat
      BY <2>2, <3>1, IssueFresh DEF UpstreamGrants
    <3>3. pc'[s] = "answered"
      BY <2>2 DEF UpstreamGrants
    <3>4. spent' \subseteq spent \cup {file.rt} /\ UNCHANGED file
      BY <2>2, <3>1 DEF UpstreamGrants
    <3>5. \A r \in spent' : r <= issued'
      BY <3>1, <3>2, <3>4 DEF Issues
    <3>6. Readable => file.at <= issued' /\ file.rt <= issued'
      BY <3>1, <3>2 DEF Issues
    <3>7. \A i \in Issues : i <= issued' => root'[i] # 0
      <4>1. Issue(root[file.at]) /\ root[file.at] \in 0..MaxIssue
        BY <2>2, <3>1 DEF UpstreamGrants
      <4> QED BY <4>1, RootsKept
    <3> QED BY <3>3, <3>4, <3>5, <3>6, <3>7
  <2>3. CASE UpstreamFails(s)
    <3>1. mem[s] \in Tokens /\ mem[s] = file /\ pc[s] # "answered"
      BY <2>3 DEF UpstreamFails
    <3>2. \/ spent' = spent /\ excused' = excused
          \/ spent' = spent \cup {file.rt} /\ excused' = excused \cup {file.rt}
      BY <2>3, <3>1 DEF UpstreamFails
    <3>3. \A t \in Sessions : pc[t] = "answered" => pc'[t] = "answered"
      BY <2>3, <3>1 DEF UpstreamFails
    <3>4. UNCHANGED <<file, issued, root>>
      BY <2>3 DEF UpstreamFails
    <3>5. \A r \in spent' : r <= issued
      <4>1. file.rt <= issued
        BY <3>1
      <4>2. ASSUME NEW r \in spent' PROVE r \in spent \/ r = file.rt
        BY <3>2
      <4> QED BY <4>1, <4>2
    <3>6. (Readable /\ file.rt \in spent') =>
            (file.rt \in excused' \/ \E t \in Sessions : pc'[t] = "answered")
      BY <3>2, <3>3
    <3> QED BY <3>4, <3>5, <3>6
  <2>4. CASE WriteTokens(s)
    BY <2>4 DEF WriteTokens, Rotated
  <2>5. CASE WriteFails(s)
    BY <2>5 DEF WriteFails, DropAnswer
  <2>6. CASE Propagate(s)
    BY <2>6 DEF Propagate, Carries
  <2> QED BY <1>4, <2>1, <2>2, <2>3, <2>4, <2>5, <2>6 DEF DoRefresh
<1>5. ASSUME NEW s \in Sessions, Deliver(s) PROVE FileInv'
  BY <1>5 DEF Deliver, Goto
<1>6. ASSUME NEW s \in Sessions, Die(s) PROVE FileInv'
  BY <1>6 DEF Die, Bereft, DropAnswer, SessionInv, Holding
<1>7. CASE Age
  BY <1>7 DEF Age
<1>8. CASE UNCHANGED vars
  BY <1>8 DEF vars
<1> QED BY <1>1, <1>2, <1>3, <1>4, <1>5, <1>6, <1>7, <1>8 DEF Next

LEMMA TokenKept ==
  ASSUME TokensInv, [Next]_vars, NEW k \in Sessions
  PROVE  TokenInv(k)'
<1> USE Numbers DEF TokensInv, LockedInv, TypeOK, TokenInv, Pending, Carries, Readable, tokens
<1>1. ASSUME NEW j \in Jails, Request(j) PROVE TokenInv(k)'
  <2> j \in Sessions
    BY DEF Sessions
  <2>1. CASE Refresh(j)
    BY <2>1 DEF Refresh, Goto
  <2>2. CASE Cached(j)
    BY <2>2 DEF Cached, FileInv
  <2>3. CASE Login(j)
    <3>1. Issue(0)
      BY <2>3 DEF Login
    <3>2. issued' = issued + 1 /\ issued \in Nat /\ root'[issued'] = issued' /\ issued' \in Issues
      BY <3>1, IssueFresh
    <3>3. \A i \in Issues : i <= issued => root'[i] = root[i]
      BY <3>1, IssueFresh
    <3>4. issued' \notin spent /\ (Readable => issued' # file.rt)
      BY <3>2 DEF FileInv, Issues
    <3>5. CASE k = j
      BY <2>3, <3>2, <3>4, <3>5 DEF Login, Goto, SessionInv, Issues
    <3>6. CASE k # j
      <4>1. UNCHANGED <<view, own, file, mem, spent, mirror>> /\ got'[k] = got[k] /\ pc'[k] = pc[k]
        BY <2>3, <3>6 DEF Login, Goto
      <4>2. pc[k] = "answered" => mem[k].at \in Issues /\ mem[k].at <= issued
        BY DEF SessionInv, FileInv
      <4> QED BY <3>2, <3>3, <4>1, <4>2 DEF SessionInv
    <3> QED BY <3>5, <3>6
  <2>4. CASE MirrorSkipped(j)
    BY <2>4 DEF MirrorSkipped, Goto
  <2>5. CASE MirrorWanted(j)
    BY <2>5 DEF MirrorWanted, Goto
  <2> QED BY <1>1, <2>1, <2>2, <2>3, <2>4, <2>5 DEF Request
<1>2. CASE BackgroundRefreshTick \/ Respawn
  BY <1>2 DEF BackgroundRefreshTick, Respawn, Goto, Sessions
<1>3. ASSUME NEW s \in Sessions, Acquire(s) \/ LockFails(s) PROVE TokenInv(k)'
  <2>1. CASE Acquire(s)
    BY <2>1 DEF Acquire, Goto
  <2>2. CASE LockFails(s)
    BY <2>2 DEF LockFails, Goto
  <2> QED BY <1>3, <2>1, <2>2
<1>4. ASSUME NEW s \in Sessions, DoRefresh(s) \/ Propagate(s) PROVE TokenInv(k)'
  <2> USE DEF Goto, Finish, Fail, SessionInv, Holding
  <2>1. CASE ServeCached(s)
    BY <2>1 DEF ServeCached, CacheHit, FileInv
  <2>2. CASE NothingToRedeem(s)
    BY <2>2 DEF NothingToRedeem, NoTokens
  <2>3. CASE Redeem(s)
    BY <2>3 DEF Redeem
  <2>4. CASE UpstreamGrants(s)
    <3>1. mem[s] \in Tokens /\ mem[s] = file /\ Readable
      BY <2>4 DEF UpstreamGrants
    <3>2. Issue(root[mem[s].at]) /\ root[mem[s].at] \in 0..MaxIssue
      BY <2>4, <3>1 DEF UpstreamGrants
    <3>3. issued' = issued + 1 /\ issued \in Nat /\ issued' \in Issues
      BY <3>2, IssueFresh
    <3>4. \A i \in Issues : i <= issued => root'[i] = root[i]
      BY <3>2, IssueFresh
    <3>5. issued' \notin spent /\ file.rt \notin spent
      BY <2>4, <3>1, <3>3 DEF FileInv, Issues, UpstreamGrants
    <3>6. CASE k = s
      <4>1. got'[s].at = issued' /\ got'[s].rt \in {issued', file.rt}
        BY <2>4, <3>1 DEF UpstreamGrants
      <4>2. got'[s].rt \notin spent' /\ got'[s].rt <= issued'
        BY <2>4, <3>1, <3>3, <3>5 DEF UpstreamGrants, FileInv, Issues
      <4>3. root'[issued'] = root[mem[s].at] /\ mem[s].at <= issued
        <5>1. root'[issued'] = IF root[mem[s].at] = 0 THEN issued' ELSE root[mem[s].at]
          BY <3>2, IssueFresh
        <5>2. root[mem[s].at] # 0
          BY <3>1 DEF FileInv
        <5> QED BY <3>1, <5>1, <5>2 DEF FileInv
      <4>4. UNCHANGED <<view, own, file, mem, mirror>> /\ pc'[s] = "answered"
        BY <2>4 DEF UpstreamGrants
      <4>5. root'[mem[s].at] = root[mem[s].at]
        BY <3>1, <3>4, <4>3
      <4>6. view[s] <= issued' /\ own[s] <= issued' /\ ~mirror[s]
        BY <2>4, <3>3 DEF UpstreamGrants
      <4> QED BY <3>3, <3>6, <4>1, <4>2, <4>3, <4>4, <4>5, <4>6
    <3>7. CASE k # s
      BY <2>4, <3>1, <3>3, <3>4, <3>7 DEF UpstreamGrants
    <3> QED BY <3>6, <3>7
  <2>5. CASE UpstreamFails(s)
    BY <2>5 DEF UpstreamFails, NoTokens
  <2>6. CASE WriteTokens(s)
    BY <2>6 DEF WriteTokens, Rotated, DistinctInv
  <2>7. CASE WriteFails(s)
    BY <2>7 DEF WriteFails, NoTokens
  <2>8. CASE Propagate(s)
    BY <2>8 DEF Propagate, DistinctInv
  <2> QED BY <1>4, <2>1, <2>2, <2>3, <2>4, <2>5, <2>6, <2>7, <2>8 DEF DoRefresh
<1>5. ASSUME NEW s \in Sessions, Deliver(s) PROVE TokenInv(k)'
  BY <1>5 DEF Deliver, Goto, NoTokens, SessionInv
<1>6. ASSUME NEW s \in Sessions, Die(s) PROVE TokenInv(k)'
  BY <1>6 DEF Die, Bereft, NoTokens
<1>7. CASE Age
  BY <1>7 DEF Age
<1>8. CASE UNCHANGED vars
  BY <1>8 DEF vars
<1> QED BY <1>1, <1>2, <1>3, <1>4, <1>5, <1>6, <1>7, <1>8 DEF Next

\* Two actions put new tokens in a session's hands; all the others only drop some.
LEMMA OnlyDropped ==
  ASSUME TokensInv, [Next]_vars, NEW k \in Sessions, Pending(k)',
         ~(k \in Jails /\ Login(k)), ~UpstreamGrants(k)
  PROVE  Pending(k) /\ got'[k] = got[k] /\ (Carries(k)' => Carries(k))
<1> USE DEF TokensInv, LockedInv, TypeOK, Pending, Carries, tokens
<1>1. ASSUME NEW j \in Jails, Request(j) PROVE Pending(k) /\ got'[k] = got[k] /\ (Carries(k)' => Carries(k))
  <2> j \in Sessions
    BY DEF Sessions
  <2>1. CASE Refresh(j)
    BY <2>1 DEF Refresh, Goto
  <2>2. CASE Cached(j)
    BY <2>2 DEF Cached
  <2>3. CASE Login(j)
    BY <2>3 DEF Login, Goto
  <2>4. CASE MirrorSkipped(j)
    BY <2>4 DEF MirrorSkipped, Goto
  <2>5. CASE MirrorWanted(j)
    BY <2>5 DEF MirrorWanted, Goto
  <2> QED BY <1>1, <2>1, <2>2, <2>3, <2>4, <2>5 DEF Request
<1>2. CASE BackgroundRefreshTick \/ Respawn
  BY <1>2 DEF BackgroundRefreshTick, Respawn, Goto, Sessions
<1>3. ASSUME NEW s \in Sessions, Acquire(s) \/ LockFails(s)
      PROVE  Pending(k) /\ got'[k] = got[k] /\ (Carries(k)' => Carries(k))
  <2>1. CASE Acquire(s)
    BY <2>1 DEF Acquire, Goto
  <2>2. CASE LockFails(s)
    BY <2>2 DEF LockFails, Goto
  <2> QED BY <1>3, <2>1, <2>2
<1>4. ASSUME NEW s \in Sessions, DoRefresh(s) \/ Propagate(s)
      PROVE  Pending(k) /\ got'[k] = got[k] /\ (Carries(k)' => Carries(k))
  <2> USE DEF Goto, Finish, Fail
  <2>1. CASE ServeCached(s)
    BY <2>1 DEF ServeCached
  <2>2. CASE NothingToRedeem(s)
    BY <2>2 DEF NothingToRedeem
  <2>3. CASE Redeem(s)
    BY <2>3 DEF Redeem
  <2>4. CASE UpstreamGrants(s)
    BY <2>4 DEF UpstreamGrants
  <2>5. CASE UpstreamFails(s)
    BY <2>5 DEF UpstreamFails
  <2>6. CASE WriteTokens(s)
    BY <2>6 DEF WriteTokens
  <2>7. CASE WriteFails(s)
    BY <2>7 DEF WriteFails
  <2>8. CASE Propagate(s)
    BY <2>8 DEF Propagate
  <2> QED BY <1>4, <2>1, <2>2, <2>3, <2>4, <2>5, <2>6, <2>7, <2>8 DEF DoRefresh
<1>5. ASSUME NEW s \in Sessions, Deliver(s) \/ Die(s)
      PROVE  Pending(k) /\ got'[k] = got[k] /\ (Carries(k)' => Carries(k))
  <2>1. CASE Deliver(s)
    BY <2>1 DEF Deliver, Goto, SessionInv
  <2>2. CASE Die(s)
    BY <2>2 DEF Die, Bereft
  <2> QED BY <1>5, <2>1, <2>2
<1>6. CASE Age
  BY <1>6 DEF Age
<1>7. CASE UNCHANGED vars
  BY <1>7 DEF vars
<1> QED BY <1>1, <1>2, <1>3, <1>4, <1>5, <1>6, <1>7 DEF Next

\* New tokens are a new number, or the refresh token the file keeps.
LEMMA NewTokens ==
  ASSUME TokensInv, NEW s \in Sessions, (s \in Jails /\ Login(s)) \/ UpstreamGrants(s)
  PROVE  /\ got'[s].rt \in {issued', file.rt} /\ issued' = issued + 1 /\ issued \in Nat
         /\ Login(s) => got'[s].rt = issued'
         /\ ~Login(s) => Readable /\ ~Carries(s)' /\ pc[s] = "upstream"
         /\ \A t \in Sessions \ {s} : got'[t] = got[t] /\ pc'[t] = pc[t] /\ mirror'[t] = mirror[t]
<1> USE Numbers DEF TokensInv, LockedInv, TypeOK, Carries
<1>1. CASE s \in Jails /\ Login(s)
  BY <1>1, IssueFresh DEF Login, Goto
<1>2. CASE UpstreamGrants(s)
  <2>1. mem[s] \in Tokens /\ mem[s] = file /\ Readable /\ ~mirror[s]
    BY <1>2 DEF UpstreamGrants, Goto, SessionInv, Readable
  <2>2. issued' = issued + 1 /\ issued \in Nat
    BY <1>2, <2>1, IssueFresh DEF UpstreamGrants
  <2>3. got'[s].rt \in {issued', file.rt}
    BY <1>2, <2>1 DEF UpstreamGrants
  <2>4. ~Login(s)
    BY <1>2 DEF UpstreamGrants, Login, Goto
  <2> QED BY <1>2, <2>1, <2>2, <2>3, <2>4 DEF UpstreamGrants, Goto
<1> QED BY <1>1, <1>2

LEMMA DistinctKept == ASSUME TokensInv, [Next]_vars PROVE DistinctInv'
<1> SUFFICES ASSUME NEW a \in Sessions, NEW b \in Sessions, a # b, Carries(a)', Pending(b)'
             PROVE  got'[a].rt # got'[b].rt
  BY DEF DistinctInv
<1> DEFINE New(s) == (s \in Jails /\ Login(s)) \/ UpstreamGrants(s)
<1>1. \A s \in Sessions : got[s].rt \in Nat /\ got[s].rt <= issued
  BY Numbers DEF TokensInv, LockedInv, TypeOK, TokenInv, Issues
<1>2. CASE ~New(a) /\ ~New(b)
  <2>1. Carries(a) /\ got'[a] = got[a]
    BY <1>2, OnlyDropped DEF Pending
  <2>2. Pending(b) /\ got'[b] = got[b]
    BY <1>2, OnlyDropped
  <2> QED BY <2>1, <2>2 DEF TokensInv, DistinctInv
<1>3. CASE New(a)
  <2>1. Login(a) /\ got'[a].rt = issued' /\ issued' = issued + 1 /\ issued \in Nat
    BY <1>3, NewTokens
  <2>2. got'[b] = got[b]
    BY <1>3, NewTokens
  <2> QED BY <1>1, <2>1, <2>2
<1>4. CASE New(b) /\ ~New(a)
  <2>1. Carries(a) /\ got'[a] = got[a]
    BY <1>4, OnlyDropped DEF Pending
  <2>2. issued' = issued + 1 /\ issued \in Nat
    BY <1>4, NewTokens
  <2>3. got'[b].rt = issued' \/ (Readable /\ got'[b].rt = file.rt)
    BY <1>4, NewTokens
  <2>4. Readable => got[a].rt # file.rt
    BY <2>1 DEF TokensInv, TokenInv
  <2> QED BY <1>1, <2>1, <2>2, <2>3, <2>4
<1> QED BY <1>2, <1>3, <1>4

LEMMA TokensStep == TokensInv /\ [Next]_vars => TokensInv'
  BY LockedStep, FileKept, DistinctKept, TokenKept DEF TokensInv

LEMMA TokensAlways == Spec => []TokensInv
  BY TokensInit, TokensStep, PTL DEF Spec

\* Nobody burns the single-use refresh token: none is presented after Anthropic consumed
\* it, unless its successor died with a broker, a response or a write.
THEOREM NeverBurntTwice == Spec => []NeverBurnt
<1>1. TokensInv => NeverBurnt
  <2> SUFFICES ASSUME TokensInv, NEW s \in Sessions, pc[s] = "upstream", mem[s].rt \in spent
               PROVE  mem[s].rt \in excused
    BY DEF NeverBurnt
  <2>1. Readable /\ mem[s] = file /\ lock = s
    BY DEF TokensInv, LockedInv, SessionInv, Holding
  <2>2. \A t \in Sessions : pc[t] = "answered" => t = s
    BY <2>1 DEF TokensInv, LockedInv, SessionInv, Holding
  <2> QED BY <2>1, <2>2 DEF TokensInv, FileInv
<1> QED BY TokensAlways, <1>1, PTL

\* A refresh never undoes a login: the file leaves the descendants of one login only for
\* the token set of another (maybePropagateTokenResponse against DoRefresh).
THEOREM LoginsKept == Spec => LoginKept
<1>1. ASSUME TokensInv, [Next]_vars, Readable, file' # Absent, root[file'.at] # root[file.at]
      PROVE  root[file'.at] = file'.at
  <2> USE <1>1 DEF TokensInv, LockedInv, SessionInv, TokenInv, Pending, Carries
  <2>1. file' # file
    OBVIOUS
  <2>2. PICK s \in Sessions : WriteTokens(s) \/ Propagate(s)
    <3>1. CASE UNCHANGED vars
      BY <2>1, <3>1 DEF vars
    <3>2. ASSUME NEW j \in Jails, Request(j) PROVE FALSE
      BY <2>1, <3>2 DEF Request, Refresh, Cached, Login, MirrorSkipped, MirrorWanted
    <3>3. CASE BackgroundRefreshTick \/ Respawn \/ Age
      BY <2>1, <3>3 DEF BackgroundRefreshTick, Respawn, Age
    <3>4. ASSUME NEW t \in Sessions, Acquire(t) \/ LockFails(t) \/ Deliver(t) \/ Die(t) PROVE FALSE
      BY <2>1, <3>4 DEF Acquire, LockFails, Deliver, Die, Bereft
    <3>5. ASSUME NEW t \in Sessions, DoRefresh(t), ~WriteTokens(t) PROVE FALSE
      BY <2>1, <3>5 DEF DoRefresh, ServeCached, NothingToRedeem, Redeem, UpstreamGrants,
                        UpstreamFails, WriteFails
    <3> QED BY <3>1, <3>2, <3>3, <3>4, <3>5 DEF Next
  <2>3. CASE WriteTokens(s)
    <3>1. file'.at = got[s].at /\ mem[s] = file
      BY <2>3 DEF WriteTokens, Rotated
    <3> QED BY <2>3, <3>1 DEF WriteTokens
  <2>4. CASE Propagate(s)
    BY <2>1, <2>4 DEF Propagate
  <2> QED BY <2>2, <2>3, <2>4
<1>2. TokensInv /\ [Next]_vars
        => [Readable /\ file' # Absent /\ root[file'.at] # root[file.at] => root[file'.at] = file'.at]_vars
  BY <1>1
<1> QED BY TokensAlways, <1>2, PTL DEF Spec, LoginKept

-----------------------------------------------------------------------------
(* The file as one atomic credential.                                      *)

\* A token that was lost was consumed.  A login on its way is a pair of one number; a
\* refresh on its way brings a newer access token, and the next refresh token or the
\* same one, for a refresh token that is not lost.
SuccessorInv(s) ==
  /\ Carries(s) => got[s].at = got[s].rt
  /\ pc[s] = "answered" => /\ got[s].at > mem[s].at
                           /\ got[s].rt \in {got[s].at, mem[s].rt}
                           /\ mem[s].rt \notin excused

CredentialInv ==
  TokensInv /\ excused \subseteq spent /\ \A s \in Sessions : SuccessorInv(s)

LEMMA CredentialInit == Init => CredentialInv
  BY TokensInit DEF Init, CredentialInv, SuccessorInv, Carries

\* A refresh token is lost only while its session holds the lock, and then it is the
\* file's.
LEMMA LossSteps ==
  ASSUME TokensInv, [Next]_vars
  PROVE  /\ spent \subseteq spent'
         /\ \/ excused' = excused
            \/ /\ Readable /\ UNCHANGED file /\ excused' = excused \cup {file.rt}
               /\ file.rt \in spent'
               /\ \A t \in Sessions : pc'[t] # "answered"
<1> USE DEF TokensInv, LockedInv, TypeOK, SessionInv, Holding, tokens
<1>1. ASSUME NEW j \in Jails, Request(j) PROVE UNCHANGED <<spent, excused>>
  BY <1>1 DEF Request, Refresh, Cached, Login, MirrorSkipped, MirrorWanted
<1>2. ASSUME NEW s \in Sessions, Acquire(s) \/ LockFails(s) \/ Deliver(s) \/ Propagate(s)
      PROVE  UNCHANGED <<spent, excused>>
  BY <1>2 DEF Acquire, LockFails, Deliver, Propagate
<1>3. ASSUME NEW s \in Sessions, DoRefresh(s), ~UpstreamGrants(s), ~UpstreamFails(s), ~WriteFails(s)
      PROVE  UNCHANGED <<spent, excused>>
  BY <1>3 DEF DoRefresh, ServeCached, NothingToRedeem, Redeem, WriteTokens
<1>4. ASSUME NEW s \in Sessions, UpstreamGrants(s)
      PROVE  spent \subseteq spent' /\ UNCHANGED excused
  BY <1>4 DEF UpstreamGrants
<1>5. ASSUME NEW s \in Sessions, pc[s] \in {"upstream", "answered"}, pc'[s] = "idle",
             \A t \in Sessions \ {s} : pc'[t] = pc[t]
      PROVE  /\ Readable /\ mem[s] = file
             /\ \A t \in Sessions : pc'[t] # "answered"
  <2>1. lock = s /\ Readable /\ mem[s] = file
    BY <1>5
  <2>2. \A t \in Sessions \ {s} : pc[t] # "answered"
    BY <2>1
  <2> QED BY <1>5, <2>1, <2>2
<1>6. ASSUME NEW s \in Sessions, UpstreamFails(s)
      PROVE  /\ spent \subseteq spent'
             /\ \/ excused' = excused
                \/ /\ Readable /\ UNCHANGED file /\ excused' = excused \cup {file.rt}
                   /\ file.rt \in spent'
                   /\ \A t \in Sessions : pc'[t] # "answered"
  <2>1. pc[s] = "upstream" /\ pc'[s] = "idle" /\ \A t \in Sessions \ {s} : pc'[t] = pc[t]
    BY <1>6 DEF UpstreamFails, Fail, Finish
  <2> QED BY <1>5, <1>6, <2>1 DEF UpstreamFails
<1>7. ASSUME NEW s \in Sessions, WriteFails(s) \/ Die(s)
      PROVE  /\ spent \subseteq spent'
             /\ \/ excused' = excused
                \/ /\ Readable /\ UNCHANGED file /\ excused' = excused \cup {file.rt}
                   /\ file.rt \in spent'
                   /\ \A t \in Sessions : pc'[t] # "answered"
  <2>1. /\ DropAnswer(s) /\ UNCHANGED <<file, spent>> /\ pc'[s] # "answered"
        /\ \A t \in Sessions \ {s} : pc'[t] = pc[t]
    BY <1>7 DEF WriteFails, Fail, Finish, Die, Bereft
  <2>2. CASE pc[s] = "answered" /\ mem[s].rt \in spent
    <3>1. excused' = excused \cup {mem[s].rt}
      BY <2>1, <2>2 DEF DropAnswer
    <3> QED BY <1>5, <2>1, <2>2, <3>1
  <2>3. CASE ~(pc[s] = "answered" /\ mem[s].rt \in spent)
    <3>1. {r \in spent : pc[s] = "answered" /\ r = mem[s].rt} = {}
      BY <2>3
    <3> QED BY <2>1, <3>1 DEF DropAnswer
  <2> QED BY <2>2, <2>3
<1>8. CASE BackgroundRefreshTick \/ Respawn \/ Age \/ UNCHANGED vars
  BY <1>8 DEF BackgroundRefreshTick, Respawn, Age, vars
<1> QED BY <1>1, <1>2, <1>3, <1>4, <1>6, <1>7, <1>8 DEF Next

\* A refresh that is answered was answered before this step, or is by it.
LEMMA AnsweredSteps ==
  ASSUME TokensInv, [Next]_vars, NEW k \in Sessions, pc'[k] = "answered", ~UpstreamGrants(k)
  PROVE  pc[k] = "answered" /\ mem'[k] = mem[k]
<1> USE DEF TokensInv, LockedInv, TypeOK, tokens
<1>1. ASSUME NEW j \in Jails, Request(j) PROVE pc[k] = "answered" /\ mem'[k] = mem[k]
  BY <1>1 DEF Request, Refresh, Cached, Login, MirrorSkipped, MirrorWanted, Goto, Sessions
<1>2. ASSUME NEW s \in Sessions, Acquire(s) \/ LockFails(s) \/ Deliver(s) \/ Propagate(s) \/ Die(s)
      PROVE  pc[k] = "answered" /\ mem'[k] = mem[k]
  BY <1>2 DEF Acquire, LockFails, Deliver, Propagate, Die, Bereft, Goto, Finish
<1>3. ASSUME NEW s \in Sessions, DoRefresh(s)
      PROVE  pc[k] = "answered" /\ mem'[k] = mem[k]
  <2>1. CASE ServeCached(s) \/ NothingToRedeem(s) \/ Redeem(s)
    BY <2>1 DEF ServeCached, NothingToRedeem, Redeem, Goto, Finish, Fail
  <2>2. CASE UpstreamGrants(s)
    BY <2>2 DEF UpstreamGrants, Goto
  <2>3. CASE UpstreamFails(s) \/ WriteTokens(s) \/ WriteFails(s)
    BY <2>3 DEF UpstreamFails, WriteTokens, WriteFails, Finish, Fail
  <2> QED BY <1>3, <2>1, <2>2, <2>3 DEF DoRefresh
<1>4. CASE BackgroundRefreshTick \/ Respawn \/ Age \/ UNCHANGED vars
  BY <1>4 DEF BackgroundRefreshTick, Respawn, Age, vars, Goto, Sessions
<1> QED BY <1>1, <1>2, <1>3, <1>4 DEF Next

LEMMA SuccessorKept ==
  ASSUME CredentialInv, [Next]_vars, NEW k \in Sessions
  PROVE  SuccessorInv(k)'
<1> USE DEF CredentialInv, SuccessorInv
<1>1. CASE k \in Jails /\ Login(k)
  <2>1. got'[k].at = got'[k].rt /\ pc'[k] = "mirror"
    BY <1>1 DEF Login, Goto, TokensInv, LockedInv, TypeOK
  <2> QED BY <2>1 DEF Carries
<1>2. CASE UpstreamGrants(k)
  <2>1. mem[k] = file /\ file \in Tokens /\ ~Carries(k)'
    BY <1>2, NewTokens
       DEF UpstreamGrants, Goto, Login, TokensInv, LockedInv, TypeOK, SessionInv, Readable
  <2>2. issued' = issued + 1 /\ issued \in Nat /\ file.at <= issued
    BY <1>2, <2>1, NewTokens DEF TokensInv, FileInv, Readable, Tokens
  <2>3. got'[k].at = issued' /\ got'[k].rt \in {issued', file.rt}
    BY <1>2, <2>1 DEF UpstreamGrants, TokensInv, LockedInv, TypeOK
  <2>4. mem'[k] = file /\ file.rt \notin excused'
    BY <1>2, <2>1 DEF UpstreamGrants
  <2>5. file.at \in Nat
    BY <2>1, Numbers DEF Issues
  <2> QED BY <2>1, <2>2, <2>3, <2>4, <2>5
<1>3. CASE ~(k \in Jails /\ Login(k)) /\ ~UpstreamGrants(k)
  <2>1. Carries(k)' => Carries(k) /\ got'[k] = got[k]
    BY <1>3, OnlyDropped DEF Pending
  <2>2. ASSUME pc'[k] = "answered" PROVE SuccessorInv(k)'
    <3>1. pc[k] = "answered" /\ mem'[k] = mem[k]
      BY <1>3, <2>2, AnsweredSteps
    <3>2. got'[k] = got[k] /\ ~Carries(k)
      BY <1>3, <2>2, <3>1, OnlyDropped
         DEF Pending, Carries, TokensInv, LockedInv, SessionInv
    <3>3. excused' = excused
      BY <2>2, LossSteps
    <3> QED BY <2>1, <3>1, <3>2, <3>3
  <2> QED BY <2>1, <2>2
<1> QED BY <1>1, <1>2, <1>3

LEMMA CredentialStep == CredentialInv /\ [Next]_vars => CredentialInv'
<1> SUFFICES ASSUME CredentialInv, [Next]_vars PROVE CredentialInv'
  OBVIOUS
<1>1. excused' \subseteq spent'
  BY LossSteps DEF CredentialInv
<1> QED BY <1>1, TokensStep, SuccessorKept DEF CredentialInv

LEMMA CredentialAlways == Spec => []CredentialInv
  BY CredentialInit, CredentialStep, PTL DEF Spec

\* No step gives a token set another login.
LEMMA RootsStay ==
  ASSUME TokensInv, [Next]_vars, NEW i \in Issues, i <= issued
  PROVE  root'[i] = root[i]
<1> USE DEF TokensInv, LockedInv, TypeOK, tokens
<1>1. ASSUME NEW j \in Jails, Request(j) PROVE root'[i] = root[i]
  <2>1. CASE Login(j)
    BY <2>1, IssueFresh DEF Login
  <2>2. CASE ~Login(j)
    BY <1>1, <2>2 DEF Request, Refresh, Cached, MirrorSkipped, MirrorWanted
  <2> QED BY <2>1, <2>2
<1>2. ASSUME NEW s \in Sessions, UpstreamGrants(s) PROVE root'[i] = root[i]
  <2>1. mem[s] \in Tokens
    BY <1>2 DEF UpstreamGrants, Goto, SessionInv, Readable
  <2>2. Issue(root[mem[s].at]) /\ root[mem[s].at] \in 0..MaxIssue
    BY <1>2, <2>1, Numbers DEF UpstreamGrants
  <2> QED BY <2>2, IssueFresh
<1>3. ASSUME NEW s \in Sessions, DoRefresh(s) \/ Propagate(s), ~UpstreamGrants(s) PROVE UNCHANGED root
  BY <1>3 DEF DoRefresh, ServeCached, NothingToRedeem, Redeem, UpstreamFails, WriteTokens,
              WriteFails, Propagate
<1>4. ASSUME NEW s \in Sessions, Acquire(s) \/ LockFails(s) \/ Deliver(s) \/ Die(s) PROVE UNCHANGED root
  BY <1>4 DEF Acquire, LockFails, Deliver, Die, Bereft
<1>5. CASE BackgroundRefreshTick \/ Respawn \/ Age \/ UNCHANGED vars
  BY <1>5 DEF BackgroundRefreshTick, Respawn, Age, vars
<1> QED BY <1>1, <1>2, <1>3, <1>4, <1>5 DEF Next

\* The two ways the file is written, under the lock.
LEMMA FileSteps ==
  ASSUME TokensInv, [Next]_vars, file' # file
  PROVE  \E s \in Sessions : WriteTokens(s) \/ (Propagate(s) /\ file' = got[s])
<1>1. ASSUME NEW j \in Jails, Request(j) PROVE UNCHANGED file
  BY <1>1 DEF Request, Refresh, Cached, Login, MirrorSkipped, MirrorWanted
<1>2. ASSUME NEW s \in Sessions, Acquire(s) \/ LockFails(s) \/ Deliver(s) \/ Die(s) PROVE UNCHANGED file
  BY <1>2 DEF Acquire, LockFails, Deliver, Die, Bereft
<1>3. ASSUME NEW s \in Sessions, DoRefresh(s), ~WriteTokens(s) PROVE UNCHANGED file
  BY <1>3 DEF DoRefresh, ServeCached, NothingToRedeem, Redeem, UpstreamGrants, UpstreamFails,
              WriteFails
<1>4. ASSUME NEW s \in Sessions, Propagate(s) PROVE file' \in {got[s], file}
  BY <1>4 DEF Propagate
<1>5. CASE BackgroundRefreshTick \/ Respawn \/ Age \/ UNCHANGED vars
  BY <1>5 DEF BackgroundRefreshTick, Respawn, Age, vars
<1> QED BY <1>1, <1>2, <1>3, <1>4, <1>5 DEF Next

\* The daemons' sessions implement one cell with atomic changes: nothing a session does
\* in several steps, under the lock or around it, is lost or undone by another's.
THEOREM ImplementsCredential == Spec => CredentialSpec
<1>1. Init => Credential!Init
  BY DEF Init, Credential!Init, Credential!NoCredential, Cell, Readable
<1>2. CredentialInv /\ [Next]_vars => [Credential!Next]_Cell
  <2> SUFFICES ASSUME CredentialInv, [Next]_vars PROVE Credential!Next \/ UNCHANGED Cell
    OBVIOUS
  <2> USE Numbers DEF CredentialInv, TokensInv, LockedInv, TypeOK, Readable
  <2>1. CASE UNCHANGED <<file, excused>>
    <3>1. Readable => root'[file.at] = root[file.at]
      BY RootsStay DEF FileInv
    <3> QED BY <2>1, <3>1 DEF Cell
  <2>2. CASE file' = file /\ excused' # excused
    <3>1. Readable /\ excused' = excused \cup {file.rt}
      BY <2>2, LossSteps
    <3>2. root'[file.at] = root[file.at] /\ file.at # 0
      <4>1. file.at \in Issues /\ file.at <= issued
        BY <3>1 DEF FileInv
      <4>2. root'[file.at] = root[file.at]
        BY <4>1, RootsStay
      <4> QED BY <4>1, <4>2 DEF Issues
    <3>3. (file.rt \in excused) = FALSE /\ (file.rt \in excused') = TRUE
      BY <2>2, <3>1
    <3>4. Cell = [at |-> file.at, rt |-> file.rt, login |-> root[file.at], dead |-> FALSE]
      BY <3>1, <3>3, Zenon DEF Cell
    <3>5. Cell' = [at |-> file.at, rt |-> file.rt, login |-> root[file.at], dead |-> TRUE]
      BY <2>2, <3>1, <3>2, <3>3, Zenon DEF Cell
    <3>6. Cell.at # 0 /\ ~Cell.dead
      BY <3>2, <3>4
    <3>7. Cell' = [at |-> Cell.at, rt |-> Cell.rt, login |-> Cell.login, dead |-> TRUE]
      BY <3>4, <3>5
    <3>8. Credential!Holds
      BY <3>6 DEF Credential!Holds, Credential!NoCredential
    <3> HIDE DEF Cell
    <3> QED BY <3>6, <3>7, <3>8, Zenon DEF Credential!Lose, Credential!Next
  <2>3. ASSUME file' # file, NEW s \in Sessions, WriteTokens(s) PROVE Credential!Rotate
    <3>1. pc[s] = "answered" /\ file' = got[s] /\ got[s] \in Tokens /\ UNCHANGED <<root, excused>>
      BY <2>3 DEF WriteTokens, Rotated, SessionInv, Tokens, tokens
    <3>2. Readable /\ mem[s] = file /\ file.rt \notin excused /\ file.at # 0
      BY <3>1 DEF SessionInv, SuccessorInv, Issues
    <3>3. got[s].at > file.at /\ got[s].rt \in {got[s].at, file.rt} /\ root[got[s].at] = root[file.at]
      BY <3>1, <3>2 DEF SuccessorInv, TokenInv
    <3>4. (got[s].rt \in excused) = FALSE /\ (file.rt \in excused) = FALSE
      BY <3>1, <3>2 DEF TokenInv, Pending
    <3>5. Cell = [at |-> file.at, rt |-> file.rt, login |-> root[file.at], dead |-> FALSE]
      BY <3>2, <3>4, Zenon DEF Cell
    <3>6. Cell' = [at |-> got[s].at, rt |-> got[s].rt, login |-> root[file.at], dead |-> FALSE]
      <4>1. file' # Absent
        BY <3>1
      <4> QED BY <3>1, <3>3, <3>4, <4>1, Zenon DEF Cell
    <3>7. got[s].at \in Credential!Issues
      BY <3>1 DEF Credential!Issues, Issues
    <3>8. Cell.at = file.at /\ Cell.rt = file.rt /\ ~Cell.dead
      BY <3>5
    <3>9. Cell' = [at |-> got[s].at, rt |-> got[s].rt, login |-> Cell.login, dead |-> FALSE]
      BY <3>5, <3>6
    <3>10. Credential!Holds
      BY <3>2, <3>8 DEF Credential!Holds, Credential!NoCredential
    <3> HIDE DEF Cell
    <3> QED BY <3>3, <3>7, <3>8, <3>9, <3>10, Zenon DEF Credential!Rotate
  <2>4. ASSUME file' # file, NEW s \in Sessions, Propagate(s), file' = got[s] PROVE Credential!Login
    <3>1. Carries(s) /\ got[s] \in Tokens /\ UNCHANGED <<root, excused>>
      BY <2>4 DEF Propagate, Carries, SessionInv, tokens
    <3>2. /\ got[s].rt = got[s].at /\ root[got[s].at] = got[s].at
          /\ (got[s].rt \in excused) = FALSE
          /\ Readable => got[s].rt # file.rt
      BY <3>1 DEF SuccessorInv, TokenInv, Pending
    <3>3. Cell' = [at |-> got[s].at, rt |-> got[s].at, login |-> got[s].at, dead |-> FALSE]
      <4>1. file' # Absent
        BY <2>4, <3>1
      <4> QED BY <2>4, <3>1, <3>2, <4>1, Zenon DEF Cell
    <3>4. got[s].at \in Credential!Issues /\ got[s].at # 0
      BY <3>1 DEF Credential!Issues, Issues
    <3>5. got[s].at # Cell.rt
      BY <3>2, <3>4 DEF Cell
    <3> QED BY <3>3, <3>4, <3>5 DEF Credential!Login
  <2> QED BY <2>1, <2>2, <2>3, <2>4, FileSteps DEF Credential!Next
<1> QED BY <1>1, <1>2, CredentialAlways, PTL DEF Spec, CredentialSpec, Credential!Spec

-----------------------------------------------------------------------------
(* What a jail is handed back.                                             *)

\* A due token stays due, only a refresh is asked for with one, and the answer to it
\* is a newer token or one that is not due.
DueInv(s) ==
  /\ own[s] # 0 => Due(own[s])
  /\ pc[s] \in {"idle", "down"} \/ Carries(s) => own[s] = 0
  /\ pc[s] \in {"answered", "reply"} /\ own[s] # 0 => got[s].at # own[s]

AnswersInv == TokensInv /\ \A s \in Sessions : DueInv(s)

LEMMA AnswersInit == Init => AnswersInv
  BY TokensInit DEF Init, AnswersInv, DueInv, Carries

\* No step gives life back to a token.
LEMMA DueForEver ==
  ASSUME TokensInv, [Next]_vars, NEW i \in Issues, i <= issued, Due(i)
  PROVE  Due(i)'
<1> USE DEF TokensInv, LockedInv, TypeOK, Due, tokens
<1>1. ASSUME NEW j \in Jails, Request(j) PROVE Due(i)'
  <2>1. CASE Login(j)
    BY <2>1, IssueFresh DEF Login
  <2>2. CASE ~Login(j)
    BY <1>1, <2>2 DEF Request, Refresh, Cached, MirrorSkipped, MirrorWanted
  <2> QED BY <2>1, <2>2
<1>2. ASSUME NEW s \in Sessions, UpstreamGrants(s) PROVE Due(i)'
  <2>1. mem[s] \in Tokens
    BY <1>2 DEF UpstreamGrants, Goto, SessionInv, Readable
  <2>2. Issue(root[mem[s].at]) /\ root[mem[s].at] \in 0..MaxIssue
    BY <1>2, <2>1, Numbers DEF UpstreamGrants
  <2> QED BY <2>2, IssueFresh
<1>3. ASSUME NEW s \in Sessions, DoRefresh(s) \/ Propagate(s), ~UpstreamGrants(s) PROVE UNCHANGED life
  BY <1>3 DEF DoRefresh, ServeCached, NothingToRedeem, Redeem, UpstreamFails, WriteTokens,
              WriteFails, Propagate
<1>4. ASSUME NEW s \in Sessions, Acquire(s) \/ LockFails(s) \/ Deliver(s) \/ Die(s) PROVE UNCHANGED life
  BY <1>4 DEF Acquire, LockFails, Deliver, Die, Bereft
<1>5. CASE BackgroundRefreshTick \/ Respawn \/ UNCHANGED vars
  BY <1>5 DEF BackgroundRefreshTick, Respawn, vars
<1>6. CASE Age
  BY <1>6 DEF Age, Lives, ConsumerRefreshDue
<1> QED BY <1>1, <1>2, <1>3, <1>4, <1>5, <1>6 DEF Next

LEMMA DueKept ==
  ASSUME AnswersInv, [Next]_vars, NEW k \in Sessions
  PROVE  DueInv(k)'
<1> USE Numbers DEF AnswersInv, TokensInv, LockedInv, TypeOK, DueInv, Due, Carries, tokens
<1>1. own[k] # 0 => life'[own[k]] < ConsumerRefreshDue
  <2> SUFFICES ASSUME own[k] # 0 PROVE life'[own[k]] < ConsumerRefreshDue
    OBVIOUS
  <2>1. own[k] \in Issues /\ own[k] <= issued
    BY DEF TokenInv, Issues
  <2>2. life[own[k]] < ConsumerRefreshDue
    OBVIOUS
  <2> DEFINE i == own[k]
  <2>3. i \in Issues /\ i <= issued /\ Due(i)
    BY <2>1, <2>2
  <2> HIDE DEF i
  <2> QED BY <2>3, DueForEver DEF i
<1>2. ASSUME NEW j \in Jails, Request(j) PROVE DueInv(k)'
  <2> j \in Sessions
    BY DEF Sessions
  <2>1. CASE Refresh(j)
    <3>1. k = j /\ own'[k] # 0 => Due(own'[k])
      BY <2>1 DEF Refresh
    <3>2. UNCHANGED <<life, got, mirror>> /\ (k # j => own'[k] = own[k] /\ pc'[k] = pc[k])
      BY <2>1 DEF Refresh, Goto
    <3>3. pc[j] = "idle" /\ pc'[j] = "wait"
      BY <2>1 DEF Refresh, Goto
    <3> QED BY <1>1, <3>1, <3>2, <3>3 DEF SessionInv, Due
  <2>2. CASE Cached(j)
    BY <1>1, <2>2 DEF Cached
  <2>3. CASE Login(j)
    BY <1>1, <2>3 DEF Login, Goto
  <2>4. CASE MirrorSkipped(j)
    BY <1>1, <2>4 DEF MirrorSkipped, Goto
  <2>5. CASE MirrorWanted(j)
    BY <1>1, <2>5 DEF MirrorWanted, Goto
  <2> QED BY <1>2, <2>1, <2>2, <2>3, <2>4, <2>5 DEF Request
<1>3. CASE BackgroundRefreshTick \/ Respawn
  <2>1. CASE BackgroundRefreshTick
    BY <1>1, <2>1 DEF BackgroundRefreshTick, Goto, Sessions
  <2>2. CASE Respawn
    BY <1>1, <2>2 DEF Respawn, Goto, Sessions
  <2> QED BY <1>3, <2>1, <2>2
<1>4. ASSUME NEW s \in Sessions, Acquire(s) \/ LockFails(s) PROVE DueInv(k)'
  <2>1. CASE Acquire(s)
    BY <1>1, <2>1 DEF Acquire, Goto
  <2>2. CASE LockFails(s)
    BY <1>1, <2>2 DEF LockFails, Goto
  <2> QED BY <1>4, <2>1, <2>2
<1>5. ASSUME NEW s \in Sessions, DoRefresh(s) \/ Propagate(s) PROVE DueInv(k)'
  <2> USE DEF Goto, Finish, Fail
  <2>1. CASE ServeCached(s)
    <3>1. own[s] # 0 => file.at # own[s]
      BY <2>1 DEF ServeCached, CacheHit, Due, RefreshCacheFloor, ConsumerRefreshDue, Readable, Lives
    <3> QED BY <1>1, <2>1, <3>1 DEF ServeCached
  <2>2. CASE NothingToRedeem(s)
    BY <1>1, <2>2 DEF NothingToRedeem
  <2>3. CASE Redeem(s)
    BY <1>1, <2>3 DEF Redeem
  <2>4. CASE UpstreamGrants(s)
    <3>1. mem[s] \in Tokens /\ ~mirror[s]
      BY <2>4 DEF UpstreamGrants, SessionInv, Readable
    <3>2. issued' = issued + 1 /\ issued \in Nat
      BY <2>4, <3>1, IssueFresh DEF UpstreamGrants
    <3>3. got'[s].at = issued' /\ own[s] <= issued
      BY <2>4 DEF UpstreamGrants, TokenInv
    <3> QED BY <1>1, <2>4, <3>1, <3>2, <3>3 DEF UpstreamGrants
  <2>5. CASE UpstreamFails(s)
    BY <1>1, <2>5 DEF UpstreamFails
  <2>6. CASE WriteTokens(s)
    BY <1>1, <2>6 DEF WriteTokens
  <2>7. CASE WriteFails(s)
    BY <1>1, <2>7 DEF WriteFails
  <2>8. CASE Propagate(s)
    BY <1>1, <2>8 DEF Propagate
  <2> QED BY <1>5, <2>1, <2>2, <2>3, <2>4, <2>5, <2>6, <2>7, <2>8 DEF DoRefresh
<1>6. ASSUME NEW s \in Sessions, Deliver(s) \/ Die(s) PROVE DueInv(k)'
  <2>1. CASE Deliver(s)
    BY <1>1, <2>1 DEF Deliver, Goto
  <2>2. CASE Die(s)
    BY <1>1, <2>2 DEF Die, Bereft
  <2> QED BY <1>6, <2>1, <2>2
<1>7. CASE Age
  BY <1>1, <1>7 DEF Age
<1>8. CASE UNCHANGED vars
  BY <1>1, <1>8 DEF vars
<1> QED BY <1>2, <1>3, <1>4, <1>5, <1>6, <1>7, <1>8 DEF Next

\* A jail whose access token is due is never answered with that very token: what
\* the three floors of oauthbroker.go are ordered for.
THEOREM NeverHandedBack == Spec => []NotHandedBack
<1>1. AnswersInv /\ [Next]_vars => AnswersInv'
  BY TokensStep, DueKept DEF AnswersInv
<1>2. AnswersInv => NotHandedBack
  BY DEF AnswersInv, DueInv, NotHandedBack, Sessions
<1> QED BY AnswersInit, <1>1, <1>2, PTL DEF Spec
=============================================================================
