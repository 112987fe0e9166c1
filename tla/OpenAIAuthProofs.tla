-------------------------- MODULE OpenAIAuthProofs -------------------------
(***************************************************************************)
(* Proofs about OpenAIAuth for every number of jails, hosts, login ports   *)
(* and issued token sets.                                                  *)
(***************************************************************************)
EXTENDS OpenAIAuth, TLAPS

\* The flock and the program counters agree.
LockInv == \A p \in Procs : pc[p] \in Holding <=> lock = p

\* What the session under the lock knows: the state it loaded is the file, and
\* the token sets it may write are token sets somebody issued.
HeldInv == \A p \in Procs :
  /\ pc[p] \in {"upstream", "answered"} =>
       /\ Readable /\ mem[p] = file
       /\ file.due /\ ~file.loginRequired
       /\ op[p] = "refresh"
  /\ pc[p] = "answered" /\ answer[p] = "tokens" => /\ got[p].at \in Issues /\ got[p].rt \in Issues
                                                   /\ got[p].rt \in {got[p].at, file.rt}
  /\ op[p] = "replace" => got[p].at \in Issues /\ got[p].rt = got[p].at
  /\ pc[p] = "reply" => mem[p] \in Generation

LockedInv == TypeOK /\ LockInv /\ HeldInv

USE OpenAIAuthAssumption, AbsentAssumption

\* Token-set numbers, and the absence of one.
LEMMA IssueTypes ==
  /\ Issues \subseteq 0..MaxIssue
  /\ NoTokens \in [at : 0..MaxIssue, rt : 0..MaxIssue]
  BY DEF Issues, NoTokens

\* The ways the code builds a state, from parts of the right types.
LEMMA GenerationTypes ==
  /\ \A n \in Nat \ {0}, i \in Issues, r \in Issues, b \in BOOLEAN, due \in BOOLEAN :
       [gen |-> n, at |-> i, rt |-> r, loginRequired |-> b, due |-> due] \in Generation
  /\ \A s \in Generation : /\ [s EXCEPT !.loginRequired = TRUE] \in Generation
                           /\ [s EXCEPT !.due = TRUE] \in Generation
  /\ \A s \in Generation : s.gen \in Nat \ {0} /\ s.at \in Issues /\ s.rt \in Issues
  BY DEF Generation, Grant!Generation

\* The initial states satisfy the invariant.
LEMMA LockedInit == Init => LockedInv
  BY DEF Init, LockedInv, TypeOK, LockInv, HeldInv, Holding, Readable, NoTokens, NoView,
         Pcs, Ops, Answers, Procs

\* Requests before the lock leave it and the file alone.
LEMMA LockedRequest ==
  ASSUME LockedInv, NEW p \in Procs, Request(p)
  PROVE  LockedInv'
<1> USE DEF LockedInv, TypeOK, LockInv, HeldInv, Holding, Readable, Pcs, Ops, Answers
<1>1. CASE Token(p)
  BY <1>1 DEF Token, Submit
<1>2. CASE RefreshView(p)
  BY <1>2 DEF RefreshView, Submit
<1>3. CASE StartLogin(p)
  BY <1>3 DEF StartLogin
<1>4. CASE LoginExchanged(p)
  BY <1>4 DEF LoginExchanged, Issues
<1>5. CASE LoginFails(p)
  BY <1>5 DEF LoginFails
<1>6. CASE Import(p)
  <2>1. PICK i \in Issues :
          /\ got' = [got EXCEPT ![p] = [at |-> i, rt |-> i]]
          /\ imported' = imported \cup {i}
          /\ spent' \in {spent, spent \cup {i}} /\ excused' \in {excused, excused \cup {i}}
          /\ \/ issued' = issued /\ again < MaxAgain /\ again' = again + 1
             \/ issued' = i /\ again' = again
    BY <1>6 DEF Import
  <2>2. Submit(p, "replace", 0)
    BY <1>6 DEF Import
  <2>3. i \in 0..MaxIssue /\ issued' \in 0..MaxIssue /\ again' \in 0..MaxAgain
    BY <2>1, IssueTypes
  <2>4. spent' \subseteq Issues /\ excused' \subseteq Issues /\ imported' \subseteq Issues
    BY <2>1
  <2>5. TypeOK'
    BY <2>1, <2>2, <2>3, <2>4 DEF Submit
  <2>6. LockInv' /\ HeldInv'
    BY <2>1, <2>2, <2>5 DEF Submit
  <2>7. QED BY <2>5, <2>6
<1>7. CASE Logout(p)
  BY <1>7 DEF Logout, Submit
<1>8. QED BY <1>1, <1>2, <1>3, <1>4, <1>5, <1>6, <1>7 DEF Request

\* Taking the flock, replying and dying.
LEMMA LockedSession ==
  ASSUME LockedInv, NEW p \in Procs, Acquire(p) \/ Deliver(p) \/ Die(p)
  PROVE  LockedInv'
<1> USE DEF LockedInv, TypeOK, LockInv, HeldInv, Holding, Readable, Pcs, Ops, Answers
<1>1. CASE Acquire(p)
  BY <1>1 DEF Acquire
<1>2. CASE Deliver(p)
  BY <1>2 DEF Deliver, Generation, Grant!Generation, Issues
<1>3. CASE Die(p)
  BY <1>3 DEF Die, Forget, DropAnswer, NoTokens
<1>4. QED BY <1>1, <1>2, <1>3

\* Everything a session does while it holds the flock.
LEMMA LockedHolder ==
  ASSUME LockedInv, NEW p \in Procs, UnderLock(p)
  PROVE  LockedInv'
<1> USE DEF LockedInv, TypeOK, LockInv, HeldInv, Holding, Readable, Pcs, Ops, Answers
<1>1. CASE RefreshWithoutUpstream(p)
  <2>1. /\ lock' = Nobody /\ pc' \in {[pc EXCEPT ![p] = "idle"], [pc EXCEPT ![p] = "reply"]}
        /\ op' = [op EXCEPT ![p] = "none"] /\ marker' = [marker EXCEPT ![p] = 0]
        /\ answer' = [answer EXCEPT ![p] = "none"] /\ got' = [got EXCEPT ![p] = NoTokens]
        /\ UNCHANGED <<file, view, issued, spent, excused, imported, again>>
    BY <1>1 DEF RefreshWithoutUpstream, Finish, Forget, Answer
  <2>2. \/ Readable /\ mem' = [mem EXCEPT ![p] = file]
        \/ mem' = [mem EXCEPT ![p] = NoState] /\ pc' = [pc EXCEPT ![p] = "idle"]
    BY <1>1 DEF RefreshWithoutUpstream, Finish, Forget, Answer
  <2>3. lock = p
    BY <1>1 DEF RefreshWithoutUpstream
  <2>4. TypeOK'
    <3>1. pc' \in [Procs -> Pcs]
      BY <2>1
    <3>2. mem' \in [Procs -> {NoState} \cup Generation]
      BY <2>2
    <3>3. got' \in [Procs -> [at : 0..MaxIssue, rt : 0..MaxIssue]]
      BY <2>1, IssueTypes
    <3>4. /\ op' \in [Procs -> Ops] /\ marker' \in [Procs -> Nat]
          /\ answer' \in [Procs -> Answers] /\ lock' \in Procs \cup {Nobody}
      BY <2>1
    <3>5. QED BY <2>1, <3>1, <3>2, <3>3, <3>4
  <2>5. LockInv'
    BY <2>1, <2>3
  <2>6. HeldInv'
    BY <2>1, <2>2, <2>3 DEF NoTokens
  <2>7. QED BY <2>4, <2>5, <2>6
<1>2. CASE RefreshRedeem(p)
  BY <1>2 DEF RefreshRedeem
<1>3. CASE UpstreamGrants(p)
  <2>1. /\ issued' \in Issues /\ issued' \in 0..MaxIssue
        /\ mem[p] = file /\ file \in Generation
    BY <1>3 DEF UpstreamGrants, Issues
  <2>2. mem[p].rt \in Issues
    BY <2>1, GenerationTypes
  <2>3. \E r \in Issues : r \in {issued', file.rt} /\ got' = [got EXCEPT ![p] = [at |-> issued', rt |-> r]]
    BY <1>3, <2>1, <2>2 DEF UpstreamGrants
  <2>4. spent' \subseteq Issues /\ Issues \subseteq 0..MaxIssue
    <3>1. spent' = spent \/ spent' = spent \cup {mem[p].rt}
      BY <1>3 DEF UpstreamGrants
    <3>2. QED BY <3>1, <2>2, IssueTypes
  <2>5. TypeOK'
    BY <1>3, <2>1, <2>3, <2>4 DEF UpstreamGrants
  <2>6. LockInv'
    BY <1>3 DEF UpstreamGrants
  <2>7. HeldInv'
    <3>1. /\ pc[p] = "upstream" /\ pc' = [pc EXCEPT ![p] = "answered"]
          /\ answer' = [answer EXCEPT ![p] = "tokens"]
          /\ UNCHANGED <<file, lock, op, mem>>
      BY <1>3 DEF UpstreamGrants
    <3>2. PICK r \in Issues : r \in {issued', file.rt} /\ got' = [got EXCEPT ![p] = [at |-> issued', rt |-> r]]
      BY <2>3
    <3>3. \A q \in Procs : got'[q] = IF q = p THEN [at |-> issued', rt |-> r] ELSE got[q]
      BY <3>2
    <3>4. got'[p].at \in Issues /\ got'[p].rt \in Issues /\ got'[p].rt \in {got'[p].at, file.rt}
      BY <3>2, <3>3, <2>1
    <3>5. QED BY <3>1, <3>3, <3>4
  <2>8. QED BY <2>5, <2>6, <2>7
<1>4. CASE UpstreamRefuses(p)
  BY <1>4 DEF UpstreamRefuses
<1>5. CASE UpstreamFails(p)
  BY <1>5 DEF UpstreamFails, Generation, Grant!Generation
<1>6. CASE WriteRotated(p)
  <2>1. mem[p] \in Generation /\ lock = p
    BY <1>6 DEF WriteRotated
  <2>2. Rotated(p) \in Generation /\ Rotated(p) \notin {NoState, Unreadable}
    <3>1. mem[p].gen + 1 \in Nat \ {0} /\ got[p].at \in Issues /\ got[p].rt \in Issues
      BY <1>6, <2>1, GenerationTypes DEF WriteRotated
    <3>2. Rotated(p) \in Generation
      BY <3>1, GenerationTypes DEF Rotated
    <3>3. QED BY <3>2
  <2>3. /\ lock' = Nobody
        /\ op' = [op EXCEPT ![p] = "none"] /\ marker' = [marker EXCEPT ![p] = 0]
        /\ answer' = [answer EXCEPT ![p] = "none"] /\ got' = [got EXCEPT ![p] = NoTokens]
        /\ UNCHANGED <<view, issued, spent, imported, again>>
        /\ excused' \subseteq Issues
    BY <1>6 DEF WriteRotated, Finish, Forget, Answer, DropAnswer
  <2>4. \/ /\ file' = Rotated(p) /\ mem' = [mem EXCEPT ![p] = Rotated(p)]
           /\ pc' = [pc EXCEPT ![p] = "reply"]
        \/ /\ file' = file /\ mem' = [mem EXCEPT ![p] = NoState]
           /\ pc' = [pc EXCEPT ![p] = "idle"]
    BY <1>6 DEF WriteRotated, Finish, Forget, Answer
  <2> HIDE DEF Readable
  <2>5. TypeOK'
    <3>1. pc' \in [Procs -> Pcs] /\ mem' \in [Procs -> {NoState} \cup Generation]
      <4>1. CASE pc' = [pc EXCEPT ![p] = "reply"] /\ mem' = [mem EXCEPT ![p] = Rotated(p)]
        BY <4>1, <2>2
      <4>2. CASE pc' = [pc EXCEPT ![p] = "idle"] /\ mem' = [mem EXCEPT ![p] = NoState]
        BY <4>2
      <4>3. QED BY <4>1, <4>2, <2>4
    <3>2. /\ op' \in [Procs -> Ops] /\ marker' \in [Procs -> Nat]
          /\ answer' \in [Procs -> Answers] /\ lock' \in Procs \cup {Nobody}
      BY <2>3
    <3>3. got' \in [Procs -> [at : 0..MaxIssue, rt : 0..MaxIssue]]
      BY <2>3, IssueTypes
    <3>4. file' \in {NoState, Unreadable} \cup Generation
      BY <2>2, <2>4
    <3>5. QED BY <2>3, <3>1, <3>2, <3>3, <3>4
  <2>6. LockInv'
    BY <2>1, <2>3, <2>4
  <2>7. HeldInv'
    BY <2>1, <2>2, <2>3, <2>4 DEF NoTokens
  <2>8. QED BY <2>5, <2>6, <2>7
<1>7. CASE WriteRejected(p)
  <2>1. mem[p] \in Generation /\ lock = p
    BY <1>7 DEF WriteRejected
  <2>2. [mem[p] EXCEPT !.loginRequired = TRUE] \in Generation
    BY <2>1 DEF Generation, Grant!Generation
  <2>3. TypeOK'
    BY <1>7, <2>2, IssueTypes DEF WriteRejected, Finish, Forget
  <2>4. LockInv'
    BY <1>7, <2>1 DEF WriteRejected, Finish
  <2>5. HeldInv'
    BY <1>7, <2>1 DEF WriteRejected, Finish, Forget, NoTokens
  <2>6. QED BY <2>3, <2>4, <2>5
<1>8. CASE KeepAfterTransient(p)
  BY <1>8 DEF KeepAfterTransient, Finish, Forget, NoTokens
<1>9. CASE ReplaceWrite(p)
  <2>1. lock = p /\ got[p].at \in Issues /\ got[p].rt \in Issues
    BY <1>9 DEF ReplaceWrite
  <2>2. \A due \in BOOLEAN : Installed(p, due) \in Generation
    <3> DEFINE n == IF Readable THEN file.gen + 1 ELSE 1
    <3>1. n \in Nat \ {0}
      BY GenerationTypes
    <3>2. QED BY <2>1, <3>1, GenerationTypes DEF Installed
  <2>3. file' \in {file} \cup Generation
    BY <1>9, <2>2 DEF ReplaceWrite
  <2>4. TypeOK'
    BY <1>9, <2>3 DEF ReplaceWrite, Finish, Forget, NoTokens
  <2>5. LockInv'
    BY <1>9, <2>1 DEF ReplaceWrite, Finish
  <2>6. HeldInv'
    BY <1>9, <2>1 DEF ReplaceWrite, Finish, Forget, NoTokens
  <2>7. QED BY <2>4, <2>5, <2>6
<1>10. CASE LogoutRemove(p)
  BY <1>10 DEF LogoutRemove, Finish, Forget, NoTokens
<1>11. QED BY <1>1, <1>2, <1>3, <1>4, <1>5, <1>6, <1>7, <1>8, <1>9, <1>10 DEF UnderLock

\* The ageing of the access token and the proactive check.
LEMMA LockedTime ==
  ASSUME LockedInv, Expire \/ ProactiveTick
  PROVE  LockedInv'
<1> USE DEF LockedInv, TypeOK, LockInv, HeldInv, Holding, Readable, Pcs, Ops, Answers
<1>1. CASE ProactiveTick
  BY <1>1 DEF ProactiveTick, Submit, Procs
<1>2. CASE Expire
  <2>1. file' \in Generation
    BY <1>2, GenerationTypes DEF Expire
  <2>2. \A p \in Procs : pc[p] \notin {"upstream", "answered"}
    BY <1>2 DEF Expire
  <2>3. QED BY <1>2, <2>1, <2>2 DEF Expire
<1>3. QED BY <1>1, <1>2

\* Every step keeps the lock, the loaded state and the file in agreement.
LEMMA LockedStep == LockedInv /\ [Next]_vars => LockedInv'
<1> SUFFICES ASSUME LockedInv, [Next]_vars PROVE LockedInv'
  OBVIOUS
<1>1. CASE UNCHANGED vars
  BY <1>1 DEF vars, LockedInv, TypeOK, LockInv, HeldInv, Readable
<1>2. CASE Next
  <2>1. ASSUME NEW p \in Procs, Request(p) PROVE LockedInv'
    BY <2>1, LockedRequest
  <2>2. ASSUME NEW p \in Procs, Acquire(p) \/ Deliver(p) \/ Die(p) PROVE LockedInv'
    BY <2>2, LockedSession
  <2>3. ASSUME NEW p \in Procs, UnderLock(p) PROVE LockedInv'
    BY <2>3, LockedHolder
  <2>4. QED BY <1>2, <2>1, <2>2, <2>3, LockedTime DEF Next
<1>3. QED BY <1>1, <1>2

LEMMA LockedAlways == Spec => []LockedInv
  BY LockedInit, LockedStep, PTL DEF Spec

\* Every variable keeps its type.
THEOREM TypeCorrect == Spec => []TypeOK
  BY LockedAlways, PTL DEF LockedInv

\* "It reloads state only after acquiring the machine-wide lock": whoever is
\* redeeming holds the file's own generation, and is alone in doing so.
THEOREM RedeemsCanonical == Spec => []PresentsCanonical
<1>1. LockedInv => PresentsCanonical
  BY DEF LockedInv, TypeOK, LockInv, HeldInv, Holding, PresentsCanonical
<1>2. QED BY <1>1, LockedAlways, PTL

-----------------------------------------------------------------------------
\* A session with token sets it is about to put in the file.
Pending(p) == op[p] = "replace" \/ (pc[p] = "answered" /\ answer[p] = "tokens")

\* The refresh token in hand came out of an auth.json.
Brought(p) == op[p] = "replace" /\ got[p].rt \in imported

\* What is about to be written was issued, and is spent or already in the file
\* only with an excuse or because a human imported it again.
PendingInv == \A p \in Procs : Pending(p) =>
  /\ got[p].at <= issued /\ got[p].rt <= issued
  /\ got[p].rt \in spent => got[p].rt \in excused \/ Brought(p)
  /\ Readable /\ op[p] = "replace" => got[p].rt # file.rt \/ Brought(p)

\* No two sessions are about to write the same refresh token, auth.json apart.
DistinctInv == \A p, q \in Procs : p # q /\ Pending(p) /\ op[q] = "replace" =>
  got[p].rt # got[q].rt \/ Brought(q)

\* What the file holds was issued, and is spent only with an excuse or while
\* its successor is in hand under the lock.
FileInv ==
  /\ \A r \in spent \cup imported : r <= issued
  /\ Readable => /\ file.at <= issued /\ file.rt <= issued
                 /\ file.rt \in spent =>
                      \/ file.rt \in excused
                      \/ \E p \in Procs : pc[p] = "answered" /\ answer[p] = "tokens"

SpendInv == LockedInv /\ PendingInv /\ DistinctInv /\ FileInv

LEMMA SpendInit == Init => SpendInv
  BY LockedInit DEF Init, SpendInv, PendingInv, DistinctInv, FileInv, Pending, Brought, Readable

\* Steps that issue nothing, write nothing and drop nothing.
LEMMA SpendQuiet ==
  ASSUME SpendInv, NEW p \in Procs,
         Token(p) \/ RefreshView(p) \/ StartLogin(p) \/ LoginFails(p) \/ Logout(p)
           \/ Acquire(p) \/ Deliver(p) \/ RefreshWithoutUpstream(p) \/ RefreshRedeem(p)
           \/ UpstreamRefuses(p) \/ KeepAfterTransient(p)
  PROVE  PendingInv' /\ DistinctInv' /\ FileInv'
<1> USE DEF SpendInv, LockedInv, TypeOK
<1>1. /\ UNCHANGED <<file, issued, spent, excused, imported>>
      /\ \A q \in Procs : Pending(q)' => Pending(q) /\ got'[q] = got[q] /\ op'[q] = op[q]
  BY DEF Token, RefreshView, StartLogin, LoginFails, Logout, Acquire, Deliver, Submit,
         RefreshWithoutUpstream, RefreshRedeem, UpstreamRefuses, KeepAfterTransient,
         Finish, Forget, Answer, Pending
<1>2. \A q \in Procs : (pc[q] = "answered" /\ answer[q] = "tokens")
                         => (pc'[q] = "answered" /\ answer'[q] = "tokens")
  BY DEF Token, RefreshView, StartLogin, LoginFails, Logout, Acquire, Deliver, Submit,
         RefreshWithoutUpstream, RefreshRedeem, UpstreamRefuses, KeepAfterTransient,
         Finish, Forget, Answer
<1>3. \A q \in Procs : op'[q] = "replace" => Pending(q)'
  BY DEF Pending
<1>4. PendingInv' /\ DistinctInv'
  <2>1. \A q \in Procs : Pending(q)' /\ Brought(q) => Brought(q)'
    BY <1>1 DEF Brought
  <2>2. QED BY <1>1, <1>3, <2>1 DEF PendingInv, DistinctInv, Readable
<1>5. FileInv'
  BY <1>1, <1>2 DEF FileInv, Readable
<1>6. QED BY <1>4, <1>5

\* A login brings a token set nobody else has; an import brings a new one or
\* one that was imported before.
LEMMA SpendNewTokens ==
  ASSUME SpendInv, NEW p \in Procs, LoginExchanged(p) \/ Import(p)
  PROVE  PendingInv' /\ DistinctInv' /\ FileInv'
<1> USE DEF SpendInv, LockedInv, TypeOK
<1>1. PICK i \in Issues :
        /\ got' = [got EXCEPT ![p] = [at |-> i, rt |-> i]]
        /\ \/ issued' = issued + 1 /\ i = issued'
           \/ issued' = issued /\ i \in imported
        /\ imported' = imported \/ imported' = imported \cup {i}
        /\ i \in imported' \/ (imported' = imported /\ i = issued + 1)
        /\ \/ UNCHANGED <<spent, excused>>
           \/ /\ i \in imported' /\ spent' = spent \cup {i} /\ excused' = excused \cup {i}
        /\ op' = [op EXCEPT ![p] = "replace"]
        /\ pc' = [pc EXCEPT ![p] = "wait"]
        /\ UNCHANGED <<file, answer>>
  <2>1. CASE LoginExchanged(p)
    <3>1. issued + 1 \in Issues
      BY <2>1 DEF LoginExchanged, Issues
    <3>2. QED BY <2>1, <3>1 DEF LoginExchanged
  <2>2. CASE Import(p)
    BY <2>2 DEF Import, Submit
  <2>3. QED BY <2>1, <2>2
<1>2. /\ got'[p].at = i /\ got'[p].rt = i /\ op'[p] = "replace" /\ pc'[p] = "wait"
      /\ pc[p] \notin {"answered"}
      /\ \A q \in Procs \ {p} : /\ got'[q] = got[q] /\ op'[q] = op[q]
                                /\ pc'[q] = pc[q] /\ Pending(q)' = Pending(q)
                                /\ Brought(q) => Brought(q)'
  BY <1>1 DEF LoginExchanged, Import, Submit, Pending, Brought
<1>3. i \in Nat /\ i <= issued' /\ issued \in Nat /\ issued' \in Nat /\ issued <= issued'
  BY <1>1 DEF FileInv, Issues
<1>4. \A r \in spent \cup imported : r \in Nat /\ r <= issued
  BY DEF FileInv, Issues
<1>5. \A r \in spent' \cup imported' : r <= issued'
  <2>1. spent' \cup imported' \subseteq spent \cup imported \cup {i}
    BY <1>1
  <2>2. \A r \in Nat : r <= issued => r <= issued'
    BY <1>3
  <2>3. QED BY <1>3, <1>4, <2>1, <2>2
<1>6. /\ \A r : r \in spent' => r \in spent \/ r \in excused'
      /\ \A r \in excused : r \in excused'
  BY <1>1
<1>7. i \in spent' => i \in excused' \/ i \in imported'
  BY <1>1, <1>3, <1>4, <1>6
<1>8. ASSUME NEW q \in Procs \ {p}, Pending(q)
      PROVE  got[q].at <= issued' /\ got[q].rt <= issued' /\ (got[q].rt # i \/ i \in imported)
  <2>1. got[q].at \in Nat /\ got[q].rt \in Nat /\ got[q].at <= issued /\ got[q].rt <= issued
    BY <1>8 DEF PendingInv
  <2>2. QED BY <1>1, <1>3, <2>1
<1>9. PendingInv'
  <2>1. ASSUME NEW q \in Procs \ {p}, Pending(q)'
        PROVE  /\ got'[q].at <= issued' /\ got'[q].rt <= issued'
               /\ got'[q].rt \in spent' => got'[q].rt \in excused' \/ Brought(q)'
               /\ Readable' /\ op'[q] = "replace" => got'[q].rt # file'.rt \/ Brought(q)'
    BY <1>1, <1>2, <1>6, <1>8, <2>1 DEF PendingInv, Readable
  <2>2. Readable => file.rt # i \/ i \in imported'
    <3> SUFFICES ASSUME Readable PROVE file.rt # i \/ i \in imported'
      OBVIOUS
    <3>1. file.rt \in Nat /\ file.rt <= issued
      BY GenerationTypes DEF FileInv, Readable, Issues
    <3>2. QED BY <1>1, <1>3, <3>1
  <2>3. QED BY <1>1, <1>2, <1>3, <1>7, <2>1, <2>2 DEF PendingInv, Readable, Brought
<1>10. DistinctInv'
  <2>1. \A q \in Procs : op[q] = "replace" => Pending(q)
    BY DEF Pending
  <2>2. ASSUME NEW q \in Procs \ {p}, op[q] = "replace"
        PROVE  i # got[q].rt \/ Brought(q)'
    <3>1. CASE got[q].rt # i
      BY <3>1
    <3>2. CASE got[q].rt = i
      BY <1>1, <1>2, <1>8, <2>1, <2>2, <3>2 DEF Brought
    <3>3. QED BY <3>1, <3>2
  <2>3. ASSUME NEW q \in Procs \ {p}, Pending(q)
        PROVE  got[q].rt # i \/ i \in imported'
    BY <1>1, <1>8, <2>3
  <2>4. ASSUME NEW a \in Procs, NEW b \in Procs, a # b, Pending(a)', op'[b] = "replace"
        PROVE  got'[a].rt # got'[b].rt \/ Brought(b)'
    <3>1. CASE a = p
      BY <1>2, <2>2, <2>4, <3>1
    <3>2. CASE b = p
      BY <1>2, <2>3, <2>4, <3>2 DEF Brought
    <3>3. CASE a # p /\ b # p
      BY <1>2, <2>4, <3>3 DEF DistinctInv
    <3>4. QED BY <3>1, <3>2, <3>3
  <2>5. QED BY <2>4 DEF DistinctInv
<1>11. FileInv'
  <2>1. Readable => file.rt <= issued' /\ file.at <= issued'
    <3> SUFFICES ASSUME Readable PROVE file.rt <= issued' /\ file.at <= issued'
      OBVIOUS
    <3>1. file.at \in Nat /\ file.rt \in Nat /\ file.rt <= issued /\ file.at <= issued
      BY GenerationTypes DEF FileInv, Readable, Issues
    <3>2. QED BY <1>3, <3>1
  <2>2. \A q \in Procs : pc[q] = "answered" => pc'[q] = "answered"
    BY <1>2
  <2>3. QED BY <1>1, <1>5, <1>6, <2>1, <2>2 DEF FileInv, Readable
<1>12. QED BY <1>9, <1>10, <1>11

\* OpenAI's two ways of acting on the token presented under the lock.
LEMMA SpendUpstream ==
  ASSUME SpendInv, LockedInv', NEW p \in Procs, UpstreamGrants(p) \/ UpstreamFails(p)
  PROVE  PendingInv' /\ DistinctInv' /\ FileInv'
<1> USE DEF SpendInv, LockedInv, TypeOK
<1>1. /\ pc[p] = "upstream" /\ op[p] = "refresh" /\ mem[p] = file /\ Readable
      /\ file \in Generation /\ lock = p
  BY DEF UpstreamGrants, UpstreamFails, HeldInv, LockInv, Holding, Readable
<1>2. /\ UNCHANGED <<file, op, imported>>
      /\ \A q \in Procs \ {p} : Pending(q) <=> op[q] = "replace"
      /\ \A q \in Procs \ {p} : Pending(q)' <=> op[q] = "replace"
      /\ \A q \in Procs \ {p} : got'[q] = got[q] /\ (Brought(q) => Brought(q)')
  BY <1>1 DEF UpstreamGrants, UpstreamFails, LockInv, Holding, Pending, Brought
<1>3. \A q \in Procs : op[q] = "replace" => q # p /\ Pending(q) /\ (got[q].rt # file.rt \/ Brought(q))
  BY <1>1 DEF PendingInv, Pending
<1>4. file.rt \in Nat /\ file.rt <= issued /\ file.at \in Nat /\ file.at <= issued /\ issued \in Nat
  BY <1>1, GenerationTypes DEF FileInv, Issues
<1>5. \A q \in Procs : op[q] = "replace" =>
        /\ got[q].rt \in Nat /\ got[q].at \in Nat
        /\ got[q].at <= issued /\ got[q].rt <= issued
        /\ got[q].rt \in spent => got[q].rt \in excused \/ Brought(q)
  BY <1>3 DEF PendingInv
<1>6. \A r \in spent \cup imported : r \in Nat /\ r <= issued
  BY DEF FileInv, Issues
<1>7. CASE UpstreamGrants(p)
  <2>1. /\ issued' = issued + 1
        /\ \E r : /\ got'[p] = [at |-> issued', rt |-> r] /\ (r = issued' \/ r = file.rt)
                  /\ \/ spent' = spent \cup {file.rt} /\ r = issued'
                     \/ spent' = spent /\ r = file.rt
        /\ excused' = excused
        /\ file.rt \notin spent
        /\ pc'[p] = "answered" /\ answer'[p] = "tokens"
    BY <1>1, <1>7 DEF UpstreamGrants
  <2>2. PICK r : /\ got'[p] = [at |-> issued', rt |-> r] /\ (r = issued' \/ r = file.rt)
                 /\ \/ spent' = spent \cup {file.rt} /\ r = issued'
                    \/ spent' = spent /\ r = file.rt
    BY <2>1
  <2>3. r \notin spent' /\ r <= issued' /\ got'[p].at = issued' /\ got'[p].rt = r
    BY <1>4, <1>6, <2>1, <2>2
  <2>4. \A q \in Procs : op[q] = "replace" =>
          /\ q # p
          /\ got[q].at <= issued' /\ got[q].rt <= issued'
          /\ got[q].rt # r \/ Brought(q)
          /\ got[q].rt \in spent' => got[q].rt \in excused' \/ Brought(q)
    BY <1>1, <1>3, <1>5, <2>1, <2>2
  <2>5. PendingInv'
    BY <1>1, <1>2, <1>3, <1>4, <2>1, <2>3, <2>4 DEF PendingInv, Readable
  <2>6. DistinctInv'
    BY <1>2, <2>3, <2>4 DEF DistinctInv
  <2>7. FileInv'
    <3>1. \A x \in spent' \cup imported' : x <= issued'
      <4>1. spent' \cup imported' \subseteq spent \cup imported \cup {file.rt}
        BY <1>2, <2>2
      <4>2. \A x \in spent \cup imported \cup {file.rt} : x \in Nat /\ x <= issued
        BY <1>4, <1>6
      <4>3. \A x \in Nat : x <= issued => x <= issued'
        BY <1>4, <2>1
      <4>4. QED BY <4>1, <4>2, <4>3
    <3>2. file'.at <= issued' /\ file'.rt <= issued'
      BY <1>2, <1>4, <2>1
    <3>3. \E q \in Procs : pc'[q] = "answered" /\ answer'[q] = "tokens"
      BY <2>1
    <3>4. QED BY <3>1, <3>2, <3>3 DEF FileInv
  <2>8. QED BY <2>5, <2>6, <2>7
<1>8. CASE UpstreamFails(p)
  <2>1. /\ issued' = issued /\ got' = got
        /\ ~(pc'[p] = "answered" /\ answer'[p] = "tokens")
        /\ \/ UNCHANGED <<spent, excused>>
           \/ spent' = spent \cup {file.rt} /\ excused' = excused \cup {file.rt}
    BY <1>1, <1>8 DEF UpstreamFails
  <2>2. \A q \in Procs : Pending(q)' => op[q] = "replace"
    BY <1>2, <2>1 DEF Pending
  <2>3. PendingInv'
    BY <1>2, <1>3, <1>5, <2>1, <2>2 DEF PendingInv, Readable
  <2>4. DistinctInv'
    BY <1>2, <1>3, <2>1, <2>2 DEF DistinctInv
  <2>5. ~\E q \in Procs : pc[q] = "answered"
    BY <1>1 DEF LockInv, Holding
  <2>6. FileInv'
    BY <1>2, <1>4, <1>6, <2>1, <2>5 DEF FileInv, Readable
  <2>7. QED BY <2>3, <2>4, <2>6
<1>9. QED BY <1>7, <1>8

\* The writes under the lock.
LEMMA SpendWrites ==
  ASSUME SpendInv, NEW p \in Procs,
         WriteRotated(p) \/ WriteRejected(p) \/ ReplaceWrite(p) \/ LogoutRemove(p)
  PROVE  PendingInv' /\ DistinctInv' /\ FileInv'
<1> USE DEF SpendInv, LockedInv, TypeOK
<1>1. /\ lock = p /\ \A q \in Procs \ {p} : pc[q] \notin Holding
      /\ UNCHANGED <<issued, spent, imported>>
      /\ excused \subseteq excused'
      /\ op'[p] = "none" /\ pc'[p] \in {"idle", "reply"}
      /\ \A q \in Procs \ {p} : /\ op'[q] = op[q] /\ pc'[q] = pc[q] /\ got'[q] = got[q]
                                /\ Pending(q) <=> op[q] = "replace"
                                /\ Pending(q)' <=> op[q] = "replace"
                                /\ Brought(q)' <=> Brought(q)
      /\ ~Pending(p)'
  BY DEF WriteRotated, WriteRejected, ReplaceWrite, LogoutRemove, Finish, Forget, Answer,
         DropAnswer, LockInv, Holding, Pending, Brought
<1>2. DistinctInv'
  BY <1>1 DEF DistinctInv
<1>3. \/ file' = file
      \/ file' = NoState
      \/ /\ file'.at = file.at /\ file'.rt = file.rt /\ Readable
      \/ /\ Pending(p) /\ file'.at = got[p].at /\ file'.rt = got[p].rt
         /\ op[p] = "replace" => excused' = excused \cup ({got[p].rt} \cap spent \cap imported)
  BY DEF WriteRotated, WriteRejected, ReplaceWrite, LogoutRemove, Rotated, Installed, HeldInv,
         Pending, Readable, Generation, Grant!Generation
<1>4. PendingInv'
  BY <1>1, <1>3 DEF PendingInv, DistinctInv, Readable
<1>5. FileInv'
  <2>1. Readable' => file'.at <= issued' /\ file'.rt <= issued'
    BY <1>1, <1>3 DEF FileInv, PendingInv, Readable
  <2>2. ASSUME Readable', file'.rt \in spent' PROVE file'.rt \in excused'
    <3>1. CASE /\ file'.rt = file.rt /\ Readable
      <4>1. file.rt \in excused \/ (pc[p] = "answered" /\ answer[p] = "tokens")
        BY <1>1, <2>2, <3>1 DEF FileInv, Holding
      <4>2. CASE pc[p] = "answered" /\ answer[p] = "tokens"
        <5>1. WriteRotated(p) /\ mem[p] = file
          BY <4>2 DEF WriteRejected, ReplaceWrite, LogoutRemove, HeldInv
        <5>2. CASE file' = Rotated(p)
          <6>1. file.rt = got[p].rt
            BY <3>1, <5>2 DEF Rotated
          <6>2. op[p] = "refresh"
            BY <4>2 DEF HeldInv
          <6>3. QED BY <1>1, <2>2, <3>1, <4>2, <6>1, <6>2 DEF PendingInv, Pending, Brought
        <5>3. CASE excused' = excused \cup {r \in spent : pc[p] = "answered" /\ r = mem[p].rt}
          BY <1>1, <2>2, <3>1, <4>2, <5>1, <5>3
        <5>4. QED BY <5>1, <5>2, <5>3 DEF WriteRotated, DropAnswer
      <4>3. QED BY <1>1, <3>1, <4>1, <4>2
    <3>2. CASE /\ Pending(p) /\ file'.rt = got[p].rt
               /\ op[p] = "replace" => excused' = excused \cup ({got[p].rt} \cap spent \cap imported)
      BY <1>1, <2>2, <3>2 DEF PendingInv, Brought
    <3>3. QED BY <1>3, <2>2, <3>1, <3>2 DEF Readable
  <2>3. QED BY <1>1, <2>1, <2>2 DEF FileInv
<1>6. QED BY <1>2, <1>4, <1>5

\* A crash drops tokens in hand; ageing and the proactive check touch none.
LEMMA SpendRest ==
  ASSUME SpendInv, (\E p \in Procs : Die(p)) \/ Expire \/ ProactiveTick
  PROVE  PendingInv' /\ DistinctInv' /\ FileInv'
<1> USE DEF SpendInv, LockedInv, TypeOK
<1>1. ASSUME NEW p \in Procs, Die(p) PROVE PendingInv' /\ DistinctInv' /\ FileInv'
  <2>1. /\ UNCHANGED <<file, issued, spent, imported>>
        /\ excused' = excused \cup {r \in spent : pc[p] = "answered" /\ r = mem[p].rt}
        /\ op'[p] = "none" /\ pc'[p] = "idle" /\ ~Pending(p)'
        /\ \A q \in Procs \ {p} : /\ op'[q] = op[q] /\ pc'[q] = pc[q] /\ got'[q] = got[q]
                                  /\ answer'[q] = answer[q]
                                  /\ Pending(q)' <=> Pending(q)
                                  /\ Brought(q)' <=> Brought(q)
    BY <1>1 DEF Die, Forget, DropAnswer, Pending, Brought
  <2>2. PendingInv'
    BY <2>1 DEF PendingInv, Readable
  <2>6. DistinctInv'
    <3> SUFFICES ASSUME NEW q \in Procs, NEW r \in Procs, q # r, Pending(q)', op'[r] = "replace"
                 PROVE  got'[q].rt # got'[r].rt \/ Brought(r)'
      BY DEF DistinctInv
    <3>1. q # p /\ r # p
      BY <2>1
    <3>2. QED BY <2>1, <3>1 DEF DistinctInv
  <2>3. pc[p] = "answered" => mem[p] = file
    BY DEF HeldInv
  <2>4. FileInv'
    BY <2>1, <2>3 DEF FileInv, Readable
  <2>5. QED BY <2>2, <2>4, <2>6
<1>2. CASE Expire
  <2>1. /\ UNCHANGED <<op, pc, got, answer, issued, spent, excused, imported>>
        /\ Readable /\ file'.at = file.at /\ file'.rt = file.rt
        /\ \A q \in Procs : (Pending(q)' <=> Pending(q)) /\ (Brought(q)' <=> Brought(q))
    BY <1>2 DEF Expire, Pending, Readable, Brought, Generation, Grant!Generation
  <2>2. QED BY <2>1 DEF PendingInv, DistinctInv, FileInv
<1>3. CASE ProactiveTick
  <2>1. /\ UNCHANGED <<file, got, answer, issued, spent, excused, imported>>
        /\ Proactive \in Procs /\ pc[Proactive] = "idle"
        /\ ~Pending(Proactive)'
        /\ \A q \in Procs \ {Proactive} : /\ op'[q] = op[q] /\ pc'[q] = pc[q]
                                          /\ Pending(q)' <=> Pending(q)
                                          /\ Brought(q)' <=> Brought(q)
        /\ op'[Proactive] = "refresh"
    BY <1>3 DEF ProactiveTick, Submit, Pending, Brought, Procs
  <2>2. PendingInv'
    BY <2>1 DEF PendingInv, Readable
  <2>3. DistinctInv'
    <3> SUFFICES ASSUME NEW q \in Procs, NEW r \in Procs, q # r, Pending(q)', op'[r] = "replace"
                 PROVE  got[q].rt # got[r].rt \/ Brought(r)'
      BY <2>1 DEF DistinctInv
    <3>1. q # Proactive /\ r # Proactive
      BY <2>1
    <3>2. QED BY <2>1, <3>1 DEF DistinctInv
  <2>4. FileInv'
    BY <2>1 DEF FileInv, Readable
  <2>5. QED BY <2>2, <2>3, <2>4
<1>4. QED BY <1>1, <1>2, <1>3

LEMMA SpendStep == SpendInv /\ [Next]_vars => SpendInv'
<1> SUFFICES ASSUME SpendInv, [Next]_vars PROVE SpendInv'
  OBVIOUS
<1>1. LockedInv'
  BY LockedStep DEF SpendInv
<1>2. CASE UNCHANGED vars
  BY <1>1, <1>2 DEF vars, SpendInv, PendingInv, DistinctInv, FileInv, Pending, Brought, Readable
<1>3. CASE Next
  <2>1. ASSUME NEW p \in Procs, Request(p) \/ Acquire(p) \/ UnderLock(p) \/ Deliver(p) \/ Die(p)
        PROVE  PendingInv' /\ DistinctInv' /\ FileInv'
    <3>1. CASE Request(p)
      BY <3>1, SpendQuiet, SpendNewTokens DEF Request
    <3>2. CASE UnderLock(p)
      BY <1>1, <3>2, SpendQuiet, SpendUpstream, SpendWrites DEF UnderLock
    <3>3. CASE Acquire(p) \/ Deliver(p)
      BY <3>3, SpendQuiet
    <3>4. CASE Die(p)
      BY <3>4, SpendRest
    <3>5. QED BY <2>1, <3>1, <3>2, <3>3, <3>4
  <2>2. CASE Expire \/ ProactiveTick
    BY <1>1, <2>2, SpendRest DEF SpendInv
  <2>3. QED BY <1>1, <1>3, <2>1, <2>2 DEF Next, SpendInv
<1>4. QED BY <1>2, <1>3

LEMMA SpendAlways == Spec => []SpendInv
  BY SpendInit, SpendStep, PTL DEF Spec

\* No refresh token is presented to OpenAI after OpenAI consumed it, unless its
\* successor was lost on the way to credentials.json.
THEOREM NeverSpentTwice == Spec => []NoDoubleSpend
<1>1. SpendInv => NoDoubleSpend
  <2> SUFFICES ASSUME SpendInv, NEW p \in Procs, pc[p] = "upstream", mem[p].rt \in spent
               PROVE  mem[p].rt \in excused
    BY DEF NoDoubleSpend
  <2>1. mem[p] = file /\ Readable /\ lock = p
    BY DEF SpendInv, LockedInv, HeldInv, LockInv, Holding
  <2>2. ~\E q \in Procs : pc[q] = "answered"
    BY <2>1 DEF SpendInv, LockedInv, LockInv, Holding
  <2>3. QED BY <2>1, <2>2 DEF SpendInv, FileInv
<1>2. QED BY <1>1, SpendAlways, PTL

-----------------------------------------------------------------------------
\* The steps that change credentials.json, seen from the file alone.
LEMMA FileSteps ==
  ASSUME SpendInv, [Next]_vars
  PROVE  \/ file' = file
         \/ file' = NoState /\ \E p \in Procs : op[p] = "logout"
         \/ Readable /\ ~file.due /\ file' = [file EXCEPT !.due = TRUE]
         \/ Readable /\ ~file.loginRequired /\ file.due /\ file' = [file EXCEPT !.loginRequired = TRUE]
         \/ \E p \in Procs : /\ Readable /\ ~file.loginRequired /\ file.due
                             /\ Pending(p) /\ mem[p] = file
                             /\ got[p].at \in Issues /\ got[p].rt \in {got[p].at, file.rt}
                             /\ file' = Rotated(p)
         \/ \E p \in Procs, due \in BOOLEAN :
              lock = p /\ op[p] = "replace" /\ file' = Installed(p, due)
<1>1. CASE UNCHANGED vars
  BY <1>1 DEF vars
<1>2. ASSUME NEW p \in Procs, Request(p) \/ Acquire(p) \/ Deliver(p) \/ Die(p) PROVE file' = file
  BY <1>2 DEF Request, Token, RefreshView, StartLogin, LoginExchanged, LoginFails, Import,
              Logout, Submit, Acquire, Deliver, Die
<1>3. ASSUME NEW p \in Procs, UnderLock(p)
      PROVE  \/ file' = file
             \/ file' = NoState /\ op[p] = "logout"
             \/ Readable /\ ~file.loginRequired /\ file.due /\ file' = [file EXCEPT !.loginRequired = TRUE]
             \/ /\ Readable /\ ~file.loginRequired /\ file.due
                /\ Pending(p) /\ mem[p] = file
                /\ got[p].at \in Issues /\ got[p].rt \in {got[p].at, file.rt}
                /\ file' = Rotated(p)
             \/ \E due \in BOOLEAN : lock = p /\ op[p] = "replace" /\ file' = Installed(p, due)
  <2> USE DEF SpendInv, LockedInv, HeldInv
  <2>1. CASE WriteRotated(p)
    BY <2>1 DEF WriteRotated, Pending
  <2>2. CASE WriteRejected(p)
    BY <2>2 DEF WriteRejected
  <2>3. CASE ReplaceWrite(p)
    BY <2>3 DEF ReplaceWrite, LockInv, Holding
  <2>4. CASE LogoutRemove(p)
    BY <2>4 DEF LogoutRemove
  <2>5. CASE \/ RefreshWithoutUpstream(p) \/ RefreshRedeem(p) \/ UpstreamGrants(p)
             \/ UpstreamRefuses(p) \/ UpstreamFails(p) \/ KeepAfterTransient(p)
    BY <2>5 DEF RefreshWithoutUpstream, RefreshRedeem, UpstreamGrants, UpstreamRefuses,
                UpstreamFails, KeepAfterTransient
  <2>6. QED BY <1>3, <2>1, <2>2, <2>3, <2>4, <2>5 DEF UnderLock
<1>4. CASE Expire
  BY <1>4 DEF Expire
<1>5. CASE ProactiveTick
  BY <1>5 DEF ProactiveTick, Submit
<1>6. QED BY <1>1, <1>2, <1>3, <1>4, <1>5 DEF Next

\* The two ways the file can come to hold other tokens.
LEMMA NewTokens ==
  ASSUME SpendInv, Readable, NEW p \in Procs
  PROVE  /\ mem[p] = file /\ file' = Rotated(p) => file'.gen = file.gen + 1 /\ ~file'.loginRequired
         /\ \A due \in BOOLEAN : op[p] = "replace" /\ file' = Installed(p, due) =>
              /\ file'.gen = file.gen + 1 /\ file'.at = got[p].at
              /\ file'.rt # file.rt \/ file.rt \in imported
  BY DEF SpendInv, PendingInv, Pending, Brought, Rotated, Installed

\* A generation number names one token set, and generations are never skipped.
THEOREM GenerationsNeverLost == Spec => GenerationsAdvance
<1>1. SpendInv /\ [Next]_vars =>
        [Readable /\ Readable' => \/ file'.gen = file.gen /\ file'.at = file.at /\ file'.rt = file.rt
                                  \/ file'.gen = file.gen + 1]_vars
  <2> SUFFICES ASSUME SpendInv, [Next]_vars, Readable, Readable'
               PROVE  \/ file'.gen = file.gen /\ file'.at = file.at /\ file'.rt = file.rt
                      \/ file'.gen = file.gen + 1
    OBVIOUS
  <2>1. file \in Generation
    BY DEF SpendInv, LockedInv, TypeOK, Readable
  <2>2. CASE file' = [file EXCEPT !.due = TRUE] \/ file' = [file EXCEPT !.loginRequired = TRUE]
    BY <2>1, <2>2 DEF Generation, Grant!Generation
  <2>3. CASE file' = NoState
    BY <2>3 DEF Readable
  <2>4. QED BY <2>2, <2>3, FileSteps, NewTokens
<1>2. QED BY <1>1, SpendAlways, PTL DEF Spec, GenerationsAdvance

\* ErrLoginRequired: a refused grant is never revived.  Only a human's login or
\* import ends a refusal, and the refused token comes back only out of an
\* auth.json.
THEOREM RefusedStaysRefused == Spec => RefusalIsFinal
<1> DEFINE Ended == \E p \in Procs :
              /\ lock = p /\ op[p] = "replace" /\ file'.at = got[p].at
              /\ file'.gen = file.gen + 1
              /\ file'.rt # file.rt \/ file.rt \in imported
<1>1. SpendInv /\ [Next]_vars =>
        [Readable /\ file.loginRequired /\ Readable' /\ ~file'.loginRequired => Ended]_vars
  <2> SUFFICES ASSUME SpendInv, [Next]_vars, Readable, file.loginRequired, Readable',
                      ~file'.loginRequired
               PROVE  Ended
    OBVIOUS
  <2>1. file \in Generation
    BY DEF SpendInv, LockedInv, TypeOK, Readable
  <2>2. file' # [file EXCEPT !.due = TRUE] /\ file' # NoState /\ file' # file
    BY <2>1 DEF Generation, Grant!Generation, Readable
  <2>3. PICK p \in Procs, due \in BOOLEAN : lock = p /\ op[p] = "replace" /\ file' = Installed(p, due)
    BY <2>2, FileSteps
  <2>4. /\ file'.gen = file.gen + 1 /\ file'.at = got[p].at
        /\ file'.rt # file.rt \/ file.rt \in imported
    BY <2>3, NewTokens
  <2>5. QED BY <2>3, <2>4
<1>2. QED BY <1>1, SpendAlways, PTL DEF Spec, RefusalIsFinal

\* The daemon implements one cell of generations with atomic changes: nothing a
\* session does under the lock is computed from anything but what it replaces.
THEOREM ImplementsGrant == Spec => GrantSpec
<1>1. Init => Grant!Init
  BY DEF Init, Grant!Init
<1>2. SpendInv /\ [Next]_vars => [Grant!Next]_file
  <2> SUFFICES ASSUME SpendInv, [Next]_vars PROVE Grant!Next \/ file' = file
    OBVIOUS
  <2> USE DEF Grant!Next, Readable, Grant!Holds
  <2>1. file \in {NoState, Unreadable} \cup Generation
    BY DEF SpendInv, LockedInv, TypeOK
  <2>2. CASE file' = NoState
    BY <2>2 DEF Grant!Remove
  <2>3. CASE Readable /\ ~file.due /\ file' = [file EXCEPT !.due = TRUE]
    BY <2>3 DEF Grant!Expire
  <2>4. CASE Readable /\ ~file.loginRequired /\ file.due /\ file' = [file EXCEPT !.loginRequired = TRUE]
    BY <2>4 DEF Grant!Reject
  <2>5. ASSUME NEW p \in Procs, Readable, ~file.loginRequired, file.due, mem[p] = file,
               got[p].at \in Issues, got[p].rt \in {got[p].at, file.rt}, file' = Rotated(p)
        PROVE  Grant!Next
    BY <2>5 DEF Rotated, Grant!Rotate
  <2>6. ASSUME NEW p \in Procs, NEW due \in BOOLEAN, op[p] = "replace", file' = Installed(p, due)
        PROVE  Grant!Next
    <3>1. got[p].at \in Issues /\ got[p].rt = got[p].at
      BY <2>6 DEF SpendInv, LockedInv, HeldInv
    <3>2. QED BY <2>6, <3>1 DEF Installed, Grant!Install
  <2>7. QED BY <2>2, <2>3, <2>4, <2>5, <2>6, FileSteps
<1>3. QED BY <1>1, <1>2, SpendAlways, PTL DEF Spec, GrantSpec, Grant!Spec

-----------------------------------------------------------------------------
(* A marker names the generation of the view its caller held when it asked.  *)

\* The marker in a request is the generation of the view its caller still has,
\* and a redemption under way was asked for by a caller who is not stale.
MarkerInv == \A p \in Procs :
  /\ pc[p] \in {"idle", "browser", "reply"} => marker[p] = 0
  /\ marker[p] # 0 => marker[p] = view[p].gen
  /\ pc[p] \in {"upstream", "answered"} /\ marker[p] # 0 => marker[p] = mem[p].gen

\* Generation g with access token a was the file's content, or still is.
Known(g, a) == Readable /\ g <= file.gen /\ (g = file.gen => a = file.at)

\* As long as no grant is removed, what clients hold and what is on its way to
\* them are generations the file has gone through.
ViewInv == \A p \in Procs :
  /\ view[p].gen # 0 => Known(view[p].gen, view[p].at)
  /\ pc[p] = "reply" => Known(mem[p].gen, mem[p].at)

\* Nobody removes the grant.
Kept == Readable => Readable'

\* The markers follow the views in every behaviour, logouts included.
LEMMA MarkerStep == LockedInv /\ MarkerInv /\ [Next]_vars => MarkerInv'
<1> SUFFICES ASSUME LockedInv, MarkerInv, [Next]_vars PROVE MarkerInv'
  OBVIOUS
<1> USE DEF LockedInv, TypeOK, MarkerInv
<1>1. CASE UNCHANGED vars
  BY <1>1 DEF vars
<1>2. ASSUME NEW p \in Procs, Request(p) PROVE MarkerInv'
  BY <1>2 DEF Request, Token, RefreshView, StartLogin, LoginExchanged, LoginFails, Import,
              Logout, Submit
<1>3. ASSUME NEW p \in Procs, Acquire(p) \/ Deliver(p) \/ Die(p) PROVE MarkerInv'
  BY <1>3 DEF Acquire, Deliver, Die, Forget
<1>4. ASSUME NEW p \in Procs, UnderLock(p) PROVE MarkerInv'
  <2>1. CASE RefreshRedeem(p)
    BY <2>1 DEF RefreshRedeem, Stale
  <2>2. CASE UpstreamGrants(p) \/ UpstreamRefuses(p) \/ UpstreamFails(p)
    BY <2>2 DEF UpstreamGrants, UpstreamRefuses, UpstreamFails
  <2>3. CASE \/ RefreshWithoutUpstream(p) \/ WriteRotated(p) \/ WriteRejected(p)
             \/ KeepAfterTransient(p) \/ ReplaceWrite(p) \/ LogoutRemove(p)
    <3>1. /\ pc'[p] \in {"idle", "reply"} /\ marker'[p] = 0 /\ view' = view
          /\ \A q \in Procs \ {p} : pc'[q] = pc[q] /\ marker'[q] = marker[q] /\ mem'[q] = mem[q]
      BY <2>3 DEF RefreshWithoutUpstream, WriteRotated, WriteRejected, KeepAfterTransient,
                  ReplaceWrite, LogoutRemove, Finish, Forget, Answer
    <3>2. QED BY <3>1
  <2>4. QED BY <1>4, <2>1, <2>2, <2>3 DEF UnderLock
<1>5. CASE ProactiveTick
  BY <1>5 DEF ProactiveTick, Submit, Procs
<1>6. CASE Expire
  BY <1>6 DEF Expire
<1>7. QED BY <1>1, <1>2, <1>3, <1>4, <1>5, <1>6 DEF Next

\* A generation that was the file's stays known as the file moves on.
LEMMA KnownStays ==
  ASSUME SpendInv, [Next]_vars, Kept, NEW g \in Nat, NEW a, Known(g, a)
  PROVE  Known(g, a)'
<1>1. Readable /\ Readable' /\ file \in Generation
  BY DEF Known, Kept, SpendInv, LockedInv, TypeOK, Readable
<1>2. file.gen \in Nat
  BY <1>1, GenerationTypes
<1>3. \/ file'.gen = file.gen /\ file'.at = file.at
      \/ file'.gen = file.gen + 1
  <2>1. file' # NoState
    BY <1>1 DEF Readable
  <2>2. CASE file' = [file EXCEPT !.due = TRUE] \/ file' = [file EXCEPT !.loginRequired = TRUE]
    BY <1>1, <2>2 DEF Generation, Grant!Generation
  <2>3. QED BY <1>1, <2>1, <2>2, FileSteps, NewTokens
<1>4. QED BY <1>1, <1>2, <1>3 DEF Known

\* Views and replies stay within the generations of a grant nobody removes.
LEMMA ViewStep == SpendInv /\ MarkerInv /\ ViewInv /\ [Next]_vars /\ Kept => ViewInv'
<1> SUFFICES ASSUME SpendInv, ViewInv, [Next]_vars, Kept, NEW p \in Procs
             PROVE  /\ view'[p].gen # 0 => Known(view[p].gen, view[p].at)'
                    /\ pc'[p] = "reply" => Known(mem[p].gen, mem[p].at)'
  BY DEF ViewInv
<1> USE DEF SpendInv, LockedInv, TypeOK
<1>1. view[p].gen \in Nat /\ (pc[p] = "reply" => mem[p].gen \in Nat)
  BY GenerationTypes DEF HeldInv
<1>2. view[p].gen # 0 => Readable' /\ view[p].gen <= file'.gen /\ (view[p].gen = file'.gen => view[p].at = file'.at)
  BY <1>1, KnownStays DEF ViewInv, Known, Readable
<1>3. pc[p] = "reply" => Readable' /\ mem[p].gen <= file'.gen /\ (mem[p].gen = file'.gen => mem[p].at = file'.at)
  BY <1>1, KnownStays DEF ViewInv, Known, Readable
<1>4. CASE view'[p] = view[p] /\ (pc'[p] = "reply" => pc[p] = "reply" /\ mem'[p] = mem[p])
  BY <1>2, <1>3, <1>4 DEF Known, Readable
<1>5. CASE Deliver(p)
  BY <1>3, <1>5 DEF Deliver, Known, Readable
<1>6. CASE view' = view /\ Readable' /\ mem'[p] = file'
  <2>1. file' \in Generation => file'.gen \in Nat
    BY GenerationTypes
  <2>2. LockedInv'
    BY LockedStep
  <2>3. file'.gen \in Nat
    BY <1>6, <2>1, <2>2 DEF Readable
  <2>4. QED BY <1>2, <1>6, <2>3 DEF Known, Readable
<1>7. ASSUME NEW q \in Procs, Request(q) \/ Acquire(q) \/ Die(q)
      PROVE  view'[p] = view[p] /\ (pc'[p] = "reply" => pc[p] = "reply" /\ mem'[p] = mem[p])
  BY <1>7 DEF Request, Token, RefreshView, StartLogin, LoginExchanged, LoginFails, Import,
              Logout, Submit, Acquire, Die, Forget
<1>8. ASSUME NEW q \in Procs, UnderLock(q)
      PROVE  \/ view'[p] = view[p] /\ (pc'[p] = "reply" => pc[p] = "reply" /\ mem'[p] = mem[p])
             \/ view' = view /\ Readable' /\ mem'[p] = file'
  <2>1. CASE RefreshWithoutUpstream(q) \/ WriteRotated(q)
    <3>1. CASE q = p
      <4>1. CASE pc'[p] # "reply"
        BY <2>1, <4>1 DEF RefreshWithoutUpstream, WriteRotated
      <4>2. CASE WriteRotated(p) /\ pc'[p] = "reply"
        <5>1. file' = Rotated(p) /\ mem'[p] = Rotated(p) /\ view' = view
          BY <4>2 DEF WriteRotated, Finish, Answer
        <5>2. Readable
          BY <4>2 DEF WriteRotated, HeldInv
        <5>3. QED BY <5>1, <5>2 DEF Kept
      <4>3. CASE RefreshWithoutUpstream(p) /\ pc'[p] = "reply"
        BY <4>3 DEF RefreshWithoutUpstream, Finish, Answer, Readable
      <4>4. QED BY <2>1, <3>1, <4>1, <4>2, <4>3
    <3>2. CASE q # p
      BY <2>1, <3>2 DEF RefreshWithoutUpstream, WriteRotated, Finish, Answer, Forget
    <3>3. QED BY <3>1, <3>2
  <2>2. CASE \/ RefreshRedeem(q) \/ UpstreamGrants(q) \/ UpstreamRefuses(q) \/ UpstreamFails(q)
             \/ WriteRejected(q) \/ KeepAfterTransient(q) \/ ReplaceWrite(q) \/ LogoutRemove(q)
    BY <2>2 DEF RefreshRedeem, UpstreamGrants, UpstreamRefuses, UpstreamFails, WriteRejected,
                KeepAfterTransient, ReplaceWrite, LogoutRemove, Finish, Forget
  <2>3. QED BY <1>8, <2>1, <2>2 DEF UnderLock
<1>9. ASSUME NEW q \in Procs, q # p, Deliver(q)
      PROVE  view'[p] = view[p] /\ (pc'[p] = "reply" => pc[p] = "reply" /\ mem'[p] = mem[p])
  BY <1>9 DEF Deliver
<1>10. CASE Expire \/ ProactiveTick \/ UNCHANGED vars
  BY <1>4, <1>10 DEF Expire, ProactiveTick, Submit, vars
<1>11. QED BY <1>4, <1>5, <1>6, <1>7, <1>8, <1>9, <1>10 DEF Next

\* "A stale Codex caller receives the current generation without upstream I/O":
\* in every behaviour in which nobody removes the grant, whoever redeems with a
\* marker holds the very token set that is being redeemed.
THEOREM StaleViewsAnswered == Spec /\ [][Kept]_vars => []StaleNeverRedeems
<1>1. Init => MarkerInv /\ ViewInv
  BY DEF Init, MarkerInv, ViewInv, NoView
<1>2. SpendInv /\ MarkerInv /\ ViewInv /\ [Next]_vars /\ [Kept]_vars => MarkerInv' /\ ViewInv'
  <2> SUFFICES ASSUME SpendInv, MarkerInv, ViewInv, [Next]_vars, [Kept]_vars
               PROVE  MarkerInv' /\ ViewInv'
    OBVIOUS
  <2>1. Kept
    BY DEF Kept, vars, Readable
  <2>2. QED BY <2>1, MarkerStep, ViewStep DEF SpendInv
<1>3. SpendInv /\ MarkerInv /\ ViewInv => StaleNeverRedeems
  <2> SUFFICES ASSUME SpendInv, MarkerInv, ViewInv, NEW p \in Procs, pc[p] = "upstream", marker[p] # 0
               PROVE  view[p].at = mem[p].at
    BY DEF StaleNeverRedeems
  <2>1. mem[p] = file /\ marker[p] = view[p].gen /\ marker[p] = mem[p].gen
    BY DEF SpendInv, LockedInv, HeldInv, MarkerInv
  <2>2. QED BY <2>1 DEF ViewInv, Known
<1>4. QED BY <1>1, <1>2, <1>3, SpendAlways, PTL DEF Spec

\* The same without a hypothesis on the behaviour: only a session on the host
\* user's private socket can ask for a logout, so jails alone are never stale.
THEOREM JailsNeverStale == ASSUME Hosts = {} PROVE Spec => []StaleNeverRedeems
<1> DEFINE Asked == \A p \in Procs : op[p] = "logout" => p \in Hosts
<1>1. Init => Asked
  BY DEF Init
<1>2. LockedInv /\ Asked /\ [Next]_vars => Asked'
  <2> SUFFICES ASSUME LockedInv, Asked, [Next]_vars PROVE Asked'
    OBVIOUS
  <2> USE DEF LockedInv, TypeOK
  <2>1. ASSUME NEW p \in Procs, Request(p) PROVE Asked'
    BY <2>1 DEF Request, Token, RefreshView, StartLogin, LoginExchanged, LoginFails, Import,
                Logout, Submit
  <2>2. ASSUME NEW p \in Procs, UnderLock(p) PROVE Asked'
    BY <2>2 DEF UnderLock, RefreshWithoutUpstream, RefreshRedeem, UpstreamGrants, UpstreamRefuses,
                UpstreamFails, WriteRotated, WriteRejected, KeepAfterTransient, ReplaceWrite,
                LogoutRemove, Finish
  <2>3. ASSUME NEW p \in Procs, Acquire(p) \/ Deliver(p) \/ Die(p) PROVE Asked'
    BY <2>3 DEF Acquire, Deliver, Die
  <2>4. CASE Expire \/ ProactiveTick \/ UNCHANGED vars
    BY <2>4 DEF Expire, ProactiveTick, Submit, vars
  <2>5. QED BY <2>1, <2>2, <2>3, <2>4 DEF Next
<1>3. SpendInv /\ Asked /\ [Next]_vars => [Kept]_vars
  <2> SUFFICES ASSUME SpendInv, Asked, [Next]_vars, Readable PROVE Readable'
    BY DEF Kept
  <2>1. file \in Generation /\ file.gen \in Nat /\ mem \in [Procs -> {NoState} \cup Generation]
    BY GenerationTypes DEF SpendInv, LockedInv, TypeOK, Readable
  <2>2. \A p \in Procs : op[p] # "logout"
    BY DEF Procs
  <2>3. CASE file' = [file EXCEPT !.due = TRUE] \/ file' = [file EXCEPT !.loginRequired = TRUE]
    BY <2>1, <2>3, GenerationTypes DEF Readable
  <2>4. ASSUME NEW p \in Procs, mem[p] = file, got[p].at \in Issues, got[p].rt \in {got[p].at, file.rt},
               file' = Rotated(p)
        PROVE  Readable'
    <3>1. file.gen + 1 \in Nat \ {0} /\ got[p].rt \in Issues
      BY <2>1, <2>4, GenerationTypes
    <3>2. Rotated(p) \in Generation
      BY <2>4, <3>1, GenerationTypes DEF Rotated
    <3>3. QED BY <2>4, <3>2 DEF Readable
  <2>5. ASSUME NEW p \in Procs, NEW due \in BOOLEAN, op[p] = "replace", file' = Installed(p, due)
        PROVE  Readable'
    <3>1. got[p].at \in Issues /\ got[p].rt \in Issues
      BY <2>5 DEF SpendInv, LockedInv, HeldInv
    <3>2. file.gen + 1 \in Nat \ {0}
      BY <2>1
    <3>3. Installed(p, due) \in Generation
      BY <3>1, <3>2, GenerationTypes DEF Installed
    <3>4. QED BY <2>5, <3>3 DEF Readable
  <2>6. QED BY <2>2, <2>3, <2>4, <2>5, FileSteps DEF Readable
<1>4. Spec => [][Kept]_vars
  BY <1>1, <1>2, <1>3, SpendAlways, LockedAlways, PTL DEF Spec
<1>5. QED BY <1>4, StaleViewsAnswered, PTL
=============================================================================
