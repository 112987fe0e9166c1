------------------------- MODULE CaptureStoreProofs -------------------------
(***************************************************************************)
(* Proofs about CaptureStore for every number of programs, captures,       *)
(* prunes, homes and faults.  The results about entries rest on one fact:  *)
(* the flock gives a program's staging directory and the entries it admits *)
(* to one capture at a time.  That a prune spares the selected entry rests *)
(* on the order of the receipts, which a prune's view and the store share. *)
(***************************************************************************)
EXTENDS CaptureStore, FiniteSetTheorems, TLAPS

USE ConstantsAssumption

-----------------------------------------------------------------------------
(* Types.                                                                   *)

LEMMA Data ==
    /\ NoKey \in Keys
    /\ Keys = Bins \X Contents
    /\ Absent \in Int /\ Absent \notin Contents
    /\ Contents \subseteq Nat
    /\ IsFiniteSet(Keys)
    /\ Cardinality(Contents) \in Nat
    /\ Files \subseteq Nat /\ RealBin \in Files
    /\ \A k \in Keys : k[1] \in Bins /\ k[2] \in Contents
<1>1. Keys = Bins \X Contents
  BY DEF Keys
<1>2. Contents # {} /\ Contents \subseteq Nat
  BY DEF Contents, Mixed
<1>3. Keys # {}
  <2>1. \E b \in Bins, v \in Contents : <<b, v>> \in Bins \X Contents
    BY <1>2
  <2> QED BY <1>1, <2>1
<1>4. NoKey \in Keys
  BY <1>3 DEF NoKey
<1>5. IsFiniteSet(Contents)
  <2>1. IsFiniteSet({Mixed})
    BY FS_Singleton
  <2> QED BY <2>1, FS_Union DEF Contents
<1>6. IsFiniteSet(Keys)
  BY <1>1, <1>5, FS_Product
<1>7. Cardinality(Contents) \in Nat 
  BY <1>5, FS_CardinalityType
<1>8. Absent \in Int /\ Absent \notin Contents
  BY <1>2 DEF Absent
<1>9. Files \subseteq Nat /\ RealBin \in Files
  BY DEF Files, RealBin
<1> QED BY <1>1, <1>2, <1>4, <1>6, <1>7, <1>8, <1>9

(* Ranks keeps a receipt a receipt, and an entry without one without one.   *)
LEMMA RanksType ==
    ASSUME NEW stamp \in [Keys -> Nat]
    PROVE  Ranks(stamp) \in [Keys -> Nat]
<1>1. ASSUME NEW k \in Keys
      PROVE  Cardinality({j \in Keys : j[1] = k[1] /\ 0 < stamp[j] /\ stamp[j] < stamp[k]}) \in Nat
  <2> DEFINE S == {j \in Keys : j[1] = k[1] /\ 0 < stamp[j] /\ stamp[j] < stamp[k]}
  <2>1. IsFiniteSet(S)
    BY Data, FS_Subset
  <2> QED BY <2>1, FS_CardinalityType
<1> QED BY <1>1 DEF Ranks

LEMMA TypeInit == Init => TypeOK
BY Data DEF Init, TypeOK, CaptureSteps, PruneSteps, HomeSteps


(* A step of a capture, of a prune and of a launcher, each leaving the      *)
(* others' variables alone.                                                 *)
LEMMA TypeCapture ==
    ASSUME TypeOK, NEW c \in Capturers,
           \/ \E b \in Bins : Capture(c, b)
           \/ CaptureStep(c) \/ Fail(c) \/ CrashCapture(c)
    PROVE  TypeOK'
<1> USE Data DEF TypeOK, CaptureSteps, GoC, store, capVars, pruneVars, homeVars, history, others
<1> NoKey[1] \in Bins
  OBVIOUS
<1>1. ASSUME NEW b \in Bins, Capture(c, b) PROVE TypeOK'
  BY <1>1 DEF Capture
<1>2. CASE Install(c)
  <2> PICK v \in Versions :
         staged' = [staged EXCEPT ![cbin[c]] = IF @ \in {Absent, v} THEN v ELSE Mixed]
    BY <1>2 DEF Install
  <2> v \in Contents /\ Mixed \in Contents
    BY DEF Contents
  <2> staged' \in [Bins -> Contents \cup {Absent}]
    OBVIOUS
  <2> QED BY <1>2 DEF Install
<1>3. CASE Admit(c)
  <2> DEFINE k == <<cbin[c], staged[cbin[c]]>>
  <2>1. CASE marker[k]
    BY <1>3, <2>1 DEF Admit
  <2>2. CASE ~marker[k]
    <3>1. rec' = Ranks([rec EXCEPT ![k] = 0])
      BY <1>3, <2>2 DEF Admit
    <3>2. rec' \in [Keys -> Nat]
      BY <3>1, RanksType
    <3> QED BY <1>3, <2>2, <3>2 DEF Admit
  <2> QED BY <2>1, <2>2
<1>4. CASE Rename(c)
  BY <1>4 DEF Rename
<1>5. CASE Freeze(c)
  BY <1>5 DEF Freeze
<1>6. CASE Mark(c)
  BY <1>6 DEF Mark
<1>7. CASE AppendReceipt(c)
  <2>1. PICK t \in NewStamps(cbin[c]) : rec' = Ranks([rec EXCEPT ![Key(c)] = t])
    BY <1>7 DEF AppendReceipt
  <2>2. t \in Nat
    BY <2>1 DEF NewStamps
  <2>3. rec' \in [Keys -> Nat]
    BY <2>1, <2>2, RanksType
  <2> QED BY <1>7, <2>3 DEF AppendReceipt
<1>8. CASE Cleanup(c)
  BY <1>8 DEF Cleanup
<1>9. CASE Fail(c)
  BY <1>9 DEF Fail
<1>10. CASE CrashCapture(c)
  BY <1>10 DEF CrashCapture
<1> QED BY <1>1, <1>2, <1>3, <1>4, <1>5, <1>6, <1>7, <1>8, <1>9, <1>10 DEF CaptureStep

LEMMA TypePrune ==
    ASSUME TypeOK, NEW p \in Pruners,
           \/ List(p) \/ ReadRecords(p) \/ ReapMarker(p)
           \/ ReapTree(p) \/ EndPrune(p) \/ CrashPrune(p)
    PROVE  TypeOK'
<1> USE Data DEF TypeOK, PruneSteps, GoP, store, capVars, pruneVars, homeVars, history, others
<1>1. CASE List(p)
  BY <1>1 DEF List
<1>2. CASE ReadRecords(p)
  BY <1>2 DEF ReadRecords
<1>3. CASE ReapMarker(p)
  BY <1>3 DEF ReapMarker
<1>4. CASE ReapTree(p)
  BY <1>4 DEF ReapTree
<1>5. CASE EndPrune(p)
  BY <1>5 DEF EndPrune
<1>6. CASE CrashPrune(p)
  BY <1>6 DEF CrashPrune
<1> QED BY <1>1, <1>2, <1>3, <1>4, <1>5, <1>6

LEMMA TypeHome ==
    ASSUME TypeOK, NEW h \in Homes,
           \/ Launch(h) \/ ReadManifest(h) \/ Place(h) \/ PlaceFails(h)
           \/ Materialized(h) \/ RunInstaller(h) \/ CrashLaunch(h) \/ Exit(h)
    PROVE  TypeOK'
<1> USE Data DEF TypeOK, HomeSteps, GoH, store, capVars, pruneVars, homeVars, history, others
<1> Versions \subseteq Contents
  BY DEF Contents
<1> 1 \in Files
  BY DEF RealBin
<1>1. CASE Launch(h)
  <2>1. \A b : Selected(b) \subseteq Keys
    BY DEF Selected, Winners
  <2>2. want' \in [Homes -> Keys]
    BY <1>1, <2>1 DEF Launch
  <2>3. GoH(h, "run") \/ GoH(h, "installer") \/ GoH(h, "manifest")
    BY <1>1 DEF Launch
  <2>4. hpc' \in [Homes -> HomeSteps]
    BY <2>3
  <2> QED BY <1>1, <2>2, <2>4 DEF Launch
<1>2. CASE ReadManifest(h)
  BY <1>2 DEF ReadManifest
<1>3. CASE Place(h)
  <2>1. want[h][2] \in Contents
    OBVIOUS
  <2>2. home' \in [Homes -> [Files -> Contents \cup {Absent}]]
    BY <1>3, <2>1 DEF Place
  <2>3. CASE at[h] + 1 \in Files
    <3>1. at' = [at EXCEPT ![h] = at[h] + 1] /\ UNCHANGED hpc
      BY <1>3, <2>3 DEF Place
    <3>2. at' \in [Homes -> Files \cup {0}]
      BY <3>1, <2>3
    <3> QED BY <1>3, <2>2, <3>1, <3>2 DEF Place
  <2>4. CASE at[h] + 1 \notin Files
    BY <1>3, <2>2, <2>4 DEF Place
  <2> QED BY <2>3, <2>4
<1>4. CASE PlaceFails(h)
  BY <1>4 DEF PlaceFails
<1>5. CASE Materialized(h)
  BY <1>5 DEF Materialized
<1>6. CASE RunInstaller(h)
  <2>1. \A v \in Versions : [f \in Files |-> v] \in [Files -> Contents \cup {Absent}]
    OBVIOUS
  <2>2. home' \in [Homes -> [Files -> Contents \cup {Absent}]]
    BY <1>6, <2>1 DEF RunInstaller
  <2>3. hpc' \in [Homes -> HomeSteps]
    BY <1>6 DEF RunInstaller
  <2> QED BY <1>6, <2>2, <2>3 DEF RunInstaller
<1>7. CASE CrashLaunch(h)
  BY <1>7 DEF CrashLaunch
<1>8. CASE Exit(h)
  BY <1>8 DEF Exit
<1> QED BY <1>1, <1>2, <1>3, <1>4, <1>5, <1>6, <1>7, <1>8

LEMMA TypeStep == ASSUME TypeOK, [Next]_vars PROVE TypeOK'
<1>1. CASE UNCHANGED vars
  BY <1>1 DEF TypeOK, vars, store, capVars, pruneVars, homeVars, history
<1> QED BY <1>1, TypeCapture, TypePrune, TypeHome DEF Next

(* Every variable of the store, of captures, prunes and launchers keeps its *)
(* type.                                                                    *)
THEOREM TypeCorrect == Spec => []TypeOK
BY TypeInit, TypeStep, PTL DEF Spec

-----------------------------------------------------------------------------
(* One installer run per entry.                                             *)

(* A capture that runs holds its program's lock, so what it staged is its   *)
(* own; what it is about to move into the store is one version.             *)
CaptureInv(c) ==
    /\ cpc[c] # "idle" => lock[cbin[c]] = c
    /\ cpc[c] = "running" => staged[cbin[c]] = Absent
    /\ cpc[c] = "installed" => staged[cbin[c]] \in Versions
    /\ cpc[c] \in {"rename", "freeze", "mark", "receipt"} => cver[c] \in Versions

EntryInv(k) == dir[k] = "full" => k[2] \in Versions

OneRunInv ==
    /\ TypeOK
    /\ \A c \in Capturers : CaptureInv(c)
    /\ \A k \in Keys : EntryInv(k)

LEMMA OneRunInit == Init => OneRunInv
<1> SUFFICES ASSUME Init PROVE OneRunInv
  OBVIOUS
<1>1. ASSUME NEW c \in Capturers PROVE CaptureInv(c)
  BY DEF Init, CaptureInv
<1>2. ASSUME NEW k \in Keys PROVE EntryInv(k)
  BY DEF Init, EntryInv
<1> QED BY <1>1, <1>2, TypeInit DEF OneRunInv

(* Mutual exclusion per program.                                            *)
LEMMA Alone ==
    ASSUME OneRunInv, NEW c \in Capturers, NEW d \in Capturers,
           cpc[c] # "idle", cpc[d] # "idle", cbin[c] = cbin[d]
    PROVE  c = d
BY DEF OneRunInv, CaptureInv

(* The captures' part of the invariant, step by step.                       *)
LEMMA CaptureInvStep ==
    ASSUME OneRunInv, NEW c \in Capturers, NEW d \in Capturers,
           \/ \E b \in Bins : Capture(c, b)
           \/ CaptureStep(c) \/ Fail(c) \/ CrashCapture(c)
    PROVE  CaptureInv(d)'
<1> USE DEF OneRunInv, TypeOK, CaptureInv, GoC
<1>0. CaptureInv(d) /\ CaptureInv(c)
  OBVIOUS
<1>a. cpc[c] # "idle" /\ cpc[d] # "idle" /\ d # c => cbin[d] # cbin[c]
  BY Alone
<1>1. ASSUME NEW b \in Bins, Capture(c, b) PROVE CaptureInv(d)'
  <2>1. d # c /\ cpc[d] # "idle" => cbin[d] # b
    BY <1>1, <1>0 DEF Capture
  <2> QED BY <1>1, <1>0, <2>1 DEF Capture
<1>2. CASE Install(c)
  <2>1. PICK v \in Versions :
           staged' = [staged EXCEPT ![cbin[c]] = IF @ \in {Absent, v} THEN v ELSE Mixed]
    BY <1>2 DEF Install
  <2>2. staged'[cbin[c]] = v
    BY <1>2, <1>0, <2>1 DEF Install
  <2>3. d # c /\ cpc[d] # "idle" => staged'[cbin[d]] = staged[cbin[d]]
    BY <1>2, <1>a, <2>1 DEF Install
  <2> QED BY <1>2, <1>0, <2>2, <2>3 DEF Install
<1>3. CASE Admit(c)
  <2>1. d # c /\ cpc[d] # "idle" => staged'[cbin[d]] = staged[cbin[d]]
    BY <1>3, <1>a DEF Admit
  <2> QED BY <1>3, <1>0, <2>1 DEF Admit
<1>4. CASE Rename(c)
  <2>1. d # c /\ cpc[d] # "idle" => staged'[cbin[d]] = staged[cbin[d]]
    BY <1>4, <1>a DEF Rename
  <2> QED BY <1>4, <1>0, <2>1 DEF Rename
<1>5. CASE Freeze(c)
  BY <1>5, <1>0 DEF Freeze
<1>6. CASE Mark(c)
  BY <1>6, <1>0 DEF Mark
<1>7. CASE AppendReceipt(c)
  BY <1>7, <1>0 DEF AppendReceipt
<1>8. CASE Cleanup(c)
  <2>1. d # c /\ cpc[d] # "idle" =>
           staged'[cbin[d]] = staged[cbin[d]] /\ lock'[cbin[d]] = lock[cbin[d]]
    BY <1>8, <1>a DEF Cleanup
  <2> QED BY <1>8, <1>0, <2>1 DEF Cleanup
<1>9. CASE Fail(c)
  BY <1>9, <1>0 DEF Fail
<1>10. CASE CrashCapture(c)
  <2>1. d # c /\ cpc[d] # "idle" => lock'[cbin[d]] = lock[cbin[d]]
    BY <1>10, <1>a DEF CrashCapture
  <2> QED BY <1>10, <1>0, <2>1 DEF CrashCapture
<1> QED BY <1>1, <1>2, <1>3, <1>4, <1>5, <1>6, <1>7, <1>8, <1>9, <1>10 DEF CaptureStep

(* What a prune or a launcher leaves alone.                                 *)
LEMMA PruneKeeps ==
    ASSUME NEW p \in Pruners,
           \/ List(p) \/ ReadRecords(p) \/ ReapMarker(p)
           \/ ReapTree(p) \/ EndPrune(p) \/ CrashPrune(p)
    PROVE  UNCHANGED <<frozen, rec, staged, lock, cpc, cbin, cver, hpc, want, at, home>>
BY DEF List, ReadRecords, ReapMarker, ReapTree, EndPrune, CrashPrune, store, capVars, homeVars

LEMMA HomeKeeps ==
    ASSUME NEW h \in Homes,
           \/ Launch(h) \/ ReadManifest(h) \/ Place(h) \/ PlaceFails(h)
           \/ Materialized(h) \/ RunInstaller(h) \/ CrashLaunch(h) \/ Exit(h)
    PROVE  UNCHANGED <<store, capVars, pruneVars, history>>
BY DEF Launch, ReadManifest, Place, PlaceFails, Materialized, RunInstaller, CrashLaunch, Exit,
       store, capVars, pruneVars, history

LEMMA EntryInvStep ==
    ASSUME OneRunInv, [Next]_vars, NEW k \in Keys
    PROVE  EntryInv(k)'
<1> USE DEF OneRunInv, TypeOK, EntryInv
<1>1. ASSUME NEW c \in Capturers,
             \/ \E b \in Bins : Capture(c, b)
             \/ CaptureStep(c) \/ Fail(c) \/ CrashCapture(c)
      PROVE  EntryInv(k)'
  <2>1. CASE Rename(c)
    <3>1. cver[c] \in Versions
      BY <2>1 DEF Rename, CaptureInv
    <3> QED BY <2>1, <3>1 DEF Rename, Key
  <2>2. CASE Admit(c)
    <3>1. dir'[k] \in {dir[k], "none"}
      BY <2>2 DEF Admit, store
    <3> QED BY <3>1
  <2>3. CASE ~Rename(c) /\ ~Admit(c)
    <3>1. UNCHANGED dir
      BY <1>1, <2>3 DEF CaptureStep, Capture, Install, Freeze, Mark, AppendReceipt, Cleanup,
                        Fail, CrashCapture, store
    <3> QED BY <3>1
  <2> QED BY <2>1, <2>2, <2>3
<1>2. ASSUME NEW p \in Pruners,
             \/ List(p) \/ ReadRecords(p) \/ ReapMarker(p)
             \/ ReapTree(p) \/ EndPrune(p) \/ CrashPrune(p)
      PROVE  EntryInv(k)'
  <2>1. dir'[k] \in {dir[k], "bare"}
    BY <1>2 DEF List, ReadRecords, ReapMarker, ReapTree, EndPrune, CrashPrune, store
  <2> QED BY <2>1
<1>3. ASSUME NEW h \in Homes, UNCHANGED store PROVE EntryInv(k)'
  BY <1>3 DEF store
<1>4. CASE UNCHANGED vars
  BY <1>4 DEF vars, store
<1> QED BY <1>1, <1>2, <1>3, <1>4, HomeKeeps DEF Next

LEMMA OneRunStep == ASSUME OneRunInv, [Next]_vars PROVE OneRunInv'
<1>1. TypeOK'
  BY TypeStep DEF OneRunInv
<1>2. \A k \in Keys : EntryInv(k)'
  BY EntryInvStep
<1>3. ASSUME NEW d \in Capturers PROVE CaptureInv(d)'
  <2>1. CASE UNCHANGED capVars
    BY <2>1 DEF OneRunInv, CaptureInv, capVars
  <2> QED BY <2>1, CaptureInvStep, PruneKeeps, HomeKeeps DEF Next, vars, capVars
<1> QED BY <1>1, <1>2, <1>3 DEF OneRunInv

LEMMA OneRunAlways == Spec => []OneRunInv
BY OneRunInit, OneRunStep, PTL DEF Spec

(* An entry is what one run of an installer left, however captures are cut  *)
(* short: a capture stages into a directory it has emptied under its lock.  *)
THEOREM OneRun == Spec => []OneRunPerEntry
<1>1. OneRunInv => OneRunPerEntry
  BY DEF OneRunInv, EntryInv, OneRunPerEntry
<1> QED BY <1>1, OneRunAlways, PTL

-----------------------------------------------------------------------------
(* Torn entries.                                                            *)

(* The entry a capture is filling has no marker, and when the marker comes  *)
(* next its tree is whole, or a prune has taken it meanwhile.               *)
FillingInv(c) ==
    /\ cpc[c] \in {"rename", "freeze", "mark"} => ~marker[Key(c)] /\ Key(c) \in Keys
    /\ cpc[c] = "mark" => Whole(Key(c)) \/ undercut[Key(c)]

TornInv ==
    /\ OneRunInv
    /\ TornOnlyByReap
    /\ \A c \in Capturers : FillingInv(c)

LEMMA TornInit == Init => TornInv
BY OneRunInit DEF Init, TornInv, TornOnlyByReap, FillingInv

(* A prune removes a marker, or a tree: then it records what it undercut.   *)
LEMMA TornPrune ==
    ASSUME TornInv, NEW p \in Pruners,
           \/ List(p) \/ ReadRecords(p) \/ ReapMarker(p)
           \/ ReapTree(p) \/ EndPrune(p) \/ CrashPrune(p)
    PROVE  TornOnlyByReap' /\ \A c \in Capturers : FillingInv(c)'
<1> USE DEF TornInv, OneRunInv, TypeOK, TornOnlyByReap, FillingInv, Whole
<1>1. UNCHANGED <<frozen, cpc, cbin, cver>>
  BY PruneKeeps
<1>2. \A c \in Capturers : Key(c)' = Key(c)
  BY <1>1 DEF Key
<1>3. CASE ReapMarker(p)
  <2>1. PICK k \in Keys : marker' = [marker EXCEPT ![k] = FALSE]
    BY <1>3 DEF ReapMarker
  <2>2. \A j \in Keys : marker'[j] => marker[j]
    BY <2>1
  <2>3. UNCHANGED <<dir, undercut>>
    BY <1>3 DEF ReapMarker, history
  <2> QED BY <1>1, <1>2, <2>2, <2>3
<1>4. CASE ReapTree(p)
  <2>1. /\ UNCHANGED marker
        /\ \A j \in Keys : j # cur[p] => dir'[j] = dir[j] /\ undercut'[j] = undercut[j]
        /\ undercut'[cur[p]] = (undercut[cur[p]] \/ Overtaken(cur[p]))
        /\ cur[p] \in Keys
    BY <1>4 DEF ReapTree
  <2>2. TornOnlyByReap'
    BY <1>1, <2>1 DEF Overtaken
  <2>3. ASSUME NEW c \in Capturers PROVE FillingInv(c)'
    <3>1. cpc[c] = "mark" /\ Key(c) = cur[p] => undercut'[cur[p]]
      BY <2>1 DEF Overtaken
    <3> QED BY <1>1, <1>2, <2>1, <3>1
  <2> QED BY <2>2, <2>3
<1>5. CASE ~ReapMarker(p) /\ ~ReapTree(p)
  <2>1. UNCHANGED <<dir, marker, undercut>>
    BY <1>5 DEF List, ReadRecords, EndPrune, CrashPrune, store, history
  <2> QED BY <1>1, <1>2, <2>1
<1> QED BY <1>3, <1>4, <1>5

(* The steps of a capture up to its marker; another capture's entry is      *)
(* another's key, because it is another program's.                          *)
LEMMA TornCapture ==
    ASSUME TornInv, NEW c \in Capturers,
           \/ \E b \in Bins : Capture(c, b)
           \/ CaptureStep(c) \/ Fail(c) \/ CrashCapture(c)
    PROVE  TornOnlyByReap' /\ \A d \in Capturers : FillingInv(d)'
<1> USE DEF TornInv, OneRunInv, TypeOK, TornOnlyByReap, FillingInv, Whole
<1>a. ASSUME NEW d \in Capturers, d # c, cpc[c] # "idle", cpc[d] # "idle"
      PROVE  cbin[d] # cbin[c]
  BY <1>a, Alone
<1>b. \A d \in Capturers : d # c => cpc'[d] = cpc[d] /\ Key(d)' = Key(d)
  BY DEF CaptureStep, Capture, Install, Admit, Rename, Freeze, Mark, AppendReceipt, Cleanup,
         Fail, CrashCapture, GoC, Key
<1>1. CASE Admit(c)
  <2> DEFINE k == <<cbin[c], staged[cbin[c]]>>
  <2>1. k \in Keys
    BY <1>1 DEF Admit, CaptureInv, Keys, Contents
  <2>2. CASE marker[k]
    <3>1. UNCHANGED <<dir, frozen, marker, undercut>> /\ cpc'[c] = "receipt"
      BY <1>1, <2>2 DEF Admit, store, GoC
    <3> QED BY <1>b, <3>1
  <2>3. CASE ~marker[k]
    <3>1. /\ UNCHANGED marker
          /\ cpc'[c] = "rename" /\ Key(c)' = k
          /\ \A j \in Keys : j # k => /\ dir'[j] = dir[j] /\ frozen'[j] = frozen[j]
                                      /\ undercut'[j] = undercut[j]
      BY <1>1, <2>3 DEF Admit, GoC, Key
    <3>2. ASSUME NEW d \in Capturers, d # c, cpc[d] # "idle" PROVE Key(d) # k
      BY <1>1, <1>a, <3>2 DEF Admit, Key
    <3>3. ASSUME NEW d \in Capturers PROVE FillingInv(d)'
      <4>1. CASE d = c
        BY <2>1, <2>3, <3>1, <4>1
      <4>2. CASE d # c
        BY <1>b, <3>1, <3>2, <4>2
      <4> QED BY <4>1, <4>2
    <3> QED BY <2>3, <3>1, <3>3
  <2> QED BY <2>2, <2>3
<1>2. CASE Rename(c) \/ Freeze(c) \/ Mark(c)
  <2>1. /\ cpc[c] \in {"rename", "freeze", "mark"}
        /\ Key(c)' = Key(c) /\ Key(c) \in Keys /\ ~marker[Key(c)]
        /\ UNCHANGED undercut
    BY <1>2 DEF Rename, Freeze, Mark, Key, others, history
  <2>2. \A j \in Keys : j # Key(c) =>
           dir'[j] = dir[j] /\ frozen'[j] = frozen[j] /\ marker'[j] = marker[j]
    BY <1>2 DEF Rename, Freeze, Mark
  <2>3. ASSUME NEW d \in Capturers, d # c, cpc[d] # "idle" PROVE Key(d) # Key(c)
    BY <1>a, <2>1, <2>3 DEF Key
  <2>4. ASSUME NEW d \in Capturers, d # c PROVE FillingInv(d)'
    BY <1>b, <2>1, <2>2, <2>3, <2>4
  <2>5. CASE Rename(c)
    <3>1. UNCHANGED marker /\ cpc'[c] = "freeze"
      BY <2>5 DEF Rename, GoC
    <3> QED BY <2>1, <2>2, <2>4, <3>1
  <2>6. CASE Freeze(c)
    <3>1. UNCHANGED <<marker, dir>>
      BY <2>6 DEF Freeze
    <3>2. CASE dir[Key(c)] = "full"
      <4>1. frozen'[Key(c)] /\ dir'[Key(c)] = "full"
        BY <2>1, <2>6, <3>1, <3>2 DEF Freeze
      <4> QED BY <2>1, <2>2, <2>4, <3>1, <4>1
    <3>3. CASE dir[Key(c)] # "full"
      <4>1. cpc'[c] = "cleanup"
        BY <2>6, <3>3 DEF Freeze, GoC
      <4> QED BY <2>1, <2>2, <2>4, <3>1, <4>1
    <3> QED BY <3>2, <3>3
  <2>7. CASE Mark(c)
    <3>1. UNCHANGED <<dir, frozen>> /\ cpc[c] = "mark" /\ cpc'[c] = "receipt"
      BY <2>7 DEF Mark, GoC
    <3> QED BY <2>1, <2>2, <2>4, <3>1
  <2> QED BY <1>2, <2>5, <2>6, <2>7
<1>3. CASE ~Admit(c) /\ ~Rename(c) /\ ~Freeze(c) /\ ~Mark(c)
  <2>1. UNCHANGED <<dir, frozen, marker, undercut>> /\ cpc'[c] \notin {"rename", "freeze", "mark"}
    BY <1>3 DEF CaptureStep, Capture, Install, AppendReceipt, Cleanup, Fail, CrashCapture, GoC,
                store, others, history
  <2> QED BY <1>b, <2>1
<1> QED BY <1>1, <1>2, <1>3

LEMMA TornStep == ASSUME TornInv, [Next]_vars PROVE TornInv'
<1>1. OneRunInv'
  BY OneRunStep DEF TornInv
<1>2. CASE UNCHANGED <<store, capVars, history>>
  <2>1. UNCHANGED <<dir, frozen, marker, undercut, cpc>> /\ \A c \in Capturers : Key(c)' = Key(c)
    BY <1>2 DEF store, capVars, history, Key
  <2> QED BY <1>1, <2>1 DEF TornInv, TornOnlyByReap, FillingInv, Whole
<1> QED BY <1>1, <1>2, TornPrune, TornCapture, HomeKeeps DEF Next, vars, TornInv

(* A complete entry is a whole frozen tree unless a prune undercut the      *)
(* capture that made it.                                                    *)
THEOREM TornByReap == Spec => []TornOnlyByReap
<1>1. TornInv => TornOnlyByReap
  BY DEF TornInv
<1> QED BY <1>1, TornInit, TornStep, PTL DEF Spec

-----------------------------------------------------------------------------
(* Materialize.                                                             *)

(* The paths before the next one hold the wanted content.                   *)
PlacedInv(h) ==
    /\ hpc[h] = "placing" => at[h] \in Files
    /\ hpc[h] = "placing" => \A f \in Files : f < at[h] => home[h][f] = want[h][2]
    /\ hpc[h] = "placed" => \A f \in Files : home[h][f] = want[h][2]

MaterializeInv == TypeOK /\ \A h \in Homes : PlacedInv(h)

LEMMA MaterializeStep == ASSUME MaterializeInv, [Next]_vars PROVE MaterializeInv'
<1> USE DEF MaterializeInv, TypeOK, PlacedInv
<1>0. TypeOK'
  BY TypeStep
<1>1. CASE UNCHANGED homeVars
  BY <1>0, <1>1 DEF homeVars
<1>2. ASSUME NEW h \in Homes, NEW g \in Homes,
             \/ Launch(h) \/ ReadManifest(h) \/ Place(h) \/ PlaceFails(h)
             \/ Materialized(h) \/ RunInstaller(h) \/ CrashLaunch(h) \/ Exit(h)
      PROVE  PlacedInv(g)'
  <2>1. CASE g # h
    <3>1. hpc'[g] = hpc[g] /\ at'[g] = at[g] /\ home'[g] = home[g] /\ want'[g] = want[g]
      BY <1>2, <2>1 DEF Launch, ReadManifest, Place, PlaceFails, Materialized, RunInstaller,
                        CrashLaunch, Exit, GoH
    <3> QED BY <3>1
  <2>2. CASE g = h /\ ReadManifest(h)
    <3>1. hpc'[h] # "placed" /\ (hpc'[h] = "placing" => at'[h] = 1)
      BY <2>2 DEF ReadManifest, GoH
    <3>2. 1 \in Files /\ \A f \in Files : ~(f < 1)
      BY DEF Files
    <3> QED BY <2>2, <3>1, <3>2
  <2>3. CASE g = h /\ Place(h)
    <3>1. /\ hpc[h] = "placing" /\ at[h] \in Files
          /\ \A f \in Files : f # at[h] => home'[h][f] = home[h][f]
          /\ home'[h][at[h]] = want[h][2]
          /\ want'[h] = want[h]
      BY <2>3 DEF Place
    <3>2. CASE at[h] + 1 \in Files
      <4>1. at'[h] = at[h] + 1 /\ hpc'[h] = "placing"
        BY <2>3, <3>1, <3>2 DEF Place
      <4>2. \A f \in Files : f < at[h] + 1 => f = at[h] \/ f < at[h]
        BY <3>1 DEF Files
      <4> QED BY <2>3, <3>1, <3>2, <4>1, <4>2
    <3>3. CASE at[h] + 1 \notin Files
      <4>1. hpc'[h] = "placed"
        BY <2>3, <3>3 DEF Place, GoH
      <4>2. \A f \in Files : f = at[h] \/ f < at[h]
        BY <3>1, <3>3 DEF Files
      <4> QED BY <2>3, <3>1, <4>1, <4>2
    <3> QED BY <3>2, <3>3
  <2>4. CASE g = h /\ ~ReadManifest(h) /\ ~Place(h)
    <3>1. hpc'[h] \notin {"placing", "placed"}
      BY <1>2, <2>4 DEF Launch, PlaceFails, Materialized, RunInstaller, CrashLaunch, Exit, GoH
    <3> QED BY <2>4, <3>1
  <2> QED BY <2>1, <2>2, <2>3, <2>4
<1>3. ASSUME NEW c \in Capturers,
             \/ \E b \in Bins : Capture(c, b)
             \/ CaptureStep(c) \/ Fail(c) \/ CrashCapture(c)
      PROVE  UNCHANGED homeVars
  BY <1>3 DEF CaptureStep, Capture, Install, Admit, Rename, Freeze, Mark, AppendReceipt, Cleanup,
              Fail, CrashCapture, others
<1> QED BY <1>0, <1>1, <1>2, <1>3, PruneKeeps DEF Next, vars, homeVars

(* Whatever is captured and reaped while it runs, a materialize that        *)
(* reports success has put one whole content in the home.                   *)
THEOREM MaterializeWhole == Spec => []MaterializedIsWhole
<1>1. Init => MaterializeInv
  BY TypeInit DEF Init, MaterializeInv, PlacedInv
<1>2. MaterializeInv => MaterializedIsWhole
  BY DEF MaterializeInv, PlacedInv, MaterializedIsWhole
<1> QED BY <1>1, <1>2, MaterializeStep, PTL DEF Spec

-----------------------------------------------------------------------------
(* What a prune leaves.                                                     *)

(* Re-ranking the receipts keeps their order within a program, and keeps an *)
(* entry without a receipt one without.                                     *)
LEMMA RanksOrder ==
    ASSUME NEW stamp \in [Keys -> Nat], NEW i \in Keys, NEW j \in Keys, i[1] = j[1]
    PROVE  /\ Ranks(stamp)[i] = 0 <=> stamp[i] = 0
           /\ Ranks(stamp)[i] < Ranks(stamp)[j] <=> stamp[i] < stamp[j]
           /\ Ranks(stamp)[i] = Ranks(stamp)[j] <=> stamp[i] = stamp[j]
<1> DEFINE Older(k) == {m \in Keys : m[1] = k[1] /\ 0 < stamp[m] /\ stamp[m] < stamp[k]}
<1>1. \A k \in Keys : IsFiniteSet(Older(k)) /\ Cardinality(Older(k)) \in Nat
  <2> TAKE k \in Keys
  <2>1. IsFiniteSet(Older(k))
    BY Data, FS_Subset
  <2> QED BY <2>1, FS_CardinalityType
<1>2. \A k \in Keys : Ranks(stamp)[k] = IF stamp[k] = 0 THEN 0 ELSE Cardinality(Older(k)) + 1
  BY DEF Ranks
<1>3. ASSUME NEW a \in Keys, NEW b \in Keys, a[1] = b[1], 0 < stamp[a], stamp[a] < stamp[b]
      PROVE  Cardinality(Older(a)) < Cardinality(Older(b))
  <2>1. Older(a) \subseteq Older(b)
    BY <1>3
  <2>2. a \in Older(b) /\ a \notin Older(a)
    BY <1>3
  <2> HIDE DEF Older
  <2>3. Cardinality(Older(a)) <= Cardinality(Older(b)) /\ Cardinality(Older(a)) # Cardinality(Older(b))
    BY <1>1, <2>1, <2>2, FS_Subset
  <2> QED BY <1>1, <2>3
<1>4. ASSUME stamp[i] = stamp[j] PROVE Older(i) = Older(j)
  BY <1>4
<1> HIDE DEF Older
<1>5. Cardinality(Older(i)) \in Nat /\ Cardinality(Older(j)) \in Nat /\ stamp[i] \in Nat /\ stamp[j] \in Nat
  BY <1>1
<1>6. CASE stamp[i] = 0 \/ stamp[j] = 0
  BY <1>2, <1>5, <1>6
<1>7. CASE stamp[i] # 0 /\ stamp[j] # 0 /\ stamp[i] < stamp[j]
  BY <1>2, <1>3, <1>5, <1>7
<1>8. CASE stamp[i] # 0 /\ stamp[j] # 0 /\ stamp[j] < stamp[i]
  BY <1>2, <1>3, <1>5, <1>8
<1>9. CASE stamp[i] # 0 /\ stamp[i] = stamp[j]
  BY <1>2, <1>4, <1>5, <1>9
<1> QED BY <1>5, <1>6, <1>7, <1>8, <1>9

(* The receipts of program b are in the order they were in.                 *)
SameOrder(b) ==
    \A i, j \in Keys : i[1] = b /\ j[1] = b =>
        /\ rec'[i] = 0 <=> rec[i] = 0
        /\ rec'[i] < rec'[j] <=> rec[i] < rec[j]
        /\ rec'[i] = rec'[j] <=> rec[i] = rec[j]

(* The entry w is preferred to the entry j of the same program.             *)
Outranks(w, j) == rec[j] < rec[w] \/ (rec[j] = rec[w] /\ j[2] <= w[2])

(* What a prune that has listed its candidates, and one that has chosen     *)
(* among them, know of the entry the resolver would select now.             *)
SurvivorInv(p, w) ==
    /\ ppc[p] = "listed" => /\ w \in victims[p]
                            /\ \A j \in victims[p] : j[1] = w[1] => Outranks(w, j)
    /\ ppc[p] \in {"reaping", "unlinking"} => w \notin victims[p]

SelectionInv ==
    /\ OneRunInv
    /\ \A b \in Bins : Capturing(b) /\ Pruning => crossed[b]
    /\ \A p \in Pruners : \A w \in Winners(StoreView) : ~crossed[w[1]] => SurvivorInv(p, w)

(* Two keys of one program are never both outranked by the other.           *)
LEMMA LexTotal ==
    \A a, b, c, d \in Nat : \/ a < b \/ (a = b /\ c <= d)
                            \/ b < a \/ (b = a /\ d <= c)
OBVIOUS

(* Winning, said of the store's own variables.                              *)
LEMMA Winning ==
    ASSUME TypeOK, NEW w \in Keys
    PROVE  w \in Winners(StoreView) <=>
             /\ marker[w] /\ rec[w] > 0
             /\ \A j \in Keys : j[1] = w[1] /\ marker[j] => Outranks(w, j)
<1> USE Data DEF TypeOK
<1>1. \A k \in Keys : StoreView[k] = IF marker[k] THEN rec[k] ELSE 0
  BY DEF StoreView
<1>2. rec[w] \in Nat /\ w[2] \in Nat /\ \A j \in Keys : rec[j] \in Nat /\ j[2] \in Nat
  OBVIOUS
<1> QED BY <1>1, <1>2 DEF Winners, Wins, Outranks

(* The order of receipts and the markers decide who wins.                   *)
LEMMA SameWinners ==
    ASSUME TypeOK, TypeOK', NEW w \in Keys, SameOrder(w[1]),
           \A k \in Keys : k[1] = w[1] => marker'[k] = marker[k]
    PROVE  /\ (w \in Winners(StoreView))' <=> w \in Winners(StoreView)
           /\ \A j \in Keys : j[1] = w[1] => (Outranks(w, j)' <=> Outranks(w, j))
<1>1. (w \in Winners(StoreView))' <=>
        /\ marker'[w] /\ rec'[w] > 0
        /\ \A j \in Keys : j[1] = w[1] /\ marker'[j] => Outranks(w, j)'
  <2>1. \A k \in Keys : StoreView'[k] = IF marker'[k] THEN rec'[k] ELSE 0
    BY DEF StoreView
  <2>2. rec'[w] \in Nat /\ w[2] \in Nat /\ \A j \in Keys : rec'[j] \in Nat /\ j[2] \in Nat
    BY Data DEF TypeOK
  <2> QED BY <2>1, <2>2 DEF Winners, Wins, Outranks
<1>2. \A j \in Keys : j[1] = w[1] => (Outranks(w, j)' <=> Outranks(w, j))
  BY DEF SameOrder, Outranks
<1>3. rec'[w] > 0 <=> rec[w] > 0
  BY DEF SameOrder, TypeOK
<1> QED BY <1>1, <1>2, <1>3, Winning

(* A prune, or an unlocking of its own, forgets no overlap.                 *)
LEMMA CrossedStays ==
    ASSUME TypeOK, [Next]_vars, NEW b \in Bins, crossed[b]
    PROVE  crossed'[b]
<1> USE DEF TypeOK
<1>1. ASSUME NEW c \in Capturers,
             \/ \E d \in Bins : Capture(c, d)
             \/ CaptureStep(c) \/ Fail(c) \/ CrashCapture(c)
      PROVE  crossed'[b]
  BY <1>1 DEF CaptureStep, Capture, Install, Admit, Rename, Freeze, Mark, AppendReceipt, Cleanup,
              Fail, CrashCapture, others, history
<1>2. ASSUME NEW p \in Pruners,
             \/ List(p) \/ ReadRecords(p) \/ ReapMarker(p)
             \/ ReapTree(p) \/ EndPrune(p) \/ CrashPrune(p)
      PROVE  crossed'[b]
  BY <1>2 DEF List, ReadRecords, ReapMarker, ReapTree, EndPrune, CrashPrune, history
<1> QED BY <1>1, <1>2, HomeKeeps DEF Next, vars, history

(* A step of a capture changes markers and receipts of its own program only, *)
(* and the receipts of another keep their order.                            *)
LEMMA CaptureKeepsOthers ==
    ASSUME OneRunInv, NEW c \in Capturers,
           \/ \E b \in Bins : Capture(c, b)
           \/ CaptureStep(c) \/ Fail(c) \/ CrashCapture(c),
           NEW d \in Bins, cpc[c] = "idle" \/ cbin[c] # d
    PROVE  SameOrder(d) /\ \A k \in Keys : k[1] = d => marker'[k] = marker[k]
<1> USE DEF OneRunInv, TypeOK
<1>1. CASE Admit(c)
  <2> DEFINE k == <<cbin[c], staged[cbin[c]]>>
              s == [rec EXCEPT ![k] = 0]
  <2>1. k \in Keys /\ k[1] # d /\ UNCHANGED marker
    BY <1>1 DEF Admit, CaptureInv, Keys, Contents, store
  <2>2. s \in [Keys -> Nat] /\ \A j \in Keys : j[1] = d => s[j] = rec[j]
    BY <2>1
  <2>3. rec' = rec \/ rec' = Ranks(s)
    BY <1>1 DEF Admit, store
  <2> HIDE DEF s
  <2>4. SameOrder(d)
    BY <2>2, <2>3, RanksOrder DEF SameOrder
  <2> QED BY <2>1, <2>4
<1>2. CASE AppendReceipt(c)
  <2>1. PICK t \in NewStamps(cbin[c]) : rec' = Ranks([rec EXCEPT ![Key(c)] = t])
    BY <1>2 DEF AppendReceipt
  <2> DEFINE s == [rec EXCEPT ![Key(c)] = t]
  <2>0. Key(c)[1] # d /\ t \in Nat
    BY <1>2, <2>1 DEF NewStamps, Key, AppendReceipt
  <2>2. s \in [Keys -> Nat] /\ \A j \in Keys : j[1] = d => s[j] = rec[j]
    BY <2>0
  <2>3. rec' = Ranks(s)
    BY <2>1
  <2> HIDE DEF s
  <2>4. SameOrder(d)
    BY <2>2, <2>3, RanksOrder DEF SameOrder
  <2> QED BY <1>2, <2>4 DEF AppendReceipt
<1>3. CASE Mark(c)
  <2>0. Key(c)[1] # d /\ marker' = [marker EXCEPT ![Key(c)] = TRUE]
    BY <1>3 DEF Mark, Key
  <2>1. \A k \in Keys : k[1] = d => marker'[k] = marker[k]
    BY <2>0
  <2> QED BY <1>3, <2>1 DEF Mark, SameOrder
<1>4. CASE ~Admit(c) /\ ~AppendReceipt(c) /\ ~Mark(c)
  <2>1. UNCHANGED <<marker, rec>>
    BY <1>4 DEF CaptureStep, Capture, Install, Rename, Freeze, Cleanup, Fail, CrashCapture,
                store, others
  <2> QED BY <2>1 DEF SameOrder
<1> QED BY <1>1, <1>2, <1>3, <1>4

(* Captures do not touch what the prunes know of programs they never        *)
(* overlapped.                                                              *)
LEMMA SelectionCapture ==
    ASSUME SelectionInv, [Next]_vars, OneRunInv', NEW c \in Capturers,
           \/ \E b \in Bins : Capture(c, b)
           \/ CaptureStep(c) \/ Fail(c) \/ CrashCapture(c)
    PROVE  SelectionInv'
<1> USE DEF SelectionInv, OneRunInv, TypeOK
<1>1. UNCHANGED pruneVars
  BY DEF CaptureStep, Capture, Install, Admit, Rename, Freeze, Mark, AppendReceipt, Cleanup,
         Fail, CrashCapture, others
<1>2. Pruning' = Pruning
  BY <1>1 DEF Pruning, pruneVars
<1>3. ASSUME NEW b \in Bins, Capturing(b)', Pruning' PROVE crossed'[b]
  <2>1. CASE Capturing(b)
    BY <1>2, <1>3, <2>1, CrossedStays
  <2>2. CASE ~Capturing(b)
    <3>1. PICK e \in Capturers : cpc'[e] # "idle" /\ cbin'[e] = b
      BY <1>3 DEF Capturing
    <3>2. cpc[e] = "idle" \/ cbin[e] # b
      BY <2>2 DEF Capturing
    <3>3. \E d \in Bins : Capture(c, d) /\ d = b
      BY <3>1, <3>2 DEF CaptureStep, Capture, Install, Admit, Rename, Freeze, Mark, AppendReceipt,
                        Cleanup, Fail, CrashCapture, GoC
    <3> QED BY <1>2, <1>3, <3>3 DEF Capture
  <2> QED BY <2>1, <2>2
<1>4. ASSUME NEW p \in Pruners, NEW w \in Keys, (w \in Winners(StoreView))', ~crossed'[w[1]],
             ppc[p] # "idle"
      PROVE  SurvivorInv(p, w)'
  <2>1. w[1] \in Bins /\ ~crossed[w[1]]
    BY <1>4, Data, CrossedStays
  <2>2. cpc[c] = "idle" \/ cbin[c] # w[1]
    BY <1>4, <2>1 DEF Capturing, Pruning
  <2>3. SameOrder(w[1]) /\ \A k \in Keys : k[1] = w[1] => marker'[k] = marker[k]
    BY <2>1, <2>2, CaptureKeepsOthers
  <2>4. /\ w \in Winners(StoreView)
        /\ \A j \in Keys : j[1] = w[1] => (Outranks(w, j)' <=> Outranks(w, j))
    BY <1>4, <2>3, SameWinners
  <2>5. SurvivorInv(p, w)
    BY <2>1, <2>4
  <2> QED BY <1>1, <2>4, <2>5 DEF SurvivorInv, pruneVars
<1>5. ASSUME NEW p \in Pruners, NEW w \in Keys, ppc[p] = "idle" PROVE SurvivorInv(p, w)'
  BY <1>1, <1>5 DEF SurvivorInv, pruneVars
<1>6. \A p \in Pruners : \A w \in Winners(StoreView)' : ~crossed'[w[1]] => SurvivorInv(p, w)'
  BY <1>4, <1>5 DEF Winners
<1> QED BY <1>3, <1>6

(* The reap of a marker leaves every program's winner standing, where no    *)
(* capture of it has overlapped: whoever wins afterwards won before.        *)
LEMMA ReapKeepsWinners ==
    ASSUME SelectionInv, NEW p \in Pruners, ReapMarker(p), OneRunInv',
           NEW w \in Keys, (w \in Winners(StoreView))', ~crossed[w[1]]
    PROVE  w \in Winners(StoreView)
<1> USE DEF SelectionInv, OneRunInv, TypeOK
<1>1. PICK k \in victims[p] : marker' = [marker EXCEPT ![k] = FALSE]
  BY DEF ReapMarker
<1>2. k \in Keys /\ UNCHANGED rec /\ ppc[p] = "reaping"
  BY DEF ReapMarker
<1>3. /\ marker'[w] /\ rec[w] > 0
      /\ \A j \in Keys : j[1] = w[1] /\ marker'[j] => Outranks(w, j)
  <2>1. \A j \in Keys : StoreView'[j] = IF marker'[j] THEN rec'[j] ELSE 0
    BY DEF StoreView
  <2>2. rec'[w] \in Nat /\ w[2] \in Nat /\ \A j \in Keys : rec'[j] \in Nat /\ j[2] \in Nat
    BY Data
  <2> QED BY <1>2, <2>1, <2>2 DEF Winners, Wins, Outranks
<1>4. marker[w] /\ w # k
  BY <1>1, <1>2, <1>3
<1>5. CASE k[1] # w[1] \/ ~marker[k] \/ Outranks(w, k)
  BY <1>1, <1>2, <1>3, <1>4, <1>5, Winning
<1>6. CASE k[1] = w[1] /\ marker[k] /\ ~Outranks(w, k)
  <2>1. rec[w] \in Nat /\ rec[k] \in Nat /\ w[2] \in Nat /\ k[2] \in Nat
        /\ \A j \in Keys : rec[j] \in Nat /\ j[2] \in Nat
    BY <1>2, Data
  <2>2. Outranks(k, w) /\ Outranks(k, k) /\ rec[k] > 0
    <3>1. rec[w] > 0
      BY <1>3
    <3>2. ~(rec[k] < rec[w]) /\ ~(rec[k] = rec[w] /\ k[2] <= w[2])
      BY <1>6 DEF Outranks
    <3>3. rec[w] < rec[k] \/ (rec[w] = rec[k] /\ w[2] <= k[2])
      BY <2>1, <3>2, LexTotal
    <3> QED BY <2>1, <3>1, <3>3 DEF Outranks
  <2>3. ASSUME NEW j \in Keys, j[1] = k[1], marker[j], j # k PROVE Outranks(k, j)
    <3>1. Outranks(w, j)
      BY <1>1, <1>2, <1>3, <1>6, <2>3
    <3> QED BY <2>1, <2>2, <3>1 DEF Outranks
  <2>4. k \in Winners(StoreView)
    BY <1>2, <1>6, <2>2, <2>3, Winning
  <2>5. SurvivorInv(p, k)
    BY <1>6, <2>4
  <2> QED BY <1>2, <2>5 DEF SurvivorInv
<1> QED BY <1>5, <1>6

(* The steps of a prune, seen by itself and by the others.                  *)
LEMMA SelectionPrune ==
    ASSUME SelectionInv, [Next]_vars, OneRunInv', NEW p \in Pruners,
           \/ List(p) \/ ReadRecords(p) \/ ReapMarker(p)
           \/ ReapTree(p) \/ EndPrune(p) \/ CrashPrune(p)
    PROVE  SelectionInv'
<1> USE DEF SelectionInv, OneRunInv, TypeOK
<1>1. UNCHANGED <<rec, cpc, cbin>>
  BY PruneKeeps
<1>2. ASSUME NEW b \in Bins, Capturing(b)', Pruning' PROVE crossed'[b]
  <2>1. Capturing(b)
    BY <1>1, <1>2 DEF Capturing
  <2>2. CASE List(p)
    BY <2>1, <2>2 DEF List
  <2>3. CASE ~List(p)
    <3>1. \A q \in Pruners : ppc'[q] # "idle" => ppc[q] # "idle"
      BY <2>3 DEF ReadRecords, ReapMarker, ReapTree, EndPrune, CrashPrune, GoP
    <3> QED BY <1>2, <2>1, <3>1, CrossedStays DEF Pruning
  <2> QED BY <2>2, <2>3
<1>3. \A q \in Pruners \ {p} : ppc'[q] = ppc[q] /\ victims'[q] = victims[q]
  BY DEF List, ReadRecords, ReapMarker, ReapTree, EndPrune, CrashPrune, GoP
<1>4. ASSUME NEW w \in Keys, (w \in Winners(StoreView))', ~crossed'[w[1]]
      PROVE  w \in Winners(StoreView) /\ ~crossed[w[1]] /\ \A q \in Pruners : SurvivorInv(q, w)
  <2>1. w[1] \in Bins /\ ~crossed[w[1]]
    BY <1>4, Data, CrossedStays
  <2>2. CASE ReapMarker(p)
    BY <1>4, <2>1, <2>2, ReapKeepsWinners
  <2>3. CASE ~ReapMarker(p)
    <3>1. UNCHANGED <<marker, rec>>
      BY <1>1, <2>3 DEF List, ReadRecords, ReapTree, EndPrune, CrashPrune, store
    <3>2. (w \in Winners(StoreView))' <=> w \in Winners(StoreView)
      BY <3>1 DEF StoreView, Winners, Wins
    <3> QED BY <1>4, <2>1, <3>2
  <2> QED BY <2>1, <2>2, <2>3
<1>5. ASSUME NEW w \in Keys, (w \in Winners(StoreView))', ~crossed'[w[1]]
      PROVE  \A q \in Pruners \ {p} : SurvivorInv(q, w)'
  BY <1>1, <1>3, <1>4, <1>5 DEF SurvivorInv, Outranks
<1>6. ASSUME NEW w \in Keys, (w \in Winners(StoreView))', ~crossed'[w[1]]
      PROVE  SurvivorInv(p, w)'
  <2>0. w \in Winners(StoreView) /\ ~crossed[w[1]] /\ SurvivorInv(p, w)
    BY <1>4, <1>6
  <2>1. CASE List(p)
    <3>1. victims'[p] = {k \in Keys : marker[k]} /\ ppc'[p] = "listed"
      BY <2>1 DEF List, GoP
    <3>2. marker[w] /\ \A j \in Keys : j[1] = w[1] /\ marker[j] => Outranks(w, j)
      BY <2>0, Winning
    <3> QED BY <1>1, <3>1, <3>2 DEF SurvivorInv, Outranks
  <2>2. CASE ReadRecords(p)
    <3> DEFINE view == [k \in Keys |-> IF k \in victims[p] THEN rec[k] ELSE 0]
    <3>1. /\ ppc[p] = "listed" /\ ppc'[p] = "reaping"
          /\ victims'[p] = victims[p] \ Winners(view)
      BY <2>2 DEF ReadRecords, GoP
    <3>2. w \in victims[p] /\ \A j \in victims[p] : j[1] = w[1] => Outranks(w, j)
      BY <2>0, <3>1 DEF SurvivorInv
    <3>3. rec[w] > 0 /\ \A j \in Keys : rec[j] \in Nat /\ j[2] \in Nat
      BY <2>0, Winning, Data
    <3>4. Wins(view, w)
      BY <3>2, <3>3 DEF Wins, Outranks
    <3> QED BY <3>1, <3>4 DEF SurvivorInv, Winners
  <2>3. CASE ReapMarker(p)
    BY <2>0, <2>3 DEF ReapMarker, GoP, SurvivorInv
  <2>4. CASE ReapTree(p)
    BY <2>0, <2>4 DEF ReapTree, GoP, SurvivorInv
  <2>5. CASE EndPrune(p) \/ CrashPrune(p)
    BY <2>5 DEF EndPrune, CrashPrune, GoP, SurvivorInv
  <2> QED BY <2>1, <2>2, <2>3, <2>4, <2>5
<1>7. \A q \in Pruners : \A w \in Winners(StoreView)' : ~crossed'[w[1]] => SurvivorInv(q, w)'
  BY <1>5, <1>6 DEF Winners
<1> QED BY <1>2, <1>7

LEMMA SelectionStep == ASSUME SelectionInv, [Next]_vars PROVE SelectionInv'
<1>1. OneRunInv'
  BY OneRunStep DEF SelectionInv
<1>2. ASSUME UNCHANGED <<store, capVars, pruneVars, history>> PROVE SelectionInv'
  <2>1. UNCHANGED <<marker, rec, cpc, cbin, ppc, victims, crossed>>
    BY <1>2 DEF store, capVars, pruneVars, history
  <2> QED BY <1>1, <2>1 DEF SelectionInv, SurvivorInv, Capturing, Pruning, StoreView, Winners, Wins,
                            Outranks
<1> QED BY <1>1, <1>2, SelectionCapture, SelectionPrune, HomeKeeps DEF Next, vars

LEMMA SelectionAlways == Spec => []SelectionInv
<1>1. Init => SelectionInv
  BY OneRunInit DEF Init, SelectionInv, SurvivorInv, Capturing
<1> QED BY <1>1, SelectionStep, PTL DEF Spec

(* gc.go: the reap is "the COMPLEMENT" of the selection.  However many      *)
(* prunes run at once, and wherever they and the captures are killed, a     *)
(* prune removes no entry the resolver would select, unless a capture of    *)
(* its program and a prune have overlapped.                                 *)
THEOREM ReapSparesSelection == Spec => SelectionSurvives
<1>1. SelectionInv /\ [Next]_vars =>
        [\A k \in Winners(StoreView) : marker'[k] \/ crossed[k[1]]]_vars
  <2> SUFFICES ASSUME SelectionInv, [Next]_vars, NEW k \in Winners(StoreView), ~crossed[k[1]]
               PROVE  marker'[k]
    OBVIOUS
  <2> USE DEF SelectionInv, OneRunInv, TypeOK
  <2>1. k \in Keys /\ marker[k]
    BY Winning DEF Winners
  <2>2. ASSUME NEW p \in Pruners, ReapMarker(p) PROVE marker'[k]
    <3>1. k \notin victims[p]
      BY <2>2 DEF SurvivorInv, ReapMarker
    <3> QED BY <2>1, <2>2, <3>1 DEF ReapMarker
  <2>3. ASSUME NEW p \in Pruners,
               List(p) \/ ReadRecords(p) \/ ReapTree(p) \/ EndPrune(p) \/ CrashPrune(p)
        PROVE  marker'[k]
    BY <2>1, <2>3 DEF List, ReadRecords, ReapTree, EndPrune, CrashPrune, store
  <2>4. ASSUME NEW c \in Capturers,
               \/ \E b \in Bins : Capture(c, b)
               \/ CaptureStep(c) \/ Fail(c) \/ CrashCapture(c)
        PROVE  marker'[k]
    BY <2>1, <2>4 DEF CaptureStep, Capture, Install, Admit, Rename, Freeze, Mark, AppendReceipt,
                      Cleanup, Fail, CrashCapture, store, others
  <2>5. CASE UNCHANGED store
    BY <2>1, <2>5 DEF store
  <2> QED BY <2>2, <2>3, <2>4, <2>5, HomeKeeps DEF Next, vars
<1> QED BY <1>1, SelectionAlways, PTL DEF Spec, SelectionSurvives

=============================================================================
