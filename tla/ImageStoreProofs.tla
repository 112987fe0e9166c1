--------------------------- MODULE ImageStoreProofs ---------------------------
(***************************************************************************)
(* Proofs about ImageStore for any number of workspaces and images.         *)
(***************************************************************************)
EXTENDS ImageStore, TLAPS

(* A launch that has set out is about an image.                             *)
Wanting == \A w \in Workspaces : pc[w] \notin {"off", "up"} => want[w] \in Images

(* Whoever copies holds the copy lock, and what it copies is not there, or  *)
(* is there without its having been told.                                   *)
CopyHeld == \A w \in Workspaces : pc[w] = "writing" <=> copylock = w
NotThere ==
    \A w \in Workspaces : pc[w] = "writing" /\ want[w] \in present => w \in blind

(* The auto sweep is under the housekeeping lock from end to end, so the    *)
(* pointers it has read are the pointers there are, but for those of the    *)
(* workspaces that were away.                                               *)
SweepLocked == hlock = "auto" <=> spc["auto"] # "idle"
ReadKept == spc["auto"] = "list" => PointedBy(seen) \subseteq keep["auto"]

(* The workspace's directory goes or comes.                                 *)
Away(w) == Delete(w) \/ Return(w)

(* A copy whose launch was killed ends.                                     *)
Orphan(i) == OrphanLands(i) \/ OrphanFails(i)

(* The actions that set out have the same effect on all but want and ref.   *)
Begins(w) == StockHit(w) \/ BuildUnasked(w) \/ RunStale(w) \/ \E i \in Images : Build(w, i)

LEMMA StepCases ==
    ASSUME [Next]_vars
    PROVE  \/ \E w \in Workspaces : Begins(w)
           \/ \E w \in Workspaces : LaunchStep(w)
           \/ \E w \in Workspaces : Stop(w) \/ Kill(w) \/ Away(w)
           \/ \E i \in Images : Orphan(i)
           \/ \E s \in Sweepers : ReadPointers(s) \/ Unanswered(s) \/ CutShort(s)
           \/ \E s \in Sweepers : SweepStep(s)
           \/ UNCHANGED vars
BY DEF Next, Launch, Sweep, Begins, Away, Orphan

LEMMA Names == "auto" \in Sweepers /\ NoImage \notin Images
BY ConstantsAssumption DEF Sweepers

LEMMA BeginsCases ==
    ASSUME TypeOK, NEW w \in Workspaces, Begins(w)
    PROVE  \E i \in Images, name \in {"content", "stock", "latest"},
              step \in {"inspect", "start"} :
               SetOut(w, i, name, step) /\ (faults' = faults \/ Fault)
<1>1. CASE StockHit(w)
  BY <1>1, ConstantsAssumption DEF StockHit
<1>2. CASE BuildUnasked(w)
  BY <1>2, ConstantsAssumption DEF BuildUnasked
<1>3. CASE RunStale(w)
  <2> latest \in Images
    BY <1>3 DEF RunStale, TypeOK
  <2> QED BY <1>3 DEF RunStale
<1>4. ASSUME NEW i \in Images, Build(w, i) PROVE SetOut(w, i, "content", "inspect") /\ faults' = faults
  BY <1>4 DEF Build
<1> QED BY <1>1, <1>2, <1>3, <1>4 DEF Begins

LEMMA FaultType == ASSUME faults \in 0..MaxFaults, Fault PROVE faults' \in 0..MaxFaults
BY ConstantsAssumption DEF Fault

LEMMA ResolvedType ==
    ASSUME TypeOK, NEW w \in Workspaces
    PROVE  Resolved(w) \in present \cup {NoImage}
<1> ref[w] \in {"content", "stock", "latest"}
  BY DEF TypeOK
<1>1. CASE ref[w] = "content"
  BY <1>1 DEF Resolved
<1>2. CASE ref[w] = "stock"
  BY <1>2 DEF Resolved, TypeOK
<1>3. CASE ref[w] = "latest"
  BY <1>3 DEF Resolved, TypeOK
<1> QED BY <1>1, <1>2, <1>3

-----------------------------------------------------------------------------
(* Types.                                                                   *)

LEMMA TypeInit == Init => TypeOK /\ Wanting
<1> SUFFICES ASSUME Init PROVE TypeOK /\ Wanting
  OBVIOUS
<1>1. pc \in [Workspaces -> Steps]
  BY DEF Init, Steps
<1>2. faults \in 0..MaxFaults
  BY ConstantsAssumption DEF Init
<1>3. Wanting
  BY DEF Init, Wanting
<1>4. orphans \in [Images -> Nat]
  BY DEF Init
<1> QED BY <1>1, <1>2, <1>3, <1>4 DEF Init, TypeOK

LEMMA TypeBegins == ASSUME TypeOK, NEW w \in Workspaces, Begins(w) PROVE TypeOK'
<1> PICK i \in Images, name \in {"content", "stock", "latest"}, step \in {"inspect", "start"} :
       SetOut(w, i, name, step) /\ (faults' = faults \/ Fault)
  BY BeginsCases
<1> faults' \in 0..MaxFaults
  BY FaultType DEF TypeOK
<1> QED BY DEF TypeOK, SetOut, Go, Steps, store, sweeps, copying

LEMMA TypeLaunch ==
    ASSUME TypeOK, Wanting, NEW w \in Workspaces, LaunchStep(w)
    PROVE  TypeOK'
<1> USE DEF TypeOK, store, sweeps, launches, copying, Go, Steps
<1>1. CASE Inspect(w)
  BY <1>1 DEF Inspect
<1>1a. CASE InspectUnanswered(w)
  <2> faults' \in 0..MaxFaults
    BY <1>1a, FaultType DEF InspectUnanswered
  <2> QED BY <1>1a DEF InspectUnanswered
<1>2. CASE LockCopy(w)
  BY <1>2 DEF LockCopy
<1>2a. CASE LockCopyUnanswered(w)
  <2> faults' \in 0..MaxFaults
    BY <1>2a, FaultType DEF LockCopyUnanswered
  <2> QED BY <1>2a DEF LockCopyUnanswered
<1>3. CASE Copied(w)
  BY <1>3 DEF Copied, LetGo, Wanting
<1>4. CASE CopyFails(w)
  <2> faults' \in 0..MaxFaults
    BY <1>4, FaultType DEF CopyFails
  <2> QED BY <1>4 DEF CopyFails, LetGo, Done
<1>5. CASE Tag(w)
  BY <1>5 DEF Tag
<1>6. CASE TagFails(w)
  <2> faults' \in 0..MaxFaults
    BY <1>6, FaultType DEF TagFails
  <2> QED BY <1>6 DEF TagFails
<1>7. CASE Record(w)
  BY <1>7 DEF Record
<1>8. CASE RecordFails(w)
  <2> faults' \in 0..MaxFaults
    BY <1>8, FaultType DEF RecordFails
  <2> QED BY <1>8 DEF RecordFails
<1>9. CASE Start(w)
  <2> Resolved(w) \in Images \cup {NoImage}
    BY ResolvedType
  <2> (IF Resolved(w) = NoImage THEN "off" ELSE "up") \in Steps
    OBVIOUS
  <2> QED BY <1>9 DEF Start, Done
<1> QED
  BY <1>1, <1>1a, <1>2, <1>2a, <1>3, <1>4, <1>5, <1>6, <1>7, <1>8, <1>9 DEF LaunchStep

LEMMA TypeEnds ==
    ASSUME TypeOK, Wanting, NEW w \in Workspaces, Stop(w) \/ Kill(w) \/ Away(w)
    PROVE  TypeOK'
<1> USE DEF TypeOK, store, sweeps, launches, copying, Go, Steps
<1>1. CASE Stop(w)
  BY <1>1 DEF Stop
<1>2. CASE Kill(w)
  <2> faults' \in 0..MaxFaults
    BY <1>2, FaultType DEF Kill
  <2>1. orphans' \in [Images -> Nat]
    BY <1>2 DEF Kill
  <2>2. copylock' \in Workspaces \cup {NoOne} /\ blind' \subseteq Workspaces
    BY <1>2 DEF Kill, LetGo
  <2> QED BY <1>2, <2>1, <2>2 DEF Kill, Done
<1>3. CASE Away(w)
  BY <1>3 DEF Away, Delete, Return
<1> QED BY <1>1, <1>2, <1>3

LEMMA TypeOrphan == ASSUME TypeOK, NEW i \in Images, Orphan(i) PROVE TypeOK'
<1>1. OrphanEnds(i)
  BY DEF Orphan, OrphanLands, OrphanFails
<1>2. orphans' \in [Images -> Nat]
  BY <1>1 DEF OrphanEnds, TypeOK
<1>3. present \subseteq present' /\ present' \subseteq Images /\ blind' \subseteq Workspaces
  BY DEF Orphan, OrphanLands, OrphanFails, TypeOK
<1> QED BY <1>1, <1>2, <1>3 DEF OrphanEnds, TypeOK, sweeps

LEMMA EndSweepType ==
    ASSUME TypeOK, NEW s \in Sweepers, EndSweep(s)
    PROVE  /\ spc' \in [Sweepers -> {"idle", "list", "ps", "rmi"}]
           /\ keep' \in [Sweepers -> SUBSET Images]
           /\ cand' \in [Sweepers -> SUBSET Images]
           /\ hlock' \in {"auto", NoOne}
           /\ seen' \subseteq Workspaces
BY DEF TypeOK, EndSweep, GoS

LEMMA TypeSweep ==
    ASSUME TypeOK, NEW s \in Sweepers,
           ReadPointers(s) \/ Unanswered(s) \/ CutShort(s) \/ SweepStep(s)
    PROVE  TypeOK'
<1> USE DEF TypeOK, store, launches, copying, GoS
<1>1. CASE ReadPointers(s)
  BY <1>1 DEF ReadPointers, PointedBy
<1>2. CASE Unanswered(s)
  <2> faults' \in 0..MaxFaults /\ EndSweep(s)
    BY <1>2, FaultType DEF Unanswered
  <2> QED BY <1>2, EndSweepType DEF Unanswered
<1>3. CASE CutShort(s)
  <2> faults' \in 0..MaxFaults /\ EndSweep(s)
    BY <1>3, FaultType DEF CutShort
  <2> QED BY <1>3, EndSweepType DEF CutShort
<1>4. CASE List(s)
  BY <1>4 DEF List
<1>5. CASE ReadRunning(s)
  BY <1>5 DEF ReadRunning
<1>6. CASE Swept(s)
  BY <1>6, EndSweepType DEF Swept
<1>7. ASSUME NEW i \in Images, Rmi(s, i) PROVE TypeOK'
  <2>1. cand' \in [Sweepers -> SUBSET Images]
    BY <1>7 DEF Rmi
  <2>2. CASE Remove(i)
    BY <1>7, <2>1, <2>2 DEF Rmi, Remove
  <2>3. CASE UNCHANGED store
    BY <1>7, <2>1, <2>3 DEF Rmi
  <2> QED BY <1>7, <2>2, <2>3 DEF Rmi
<1> QED BY <1>1, <1>2, <1>3, <1>4, <1>5, <1>6, <1>7 DEF SweepStep

LEMMA TypeStep == ASSUME TypeOK, Wanting, [Next]_vars PROVE TypeOK'
<1>1. CASE UNCHANGED vars
  BY <1>1 DEF vars, store, launches, copying, sweeps, TypeOK
<1> QED BY <1>1, StepCases, TypeBegins, TypeLaunch, TypeEnds, TypeOrphan, TypeSweep

-----------------------------------------------------------------------------
(* What one launch's own invariants depend on.                              *)
Own(w) == <<pc[w], want[w]>>

(* A launch's step leaves every other launch where it is.                   *)
LEMMA OthersKept ==
    ASSUME TypeOK, NEW w \in Workspaces, NEW v \in Workspaces \ {w},
           Begins(w) \/ LaunchStep(w) \/ Stop(w) \/ Kill(w) \/ Away(w)
    PROVE  Own(v)' = Own(v) /\ on'[v] = on[v]
<1> USE DEF TypeOK, Own, Go, Done, launches
<1>1. CASE Begins(w)
  <2> PICK i \in Images, name \in {"content", "stock", "latest"}, step \in {"inspect", "start"} :
         SetOut(w, i, name, step) /\ (faults' = faults \/ Fault)
    BY <1>1, BeginsCases
  <2> QED BY DEF SetOut
<1>2. CASE LaunchStep(w)
  BY <1>2 DEF LaunchStep, Inspect, InspectUnanswered, LockCopy, LockCopyUnanswered, Copied,
              CopyFails, Tag, TagFails, Record, RecordFails, Start
<1>3. CASE Stop(w) \/ Kill(w) \/ Away(w)
  BY <1>3 DEF Stop, Kill, Away, Delete, Return
<1> QED BY <1>1, <1>2, <1>3

(* An orphaned copy leaves the launches and the sweeps alone.               *)
LEMMA OrphanApart ==
    ASSUME NEW i \in Images, Orphan(i)
    PROVE  /\ UNCHANGED <<pc, want, ref, on, copylock, sweeps, pointer, there>>
           /\ present \subseteq present'
BY DEF Orphan, OrphanLands, OrphanFails, OrphanEnds

LEMMA SweepKeepsLaunches ==
    ASSUME NEW s \in Sweepers,
           ReadPointers(s) \/ Unanswered(s) \/ CutShort(s) \/ SweepStep(s)
    PROVE  UNCHANGED launches /\ UNCHANGED <<pointer, there>>
BY DEF ReadPointers, Unanswered, CutShort, SweepStep, List, ReadRunning, Swept, Rmi

(* Only a copy adds an image, and only a sweep takes one away.              *)
LEMMA StoreGrows ==
    ASSUME NEW w \in Workspaces, LaunchStep(w)
    PROVE  present' = present \/ (Copied(w) /\ present' = present \cup {want[w]})
BY DEF LaunchStep, Inspect, InspectUnanswered, LockCopy, LockCopyUnanswered, Copied,
       CopyFails, Tag, TagFails, Record, RecordFails, Start, store

LEMMA WantingStep == ASSUME TypeOK, Wanting, [Next]_vars PROVE Wanting'
<1> USE DEF Wanting, Own
<1>1. ASSUME NEW w \in Workspaces, Begins(w) PROVE Wanting'
  <2> PICK i \in Images, name \in {"content", "stock", "latest"}, step \in {"inspect", "start"} :
         SetOut(w, i, name, step) /\ (faults' = faults \/ Fault)
    BY <1>1, BeginsCases
  <2> want'[w] = i
    BY DEF SetOut, TypeOK
  <2> QED BY <1>1, OthersKept
<1>2. ASSUME NEW w \in Workspaces, LaunchStep(w) PROVE Wanting'
  <2> pc'[w] \notin {"off", "up"} => pc[w] \notin {"off", "up"} /\ want'[w] = want[w]
    BY <1>2 DEF LaunchStep, Inspect, InspectUnanswered, LockCopy, LockCopyUnanswered,
                Copied, CopyFails, Tag, TagFails, Record, RecordFails, Start, Go, Done,
                TypeOK
  <2> QED BY <1>2, OthersKept
<1>3. ASSUME NEW w \in Workspaces, Stop(w) \/ Kill(w) PROVE Wanting'
  <2> pc'[w] = "off"
    BY <1>3 DEF Stop, Kill, Go, Done, TypeOK
  <2> QED BY <1>3, OthersKept
<1>3a. ASSUME NEW w \in Workspaces, Away(w) PROVE Wanting'
  BY <1>3a DEF Away, Delete, Return, launches
<1>4. CASE UNCHANGED <<pc, want>>
  BY <1>4
<1> QED
  BY <1>1, <1>2, <1>3, <1>3a, <1>4, StepCases, OrphanApart, SweepKeepsLaunches DEF vars, launches

(* TypeOK is a theorem of the specification.                                *)
THEOREM TypeCorrect == Spec => []TypeOK
<1>1. TypeOK /\ Wanting /\ [Next]_vars => (TypeOK /\ Wanting)'
  BY TypeStep, WantingStep
<1> QED BY TypeInit, <1>1, PTL DEF Spec

-----------------------------------------------------------------------------
(* The copy.                                                                *)

LEMMA CopyHeldStep == ASSUME TypeOK, CopyHeld, [Next]_vars PROVE CopyHeld'
<1> USE DEF CopyHeld, Own, TypeOK
<1>0. NoOne \notin Workspaces
  BY ConstantsAssumption
<1>1. ASSUME NEW w \in Workspaces, Begins(w) PROVE CopyHeld'
  <2> PICK i \in Images, name \in {"content", "stock", "latest"}, step \in {"inspect", "start"} :
         SetOut(w, i, name, step) /\ (faults' = faults \/ Fault)
    BY <1>1, BeginsCases
  <2> pc[w] # "writing" /\ pc'[w] # "writing" /\ copylock' = copylock
    BY DEF SetOut, Go, copying
  <2> QED BY <1>1, OthersKept
<1>2. ASSUME NEW w \in Workspaces, LaunchStep(w) PROVE CopyHeld'
  <2>1. CASE LockCopy(w)
    <3>1. CASE want[w] \in present
      <4> pc[w] # "writing" /\ pc'[w] # "writing" /\ copylock' = copylock
        BY <2>1, <3>1 DEF LockCopy, Go
      <4> QED BY <1>2, OthersKept
    <3>2. CASE want[w] \notin present
      <4> pc'[w] = "writing" /\ copylock = NoOne /\ copylock' = w
        BY <2>1, <3>2 DEF LockCopy, Go
      <4> QED BY <1>0, <1>2, OthersKept
    <3> QED BY <3>1, <3>2
  <2>1a. CASE LockCopyUnanswered(w)
    <3> pc'[w] = "writing" /\ copylock = NoOne /\ copylock' = w
      BY <2>1a DEF LockCopyUnanswered, Go
    <3> QED BY <1>0, <1>2, OthersKept
  <2>2. CASE Copied(w) \/ CopyFails(w)
    <3> pc[w] = "writing" /\ pc'[w] # "writing" /\ copylock' = NoOne
      BY <2>2 DEF Copied, CopyFails, LetGo, Go, Done
    <3> QED BY <1>0, <1>2, OthersKept
  <2>3. CASE ~LockCopy(w) /\ ~LockCopyUnanswered(w) /\ ~Copied(w) /\ ~CopyFails(w)
    <3>1. CASE Start(w)
      BY <1>2, <3>1, OthersKept DEF Start, Done, Go, copying
    <3>2. CASE ~Start(w)
      <4> pc[w] # "writing" /\ pc'[w] # "writing" /\ copylock' = copylock
        BY <1>2, <2>3, <3>2 DEF LaunchStep, Inspect, InspectUnanswered, Tag, TagFails, Record,
                         RecordFails, Go, copying
      <4> QED BY <1>2, OthersKept
    <3> QED BY <3>1, <3>2
  <2> QED BY <2>1, <2>1a, <2>2, <2>3
<1>3a. ASSUME NEW w \in Workspaces, Stop(w) PROVE CopyHeld'
  <2> pc[w] # "writing" /\ pc'[w] # "writing" /\ copylock' = copylock
    BY <1>3a DEF Stop, Go, copying
  <2> QED BY <1>3a, OthersKept
<1>3. ASSUME NEW w \in Workspaces, Away(w) PROVE CopyHeld'
  BY <1>3 DEF Away, Delete, Return, launches, copying
<1>4. ASSUME NEW w \in Workspaces, Kill(w) PROVE CopyHeld'
  <2> pc'[w] = "off" /\ copylock' = IF pc[w] = "writing" THEN NoOne ELSE copylock
    BY <1>4 DEF Kill, LetGo, Go, Done, copying
  <2> QED BY <1>0, <1>4, OthersKept
<1>5. CASE UNCHANGED <<pc, copylock>>
  BY <1>5
<1> QED
  BY <1>1, <1>2, <1>3a, <1>3, <1>4, <1>5, StepCases, OrphanApart, SweepKeepsLaunches
  DEF vars, launches, copying

LEMMA SweepTakes ==
    ASSUME NEW s \in Sweepers,
           ReadPointers(s) \/ Unanswered(s) \/ CutShort(s) \/ SweepStep(s)
    PROVE  present' \subseteq present
BY DEF ReadPointers, Unanswered, CutShort, SweepStep, List, ReadRunning, Swept, Rmi, Remove,
       store

(* Who copies stays marked for as long as it copies.                        *)
LEMMA BlindKept ==
    ASSUME TypeOK, NEW w \in Workspaces, Begins(w) \/ LaunchStep(w) \/ Stop(w) \/ Kill(w) \/ Away(w)
    PROVE  blind \ {w} \subseteq blind'
<1>1. CASE Begins(w)
  <2> PICK i \in Images, name \in {"content", "stock", "latest"}, step \in {"inspect", "start"} :
         SetOut(w, i, name, step) /\ (faults' = faults \/ Fault)
    BY <1>1, BeginsCases
  <2> QED BY DEF SetOut, copying
<1>2. CASE LaunchStep(w)
  BY <1>2 DEF LaunchStep, Inspect, InspectUnanswered, LockCopy, LockCopyUnanswered, Copied,
              CopyFails, LetGo, Tag, TagFails, Record, RecordFails, Start, copying
<1>3. CASE Stop(w) \/ Kill(w) \/ Away(w)
  BY <1>3 DEF Stop, Kill, LetGo, Away, Delete, Return, launches, copying
<1> QED BY <1>1, <1>2, <1>3

LEMMA NotThereStep == ASSUME TypeOK, CopyHeld, NotThere, [Next]_vars PROVE NotThere'
<1> USE DEF NotThere, Own
<1>1. ASSUME NEW w \in Workspaces, Begins(w) PROVE NotThere'
  <2> PICK i \in Images, name \in {"content", "stock", "latest"}, step \in {"inspect", "start"} :
         SetOut(w, i, name, step) /\ (faults' = faults \/ Fault)
    BY <1>1, BeginsCases
  <2> pc'[w] # "writing" /\ present' = present
    BY DEF SetOut, Go, TypeOK, store
  <2> QED BY <1>1, OthersKept, BlindKept
<1>2. ASSUME NEW w \in Workspaces, LaunchStep(w) PROVE NotThere'
  <2>1. CASE Copied(w)
    <3> pc[w] = "writing" /\ pc'[w] # "writing"
      BY <2>1 DEF Copied, Go, TypeOK
    <3> \A v \in Workspaces \ {w} : pc'[v] # "writing"
      BY <1>2, OthersKept DEF CopyHeld
    <3> QED OBVIOUS
  <2>2. CASE LockCopy(w)
    <3> present' = present /\ want'[w] = want[w]
      BY <2>2 DEF LockCopy, store
    <3> pc'[w] = "writing" => want[w] \notin present
      BY <2>2 DEF LockCopy, Go, TypeOK
    <3> QED BY <1>2, OthersKept, BlindKept
  <2>2a. CASE LockCopyUnanswered(w)
    <3> present' = present /\ w \in blind'
      BY <2>2a DEF LockCopyUnanswered, store
    <3> QED BY <1>2, OthersKept, BlindKept
  <2>3. CASE ~Copied(w) /\ ~LockCopy(w) /\ ~LockCopyUnanswered(w)
    <3>1. present' = present
      BY <1>2, <2>3, StoreGrows
    <3>2. CASE Start(w)
      BY <1>2, <3>1, <3>2, OthersKept, BlindKept DEF Start, Done, Go, TypeOK
    <3>3. CASE ~Start(w)
      <4> pc'[w] # "writing"
        BY <1>2, <2>3, <3>3 DEF LaunchStep, Inspect, InspectUnanswered, CopyFails, Tag,
                                TagFails, Record, RecordFails, Go, Done, TypeOK
      <4> QED BY <1>2, <3>1, OthersKept, BlindKept
    <3> QED BY <3>2, <3>3
  <2> QED BY <2>1, <2>2, <2>2a, <2>3
<1>3. ASSUME NEW w \in Workspaces, Stop(w) \/ Kill(w) PROVE NotThere'
  <2> pc'[w] = "off" /\ present' = present
    BY <1>3 DEF Stop, Kill, Go, Done, TypeOK, store
  <2> QED BY <1>3, OthersKept, BlindKept
<1>3a. ASSUME NEW w \in Workspaces, Away(w) PROVE NotThere'
  BY <1>3a DEF Away, Delete, Return, launches, copying, store
<1>3b. ASSUME NEW i \in Images, Orphan(i) PROVE NotThere'
  BY <1>3b, OrphanApart DEF Orphan, OrphanLands, OrphanFails
<1>4. ASSUME NEW s \in Sweepers,
             ReadPointers(s) \/ Unanswered(s) \/ CutShort(s) \/ SweepStep(s)
      PROVE  NotThere'
  BY <1>4, SweepKeepsLaunches, SweepTakes DEF launches, copying
<1>5. CASE UNCHANGED vars
  BY <1>5 DEF vars, launches, copying, store
<1> QED BY <1>1, <1>2, <1>3, <1>3a, <1>3b, <1>4, <1>5, StepCases

(* NoDuplicateCopy: one launch copies at a time, and never what it could have *)
(* found in the store: not when an inspect of a present image went            *)
(* unanswered, nor when a killed launch's skopeo brought the image meanwhile. *)
THEOREM OneCopy == Spec => []NoDuplicateCopy
<1> DEFINE Inv == TypeOK /\ Wanting /\ CopyHeld /\ NotThere
<1>1. Init => Inv
  BY TypeInit, ConstantsAssumption DEF Init, CopyHeld, NotThere
<1>2. Inv /\ [Next]_vars => Inv'
  BY TypeStep, WantingStep, CopyHeldStep, NotThereStep
<1>3. Inv => NoDuplicateCopy
  BY DEF CopyHeld, NotThere, NoDuplicateCopy
<1> QED BY <1>1, <1>2, <1>3, PTL DEF Spec

-----------------------------------------------------------------------------
(* The images of running jails.                                             *)

LEMMA RunningStep == ASSUME TypeOK, RunningKept, [Next]_vars PROVE RunningKept'
<1> USE DEF RunningKept, Own
<1>1. ASSUME NEW w \in Workspaces, Begins(w) PROVE RunningKept'
  <2> PICK i \in Images, name \in {"content", "stock", "latest"}, step \in {"inspect", "start"} :
         SetOut(w, i, name, step) /\ (faults' = faults \/ Fault)
    BY <1>1, BeginsCases
  <2> pc'[w] # "up" /\ present' = present
    BY DEF SetOut, Go, TypeOK, store
  <2> QED BY <1>1, OthersKept
<1>2. ASSUME NEW w \in Workspaces, LaunchStep(w) PROVE RunningKept'
  <2>1. CASE Start(w)
    <3> pc'[w] = "up" => Resolved(w) \in present /\ on'[w] = Resolved(w)
      BY <2>1, ResolvedType DEF Start, Done, Go, TypeOK
    <3> QED BY <1>2, OthersKept, StoreGrows
  <2>2. CASE ~Start(w)
    <3> pc'[w] # "up"
      BY <1>2, <2>2 DEF LaunchStep, Inspect, InspectUnanswered, LockCopy,
                        LockCopyUnanswered, Copied, CopyFails, Tag, TagFails, Record,
                        RecordFails, Go, Done, TypeOK
    <3> QED BY <1>2, OthersKept, StoreGrows
  <2> QED BY <2>1, <2>2
<1>3. ASSUME NEW w \in Workspaces, Stop(w) \/ Kill(w) PROVE RunningKept'
  <2> pc'[w] = "off" /\ present' = present
    BY <1>3 DEF Stop, Kill, Go, Done, TypeOK, store
  <2> QED BY <1>3, OthersKept
<1>3b. ASSUME NEW w \in Workspaces, Away(w) PROVE RunningKept'
  BY <1>3b DEF Away, Delete, Return, launches, store
<1>3a. ASSUME NEW i \in Images, Orphan(i) PROVE RunningKept'
  BY <1>3a, OrphanApart
<1>4. ASSUME NEW s \in Sweepers,
             ReadPointers(s) \/ Unanswered(s) \/ CutShort(s) \/ SweepStep(s)
      PROVE  RunningKept'
  <2>1. ASSUME NEW i \in Images, Rmi(s, i), Remove(i), i \notin InUse PROVE RunningKept'
    <3> \A w \in Workspaces : pc[w] = "up" => on[w] # i
      BY <2>1 DEF InUse
    <3> QED BY <1>4, <2>1, SweepKeepsLaunches DEF Remove, launches
  <2>2. CASE present' = present
    BY <1>4, <2>2, SweepKeepsLaunches DEF launches
  <2>3. present' = present \/ \E i \in Images : Rmi(s, i) /\ Remove(i) /\ i \notin InUse
    BY <1>4 DEF ReadPointers, Unanswered, CutShort, SweepStep, List, ReadRunning, Swept, Rmi,
                store
  <2> QED BY <2>1, <2>2, <2>3
<1>5. CASE UNCHANGED vars
  BY <1>5 DEF vars, launches, store
<1> QED BY <1>1, <1>2, <1>3, <1>3a, <1>3b, <1>4, <1>5, StepCases

(* RunningKept: no sweep takes a running jail's image, however old its view. *)
THEOREM RunningImagesKept == Spec => []RunningKept
<1> DEFINE Inv == TypeOK /\ Wanting /\ RunningKept
<1>1. Init => Inv
  BY TypeInit DEF Init, RunningKept
<1>2. Inv /\ [Next]_vars => Inv'
  BY TypeStep, WantingStep, RunningStep
<1> QED BY <1>1, <1>2, PTL DEF Spec

-----------------------------------------------------------------------------
(* The pointers.                                                            *)

Swept0 == <<pointer, seen, hlock, spc["auto"], keep["auto"], cand["auto"]>>

(* A launch's step writes a pointer only while no auto sweep is under way.  *)
LEMMA PointersWait ==
    ASSUME SweepLocked, TypeOK, NEW w \in Workspaces,
           Begins(w) \/ LaunchStep(w) \/ Stop(w) \/ Kill(w) \/ Away(w)
    PROVE  /\ UNCHANGED sweeps
           /\ pointer' = pointer \/ spc["auto"] = "idle"
<1>0. "auto" # NoOne
  BY ConstantsAssumption DEF Sweepers
<1>1. CASE Begins(w)
  <2> PICK i \in Images, name \in {"content", "stock", "latest"}, step \in {"inspect", "start"} :
         SetOut(w, i, name, step) /\ (faults' = faults \/ Fault)
    BY <1>1, BeginsCases
  <2> QED BY DEF SetOut, sweeps
<1>2. CASE LaunchStep(w)
  <2>1. UNCHANGED sweeps /\ (pointer' = pointer \/ hlock = NoOne)
    BY <1>2 DEF LaunchStep, Inspect, InspectUnanswered, LockCopy, LockCopyUnanswered,
                Copied, CopyFails, Tag, TagFails, Record, RecordFails, Start, sweeps
  <2> QED BY <1>0, <2>1 DEF SweepLocked
<1>3. CASE Stop(w) \/ Kill(w) \/ Away(w)
  BY <1>3 DEF Stop, Kill, Away, Delete, Return, sweeps
<1> QED BY <1>1, <1>2, <1>3

(* The manual sweep has no part in the auto one's state.                    *)
LEMMA ManualApart ==
    ASSUME TypeOK, NEW s \in Sweepers, s # "auto",
           ReadPointers(s) \/ Unanswered(s) \/ CutShort(s) \/ SweepStep(s)
    PROVE  UNCHANGED Swept0
<1> USE Names DEF TypeOK, Swept0, GoS, EndSweep
<1>1. CASE ReadPointers(s) \/ Unanswered(s) \/ CutShort(s)
  BY <1>1 DEF ReadPointers, Unanswered, CutShort
<1>2. CASE SweepStep(s)
  BY <1>2 DEF SweepStep, List, ReadRunning, Swept, Rmi
<1> QED BY <1>1, <1>2

PointerInv == SweepLocked /\ ReadKept /\ PointedKept

LEMMA AutoSweepStep ==
    ASSUME TypeOK, PointerInv,
           ReadPointers("auto") \/ Unanswered("auto") \/ CutShort("auto") \/ SweepStep("auto")
    PROVE  PointerInv'
<1> USE Names DEF TypeOK, PointerInv, SweepLocked, ReadKept, PointedKept, PointedBy, GoS
<1>0. "auto" # NoOne
  BY ConstantsAssumption DEF Sweepers
<1>1. CASE ReadPointers("auto")
  BY <1>1 DEF ReadPointers
<1>2. CASE EndSweep("auto")
  BY <1>0, <1>2 DEF EndSweep
<1>3. CASE List("auto")
  BY <1>3 DEF List
<1>4. CASE ReadRunning("auto")
  BY <1>4 DEF ReadRunning
<1>5. ASSUME NEW i \in Images, Rmi("auto", i) PROVE PointerInv'
  BY <1>5 DEF Rmi
<1> QED BY <1>1, <1>2, <1>3, <1>4, <1>5 DEF Unanswered, CutShort, SweepStep, Swept

LEMMA PointerStep == ASSUME TypeOK, PointerInv, [Next]_vars PROVE PointerInv'
<1> USE DEF PointerInv, SweepLocked, ReadKept, PointedKept
<1>1. ASSUME NEW w \in Workspaces,
             Begins(w) \/ LaunchStep(w) \/ Stop(w) \/ Kill(w) \/ Away(w)
      PROVE  PointerInv'
  <2>1. /\ UNCHANGED sweeps
        /\ pointer' = pointer \/ spc["auto"] = "idle"
    BY <1>1, PointersWait
  <2>2. CASE spc["auto"] = "idle"
    BY <2>1, <2>2 DEF sweeps
  <2>3. CASE pointer' = pointer
    BY <2>1, <2>3 DEF sweeps, PointedBy
  <2> QED BY <2>1, <2>2, <2>3
<1>2. ASSUME NEW s \in Sweepers, s # "auto",
             ReadPointers(s) \/ Unanswered(s) \/ CutShort(s) \/ SweepStep(s)
      PROVE  PointerInv'
  BY <1>2, ManualApart DEF Swept0, PointedBy
<1>3. ASSUME NEW i \in Images, Orphan(i) PROVE PointerInv'
  BY <1>3, OrphanApart DEF sweeps, PointedBy
<1>4. CASE UNCHANGED vars
  BY <1>4 DEF vars, sweeps, PointedBy
<1> QED BY <1>1, <1>2, <1>3, <1>4, AutoSweepStep, StepCases

(* PointedKept: what an auto sweep may still remove, no pointer names of a   *)
(* workspace that was there when it read them, however the launches' records *)
(* fall and whatever workspaces go and come back meanwhile.                  *)
THEOREM PointedImagesKept == Spec => []PointedKept
<1> DEFINE Inv == TypeOK /\ Wanting /\ PointerInv
<1>1. Init => Inv
  BY TypeInit, Names, ConstantsAssumption
     DEF Init, PointerInv, SweepLocked, ReadKept, PointedKept, Sweepers
<1>2. Inv /\ [Next]_vars => Inv'
  BY TypeStep, WantingStep, PointerStep
<1>3. Inv => PointedKept
  BY DEF PointerInv
<1> QED BY <1>1, <1>2, <1>3, PTL DEF Spec

-----------------------------------------------------------------------------
(* What leaves the store.                                                   *)

(* A sweep s removes i for good: i was in its list, no jail runs it, and if  *)
(* the sweep is a launch's own, it is not what the pointer names of a        *)
(* workspace that was there when the sweep read the pointers.                *)
SweptBy(s, i) ==
    /\ spc[s] = "rmi" /\ i \in cand[s] \ cand'[s]
    /\ i \notin InUse
    /\ s = "auto" => i \notin PointedBy(seen)

(* Nothing else ever takes an image away: no launch, failed or killed or     *)
(* started over another's copy, loses an image to anybody but a sweep.       *)
SweepSpares == [][\A i \in present \ present' : \E s \in Sweepers : SweptBy(s, i)]_vars

LEMMA LaunchTakesNone ==
    ASSUME TypeOK, NEW w \in Workspaces,
           Begins(w) \/ LaunchStep(w) \/ Stop(w) \/ Kill(w) \/ Away(w)
    PROVE  present \subseteq present'
<1>1. CASE Begins(w)
  <2> PICK i \in Images, name \in {"content", "stock", "latest"}, step \in {"inspect", "start"} :
         SetOut(w, i, name, step) /\ (faults' = faults \/ Fault)
    BY <1>1, BeginsCases
  <2> QED BY DEF SetOut, store
<1>2. CASE LaunchStep(w)
  BY <1>2, StoreGrows
<1>3. CASE Stop(w) \/ Kill(w) \/ Away(w)
  BY <1>3 DEF Stop, Kill, Away, Delete, Return, store
<1> QED BY <1>1, <1>2, <1>3

(* Of a sweep's steps only an rmi takes an image, and the one it was asked.  *)
LEMMA OnlyRmiTakes ==
    ASSUME TypeOK, PointedKept, NEW s \in Sweepers, NEW i \in present \ present',
           ReadPointers(s) \/ Unanswered(s) \/ CutShort(s) \/ SweepStep(s)
    PROVE  SweptBy(s, i)
<1>1. PICK k \in Images : Rmi(s, k)
  BY DEF ReadPointers, Unanswered, CutShort, SweepStep, List, ReadRunning, Swept, store
<1>2. k = i /\ i \notin InUse
  BY <1>1 DEF Rmi, Remove, store
<1>3. i \in cand[s] \ cand'[s] /\ spc[s] = "rmi"
  BY <1>1, <1>2 DEF Rmi, TypeOK
<1>4. s = "auto" => i \notin PointedBy(seen)
  BY <1>3 DEF PointedKept
<1> QED BY <1>2, <1>3, <1>4 DEF SweptBy

(* SweepSpares: an image that leaves the store was removed by a sweep that   *)
(* had listed it, from under no jail that runs, and by a launch's sweep not  *)
(* from under a pointer of those it read, as that pointer is by then.        *)
THEOREM OnlyUnusedSwept == Spec => SweepSpares
<1>1. ASSUME TypeOK, PointedKept, [Next]_vars, NEW i \in present \ present'
      PROVE  \E s \in Sweepers : SweptBy(s, i)
  <2>1. PICK s \in Sweepers : ReadPointers(s) \/ Unanswered(s) \/ CutShort(s) \/ SweepStep(s)
    BY <1>1, StepCases, LaunchTakesNone, OrphanApart DEF vars, store
  <2> QED BY <1>1, <2>1, OnlyRmiTakes
<1>2. TypeOK /\ PointedKept /\ [Next]_vars
        => [\A i \in present \ present' : \E s \in Sweepers : SweptBy(s, i)]_vars
  BY <1>1
<1> QED BY <1>2, TypeCorrect, PointedImagesKept, PTL DEF Spec, SweepSpares
=============================================================================
