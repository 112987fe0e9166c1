------------------------------ MODULE ImageStore ------------------------------
(***************************************************************************)
(* The jail images in a container runtime's store: the launches of a        *)
(* machine's workspaces, which look for, copy, name, record and run them,   *)
(* and the sweeps that take them away again -- the one in the housekeeping  *)
(* slot of a launch, under the housekeeping lock, and `yolo prune --apply`, *)
(* which takes no lock.  The runtime is podman on Linux, whose commands are *)
(* one step each.                                                           *)
(*                                                                         *)
(* An image is named by its content, so `present` is the set of content     *)
(* refs that resolve.  A workspace's run lock makes its launches one at a   *)
(* time; a launch that attaches to a running jail is JailLaunch's.          *)
(***************************************************************************)
EXTENDS Naturals

CONSTANTS Workspaces, Images,
          StockImage,  \* what this source tree builds from the stock inputs
          Configured,  \* bound: the images a workspace's configuration may come to
          MaxFaults    \* bound: failed builds, copies and writes, killed processes

NoOne == "no one"
NoImage == "no image"
Sweepers == {"auto", "manual"}

ASSUME ConstantsAssumption ==
    /\ NoOne \notin Workspaces \cup Sweepers
    /\ NoImage \notin Images
    /\ StockImage \in Images
    /\ Configured \in [Workspaces -> SUBSET Images]
    /\ MaxFaults \in Nat

VARIABLES
    present,  \* the images in the store
    latest,   \* what the legacy tag names
    stocked,  \* the stock tag of this source tree is on StockImage
    pointer,  \* per workspace: the file in the current-images directory
    there,    \* the workspaces whose directory exists
    pc,       \* per workspace: the step of its launch
    want,     \* the image its launch is about
    ref,      \* the name its launch will run
    on,       \* the image its running jail was started on
    copylock, \* who holds the image-copy lock
    orphans,  \* per image: the copies of it whose launch was killed
    blind,    \* the launches whose image was or came there unseen while they copy it
    hlock,    \* who holds the housekeeping lock beyond one step
    spc,      \* per sweeper: its step
    seen,     \* the workspaces that were there when the auto sweep read the pointers
    keep,     \* the images the pointers it read name
    cand,     \* what it may still remove
    faults

store == <<present, latest, stocked>>
copying == <<copylock, orphans, blind>>
launches == <<pc, want, ref, on, copying>>
sweeps == <<spc, seen, keep, cand, hlock>>
vars == <<store, launches, sweeps, pointer, there, faults>>

Steps == {"off", "inspect", "copywait", "writing", "tag", "record", "start", "up"}

(* Types, and that the tags name images that are there. *)
TypeOK ==
    /\ present \subseteq Images
    /\ latest \in present \cup {NoImage}
    /\ stocked \in BOOLEAN /\ (stocked => StockImage \in present)
    /\ pointer \in [Workspaces -> Images \cup {NoImage}]
    /\ there \subseteq Workspaces
    /\ pc \in [Workspaces -> Steps]
    /\ want \in [Workspaces -> Images \cup {NoImage}]
    /\ ref \in [Workspaces -> {"content", "stock", "latest"}]
    /\ on \in [Workspaces -> Images \cup {NoImage}]
    /\ copylock \in Workspaces \cup {NoOne}
    /\ orphans \in [Images -> Nat]
    /\ blind \subseteq Workspaces
    /\ hlock \in {"auto", NoOne}
    /\ spc \in [Sweepers -> {"idle", "list", "ps", "rmi"}]
    /\ seen \subseteq Workspaces
    /\ keep \in [Sweepers -> SUBSET Images]
    /\ cand \in [Sweepers -> SUBSET Images]
    /\ faults \in 0..MaxFaults

Init ==
    /\ present = {}
    /\ latest = NoImage /\ stocked = FALSE
    /\ pointer = [w \in Workspaces |-> NoImage]
    /\ there = Workspaces
    /\ pc = [w \in Workspaces |-> "off"]
    /\ want = [w \in Workspaces |-> NoImage]
    /\ ref = [w \in Workspaces |-> "content"]
    /\ on = [w \in Workspaces |-> NoImage]
    /\ copylock = NoOne /\ hlock = NoOne
    /\ orphans = [i \in Images |-> 0] /\ blind = {}
    /\ spc = [s \in Sweepers |-> "idle"]
    /\ seen = {}
    /\ keep = [s \in Sweepers |-> {}]
    /\ cand = [s \in Sweepers |-> {}]
    /\ faults = 0

-----------------------------------------------------------------------------
Fault == faults < MaxFaults /\ faults' = faults + 1

Go(w, step) == pc' = [pc EXCEPT ![w] = step]

(* The launch is over, with a jail or without.                               *)
Done(w, step) ==
    /\ Go(w, step)
    /\ want' = [want EXCEPT ![w] = NoImage]
    /\ ref' = [ref EXCEPT ![w] = "content"]

(* What a launch of w sets out with; w's configuration may have been edited  *)
(* since its last one, so it may be about another image.                     *)
SetOut(w, i, name, step) ==
    /\ pc[w] = "off" /\ w \in there
    /\ Go(w, step)
    /\ want' = [want EXCEPT ![w] = i]
    /\ ref' = [ref EXCEPT ![w] = name]
    /\ UNCHANGED <<store, sweeps, pointer, there, on, copying>>

(* The stock tag is in the runtime: no build, no store path, and so neither  *)
(* an inspect nor a pointer.                                                 *)
StockHit(w) ==
    /\ stocked /\ StockImage \in Configured[w]
    /\ SetOut(w, StockImage, "stock", "start")
    /\ UNCHANGED faults

Build(w, i) ==
    /\ i \in Configured[w] /\ ~(stocked /\ i = StockImage)
    /\ SetOut(w, i, "content", "inspect")
    /\ UNCHANGED faults

(* The tag is there, but the identity could not be evaluated.                *)
BuildUnasked(w) ==
    /\ stocked /\ StockImage \in Configured[w]
    /\ SetOut(w, StockImage, "content", "inspect")
    /\ Fault

(* A failed build, with the stale hatch set: whatever the legacy tag names.  *)
(* Without the hatch, or the tag, the launch changes nothing.                *)
RunStale(w) ==
    /\ latest # NoImage
    /\ SetOut(w, latest, "latest", "start")
    /\ Fault

(* Under the housekeeping lock, which nobody else holds meanwhile.           *)
Inspect(w) ==
    /\ pc[w] = "inspect" /\ hlock = NoOne
    /\ Go(w, IF want[w] \in present THEN "record" ELSE "copywait")
    /\ UNCHANGED <<store, sweeps, pointer, there, want, ref, on, copying, faults>>

(* An inspect that could not be run counts as one that found nothing.        *)
InspectUnanswered(w) ==
    /\ pc[w] = "inspect" /\ hlock = NoOne
    /\ want[w] \in present /\ Fault
    /\ Go(w, "copywait")
    /\ UNCHANGED <<store, sweeps, pointer, there, want, ref, on, copying>>

(* Mutation of LockCopy: what the wait may have brought is not looked at. *)
LockCopyUnseen(w) ==
    /\ pc[w] = "copywait" /\ copylock = NoOne
    /\ Go(w, "writing") /\ copylock' = w
    /\ UNCHANGED <<store, sweeps, pointer, there, want, ref, on, orphans, blind, faults>>

(* Mutation of LockCopy: the path that copies nothing keeps the lock. *)
LockCopyHeld(w) ==
    /\ pc[w] = "copywait" /\ copylock = NoOne
    /\ Go(w, IF want[w] \in present THEN "tag" ELSE "writing") /\ copylock' = w
    /\ UNCHANGED <<store, sweeps, pointer, there, want, ref, on, orphans, blind, faults>>

(* The lock, and the second inspect under it: a peer may have delivered the  *)
(* image while this launch waited, and then the lock is let go at once.      *)
LockCopy(w) ==
    /\ pc[w] = "copywait" /\ copylock = NoOne
    /\ IF want[w] \in present
       THEN Go(w, "tag") /\ UNCHANGED copylock
       ELSE Go(w, "writing") /\ copylock' = w
    /\ UNCHANGED <<store, sweeps, pointer, there, want, ref, on, orphans, blind, faults>>

(* The second inspect could not be run either: what is there is copied again.*)
LockCopyUnanswered(w) ==
    /\ pc[w] = "copywait" /\ copylock = NoOne
    /\ want[w] \in present /\ Fault
    /\ Go(w, "writing") /\ copylock' = w
    /\ blind' = blind \cup {w}
    /\ UNCHANGED <<store, sweeps, pointer, there, want, ref, on, orphans>>

(* The copy is over, and the lock with it.                                   *)
LetGo(w) == copylock' = NoOne /\ blind' = blind \ {w}

Copied(w) ==
    /\ pc[w] = "writing"
    /\ present' = present \cup {want[w]}
    /\ LetGo(w)
    /\ Go(w, "tag")
    /\ UNCHANGED <<latest, stocked, sweeps, pointer, there, want, ref, on, orphans, faults>>

(* Also a copier that cannot be built, though that comes before the lock.    *)
CopyFails(w) ==
    /\ pc[w] = "writing" /\ Fault
    /\ LetGo(w)
    /\ Done(w, "off")
    /\ UNCHANGED <<store, sweeps, pointer, there, on, orphans>>

(* Both tags, which need the image to be there still.                        *)
Tag(w) ==
    /\ pc[w] = "tag"
    /\ latest' = IF want[w] \in present THEN want[w] ELSE latest
    /\ stocked' = (stocked \/ (want[w] = StockImage /\ StockImage \in present))
    /\ Go(w, "record")
    /\ UNCHANGED <<present, sweeps, pointer, there, want, ref, on, copying, faults>>

(* They are best effort: the launch goes on without one or both.             *)
TagFails(w) ==
    /\ pc[w] = "tag" /\ Fault
    /\ latest' \in {latest} \cup ({want[w]} \cap present)
    /\ stocked' \in {stocked, stocked \/ (want[w] = StockImage /\ StockImage \in present)}
    /\ Go(w, "record")
    /\ UNCHANGED <<present, sweeps, pointer, there, want, ref, on, copying>>

(* Mutation of Record: without the housekeeping lock. *)
RecordUnlocked(w) ==
    /\ pc[w] = "record"
    /\ pointer' = [pointer EXCEPT ![w] = want[w]]
    /\ Go(w, "start")
    /\ UNCHANGED <<store, sweeps, there, want, ref, on, copying, faults>>

(* Replaces the workspace's pointer, under the housekeeping lock.            *)
Record(w) ==
    /\ pc[w] = "record" /\ hlock = NoOne
    /\ pointer' = [pointer EXCEPT ![w] = want[w]]
    /\ Go(w, "start")
    /\ UNCHANGED <<store, sweeps, there, want, ref, on, copying, faults>>

(* Before os.WriteFile has truncated the pointer, or after: a half-written   *)
(* file reads as none.  The launch goes on.                                  *)
RecordFails(w) ==
    /\ pc[w] = "record" /\ hlock = NoOne /\ Fault
    /\ \E p \in {pointer[w], NoImage} : pointer' = [pointer EXCEPT ![w] = p]
    /\ Go(w, "start")
    /\ UNCHANGED <<store, sweeps, there, want, ref, on, copying>>

(* What a name stands for when podman runs it.                               *)
Resolved(w) ==
    CASE ref[w] = "content" -> IF want[w] \in present THEN want[w] ELSE NoImage
      [] ref[w] = "stock"   -> IF stocked THEN StockImage ELSE NoImage
      [] ref[w] = "latest"  -> latest

(* `podman run`: the jail is up, or the name does not resolve.               *)
Start(w) ==
    /\ pc[w] = "start"
    /\ Done(w, IF Resolved(w) = NoImage THEN "off" ELSE "up")
    /\ on' = [on EXCEPT ![w] = Resolved(w)]
    /\ UNCHANGED <<store, sweeps, pointer, there, copying, faults>>

Stop(w) ==
    /\ pc[w] = "up"
    /\ Go(w, "off")
    /\ on' = [on EXCEPT ![w] = NoImage]
    /\ UNCHANGED <<store, sweeps, pointer, there, want, ref, copying, faults>>

(* The launcher is killed, and the kernel drops its locks.  The skopeo of a  *)
(* copy is a process of its own, which may go with it or go on without it.   *)
Kill(w) ==
    /\ pc[w] \notin {"off", "up"} /\ Fault
    /\ Done(w, "off")
    /\ IF pc[w] = "writing"
       THEN /\ LetGo(w)
            /\ \/ UNCHANGED orphans
               \/ orphans' = [orphans EXCEPT ![want[w]] = @ + 1]
       ELSE UNCHANGED copying
    /\ UNCHANGED <<store, sweeps, pointer, there, on>>

(* The user deletes the workspace, or takes its volume away; its pointer     *)
(* file stays.                                                               *)
Delete(w) ==
    /\ pc[w] = "off" /\ w \in there
    /\ there' = there \ {w}
    /\ UNCHANGED <<store, launches, sweeps, pointer, faults>>

(* ... and it is back, with the pointer it had.                              *)
Return(w) ==
    /\ w \notin there
    /\ there' = there \cup {w}
    /\ UNCHANGED <<store, launches, sweeps, pointer, faults>>

-----------------------------------------------------------------------------
(* A copy without its launch ends, and skopeo commits the image last: it is  *)
(* there or it is not.  Who copies the same image meanwhile does not see it. *)
OrphanEnds(i) ==
    /\ orphans[i] > 0
    /\ orphans' = [orphans EXCEPT ![i] = @ - 1]
    /\ UNCHANGED <<latest, stocked, pc, want, ref, on, copylock, sweeps, pointer, there, faults>>

OrphanLands(i) ==
    /\ OrphanEnds(i)
    /\ present' = present \cup {i}
    /\ blind' = blind \cup {w \in Workspaces : pc[w] = "writing" /\ want[w] = i}

OrphanFails(i) == OrphanEnds(i) /\ UNCHANGED <<present, blind>>

-----------------------------------------------------------------------------
GoS(s, step) == spc' = [spc EXCEPT ![s] = step]

(* The sweep is over, or gives up: the auto one lets go of the lock.         *)
EndSweep(s) ==
    /\ GoS(s, "idle")
    /\ hlock' = IF s = "auto" THEN NoOne ELSE hlock
    /\ seen' = IF s = "auto" THEN {} ELSE seen
    /\ keep' = [keep EXCEPT ![s] = {}]
    /\ cand' = [cand EXCEPT ![s] = {}]

(* The images that the pointers of existing workspaces name.                 *)
PointedBy(ws) == {pointer[w] : w \in ws} \cap Images

(* The auto sweep is a launch's whose jail has come up, and skips its turn   *)
(* when the lock is taken.                                                   *)
MayBegin(s) ==
    /\ spc[s] = "idle"
    /\ s = "auto" => hlock = NoOne /\ \E w \in Workspaces : pc[w] = "up"

(* No honoured pointer: the whole pass declines.                             *)
ReadPointers(s) ==
    /\ MayBegin(s) /\ PointedBy(there) # {}
    /\ keep' = [keep EXCEPT ![s] = PointedBy(there)]
    /\ hlock' = IF s = "auto" THEN s ELSE hlock
    /\ seen' = IF s = "auto" THEN there ELSE seen
    /\ GoS(s, "list")
    /\ UNCHANGED <<store, launches, pointer, there, cand, faults>>

(* One entry per image: any protected name of it, and `latest` is one,       *)
(* saves it.                                                                 *)
List(s) ==
    /\ spc[s] = "list"
    /\ cand' = [cand EXCEPT ![s] = present \ (keep[s] \cup {latest})]
    /\ keep' = [keep EXCEPT ![s] = {}]
    /\ GoS(s, "ps")
    /\ UNCHANGED <<store, launches, pointer, there, seen, hlock, faults>>

InUse == {on[w] : w \in {v \in Workspaces : pc[v] = "up"}}

ReadRunning(s) ==
    /\ spc[s] = "ps"
    /\ cand' = [cand EXCEPT ![s] = @ \ InUse]
    /\ GoS(s, "rmi")
    /\ UNCHANGED <<store, launches, pointer, there, seen, keep, hlock, faults>>

(* The runtime does not answer: the pass declines.                           *)
Unanswered(s) ==
    /\ spc[s] \in {"list", "ps"} /\ Fault
    /\ EndSweep(s)
    /\ UNCHANGED <<store, launches, pointer, there>>

(* The image goes with its names.                                            *)
Remove(i) ==
    /\ present' = present \ {i}
    /\ latest' = IF latest = i THEN NoImage ELSE latest
    /\ stocked' = (stocked /\ i # StockImage)

(* podman wants -f to remove by ID an image that has several names.          *)
SeveralNames(i) == latest = i \/ (stocked /\ i = StockImage)

(* Mutation of Rmi: with -f. *)
RmiForced(s, i) ==
    /\ spc[s] = "rmi" /\ i \in cand[s]
    /\ cand' = [cand EXCEPT ![s] = @ \ {i}]
    /\ IF i \in present THEN Remove(i) ELSE UNCHANGED store
    /\ UNCHANGED <<launches, pointer, there, spc, seen, keep, hlock, faults>>

(* A plain `rmi`, which fails on an image a container uses, and may on one   *)
(* with more names than one.  Its result is not looked at.                   *)
Rmi(s, i) ==
    /\ spc[s] = "rmi" /\ i \in cand[s]
    /\ cand' = [cand EXCEPT ![s] = @ \ {i}]
    /\ \/ i \in present \ InUse /\ Remove(i)
       \/ i \notin present \ InUse /\ UNCHANGED store
       \/ SeveralNames(i) /\ UNCHANGED store
    /\ UNCHANGED <<launches, pointer, there, spc, seen, keep, hlock, faults>>

Swept(s) ==
    /\ spc[s] = "rmi" /\ cand[s] = {}
    /\ EndSweep(s)
    /\ UNCHANGED <<store, launches, pointer, there, faults>>

(* The process ends in the middle of a sweep.                                *)
CutShort(s) ==
    /\ spc[s] # "idle" /\ Fault
    /\ EndSweep(s)
    /\ UNCHANGED <<store, launches, pointer, there>>

-----------------------------------------------------------------------------
LaunchStep(w) ==
    \/ Inspect(w) \/ InspectUnanswered(w) \/ LockCopy(w) \/ LockCopyUnanswered(w)
    \/ Copied(w) \/ CopyFails(w)
    \/ Tag(w) \/ TagFails(w) \/ Record(w) \/ RecordFails(w) \/ Start(w)

Launch(w) ==
    \/ StockHit(w) \/ BuildUnasked(w) \/ RunStale(w) \/ \E i \in Images : Build(w, i)
    \/ LaunchStep(w)
    \/ Stop(w) \/ Kill(w) \/ Delete(w) \/ Return(w)

SweepStep(s) ==
    \/ List(s) \/ ReadRunning(s) \/ Swept(s)
    \/ \E i \in Images : Rmi(s, i)

Sweep(s) == ReadPointers(s) \/ SweepStep(s) \/ Unanswered(s) \/ CutShort(s)

Next ==
    \/ \E w \in Workspaces : Launch(w)
    \/ \E i \in Images : OrphanLands(i) \/ OrphanFails(i)
    \/ \E s \in Sweepers : Sweep(s)

Spec == Init /\ [][Next]_vars

(* A process that has begun goes on.  The two locks are flocks that a launch *)
(* waits for in the kernel, so one that comes free again and again is got.   *)
(* Nobody has to launch, stop, sweep or fail.                                *)
FairSpec ==
    /\ Spec
    /\ \A w \in Workspaces : SF_vars(LaunchStep(w))
    /\ \A s \in Sweepers : WF_vars(SweepStep(s))

-----------------------------------------------------------------------------
(* No sweep takes the image from under a jail that runs, however old the     *)
(* listing it works from: a jail may have come up between `podman ps` and    *)
(* the `rmi` (PruneOldImages' guard #0 and its plain rmi).                   *)
RunningKept == \A w \in Workspaces : pc[w] = "up" => on[w] \in present

(* What the launch's own sweep is about to remove is never what the pointer  *)
(* of a workspace names that was there when the sweep read the pointers, not *)
(* even a pointer written since: the write waits for the sweep               *)
(* (recordCurrentImage's lock).  A workspace that was away at the read and   *)
(* is back has no such promise: CurrentImageTags gives its image up.         *)
PointedKept == spc["auto"] \in {"ps", "rmi"} => cand["auto"] \cap PointedBy(seen) = {}

(* No two launches copy at a time, and none copies an image over itself that *)
(* it could have found there: of the launches that want the same absent      *)
(* image, one copies, and the others find it when they get the lock.  What   *)
(* is left is a present image whose inspect could not be run, and one that   *)
(* a killed launch's skopeo brings while another copies it.                  *)
NoDuplicateCopy ==
    \A w \in Workspaces :
        pc[w] = "writing" =>
            /\ want[w] \in present => w \in blind
            /\ \A v \in Workspaces \ {w} : pc[v] # "writing"

(* Every launch ends up with a jail or gives up, however many launches and    *)
(* sweeps it shares the two locks with.                                       *)
LaunchEnds == \A w \in Workspaces : []<>(pc[w] \in {"up", "off"})

(* The retention rule as documented, "one pointer per workspace at the image *)
(* that workspace last launched against": what a sweep keeps when it has no  *)
(* running container to go by holds the image of every running jail's last   *)
(* launch, so that the image outlives the jail.                              *)
KeepsCurrentImages ==
    \A w \in there : pc[w] = "up" => on[w] \in PointedBy(there) \cup {latest}
=============================================================================
