---------------------------- MODULE CaptureStore ----------------------------
(***************************************************************************)
(* The machine-wide store of captured program installs: the capture that   *)
(* fills it (`yolo capture`, and the auto-capture of a launch), the prune   *)
(* that reaps what the resolver would not select, and the launchers that   *)
(* materialize the selected entry into a cold home.                        *)
(*                                                                         *)
(* An entry's key is the hash of its tree, so a key here IS the pair of a  *)
(* program and the content an installer run left: two programs never leave *)
(* the same tree, one program leaves one of Versions.  The platform is one.*)
(***************************************************************************)
EXTENDS Integers, FiniteSets

CONSTANTS Bins,        \* programs with `via: "installer"`
          Capturers,   \* processes running captureHost
          Pruners,     \* processes running `yolo prune --apply`
          Homes,       \* workspaces' homes, one launcher each
          Versions,    \* what a vendor's installer may leave (numbers: keys are ordered)
          LastFile,    \* how many paths a tree has
          HomeBin,     \* the program whose launcher runs in a home
          MaxPrunes,   \* bound: how often a human types `yolo prune`
          MaxFaults    \* bound: how many kills and failed operations

NoOne == "no one"                   \* an unlocked lock

ASSUME ConstantsAssumption ==
    /\ Versions \subseteq Nat \ {0}
    /\ LastFile \in Nat \ {0}
    /\ Bins # {} /\ IsFiniteSet(Bins)
    /\ Versions # {} /\ IsFiniteSet(Versions)
    /\ HomeBin \in [Homes -> Bins]
    /\ NoOne \notin Capturers
    /\ MaxPrunes \in Nat /\ MaxFaults \in Nat

Absent   == -1                      \* no file, or an empty staging directory
Mixed    == 0                       \* a tree two installer runs wrote into
Contents == Versions \cup {Mixed}
Keys     == Bins \X Contents
Files    == 1..LastFile             \* in manifest order
RealBin  == 1                       \* the path of $REAL_BIN
NoKey    == CHOOSE k \in Keys : TRUE  \* what a variable holds while it means nothing

VARIABLES
    dir,       \* entries/<key>: "none", "bare" (metadata without tree/) or "full"
    frozen,    \* the files of tree/ have lost their write bits
    marker,    \* .yolo-capture-complete is there
    rec,       \* age rank of the newest `record` receipt beside the entry; 0 = none
    staged,    \* what staging/<bin> holds
    lock,      \* who holds capture-<bin>.lock
    cpc, cbin, cver,            \* a capture: its step, its program, the content it admits
    ppc, victims, cur,          \* a prune: its step, what it lists, what it is reaping
    hpc, want, at, home,        \* a launcher: its step, entry and next path; the home's files
    crossed,   \* history: a capture of this program and a prune have overlapped
    undercut,  \* history: a prune removed a tree admitted after it took the old marker
    prunes, faults

store == <<dir, frozen, marker, rec>>
capVars == <<staged, lock, cpc, cbin, cver>>
pruneVars == <<ppc, victims, cur, prunes>>
homeVars == <<hpc, want, at, home>>
history == <<crossed, undercut>>
others == <<pruneVars, homeVars, history, faults>>
vars == <<store, capVars, pruneVars, homeVars, history, faults>>

CaptureSteps == {"idle", "running", "installed", "rename", "freeze", "mark", "receipt", "cleanup"}
PruneSteps == {"idle", "listed", "reaping", "unlinking"}
HomeSteps == {"off", "manifest", "placing", "placed", "installer", "run"}

TypeOK ==
    /\ dir \in [Keys -> {"none", "bare", "full"}]
    /\ frozen \in [Keys -> BOOLEAN]
    /\ marker \in [Keys -> BOOLEAN]
    /\ rec \in [Keys -> Nat]
    /\ staged \in [Bins -> Contents \cup {Absent}]
    /\ lock \in [Bins -> Capturers \cup {NoOne}]
    /\ cpc \in [Capturers -> CaptureSteps]
    /\ cbin \in [Capturers -> Bins]
    /\ cver \in [Capturers -> Contents \cup {Absent}]
    /\ ppc \in [Pruners -> PruneSteps]
    /\ victims \in [Pruners -> SUBSET Keys]
    /\ cur \in [Pruners -> Keys]
    /\ hpc \in [Homes -> HomeSteps]
    /\ want \in [Homes -> Keys]
    /\ at \in [Homes -> Files \cup {0}]
    /\ home \in [Homes -> [Files -> Contents \cup {Absent}]]
    /\ crossed \in [Bins -> BOOLEAN]
    /\ undercut \in [Keys -> BOOLEAN]
    /\ prunes \in 0..MaxPrunes
    /\ faults \in 0..MaxFaults

Init ==
    /\ dir = [k \in Keys |-> "none"]
    /\ frozen = [k \in Keys |-> FALSE]
    /\ marker = [k \in Keys |-> FALSE]
    /\ rec = [k \in Keys |-> 0]
    /\ staged = [b \in Bins |-> Absent]
    /\ lock = [b \in Bins |-> NoOne]
    /\ cpc = [c \in Capturers |-> "idle"]
    /\ cbin = [c \in Capturers |-> NoKey[1]]
    /\ cver = [c \in Capturers |-> Absent]
    /\ ppc = [p \in Pruners |-> "idle"]
    /\ victims = [p \in Pruners |-> {}]
    /\ cur = [p \in Pruners |-> NoKey]
    /\ hpc = [h \in Homes |-> "off"]
    /\ want = [h \in Homes |-> NoKey]
    /\ at = [h \in Homes |-> 0]
    /\ home = [h \in Homes |-> [f \in Files |-> Absent]]
    /\ crossed = [b \in Bins |-> FALSE]
    /\ undercut = [k \in Keys |-> FALSE]
    /\ prunes = 0
    /\ faults = 0

-----------------------------------------------------------------------------
(* The resolver.  A view gives every candidate entry the age rank of its    *)
(* newest record, and 0 to an entry that is no candidate.                   *)

StoreView == [k \in Keys |-> IF marker[k] THEN rec[k] ELSE 0]

(* Newest record of its program wins, the greater key breaks a tie.         *)
Wins(view, k) ==
    /\ view[k] > 0
    /\ \A j \in Keys : j[1] = k[1] =>
          \/ view[j] < view[k]
          \/ view[j] = view[k] /\ j[2] <= k[2]

Winners(view) == {k \in Keys : Wins(view, k)}
Selected(b) == {k \in Winners(StoreView) : k[1] = b}

(* Only the order of the stamps of one program's receipts decides anything, *)
(* so a stamp is kept as its rank among them: how many are older, plus one. *)
Ranks(stamp) ==
    [k \in Keys |-> IF stamp[k] = 0 THEN 0
                    ELSE Cardinality({j \in Keys : /\ j[1] = k[1]
                                                   /\ 0 < stamp[j] /\ stamp[j] < stamp[k]}) + 1]

(* A new receipt is stamped in the second of the newest one, or later: at   *)
(* least as late as every other of its program.                             *)
NewStamps(b) ==
    {t \in 1..(Cardinality(Contents) + 1) : \A j \in Keys : j[1] = b => rec[j] <= t}

-----------------------------------------------------------------------------
(* captureHost: one capture of one program at a time.                       *)

Key(c) == <<cbin[c], cver[c]>>
Capturing(b) == \E c \in Capturers : cpc[c] # "idle" /\ cbin[c] = b
Pruning == \E p \in Pruners : ppc[p] # "idle"

GoC(c, step) == cpc' = [cpc EXCEPT ![c] = step]

(* Mutation of Capture: staging keeps what a killed capture left.           *)
CaptureUnstaged(c, b) ==
    /\ cpc[c] = "idle" /\ lock[b] = NoOne
    /\ lock' = [lock EXCEPT ![b] = c]
    /\ cbin' = [cbin EXCEPT ![c] = b]
    /\ crossed' = [crossed EXCEPT ![b] = @ \/ Pruning]
    /\ GoC(c, "running")
    /\ UNCHANGED <<store, staged, cver, pruneVars, homeVars, undercut, faults>>

(* The lock is tried, not waited for: a second capture of b does nothing.   *)
(* Stage removes what a killed capture of b left in staging/<b>.            *)
Capture(c, b) ==
    /\ cpc[c] = "idle" /\ lock[b] = NoOne
    /\ lock' = [lock EXCEPT ![b] = c]
    /\ cbin' = [cbin EXCEPT ![c] = b]
    /\ staged' = [staged EXCEPT ![b] = Absent]
    /\ crossed' = [crossed EXCEPT ![b] = @ \/ Pruning]
    /\ GoC(c, "running")
    /\ UNCHANGED <<store, cver, pruneVars, homeVars, undercut, faults>>

(* A launch captures what the resolver misses.                              *)
AutoCapture(c, b) == Selected(b) = {} /\ Capture(c, b)

(* The capture jail ran the vendor's installer, which left version v.       *)
Install(c) ==
    /\ cpc[c] = "running"
    /\ \E v \in Versions :
          staged' = [staged EXCEPT ![cbin[c]] = IF @ \in {Absent, v} THEN v ELSE Mixed]
    /\ GoC(c, "installed")
    /\ UNCHANGED <<store, lock, cbin, cver, others>>

(* Mutation of Admit: a repeat is taken for recorded, and gets no new receipt. *)
AdmitRepeatUnrecorded(c) ==
    LET k == <<cbin[c], staged[cbin[c]]>> IN
    /\ cpc[c] = "installed"
    /\ cver' = [cver EXCEPT ![c] = staged[cbin[c]]]
    /\ IF marker[k]
       THEN GoC(c, "cleanup") /\ UNCHANGED <<dir, frozen, rec>>
       ELSE /\ dir' = [dir EXCEPT ![k] = "none"]
            /\ frozen' = [frozen EXCEPT ![k] = FALSE]
            /\ rec' = Ranks([rec EXCEPT ![k] = 0])
            /\ GoC(c, "rename")
    /\ UNCHANGED <<marker, staged, lock, cbin, pruneVars, homeVars, history, faults>>

(* A complete entry is kept as it is and the staged duplicate removed;      *)
(* anything else under the key is removed whole, receipts included.         *)
Admit(c) ==
    LET k == <<cbin[c], staged[cbin[c]]>> IN
    /\ cpc[c] = "installed"
    /\ cver' = [cver EXCEPT ![c] = staged[cbin[c]]]
    /\ \/ /\ marker[k]
          /\ staged' = [staged EXCEPT ![cbin[c]] = Absent]
          /\ GoC(c, "receipt")
          /\ UNCHANGED <<store, undercut>>
       \/ /\ ~marker[k]
          /\ dir' = [dir EXCEPT ![k] = "none"]
          /\ frozen' = [frozen EXCEPT ![k] = FALSE]
          /\ rec' = Ranks([rec EXCEPT ![k] = 0])
          /\ undercut' = [undercut EXCEPT ![k] = FALSE]
          /\ GoC(c, "rename")
          /\ UNCHANGED <<marker, staged>>
    /\ UNCHANGED <<lock, cbin, pruneVars, homeVars, crossed, faults>>

(* Mutation of Rename: the marker is written with the rename, not last.     *)
RenameMarks(c) ==
    /\ cpc[c] = "rename"
    /\ dir' = [dir EXCEPT ![Key(c)] = "full"]
    /\ marker' = [marker EXCEPT ![Key(c)] = TRUE]
    /\ staged' = [staged EXCEPT ![cbin[c]] = Absent]
    /\ GoC(c, "freeze")
    /\ UNCHANGED <<frozen, rec, lock, cbin, cver, others>>

Rename(c) ==
    /\ cpc[c] = "rename"
    /\ dir' = [dir EXCEPT ![Key(c)] = "full"]
    /\ staged' = [staged EXCEPT ![cbin[c]] = Absent]
    /\ GoC(c, "freeze")
    /\ UNCHANGED <<frozen, marker, rec, lock, cbin, cver, others>>

(* The walk of a tree that is gone fails, and with it the capture.          *)
Freeze(c) ==
    /\ cpc[c] = "freeze"
    /\ \/ /\ dir[Key(c)] = "full"
          /\ frozen' = [frozen EXCEPT ![Key(c)] = TRUE]
          /\ GoC(c, "mark")
       \/ dir[Key(c)] # "full" /\ GoC(c, "cleanup") /\ UNCHANGED frozen
    /\ UNCHANGED <<dir, marker, rec, staged, lock, cbin, cver, others>>

Mark(c) ==
    /\ cpc[c] = "mark"
    /\ marker' = [marker EXCEPT ![Key(c)] = TRUE]
    /\ GoC(c, "receipt")
    /\ UNCHANGED <<dir, frozen, rec, staged, lock, cbin, cver, others>>

AppendReceipt(c) ==
    /\ cpc[c] = "receipt"
    /\ \E t \in NewStamps(cbin[c]) : rec' = Ranks([rec EXCEPT ![Key(c)] = t])
    /\ GoC(c, "cleanup")
    /\ UNCHANGED <<dir, frozen, marker, staged, lock, cbin, cver, others>>

(* Any error return: the jail's exit code, an unreadable manifest, an empty *)
(* delta, an I/O error of the admit or of the receipt.                      *)
Fail(c) ==
    /\ cpc[c] \notin {"idle", "cleanup"} /\ faults < MaxFaults
    /\ faults' = faults + 1
    /\ GoC(c, "cleanup")
    /\ UNCHANGED <<store, staged, lock, cbin, cver, pruneVars, homeVars, history>>

(* The deferred calls: the scratch workspace, then the lock.                *)
Cleanup(c) ==
    /\ cpc[c] = "cleanup"
    /\ staged' = [staged EXCEPT ![cbin[c]] = Absent]
    /\ lock' = [lock EXCEPT ![cbin[c]] = NoOne]
    /\ cver' = [cver EXCEPT ![c] = Absent]
    /\ cbin' = [cbin EXCEPT ![c] = NoKey[1]]
    /\ GoC(c, "idle")
    /\ UNCHANGED <<store, pruneVars, homeVars, history, faults>>

(* A kill closes the lock's descriptor and leaves everything else.          *)
CrashCapture(c) ==
    /\ cpc[c] # "idle" /\ faults < MaxFaults
    /\ faults' = faults + 1
    /\ lock' = [lock EXCEPT ![cbin[c]] = NoOne]
    /\ cver' = [cver EXCEPT ![c] = Absent]
    /\ cbin' = [cbin EXCEPT ![c] = NoKey[1]]
    /\ GoC(c, "idle")
    /\ UNCHANGED <<store, staged, pruneVars, homeVars, history>>

-----------------------------------------------------------------------------
(* PruneSupersededCaptures: one scan, then every entry that is no winner of *)
(* it, marker first.  It takes no capture lock.                             *)

(* The tree now under the key is one a capture moved in without the marker, *)
(* or has marked since: not the one a reap past its marker chose.           *)
Overtaken(k) ==
    marker[k] \/ \E c \in Capturers : cpc[c] \in {"freeze", "mark"} /\ Key(c) = k

GoP(p, step) == ppc' = [ppc EXCEPT ![p] = step]

(* EntryKeys: the entries whose marker is there.                            *)
List(p) ==
    /\ ppc[p] = "idle" /\ prunes < MaxPrunes
    /\ prunes' = prunes + 1
    /\ victims' = [victims EXCEPT ![p] = {k \in Keys : marker[k]}]
    /\ crossed' = [b \in Bins |-> crossed[b] \/ Capturing(b)]
    /\ GoP(p, "listed")
    /\ UNCHANGED <<store, capVars, cur, homeVars, undercut, faults>>

(* Mutation of ReadRecords: the reaper breaks a tie the other way.          *)
ReadRecordsLesserKey(p) ==
    LET view == [k \in Keys |-> IF k \in victims[p] THEN rec[k] ELSE 0]
        keeps == {k \in Keys : view[k] > 0 /\ \A j \in Keys : j[1] = k[1] =>
                     \/ view[j] < view[k]
                     \/ view[j] = view[k] /\ k[2] <= j[2]} IN
    /\ ppc[p] = "listed"
    /\ victims' = [victims EXCEPT ![p] = @ \ keeps]
    /\ GoP(p, "reaping")
    /\ UNCHANGED <<store, capVars, cur, prunes, homeVars, history, faults>>

(* The listed entries' receipts, and the complement of selectFrom.          *)
ReadRecords(p) ==
    LET view == [k \in Keys |-> IF k \in victims[p] THEN rec[k] ELSE 0] IN
    /\ ppc[p] = "listed"
    /\ victims' = [victims EXCEPT ![p] = @ \ Winners(view)]
    /\ GoP(p, "reaping")
    /\ UNCHANGED <<store, capVars, cur, prunes, homeVars, history, faults>>

ReapMarker(p) ==
    /\ ppc[p] = "reaping"
    /\ \E k \in victims[p] :
          /\ marker' = [marker EXCEPT ![k] = FALSE]
          /\ cur' = [cur EXCEPT ![p] = k]
    /\ GoP(p, "unlinking")
    /\ UNCHANGED <<dir, frozen, rec, capVars, victims, prunes, homeVars, history, faults>>

(* RemoveAll(tree/): the manifest and the receipts stay.                    *)
ReapTree(p) ==
    /\ ppc[p] = "unlinking"
    /\ dir' = [dir EXCEPT ![cur[p]] = IF @ = "full" THEN "bare" ELSE @]
    /\ undercut' = [undercut EXCEPT ![cur[p]] = @ \/ Overtaken(cur[p])]
    /\ victims' = [victims EXCEPT ![p] = @ \ {cur[p]}]
    /\ cur' = [cur EXCEPT ![p] = NoKey]
    /\ GoP(p, "reaping")
    /\ UNCHANGED <<frozen, marker, rec, capVars, prunes, homeVars, crossed, faults>>

EndPrune(p) ==
    /\ ppc[p] = "reaping" /\ victims[p] = {}
    /\ GoP(p, "idle")
    /\ UNCHANGED <<store, capVars, victims, cur, prunes, homeVars, history, faults>>

CrashPrune(p) ==
    /\ ppc[p] # "idle" /\ faults < MaxFaults
    /\ faults' = faults + 1
    /\ victims' = [victims EXCEPT ![p] = {}]
    /\ cur' = [cur EXCEPT ![p] = NoKey]
    /\ GoP(p, "idle")
    /\ UNCHANGED <<store, capVars, prunes, homeVars, history>>

-----------------------------------------------------------------------------
(* The launcher of HomeBin[h]: materialize into a cold home, else download. *)

GoH(h, step) == hpc' = [hpc EXCEPT ![h] = step]

(* A home that has $REAL_BIN runs it; a cold one asks the resolver.         *)
Launch(h) ==
    /\ hpc[h] = "off"
    /\ \/ home[h][RealBin] # Absent /\ GoH(h, "run") /\ UNCHANGED want
       \/ /\ home[h][RealBin] = Absent /\ Selected(HomeBin[h]) = {}
          /\ GoH(h, "installer") /\ UNCHANGED want
       \/ /\ home[h][RealBin] = Absent
          /\ \E k \in Selected(HomeBin[h]) : want' = [want EXCEPT ![h] = k]
          /\ GoH(h, "manifest")
    /\ UNCHANGED <<store, capVars, pruneVars, at, home, history, faults>>

ReadManifest(h) ==
    /\ hpc[h] = "manifest"
    /\ \/ dir[want[h]] # "none" /\ GoH(h, "placing") /\ at' = [at EXCEPT ![h] = 1]
       \/ dir[want[h]] = "none" /\ GoH(h, "installer") /\ UNCHANGED at
    /\ UNCHANGED <<store, capVars, pruneVars, want, home, history, faults>>

(* Mutation of Place: a source that is gone is passed over.                 *)
PlaceWhatIsThere(h) ==
    /\ hpc[h] = "placing"
    /\ home' = IF dir[want[h]] = "full"
               THEN [home EXCEPT ![h] = [@ EXCEPT ![at[h]] = want[h][2]]] ELSE home
    /\ IF at[h] + 1 \in Files
       THEN at' = [at EXCEPT ![h] = at[h] + 1] /\ UNCHANGED hpc
       ELSE GoH(h, "placed") /\ UNCHANGED at
    /\ UNCHANGED <<store, capVars, pruneVars, want, history, faults>>

(* placeEntry of one path, by reflink, hardlink or copy.                    *)
Place(h) ==
    /\ hpc[h] = "placing" /\ dir[want[h]] = "full"
    /\ home' = [home EXCEPT ![h] = [@ EXCEPT ![at[h]] = want[h][2]]]
    /\ IF at[h] + 1 \in Files
       THEN at' = [at EXCEPT ![h] = at[h] + 1] /\ UNCHANGED hpc
       ELSE GoH(h, "placed") /\ UNCHANGED at
    /\ UNCHANGED <<store, capVars, pruneVars, want, history, faults>>

(* The source is gone, or placing it fails: what was placed stays.          *)
PlaceFails(h) ==
    /\ hpc[h] = "placing"
    /\ \/ dir[want[h]] # "full" /\ UNCHANGED faults
       \/ faults < MaxFaults /\ faults' = faults + 1
    /\ GoH(h, "installer")
    /\ at' = [at EXCEPT ![h] = 0]
    /\ UNCHANGED <<store, capVars, pruneVars, want, home, history>>

(* capture-materialize exits 0 and the launcher executes $REAL_BIN.         *)
Materialized(h) ==
    /\ hpc[h] = "placed"
    /\ want' = [want EXCEPT ![h] = NoKey]
    /\ at' = [at EXCEPT ![h] = 0]
    /\ GoH(h, "run")
    /\ UNCHANGED <<store, capVars, pruneVars, home, history, faults>>

(* The vendor's installer overwrites its own paths, or fails; either way    *)
(* the launcher executes $REAL_BIN when it is there.                        *)
RunInstaller(h) ==
    /\ hpc[h] = "installer"
    /\ want' = [want EXCEPT ![h] = NoKey]
    /\ \/ /\ \E v \in Versions : home' = [home EXCEPT ![h] = [f \in Files |-> v]]
          /\ GoH(h, "run")
       \/ /\ GoH(h, IF home[h][RealBin] # Absent THEN "run" ELSE "off")
          /\ UNCHANGED home
    /\ UNCHANGED <<store, capVars, pruneVars, at, history, faults>>

(* A kill of the launcher leaves what it has placed.                        *)
CrashLaunch(h) ==
    /\ hpc[h] \notin {"off", "run"} /\ faults < MaxFaults
    /\ faults' = faults + 1
    /\ want' = [want EXCEPT ![h] = NoKey]
    /\ at' = [at EXCEPT ![h] = 0]
    /\ GoH(h, "off")
    /\ UNCHANGED <<store, capVars, pruneVars, home, history>>

Exit(h) ==
    /\ hpc[h] = "run"
    /\ GoH(h, "off")
    /\ UNCHANGED <<store, capVars, pruneVars, want, at, home, history, faults>>

-----------------------------------------------------------------------------
CaptureStep(c) == \/ Install(c) \/ Admit(c) \/ Rename(c) \/ Freeze(c) \/ Mark(c)
                  \/ AppendReceipt(c) \/ Cleanup(c)

Next ==
    \/ \E c \in Capturers :
          \/ \E b \in Bins : Capture(c, b)
          \/ CaptureStep(c)
          \/ Fail(c)
          \/ CrashCapture(c)
    \/ \E p \in Pruners : \/ List(p) \/ ReadRecords(p) \/ ReapMarker(p)
                          \/ ReapTree(p) \/ EndPrune(p) \/ CrashPrune(p)
    \/ \E h \in Homes : \/ Launch(h) \/ ReadManifest(h) \/ Place(h) \/ PlaceFails(h)
                        \/ Materialized(h) \/ RunInstaller(h) \/ CrashLaunch(h)
                        \/ Exit(h)

Spec == Init /\ [][Next]_vars

(* Launches keep coming (autoCapture runs in each), and a capture that has  *)
(* started runs on.  Nothing is asked of a prune or of a launcher.          *)
Fairness ==
    /\ \A b \in Bins : WF_vars(\E c \in Capturers : AutoCapture(c, b))
    /\ \A c \in Capturers : WF_vars(CaptureStep(c))

FairSpec == Spec /\ Fairness

-----------------------------------------------------------------------------
Whole(k) == dir[k] = "full" /\ frozen[k]

(* A materialize that reports success left one whole content in the home,   *)
(* whatever was captured or reaped while it placed the paths one by one     *)
(* (Materialize returns at the first path it cannot place).                 *)
MaterializedIsWhole ==
    \A h \in Homes : hpc[h] = "placed" => \A f \in Files : home[h][f] = want[h][2]

(* No entry holds files of two installer runs, kills in mid-capture         *)
(* included: Stage clears what a dead run left (store.go, Stage).           *)
OneRunPerEntry ==
    \A k \in Keys : dir[k] = "full" => k[2] \in Versions

(* A complete entry is a whole frozen tree, except where a prune that had   *)
(* already removed the marker of the entry's previous life removed the tree *)
(* of the next: no kill, failed step or second capture leaves one torn.     *)
TornOnlyByReap ==
    \A k \in Keys : marker[k] /\ ~Whole(k) => undercut[k]

(* A prune leaves the entry the resolver would select, ties between stamps  *)
(* included, unless a capture of its program and a prune have overlapped    *)
(* (gc.go: the reap is "the COMPLEMENT" of the selection).                  *)
SelectionSurvives ==
    [][\A k \in Winners(StoreView) : marker'[k] \/ crossed[k[1]]]_vars

(* The store fills for good once prunes and faults end: every stale staging *)
(* directory, unmarked entry and entry without a receipt they leave is      *)
(* overcome by the captures the next launches make.  What it then selects   *)
(* can be materialized, unless a reap took the tree of an entry's next life: *)
(* auto-capture resolves such an entry as a hit (cli/autocapture.go, 98),    *)
(* and a capture of the same content keeps it as it is: nothing repairs it.  *)
StoreFills ==
    \A b \in Bins :
        /\ <>[](Selected(b) # {})
        /\ \/ []<>(\E k \in Selected(b) : undercut[k])
           \/ <>[](\E k \in Selected(b) : Whole(k))

(* gc.go: interrupted the other way round an entry "would read COMPLETE     *)
(* with no tree, which is the one state that turns a miss into a loud       *)
(* mid-materialize failure".                                                *)
CompleteIsWhole == \A k \in Keys : marker[k] => Whole(k)

(* gc.go: "RECLAIMING IS NEVER A CORRECTNESS EVENT" - what a launcher       *)
(* executes is never a part of a program.                                   *)
RunsWhole ==
    \A h \in Homes : hpc[h] = "run" => \E v \in Versions : \A f \in Files : home[h][f] = v
=============================================================================
