-------------------------- MODULE WorkspaceStorage --------------------------
(***************************************************************************)
(* Opening, backing up and restoring a workspace                           *)
(* (lipas/workspace_storage.py, lipas/runtime.py).  A restore moves the    *)
(* old workspace.db, runs/ and .installation.json aside, publishes the     *)
(* staged ones one after the other and deletes the old ones; a durable     *)
(* marker lets the next process finish or undo what a crash interrupted.   *)
(* Runtimes and backups work under the shared side of the flock that a     *)
(* restore, a recovery and the creation of a workspace hold exclusively.   *)
(*                                                                         *)
(* A process may stop between any two file operations, and an exception    *)
(* may leave a restore at any of them (the OSErrors that its undo          *)
(* suppresses are left out).  An exception in a recovery has the effect of *)
(* a stop there.  The bundle is verified before anything is moved; the     *)
(* rollback bundle that keep_backup adds touches none of this state.  A    *)
(* database stands for its file with its write-ahead log, "torn" for a     *)
(* directory that was only partly deleted.                                 *)
(***************************************************************************)
EXTENDS Integers, Sequences, FiniteSets

CONSTANTS
  Procs,
  NoProc,
  MaxCrashes,  \* bound on stopping processes
  MaxErrors    \* bound on exceptions inside a restore

ASSUME StorageAssumption == NoProc \notin Procs /\ {MaxCrashes, MaxErrors} \subseteq Nat

Parts == {"db", "runs", "manifest"}
\* What the home held at first, the bundle, a workspace created anew.
Trees == {"workspace", "bundle", "fresh"}
Content == Trees \cup {"none", "torn"}
Empty == [f \in Parts |-> "none"]
NoMarker == [pending |-> FALSE, had |-> {}]
Lapses == {"undo cut short", "deletion cut short", "marker overtaken", "lease slipped"}

VARIABLES
  \* the home directory: the parts under their own names, the parts under the
  \* *.pre-bundle-* names of the marker, had_database, had_runs, had_manifest
  place, aside, marker,
  \* the flock on the runtime lock file
  exclusive, shared,
  \* in memory: where a process is, what it will do once no restore is pending,
  \* and the parts that the restore under the exclusive lease has published
  pc, task, published,
  \* history: has the bundle a manifest, did the home hold a workspace at first,
  \* the trees with a runs/ directory, the events that end a guarantee; bounds
  bundleManifest, inhabited, withRuns, lapses, crashes, errors

files == <<place, aside, marker>>
lock == <<exclusive, shared>>
history == <<bundleManifest, inhabited, withRuns, lapses, crashes, errors>>
vars == <<files, lock, pc, task, published, history>>

Init ==
  \* nothing, a database alone, with runs/, or installed with a manifest
  /\ place \in {f \in [Parts -> {"none", "workspace"}] :
                  /\ f["db"] = "none" => f = Empty
                  /\ f["runs"] = "none" => f["manifest"] = "none"}
  /\ aside = Empty
  /\ marker = NoMarker
  /\ exclusive = NoProc
  /\ shared = {}
  /\ pc = [p \in Procs |-> <<"idle", 1>>]
  /\ task = [p \in Procs |-> "open"]
  /\ published = {}
  /\ bundleManifest \in BOOLEAN
  /\ inhabited = (place["db"] # "none")
  /\ withRuns = {"bundle"} \cup ({place["runs"]} \ {"none"})
  /\ lapses = {}
  /\ crashes = 0
  /\ errors = 0

-----------------------------------------------------------------------------
(* Stages, and the order in which a stage handles the parts *)

Order(stage) ==
  CASE stage = "undo" -> <<"runs", "db", "manifest">>
    [] stage \in {"move", "publish"} /\ ~bundleManifest -> <<"db", "runs">>
    [] stage = "discard" -> <<"db", "runs">>
    [] OTHER -> <<"db", "runs", "manifest">>

Stage(p) == pc[p][1]
At(p, stage) == Stage(p) = stage
Part(p) == Order(Stage(p))[pc[p][2]]
Goto(p, stage) == pc' = [pc EXCEPT ![p] = <<stage, 1>>]
Advance(p, next) ==
  pc' = [pc EXCEPT ![p] = IF @[2] < Len(Order(@[1])) THEN <<@[1], @[2] + 1>>
                          ELSE <<next, 1>>]

Release(p) ==
  /\ exclusive' = IF exclusive = p THEN NoProc ELSE exclusive
  /\ shared' = shared \ {p}

\* The operation returns or raises.
Leave(p) == Goto(p, "idle") /\ Release(p) /\ UNCHANGED <<files, task, published>>

\* Mutant: a restore does not wait for open runtimes.
ExclusiveFree_Runtimes == exclusive = NoProc
ExclusiveFree == exclusive = NoProc /\ shared = {}
SharedFree == exclusive = NoProc

TakeExclusive(p, stage, next) ==
  /\ At(p, stage)
  /\ ExclusiveFree
  /\ exclusive' = p
  /\ Goto(p, next)
  /\ UNCHANGED <<files, shared, task, published>>

TakeShared(p, stage, next) ==
  /\ At(p, stage)
  /\ SharedFree
  /\ shared' = shared \cup {p}
  /\ Goto(p, next)
  /\ UNCHANGED <<files, exclusive, task, published>>

Exists(f) == place[f] # "none"
Current == Exists("db") /\ ~marker.pending
Uninitialized == ~Exists("db") /\ ~marker.pending

Remove(tree, f) == [tree EXCEPT ![f] = "none"]
Replace(tree, f, content) == [tree EXCEPT ![f] = content]

-----------------------------------------------------------------------------
(* recover_pending_restore, the first thing every operation does *)

Begin(p, t) ==
  /\ At(p, "idle")
  /\ task' = [task EXCEPT ![p] = t]
  /\ Goto(p, "recover")
  /\ UNCHANGED <<files, lock, published>>

LooksForMarker(p) ==
  /\ At(p, "recover")
  /\ Goto(p, IF marker.pending THEN "recover_lease" ELSE task[p])
  /\ UNCHANGED <<files, lock, task, published>>

NewComplete ==
  Exists("db") /\ Exists("runs") /\ ("manifest" \in marker.had => Exists("manifest"))
OldComplete == \A f \in marker.had : aside[f] # "none"

\* Under the lease the marker is read again.
Decides(p) ==
  /\ At(p, "recovering")
  /\ \/ ~marker.pending /\ Goto(p, task[p]) /\ Release(p)
     \/ marker.pending /\ NewComplete /\ Goto(p, "drop") /\ UNCHANGED lock
     \/ marker.pending /\ ~NewComplete /\ OldComplete /\ Goto(p, "remove") /\ UNCHANGED lock
     \/ marker.pending /\ ~NewComplete /\ ~OldComplete /\ Goto(p, "idle") /\ Release(p)
  /\ UNCHANGED <<files, task, published>>

\* The new tree stays: the old one goes.
Drop(p) ==
  /\ At(p, "drop")
  /\ aside' = Remove(aside, Part(p))
  /\ Advance(p, "settled")
  /\ UNCHANGED <<place, marker, lock, task, published>>

\* The old tree comes back: first what is in its place goes.
RemoveNew(p) ==
  /\ At(p, "remove")
  /\ place' = Remove(place, Part(p))
  /\ Advance(p, "put_back")
  /\ UNCHANGED <<aside, marker, lock, task, published>>

PutBack(p) ==
  /\ At(p, "put_back")
  /\ IF Part(p) \in marker.had
       THEN place' = Replace(place, Part(p), aside[Part(p)]) /\ aside' = Remove(aside, Part(p))
       ELSE UNCHANGED <<place, aside>>
  /\ Advance(p, "settled")
  /\ UNCHANGED <<marker, lock, task, published>>

Settled(p) ==
  /\ At(p, "settled")
  /\ marker' = NoMarker
  /\ Goto(p, task[p])
  /\ Release(p)
  /\ UNCHANGED <<place, aside, task, published>>

RecoveryStep(p) ==
  \/ LooksForMarker(p)
  \/ TakeExclusive(p, "recover_lease", "recovering")
  \/ Decides(p)
  \/ Drop(p)
  \/ RemoveNew(p)
  \/ PutBack(p)
  \/ Settled(p)

-----------------------------------------------------------------------------
(* restore_bundle *)

\* had_*: which parts there are.  A marker that is pending all the same (it was
\* looked for before the lease was taken) is replaced, and nothing names the
\* parts it kept aside any more.
WriteMarker(p) ==
  /\ At(p, "restoring")
  /\ Exists("runs") => Exists("db")
  /\ marker' = [pending |-> TRUE, had |-> {f \in Parts : Exists(f)}]
  /\ aside' = Empty
  /\ published' = {}
  /\ lapses' = IF marker.pending THEN lapses \cup {"marker overtaken"} ELSE lapses
  /\ Goto(p, "move")
  /\ UNCHANGED <<place, lock, task>>

MoveAside(p) ==
  /\ At(p, "move")
  /\ IF Exists(Part(p))
       THEN place' = Remove(place, Part(p)) /\ aside' = Replace(aside, Part(p), place[Part(p)])
       ELSE UNCHANGED <<place, aside>>
  /\ Advance(p, "publish")
  /\ UNCHANGED <<marker, lock, task, published>>

Publish(p) ==
  /\ At(p, "publish")
  /\ place' = Replace(place, Part(p), "bundle")
  /\ published' = published \cup {Part(p)}
  /\ Advance(p, "discard")
  /\ UNCHANGED <<aside, marker, lock, task>>

Discard(p) ==
  /\ At(p, "discard")
  /\ aside' = Remove(aside, Part(p))
  /\ Advance(p, "restored")
  /\ UNCHANGED <<place, marker, lock, task, published>>

\* The marker goes, then the lease, then the old manifest.
Restored(p) ==
  /\ At(p, "restored")
  /\ marker' = NoMarker
  /\ aside' = Empty
  /\ Goto(p, "idle")
  /\ Release(p)
  /\ UNCHANGED <<place, task, published>>

\* An exception leaves the restore: before the marker is written there is
\* nothing to undo.
Raises(p) ==
  /\ errors < MaxErrors
  /\ errors' = errors + 1
  /\ \/ At(p, "restoring") /\ Leave(p) /\ UNCHANGED lapses
     \/ /\ Stage(p) \in {"move", "publish", "discard", "restored"}
        /\ lapses' = IF At(p, "restored") \/ (At(p, "discard") /\ Part(p) = "runs")
                     THEN lapses \cup {"deletion cut short"} ELSE lapses
        /\ Goto(p, "undo")
        /\ UNCHANGED <<files, lock, task, published>>
  /\ UNCHANGED <<bundleManifest, inhabited, withRuns, crashes>>

\* The undo, for each part: the published one goes, the old one comes back.
\* Mutant: the old part comes back only where nothing was published.
UndoPart_Unpublished(p) ==
  IF Part(p) \in published
    THEN /\ place' = Remove(place, Part(p))
         /\ published' = published \ {Part(p)}
         /\ Advance(p, "undone")
         /\ UNCHANGED aside
    ELSE /\ place' = IF aside[Part(p)] = "none" THEN place
                     ELSE Replace(place, Part(p), aside[Part(p)])
         /\ aside' = Remove(aside, Part(p))
         /\ Advance(p, "undone")
         /\ UNCHANGED published

UndoPart(p) ==
  IF Part(p) \in published
    THEN /\ place' = Remove(place, Part(p))
         /\ published' = published \ {Part(p)}
         /\ UNCHANGED <<aside, pc>>
    ELSE /\ place' = IF aside[Part(p)] = "none" THEN place
                     ELSE Replace(place, Part(p), aside[Part(p)])
         /\ aside' = Remove(aside, Part(p))
         /\ Advance(p, "undone")
         /\ UNCHANGED published

Undo(p) == At(p, "undo") /\ UndoPart(p) /\ UNCHANGED <<marker, lock, task>>

\* The exception goes on; the marker stays, and what is still aside is deleted.
Undone(p) ==
  /\ At(p, "undone")
  /\ aside' = Empty
  /\ Goto(p, "idle")
  /\ Release(p)
  /\ UNCHANGED <<place, marker, task, published>>

\* rmtree deletes a directory file by file.
Tears(p) ==
  /\ \/ /\ Stage(p) \in {"drop", "discard"}
        /\ Part(p) = "runs" /\ aside["runs"] \in Trees
        /\ aside' = Replace(aside, "runs", "torn")
        /\ UNCHANGED place
     \/ /\ At(p, "remove") \/ (At(p, "undo") /\ "runs" \in published)
        /\ Part(p) = "runs" /\ place["runs"] \in Trees
        /\ place' = Replace(place, "runs", "torn")
        /\ UNCHANGED aside
  /\ UNCHANGED <<marker, lock, pc, task, published>>

RestoreStep(p) ==
  \/ TakeExclusive(p, "restore", "restoring")
  \/ At(p, "restoring") /\ Exists("runs") /\ ~Exists("db") /\ Leave(p)
  \/ MoveAside(p)
  \/ Publish(p)
  \/ Discard(p)
  \/ Restored(p)
  \/ Undo(p)
  \/ Undone(p)
  \/ Tears(p)

-----------------------------------------------------------------------------
(* Opening a runtime; backup and backup_bundle *)

Inspects(p) ==
  /\ At(p, "open")
  /\ Goto(p, CASE Current -> "share" [] Uninitialized -> "bootstrap" [] OTHER -> "idle")
  /\ UNCHANGED <<files, lock, task, published>>

\* A first opener that finds the lock taken looks whether another has finished.
SeesCurrent(p) ==
  /\ At(p, "bootstrap")
  /\ ~ExclusiveFree /\ Current
  /\ Goto(p, "bootstrap_share")
  /\ UNCHANGED <<files, lock, task, published>>

TriesAgain(p) ==
  /\ At(p, "bootstrap_share")
  /\ ~SharedFree
  /\ Goto(p, "bootstrap")
  /\ UNCHANGED <<files, lock, task, published>>

\* Under the exclusive lease the workspace is inspected again.
Initializes(p) ==
  /\ At(p, "initialize")
  /\ \/ /\ Uninitialized
        /\ place' = Replace(place, "db", "fresh")
        /\ Goto(p, "downgrade")
        /\ UNCHANGED lock
     \/ Current /\ Goto(p, "downgrade") /\ UNCHANGED <<place, lock>>
     \/ ~Uninitialized /\ ~Current /\ Goto(p, "idle") /\ Release(p) /\ UNCHANGED place
  /\ UNCHANGED <<aside, marker, task, published>>

\* make_shared: flock gives up the one lock before it takes the other.
Downgrades(p) ==
  /\ At(p, "downgrade")
  /\ exclusive' = NoProc
  /\ \/ shared' = shared \cup {p} /\ Goto(p, "running") /\ UNCHANGED lapses
     \/ /\ Goto(p, "downgrading")
        /\ lapses' = lapses \cup {"lease slipped"}
        /\ UNCHANGED shared
  /\ UNCHANGED <<files, task, published>>

\* require_current under the lease: an empty workspace is not created here, for
\* the lease of this very runtime keeps the exclusive one away.
Checks(p) ==
  /\ At(p, "check")
  /\ IF Current
       THEN Goto(p, IF task[p] = "open" THEN "running" ELSE "reading") /\ UNCHANGED lock
       ELSE Goto(p, "idle") /\ Release(p)
  /\ UNCHANGED <<files, task, published>>

\* A run of an open runtime makes its directory.
StartsRun(p) ==
  /\ At(p, "running")
  /\ ~Exists("runs") /\ Exists("db")
  /\ place' = Replace(place, "runs", place["db"])
  /\ withRuns' = withRuns \cup {place["db"]}
  /\ UNCHANGED <<aside, marker, lock, pc, task, published>>

\* A lease that does not come: at once, or after a hundred attempts.
Refused(p) ==
  /\ \/ Stage(p) \in {"recover_lease", "restore", "bootstrap"} /\ ~ExclusiveFree
     \/ Stage(p) \in {"share", "bootstrap_share", "backup"} /\ ~SharedFree
  /\ Leave(p)

InUse(p) == Stage(p) \in {"running", "reading"}

StoresOpen(p) == InUse(p) \/ Stage(p) \in {"downgrade", "downgrading"}

OpenStep(p) ==
  \/ Inspects(p)
  \/ TakeShared(p, "share", "check")
  \/ TakeExclusive(p, "bootstrap", "initialize")
  \/ SeesCurrent(p)
  \/ TakeShared(p, "bootstrap_share", "check")
  \/ TriesAgain(p)
  \/ Initializes(p)
  \/ TakeShared(p, "downgrading", "running")
  \/ TakeShared(p, "backup", "check")
  \/ Checks(p)
  \/ Refused(p)
  \/ InUse(p) /\ Leave(p)

-----------------------------------------------------------------------------
\* The process stops: the system releases its locks.
Crash(p) ==
  /\ ~At(p, "idle")
  /\ crashes < MaxCrashes
  /\ crashes' = crashes + 1
  /\ lapses' = IF At(p, "undo") THEN lapses \cup {"undo cut short"} ELSE lapses
  /\ Leave(p)
  /\ UNCHANGED <<bundleManifest, inhabited, withRuns, errors>>

Next ==
  \E p \in Procs :
    \/ \E t \in {"open", "backup", "restore"} : Begin(p, t) /\ UNCHANGED history
    \/ (RecoveryStep(p) \/ RestoreStep(p) \/ OpenStep(p)) /\ UNCHANGED history
    \/ (WriteMarker(p) \/ Downgrades(p))
         /\ UNCHANGED <<bundleManifest, inhabited, withRuns, crashes, errors>>
    \/ StartsRun(p) /\ UNCHANGED <<bundleManifest, inhabited, lapses, crashes, errors>>
    \/ Raises(p)
    \/ Crash(p)

Spec == Init /\ [][Next]_vars

-----------------------------------------------------------------------------
Stages == {"idle", "recover", "recover_lease", "recovering", "drop", "remove", "put_back",
           "settled", "restore", "restoring", "move", "publish", "discard", "restored",
           "undo", "undone", "open", "share", "bootstrap", "bootstrap_share", "initialize",
           "downgrade", "downgrading", "check", "running", "backup", "reading"}
UnderExclusive == {"recovering", "drop", "remove", "put_back", "settled", "restoring", "move",
                   "publish", "discard", "restored", "undo", "undone", "initialize",
                   "downgrade"}

\* Every variable keeps its type; the lock is held exclusively by the one
\* process that is in a stage that needs it so, and shared in the stages that
\* work on an open workspace.
TypeOK ==
  /\ place \in [Parts -> Content] /\ aside \in [Parts -> Content]
  /\ marker \in [pending : BOOLEAN, had : SUBSET Parts]
  /\ task \in [Procs -> {"open", "backup", "restore"}]
  /\ \A p \in Procs : Stage(p) \in Stages /\ pc[p][2] \in 1..Len(Order(Stage(p)))
  /\ \A p \in Procs : Stage(p) \in UnderExclusive <=> exclusive = p
  /\ \A p \in Procs : (InUse(p) \/ At(p, "check")) <=> p \in shared
  /\ published \subseteq Parts /\ withRuns \subseteq Trees /\ lapses \subseteq Lapses
  /\ bundleManifest \in BOOLEAN /\ inhabited \in BOOLEAN
  /\ crashes \in 0..MaxCrashes /\ errors \in 0..MaxErrors

\* No runtime or backup works on a half-restored workspace (runtime.py: "no
\* component ever opens a mixed old/new workspace"): the database and runs/ are
\* those of one tree, which is a new one only where there was none, a published
\* manifest goes with a published database, and no restore is pending.  Three
\* events take this away: a process stopped inside an undo, a restore that
\* looked for a marker before another left one, and a downgrade that lost the
\* lock on the way.
OpenedWhole ==
  lapses \subseteq {"deletion cut short"} => \A p \in Procs : InUse(p) =>
    /\ ~marker.pending
    /\ place["runs"] = (IF place["db"] \in withRuns THEN place["db"] ELSE "none")
    /\ place["db"] \in (IF inhabited THEN {"workspace", "bundle"} ELSE {"bundle", "fresh"})
    /\ place["manifest"] = "bundle" => place["db"] = "bundle"

\* Wherever a process stops or raises, once the home has had a workspace the
\* database and the run evidence of one tree are still all there, in place or
\* aside.  Three events take this away: a process stopped inside an undo, an
\* exception after a restore began to delete the old tree, and a restore that
\* replaced the marker of another.
TreeKept ==
  (lapses \subseteq {"lease slipped"} /\ inhabited) =>
    \E t \in Trees :
      /\ t \in {place["db"], aside["db"]}
      /\ t \in withRuns => t \in {place["runs"], aside["runs"]}

\* A home directory can always be used: nothing half-restored is opened, and a
\* whole tree is there to go back to.
HomeUsable == TypeOK /\ OpenedWhole /\ TreeKept

\* From the moment a runtime has opened its stores, and while a backup reads,
\* nothing replaces a part of the workspace under it: a restore is fenced from
\* active processes, unless the downgrade of a first opener lost the lock.
UseUndisturbed ==
  [][\A p \in Procs : (StoresOpen(p) /\ StoresOpen(p)') =>
       \/ "lease slipped" \in lapses
       \/ \A f \in Parts : Exists(f) => place'[f] = place[f]]_vars

\* "Best-effort rollback keeps a failed restore from stranding a workspace":
\* when no process has stopped and no recovery or restore is under way, a
\* pending marker is one that the next recovery settles.
FailedRestoreRecoverable ==
  (crashes = 0 /\ exclusive = NoProc /\ marker.pending) => NewComplete \/ OldComplete
=============================================================================
