------------------------- MODULE WorkspaceMigration -------------------------
(***************************************************************************)
(* The ways a whole workspace.db comes and goes (lipas/workspace_storage.py *)
(* and the constructor of lipas/runtime.py): the first opening, migrate     *)
(* from the legacy databases, rollback to them, restore of a single backup  *)
(* file, and online backups.  Runtimes write meanwhile.  Two fences keep    *)
(* them apart: the migration lock, a file with the pid of its owner that    *)
(* outlives a crash, and the lease, an flock that does not.                 *)
(*                                                                         *)
(* The database is a file and its write-ahead log: what is committed is in *)
(* either, whoever opens the file reads both, and whoever closes it as the *)
(* last one moves the log into the file.  A database is the set of the     *)
(* facts written to it.                                                    *)
(***************************************************************************)
EXTENDS Integers, FiniteSets

CONSTANTS
  Users, NoUser,
  Absent,        \* no database
  MaxWrites, MaxKills  \* bounds

ASSUME NoUserIsNobody == NoUser \notin Users
ASSUME AbsentIsNoDatabase ==
  MaxWrites \in Nat /\ \A facts \in SUBSET (-1 .. MaxWrites) : facts # Absent

VARIABLES
  legacy,     \* whether the home has databases of the first layout
  db, wal,    \* the file and its log
  backups,    \* the databases set aside
  fence,      \* the migration lock: owner, and whether it is stale
  sharers, excluder,  \* holders of the lease
  errand, phase,
  \* history and bounds
  expected,   \* what the last publication and the writes since made of it
  waived,     \* facts given up by a restore that keeps no backup
  overtaken,  \* a log outlived its file, and whoever opens that file reads it
  written, kills

layout == <<db, wal, backups>>
lease == <<sharers, excluder>>
layoutHistory == <<expected, waived, overtaken, written, kills>>
layoutVars == <<legacy, layout, fence, lease, errand, phase, layoutHistory>>

NoLock == [owner |-> NoUser, stale |-> FALSE]
\* Runtimes write 1, 2, ...; what the legacy databases and a backup file that
\* is restored hold is a fact of its own each.
Legacy == {0}
Source == {-1}

LayoutInit ==
  /\ legacy \in BOOLEAN
  /\ db = Absent /\ wal = {} /\ backups = {}
  /\ fence = NoLock /\ sharers = {} /\ excluder = NoUser
  /\ errand = [p \in Users |-> "none"] /\ phase = [p \in Users |-> "idle"]
  /\ expected = Absent /\ waived = {} /\ overtaken = FALSE
  /\ written = 0 /\ kills = 0

\* WorkspaceStorage.inspect, of a database that is not damaged.
Status == IF db # Absent THEN "current"
          ELSE IF legacy THEN "migration_required" ELSE "uninitialized"

Visible == db \cup wal
Using == {p \in Users : phase[p] = "using"}

\* A connection is opened and closed again.
Touch(users) ==
  IF db # Absent /\ users = {} THEN db' = Visible /\ wal' = {} ELSE UNCHANGED <<db, wal>>

Enter(p, l) == phase' = [phase EXCEPT ![p] = l]

\* The lease and the lock are given back; a lock that is another's by now stays.
Depart(p) ==
  /\ Enter(p, "idle")
  /\ sharers' = sharers \ {p}
  /\ excluder' = IF excluder = p THEN NoUser ELSE excluder
  /\ fence' = IF fence.owner = p THEN NoLock ELSE fence

-----------------------------------------------------------------------------
(* Beginning *)

\* A runtime and a migration look at the workspace before they have a lease.
Inspect(p, t) ==
  /\ phase[p] = "idle"
  /\ errand' = [errand EXCEPT ![p] = t]
  /\ Enter(p, CASE t = "open" /\ Status = "current" -> "share"
               [] t = "open" /\ Status = "uninitialized" -> "exclude"
               [] t = "migrate" /\ Status = "migration_required" -> "lock"
               [] OTHER -> "idle")
  /\ Touch(Using)
  /\ overtaken' = (overtaken \/ (wal # {} /\ \E q \in Users : phase[q] = "sidecars"))
  /\ UNCHANGED <<legacy, backups, fence, lease, expected, waived, written, kills>>

Start(p, t) ==
  /\ phase[p] = "idle"
  /\ errand' = [errand EXCEPT ![p] = t]
  /\ Enter(p, CASE t = "backup" -> "share" [] t = "rollback" -> "lock"
               [] OTHER -> "exclude")
  /\ UNCHANGED <<legacy, layout, fence, lease, layoutHistory>>

-----------------------------------------------------------------------------
(* The fences *)

\* _migration_lock: O_EXCL, and one attempt to remove a stale lock.
Lock(p) ==
  /\ phase[p] = "lock"
  /\ \/ fence = NoLock /\ fence' = [owner |-> p, stale |-> FALSE] /\ Enter(p, "exclude")
     \/ fence.stale /\ Enter(p, "steal") /\ UNCHANGED fence
     \/ fence # NoLock /\ ~fence.stale /\ Enter(p, "idle") /\ UNCHANGED fence
  /\ UNCHANGED <<legacy, layout, lease, errand, layoutHistory>>

\* unlink: whatever has that name by now; without it, the migration fails.
Steal(p) ==
  /\ phase[p] = "steal"
  /\ Enter(p, IF fence = NoLock THEN "idle" ELSE "lock")
  /\ fence' = NoLock
  /\ UNCHANGED <<legacy, layout, lease, errand, layoutHistory>>

Share(p) ==
  /\ phase[p] = "share"
  /\ IF excluder = NoUser
     THEN sharers' = sharers \cup {p} /\ Enter(p, "check") ELSE Enter(p, "idle") /\ UNCHANGED sharers
  /\ UNCHANGED <<legacy, layout, fence, excluder, errand, layoutHistory>>

\* A first opening that finds the lease taken looks whether another one has
\* made the database by now.
Exclude(p) ==
  /\ phase[p] = "exclude"
  /\ IF sharers = {} /\ excluder = NoUser
     THEN /\ excluder' = p /\ UNCHANGED <<fence, sharers>>
          /\ Enter(p, CASE errand[p] = "open" -> "bootstrap" [] errand[p] = "migrate" -> "replan"
                       [] errand[p] = "rollback" -> "preserve" [] OTHER -> "keep")
     ELSE IF errand[p] = "open" /\ Status = "current"
     THEN Enter(p, "share") /\ UNCHANGED <<fence, lease>>
     ELSE Depart(p)
  /\ UNCHANGED <<legacy, layout, errand, layoutHistory>>

-----------------------------------------------------------------------------
(* Runtimes and online backups *)

\* require_current under the lease.
Check(p) ==
  /\ phase[p] = "check"
  /\ IF Status = "current"
     THEN Enter(p, IF errand[p] = "open" THEN "using" ELSE "copy") /\ UNCHANGED <<fence, lease>>
     ELSE Depart(p)
  /\ UNCHANGED <<legacy, layout, errand, layoutHistory>>

\* _initialize_database, then make_shared.
Bootstrap(p) ==
  /\ phase[p] = "bootstrap"
  /\ IF Status = "migration_required" THEN Depart(p) /\ UNCHANGED <<layout, expected>>
     ELSE /\ IF Status = "uninitialized"
             THEN db' = {} /\ wal' = {} /\ expected' = {} /\ UNCHANGED backups
             ELSE UNCHANGED <<layout, expected>>
          /\ excluder' = NoUser /\ sharers' = sharers \cup {p}
          /\ Enter(p, "using") /\ UNCHANGED fence
  /\ UNCHANGED <<legacy, errand, waived, overtaken, written, kills>>

Write(p) ==
  /\ phase[p] = "using" /\ written < MaxWrites
  /\ written' = written + 1
  /\ wal' = wal \cup {written'} /\ expected' = expected \cup {written'}
  /\ UNCHANGED <<legacy, db, backups, fence, lease, errand, phase, waived, overtaken, kills>>

Checkpoint ==
  /\ Using # {}
  /\ db' = Visible /\ wal' = {}
  /\ UNCHANGED <<legacy, backups, fence, lease, errand, phase, layoutHistory>>

Close(p) ==
  /\ phase[p] = "using"
  /\ Depart(p) /\ Touch(Using \ {p})
  /\ UNCHANGED <<legacy, backups, errand, layoutHistory>>

\* Mutant: the file is copied without its log.
Copied_Raw == db

\* SQLite's online backup takes the committed pages of the log too.
Copied == Visible

CopyOut(p) ==
  /\ phase[p] = "copy"
  /\ backups' = backups \cup {Copied}
  /\ Touch(Using) /\ Depart(p)
  /\ UNCHANGED <<legacy, errand, layoutHistory>>

-----------------------------------------------------------------------------
(* migrate and rollback *)

\* Under the lease the plan is made again; the legacy databases are copied.
Replan(p) ==
  /\ phase[p] = "replan"
  /\ IF Status = "migration_required"
     THEN backups' = backups \cup {Legacy} /\ Enter(p, "publish") /\ UNCHANGED <<fence, lease>>
     ELSE Depart(p) /\ UNCHANGED backups
  /\ UNCHANGED <<legacy, db, wal, errand, layoutHistory>>

\* The temporary database was built and audited; the manifest follows.
PublishMigrated(p) ==
  /\ phase[p] = "publish"
  /\ db' = Legacy /\ expected' = Legacy
  /\ Depart(p)
  /\ UNCHANGED <<legacy, wal, backups, errand, waived, overtaken, written, kills>>

\* _backup_current_database: the log is moved into the file, then copied.
Preserve(p) ==
  /\ phase[p] = "preserve"
  /\ IF Status = "current" /\ legacy
     THEN /\ backups' = backups \cup {Copied}
          /\ db' = Visible /\ wal' = {}
          /\ Enter(p, "deactivate") /\ UNCHANGED <<fence, lease>>
     ELSE Depart(p) /\ UNCHANGED layout
  /\ UNCHANGED <<legacy, errand, layoutHistory>>

Deactivate(p) ==
  /\ phase[p] = "deactivate"
  /\ db' = Absent /\ wal' = {} /\ expected' = Absent
  /\ Depart(p)
  /\ UNCHANGED <<legacy, backups, errand, waived, overtaken, written, kills>>

-----------------------------------------------------------------------------
(* restore of a backup file *)

Keep(p) ==
  /\ phase[p] = "keep"
  /\ IF db # Absent /\ errand[p] = "restore"
     THEN backups' = backups \cup {Copied} /\ Touch({}) ELSE UNCHANGED layout
  /\ Enter(p, "replace")
  /\ UNCHANGED <<legacy, fence, lease, errand, layoutHistory>>

ReplaceDatabase(p) ==
  /\ phase[p] = "replace"
  /\ waived' = IF db # Absent /\ errand[p] = "overwrite" THEN waived \cup Visible ELSE waived
  /\ db' = Source /\ expected' = Source
  /\ Enter(p, "sidecars")
  /\ UNCHANGED <<legacy, wal, backups, fence, lease, errand, overtaken, written, kills>>

\* Only now the log of the replaced file is removed.
Sidecars(p) ==
  /\ phase[p] = "sidecars"
  /\ wal' = {} /\ Depart(p)
  /\ UNCHANGED <<legacy, db, backups, errand, layoutHistory>>

-----------------------------------------------------------------------------

\* flocks go with their process, the lock file and the log stay.
Kill(p) ==
  /\ phase[p] # "idle" /\ kills < MaxKills
  /\ kills' = kills + 1
  /\ sharers' = sharers \ {p}
  /\ excluder' = IF excluder = p THEN NoUser ELSE excluder
  /\ fence' = IF fence.owner = p THEN [owner |-> NoUser, stale |-> TRUE] ELSE fence
  /\ Enter(p, "idle")
  /\ overtaken' = (overtaken \/ (phase[p] = "sidecars" /\ wal # {}))
  /\ UNCHANGED <<legacy, layout, errand, expected, waived, written>>

LayoutNext ==
  \/ \E p \in Users :
       \/ \E t \in {"open", "migrate"} : Inspect(p, t)
       \/ \E t \in {"backup", "rollback", "restore", "overwrite"} : Start(p, t)
       \/ Lock(p) \/ Steal(p) \/ Share(p) \/ Exclude(p)
       \/ Check(p) \/ Bootstrap(p) \/ Write(p) \/ Close(p) \/ CopyOut(p)
       \/ Replan(p) \/ PublishMigrated(p) \/ Preserve(p) \/ Deactivate(p)
       \/ Keep(p) \/ ReplaceDatabase(p) \/ Sidecars(p)
       \/ Kill(p)
  \/ Checkpoint

LayoutSpec == LayoutInit /\ [][LayoutNext]_layoutVars

-----------------------------------------------------------------------------
(* Properties *)

\* No fact that a runtime committed is gone: it is in the database or in a
\* backup, unless its owner restored over it without one.
NothingLost ==
  \A w \in 1 .. written :
    \/ db # Absent /\ w \in Visible
    \/ w \in waived
    \/ \E b \in backups : w \in b

\* Whoever opens the database reads what was published last and written since;
\* while a restore is between the file and its log nobody has the lease.
DatabaseTrue ==
  (excluder = NoUser /\ ~overtaken) =>
    IF db = Absent THEN expected = Absent ELSE Visible = expected

\* However openings, migrations, rollbacks, restores, backups and crashes
\* follow each other (workspace_storage.py migrate, rollback, restore).
WorkspaceKept == NothingLost /\ DatabaseTrue
=============================================================================
