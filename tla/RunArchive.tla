----------------------------- MODULE RunArchive -----------------------------
(***************************************************************************)
(* One Run's archive directory and everyone who touches it: the Runtime    *)
(* that owns the Run (its bootstrap, its writer thread, its shutdown), the *)
(* command line readers, and the cleanup command, which takes the          *)
(* directory away.  They share nothing but the file system: advisory locks *)
(* on a lease anchor inside the directory, a locator in the instance       *)
(* registry, and the directory's own name and contents.                    *)
(*                                                                         *)
(* Every process may die between any two of its steps, which drops its     *)
(* locks.  A power loss kills them all and may undo any change to a        *)
(* directory made since that directory was last synced; a rename is one    *)
(* change.                                                                 *)
(***************************************************************************)
EXTENDS Naturals, FiniteSets

CONSTANTS Cleaners,      \* concurrent `troupe diagnostics cleanup` processes
          Readers,       \* concurrent archive readers
          MaxFaults      \* bound on cleaner crashes, I/O failures, power losses

ASSUME ArchiveAssumption == Cleaners \cap Readers = {} /\ MaxFaults \in Nat

VARIABLES owner,     \* where the owning Runtime is in its life
          writer,    \* its writer thread
          abandoned, \* the Runtime gave up waiting for the writer
          fs,        \* the directory, its entries and the locator, as seen
          disk,      \* the same, as last synced
          store,     \* what the database file and its write-ahead log hold
          lock,      \* the advisory lock each process holds on it
          cleaner,   \* each cleanup process
          reader,    \* each archive reader
          faults

vars == <<owner, writer, abandoned, fs, disk, store, lock, cleaner, reader, faults>>

Owner == "owner"
Processes == {Owner} \cup Cleaners \cup Readers

(***************************************************************************)
(* The lease: three modes on one anchor.  An active Run and a cleanup lock *)
(* it exclusively, a reader shares it; a lock counts only if the anchor's  *)
(* path still names the locked inode.                                      *)
(***************************************************************************)
Present(place) == fs.place = place /\ "anchor" \in fs.files

\* open_anchor: only the active mode creates the anchor.
CanOpenAnchor(place) == Present(place)

\* try_lock_shared / try_lock_exclusive
CanLock(p, mode) ==
  \A q \in Processes \ {p} :
    lock[q] = "free" \/ (mode = "shared" /\ lock[q] = "shared")

\* Variant: a lock on a renamed or deleted anchor counts.
AnyLockedAnchor(place) == place \in {"Runs", "Tombstone"}

\* revalidate_locked_anchor, verify_path_identity
AnchorStillNamed(place) == Present(place)

Unlock(p) == lock' = [lock EXCEPT ![p] = "free"]

(***************************************************************************)
(* Discovery.  A locator is judged by its owner's process identity and by  *)
(* the server's answer; an archive without one by its store, read with the *)
(* write-ahead log ignored.                                                *)
(***************************************************************************)
Alive == owner \notin {"New", "Gone"}
Serving == owner \in {"Publishing", "Ready", "Finalizing", "Unpublishing", "UnpublishSync"}

classify_registry_entry ==
  IF ~Alive THEN "DefiniteStale" ELSE IF Serving THEN "Active" ELSE "Unhealthy"

\* An immutable connection reads the database file and ignores the log.
open_immutable_read_only == store.main

\* The schema version and the Run metadata row, as discovery judges them.
StoreClassification ==
  CASE open_immutable_read_only = "Empty" -> "Invalid"
    [] open_immutable_read_only = "Final" -> "Completed"
    [] OTHER -> "Incomplete"

\* validate_store_state, when a reader opens the archive
validate_store_state == open_immutable_read_only # "Empty"

classify_archive(p) ==
  CASE ~({"anchor", "db"} \subseteq fs.files) -> "Invalid"
    [] ~CanLock(p, "shared") -> "Unhealthy"
    [] OTHER -> StoreClassification

ArchivePresent == fs.place = "Runs"

classify_instance == classify_registry_entry

discover(p) ==
  CASE fs.entry -> classify_instance
    [] ~fs.entry /\ ArchivePresent -> classify_archive(p)
    [] OTHER -> "NotFound"

\* read_registry_snapshot finds the locator that was judged: only its owner
\* writes it, once.
LocatorUnchanged == fs.entry

revalidate_for_cleanup == LocatorUnchanged /\ classify_registry_entry = "DefiniteStale"

(***************************************************************************)
(* The owning Runtime: bootstrap_root, then one of the two shutdowns.      *)
(***************************************************************************)
others == <<cleaner, reader, faults>>

\* ArchiveLayout::prepare_with: the Run directory is new, or startup fails.
create_run_directory == fs.place = "None"

PrepareLayout ==
  /\ owner = "New" /\ create_run_directory
  /\ owner' = "Prepared"
  /\ fs' = [fs EXCEPT !.place = "Runs", !.files = {}]
  /\ UNCHANGED <<writer, abandoned, disk, store, lock, others>>

CreateAnchor ==
  /\ owner = "Prepared"
  /\ owner' = "Opened"
  /\ fs' = [fs EXCEPT !.files = @ \cup {"anchor"}]
  /\ UNCHANGED <<writer, abandoned, disk, store, lock, others>>

\* A shared lease taken by someone inspecting the new directory is enough
\* to fail the startup; the directory stays behind.
AcquireActiveLease ==
  /\ owner = "Opened"
  /\ IF CanLock(Owner, "exclusive")
       THEN /\ owner' = "Leased"
            /\ lock' = [lock EXCEPT ![Owner] = "exclusive"]
       ELSE owner' = "Released" /\ Unlock(Owner)
  /\ UNCHANGED <<writer, abandoned, fs, disk, store, others>>

create_database_file ==
  /\ fs' = [fs EXCEPT !.files = @ \cup {"db"}]
  /\ disk' = [disk EXCEPT !.files = fs'.files]

\* DiagnosticStore::create_with: the file and its directory are synced, the
\* schema and the initial metadata are committed to the write-ahead log.
CreateStore ==
  /\ owner = "Leased"
  /\ owner' = "Stored"
  /\ create_database_file
  /\ store' = [store EXCEPT !.wal = "Schema"]
  /\ UNCHANGED <<writer, abandoned, lock, others>>

\* WriterSupervisor::start hands the thread its own reference to the lease;
\* the listener follows.
StartWriterAndServer ==
  /\ owner = "Stored"
  /\ owner' = "Publishing" /\ writer' = "Running"
  /\ UNCHANGED <<abandoned, fs, disk, store, lock, others>>

\* publish_registry_entry_with: a synced temporary file, renamed, then the
\* directory synced; a failed sync takes the locator back.
PublishLocator ==
  /\ owner = "Publishing" /\ ~fs.entry
  /\ fs' = [fs EXCEPT !.entry = TRUE]
  /\ UNCHANGED <<owner, writer, abandoned, disk, store, lock, others>>

SyncLocator ==
  /\ owner = "Publishing" /\ fs.entry
  /\ owner' = "Ready"
  /\ disk' = [disk EXCEPT !.entry = TRUE]
  /\ UNCHANGED <<writer, abandoned, fs, store, lock, others>>

\* commit_batch: SQLite may checkpoint of its own accord.
CommitBatch ==
  /\ owner = "Ready" /\ writer = "Running"
  /\ \E main \in {store.main, "Events"} : store' = [main |-> main, wal |-> "Events"]
  /\ UNCHANGED <<owner, writer, abandoned, fs, disk, lock, others>>

\* A startup phase fails: StartupState::rollback; or the guard is dropped or
\* shut down without finalizing.  Both are cleanup_resources.
Rollback ==
  /\ owner \in {"Leased", "Stored", "Publishing", "Ready"}
  /\ owner' = "Unpublishing"
  /\ fs' = [fs EXCEPT !.entry = @ /\ owner = "Ready"]
  /\ UNCHANGED <<writer, abandoned, disk, store, lock, others>>

\* shutdown_clean: the ingress is sealed and the writer told to finalize.
BeginFinalize ==
  /\ owner = "Ready"
  /\ owner' = "Finalizing"
  /\ UNCHANGED <<writer, abandoned, fs, disk, store, lock, others>>

\* finalize_run_with_cancellation gives up once the thread was abandoned.
WriterFinalizes ==
  /\ owner = "Finalizing" /\ writer = "Running" /\ ~abandoned
  /\ writer' = "Finalized"
  /\ \E main \in {store.main, "Final"} : store' = [main |-> main, wal |-> "Final"]
  /\ UNCHANGED <<owner, abandoned, fs, disk, lock, others>>

\* WriterSupervisor::finalize: the reply, or the deadline.
FinalizeReturns ==
  /\ owner = "Finalizing"
  /\ owner' = "Unpublishing"
  /\ \/ writer = "Finalized" /\ UNCHANGED abandoned
     \/ abandoned' = TRUE
  /\ UNCHANGED <<writer, fs, disk, store, lock, others>>

\* unpublish_with: unlink, then sync; shutdown goes on when it fails.
UnpublishLocator ==
  /\ owner = "Unpublishing"
  /\ \/ owner' = "UnpublishSync" /\ fs' = [fs EXCEPT !.entry = FALSE]
     \/ owner' = "Closing" /\ UNCHANGED fs
  /\ UNCHANGED <<writer, abandoned, disk, store, lock, others>>

SyncUnpublished ==
  /\ owner = "UnpublishSync"
  /\ owner' = "Closing"
  /\ disk' = [disk EXCEPT !.entry = fs.entry]
  /\ UNCHANGED <<writer, abandoned, fs, store, lock, others>>

\* The lock falls with the last reference to the lease.
DropLease(guardHeld, thread) ==
  IF guardHeld \/ thread \in {"Running", "Finalized"}
    THEN UNCHANGED lock
    ELSE Unlock(Owner)

\* checkpoint_and_close_writer, at the end of run_writer.
WriterCloses ==
  /\ writer \in {"Running", "Finalized"}
  /\ owner \in {"Closing", "Released"} \/ abandoned
  /\ writer' = "Closed"
  /\ store' = [store EXCEPT !.main = store.wal]
  /\ DropLease(owner # "Released", writer')
  /\ UNCHANGED <<owner, abandoned, fs, disk, others>>

\* join_after: the thread ended, or the deadline passed and it is left alone;
\* release_runtime_resources drops the guard's reference.
ReleaseRuntime ==
  /\ owner = "Closing"
  /\ owner' = "Released"
  /\ abandoned' = (abandoned \/ writer \in {"Running", "Finalized"})
  /\ store' = IF writer = "None" THEN [store EXCEPT !.main = store.wal] ELSE store
  /\ DropLease(FALSE, writer)
  /\ UNCHANGED <<writer, fs, disk, others>>

\* The process ends, in order or not, and its threads and locks with it.
OwnerEnds ==
  /\ Alive
  /\ owner' = "Gone"
  /\ writer' = "Closed" /\ abandoned' = FALSE
  /\ Unlock(Owner)
  /\ UNCHANGED <<fs, disk, store, others>>

OwnerStep ==
  \/ PrepareLayout \/ CreateAnchor \/ AcquireActiveLease \/ CreateStore
  \/ StartWriterAndServer \/ PublishLocator \/ SyncLocator \/ CommitBatch
  \/ Rollback \/ BeginFinalize \/ WriterFinalizes \/ FinalizeReturns
  \/ UnpublishLocator \/ SyncUnpublished \/ WriterCloses \/ ReleaseRuntime
  \/ OwnerEnds

(***************************************************************************)
(* An archive reader: resolve_explicit_run, then a shared lease held for   *)
(* as long as the archive is open.                                         *)
(***************************************************************************)
readerOthers == <<owner, writer, abandoned, fs, disk, store, cleaner, faults>>

\* revalidate_stale for a stale locator; a classification that may hide a
\* live owner is refused.
Resolvable(p) ==
  /\ ArchivePresent
  /\ discover(p) \in {"DefiniteStale", "Completed", "Incomplete"}

resolve_explicit_run(r) ==
  /\ reader[r] = "Idle" /\ Resolvable(r)
  /\ CanOpenAnchor("Runs")
  /\ reader' = [reader EXCEPT ![r] = "Opened"]
  /\ UNCHANGED <<lock, readerOthers>>

ReaderLock(r) ==
  /\ reader[r] = "Opened"
  /\ IF CanLock(r, "shared")
       THEN /\ reader' = [reader EXCEPT ![r] = "Locked"]
            /\ lock' = [lock EXCEPT ![r] = "shared"]
       ELSE reader' = [reader EXCEPT ![r] = "Idle"] /\ Unlock(r)
  /\ UNCHANGED readerOthers

\* The lock is revalidated, then DiagnosticReader::open and finish_validation.
OpenArchive(r) ==
  /\ reader[r] = "Locked"
  /\ IF AnchorStillNamed("Runs") /\ validate_store_state
       THEN reader' = [reader EXCEPT ![r] = "Reading"] /\ UNCHANGED lock
       ELSE reader' = [reader EXCEPT ![r] = "Idle"] /\ Unlock(r)
  /\ UNCHANGED readerOthers

\* The reader is dropped, or its process dies.
CloseArchive(r) ==
  /\ reader[r] # "Idle"
  /\ reader' = [reader EXCEPT ![r] = "Idle"]
  /\ Unlock(r)
  /\ UNCHANGED readerOthers

ReaderStep(r) ==
  resolve_explicit_run(r) \/ ReaderLock(r) \/ OpenArchive(r) \/ CloseArchive(r)

(***************************************************************************)
(* The cleanup command.  One invocation first recovers a tombstone left by *)
(* an interrupted one, then previews, then applies.                        *)
(***************************************************************************)
cleanerOthers == <<owner, writer, abandoned, store, reader>>

IdleCleaner == [pc |-> "Idle", policy |-> "Exact", at |-> "Runs", stale |-> FALSE,
                class |-> "NotFound", anchored |-> TRUE, leftover |-> FALSE,
                satisfied |-> FALSE]

\* finish_report: the invocation ends with this result and its lease, if any,
\* is dropped.  Deleting the Run satisfies an exact policy; what a batch policy
\* finds in its second preview is a verdict about that moment and is not kept.
finish_report(c, result) ==
  /\ cleaner' = [cleaner EXCEPT ![c] = [IdleCleaner EXCEPT
       !.satisfied = cleaner[c].policy = "Exact" /\ result = "Deleted"]]
  /\ Unlock(c)

Goto(c, pc) == cleaner' = [cleaner EXCEPT ![c].pc = pc]

At(c, pc) == cleaner[c].pc = pc

\* apply_with, scan_tombstones
Invoke(c) ==
  /\ At(c, "Idle") /\ owner # "New"
  /\ \E policy \in {"Exact", "Batch"} :
       cleaner' = [cleaner EXCEPT ![c] =
         [IdleCleaner EXCEPT !.policy = policy,
                             !.pc = IF fs.place = "Tombstone" THEN "Recover" ELSE "Preview"]]
  /\ UNCHANGED <<cleanerOthers, fs, disk, lock, faults>>

\* The forms of a tombstone recover_tombstone takes on: with its intent and
\* its anchor, or emptied of everything but the anchor.
TombstoneAccepted ==
  IF "intent" \in fs.files THEN "anchor" \in fs.files ELSE fs.files \subseteq {"anchor"}

recover_tombstone(c) ==
  /\ At(c, "Recover")
  /\ IF fs.place = "Tombstone" /\ TombstoneAccepted
       THEN /\ cleaner' = [cleaner EXCEPT ![c].pc = "RecoverDiscover", ![c].at = "Tombstone",
                                          ![c].anchored = "anchor" \in fs.files]
            /\ UNCHANGED lock
       ELSE finish_report(c, "Failed")
  /\ UNCHANGED <<cleanerOthers, fs, disk, faults>>

RecoverDiscover(c) ==
  /\ At(c, "RecoverDiscover")
  /\ CASE discover(c) = "NotFound"
            -> Goto(c, IF cleaner[c].anchored THEN "Open" ELSE "Remove") /\ UNCHANGED lock
       [] discover(c) = "DefiniteStale" /\ ~ArchivePresent
            -> /\ cleaner' = [cleaner EXCEPT ![c].stale = TRUE,
                    ![c].pc = IF cleaner[c].anchored THEN "Open" ELSE "Unpublish"]
               /\ UNCHANGED lock
       [] discover(c) = "Active" -> finish_report(c, "Skipped")
       [] OTHER -> finish_report(c, "Failed")
  /\ UNCHANGED <<cleanerOthers, fs, disk, faults>>

\* preview_canonical_with: the candidate, or nothing to look at.
Preview(c) ==
  /\ At(c, "Preview")
  /\ IF ArchivePresent
       THEN /\ cleaner' = [cleaner EXCEPT ![c].pc = "Inspect", ![c].class = discover(c)]
            /\ UNCHANGED lock
       ELSE finish_report(c, "Unselected")
  /\ UNCHANGED <<cleanerOthers, fs, disk, faults>>

\* inspect_candidate takes a shared lease on every candidate before it looks
\* at the classification, a directory still being created included.
inspect_candidate(c) ==
  /\ At(c, "Inspect")
  /\ IF CanOpenAnchor("Runs") /\ CanLock(c, "shared")
       THEN /\ Goto(c, "Inspecting")
            /\ lock' = [lock EXCEPT ![c] = "shared"]
       ELSE finish_report(c, "Unselected")
  /\ UNCHANGED <<cleanerOthers, fs, disk, faults>>

\* protection_for_classification
Unprotected(class) == class \in {"DefiniteStale", "Completed", "Incomplete"}

\* The store is opened, the exclusive lease probed, and select_preview takes
\* an incomplete archive only for the exact policy.
Selected(c, class) ==
  /\ ArchivePresent /\ Unprotected(class)
  /\ class = "DefiniteStale" => revalidate_for_cleanup
  /\ {"anchor", "db"} \subseteq fs.files
  /\ CanLock(c, "exclusive")
  /\ validate_store_state
  /\ cleaner[c].policy = "Batch" => StoreClassification = "Completed"

EndInspection(c) ==
  /\ At(c, "Inspecting")
  /\ IF Selected(c, cleaner[c].class)
       THEN cleaner' = [cleaner EXCEPT ![c].pc = "Fresh", ![c].class = "NotFound"] /\ Unlock(c)
       ELSE finish_report(c, "Unselected")
  /\ UNCHANGED <<cleanerOthers, fs, disk, faults>>

validate_archive_before_lock(c) ==
  "db" \in fs.files /\ CanOpenAnchor("Runs") /\ CanLock(c, "shared") /\ validate_store_state

fresh_cleanup_candidate(c) ==
  /\ At(c, "Fresh")
  /\ IF Resolvable(c) /\ validate_archive_before_lock(c)
       THEN /\ cleaner' = [cleaner EXCEPT ![c].pc = "Open", ![c].at = "Runs",
                                          ![c].stale = discover(c) = "DefiniteStale"]
            /\ UNCHANGED lock
       ELSE finish_report(c, "Skipped")
  /\ UNCHANGED <<cleanerOthers, fs, disk, faults>>

\* CleanupArchiveLease::acquire in its three steps
OpenForCleanup(c) ==
  /\ At(c, "Open")
  /\ IF CanOpenAnchor(cleaner[c].at)
       THEN /\ Goto(c, "Lock")
            /\ UNCHANGED lock
       ELSE finish_report(c, "Failed")
  /\ UNCHANGED <<cleanerOthers, fs, disk, faults>>

LockForCleanup(c) ==
  /\ At(c, "Lock")
  /\ IF CanLock(c, "exclusive")
       THEN /\ Goto(c, "Verify")
            /\ lock' = [lock EXCEPT ![c] = "exclusive"]
       ELSE finish_report(c, "Skipped")
  /\ UNCHANGED <<cleanerOthers, fs, disk, faults>>

VerifyLease(c) ==
  /\ At(c, "Verify")
  /\ IF AnchorStillNamed(cleaner[c].at)
       THEN /\ Goto(c, CASE cleaner[c].at = "Runs" -> "Revalidate"
                         [] cleaner[c].stale -> "Unpublish"
                         [] OTHER -> "Remove")
            /\ UNCHANGED lock
       ELSE finish_report(c, "Failed")
  /\ UNCHANGED <<cleanerOthers, fs, disk, faults>>

\* ValidatedArchive::revalidate, then revalidate_for_cleanup
RevalidateArchive(c) ==
  /\ At(c, "Revalidate")
  /\ IF ArchivePresent /\ "db" \in fs.files /\ (cleaner[c].stale => revalidate_for_cleanup)
       THEN Goto(c, "Intent") /\ UNCHANGED lock
       ELSE finish_report(c, "Skipped")
  /\ UNCHANGED <<cleanerOthers, fs, disk, faults>>

AfterIntent(c) == IF cleaner[c].stale THEN "Unpublish" ELSE "Rename"

\* ensure_cleanup_intent: an intent already there is taken over.
ensure_cleanup_intent(c) ==
  /\ At(c, "Intent")
  /\ IF "intent" \in fs.files
       THEN Goto(c, AfterIntent(c)) /\ UNCHANGED fs
       ELSE /\ cleaner' = [cleaner EXCEPT ![c].pc = "IntentRename",
                                          ![c].leftover = "temp" \in fs.files]
            /\ fs' = [fs EXCEPT !.files = @ \cup {"temp"}]
  /\ UNCHANGED <<cleanerOthers, disk, lock, faults>>

RenameIntent(c) ==
  /\ At(c, "IntentRename")
  /\ Goto(c, "IntentSync")
  /\ fs' = [fs EXCEPT !.files =
       (IF cleaner[c].leftover THEN @ ELSE @ \ {"temp"}) \cup {"intent"}]
  /\ UNCHANGED <<cleanerOthers, disk, lock, faults>>

SyncIntent(c) ==
  /\ At(c, "IntentSync")
  /\ Goto(c, AfterIntent(c))
  /\ disk' = [disk EXCEPT !.files = fs.files]
  /\ UNCHANGED <<cleanerOthers, fs, lock, faults>>

\* unpublish_stale_registry: the locator is still the one that was judged.
unpublish_stale_registry(c) ==
  /\ At(c, "Unpublish")
  /\ IF revalidate_for_cleanup
       THEN /\ Goto(c, "UnpublishSync") /\ UNCHANGED lock
            /\ fs' = [fs EXCEPT !.entry = FALSE]
       ELSE finish_report(c, IF cleaner[c].at = "Runs" THEN "Failed" ELSE "Skipped") /\ UNCHANGED fs
  /\ UNCHANGED <<cleanerOthers, disk, faults>>

SyncRegistry(c) ==
  /\ At(c, "UnpublishSync")
  /\ Goto(c, IF cleaner[c].at = "Runs" THEN "Rename" ELSE "Remove")
  /\ disk' = [disk EXCEPT !.entry = fs.entry]
  /\ UNCHANGED <<cleanerOthers, fs, lock, faults>>

\* rename_noreplace: the one change that takes the Run out of discovery.  The
\* Run's own entry, which nobody synced, may have reached the disk by now.
RenameToTombstone(c) ==
  /\ At(c, "Rename")
  /\ IF ArchivePresent
       THEN /\ Goto(c, "SyncTarget") /\ UNCHANGED lock
            /\ fs' = [fs EXCEPT !.place = "Tombstone"]
            /\ \E written \in {disk.place, "Runs"} : disk' = [disk EXCEPT !.place = written]
       ELSE finish_report(c, "Failed") /\ UNCHANGED <<fs, disk>>
  /\ UNCHANGED <<cleanerOthers, faults>>

\* Variant: deletion starts without waiting for the rename to be durable.
SkipParentSync(c) ==
  /\ At(c, "SyncTarget") \/ At(c, "SyncSource")
  /\ Goto(c, "Remove")
  /\ UNCHANGED <<cleanerOthers, fs, disk, lock, faults>>

\* Both parents are synced, the tombstone's first, before anything is deleted.
SyncParents(c) ==
  /\ At(c, "SyncTarget") \/ At(c, "SyncSource")
  /\ Goto(c, IF At(c, "SyncTarget") THEN "SyncSource" ELSE "Remove")
  /\ disk' = [disk EXCEPT !.place = fs.place]
  /\ UNCHANGED <<cleanerOthers, fs, lock, faults>>

\* Variant: the entries are removed in directory order.
RemovableInAnyOrder == fs.files

\* remove_open_directory_contents: the anchor goes last, the intent before it.
Removable ==
  CASE fs.files \ {"anchor", "intent"} # {} -> fs.files \ {"anchor", "intent"}
    [] "intent" \in fs.files -> {"intent"}
    [] OTHER -> fs.files

RemoveEntry(c) ==
  /\ At(c, "Remove") /\ fs.files # {} /\ fs.place = "Tombstone"
  /\ \E name \in Removable : fs' = [fs EXCEPT !.files = @ \ {name}]
  /\ Goto(c, "RemoveSync")
  /\ UNCHANGED <<cleanerOthers, disk, lock, faults>>

SyncRemoval(c) ==
  /\ At(c, "RemoveSync")
  /\ Goto(c, "Remove")
  /\ disk' = [disk EXCEPT !.files = fs.files]
  /\ UNCHANGED <<cleanerOthers, fs, lock, faults>>

\* remove_validated_directory: the emptied root; gone already is an error.
RemoveRoot(c) ==
  /\ At(c, "Remove") /\ (fs.files = {} \/ fs.place # "Tombstone")
  /\ IF fs.place = "Tombstone"
       THEN /\ Goto(c, "SyncRemoved") /\ UNCHANGED lock
            /\ fs' = [fs EXCEPT !.place = "None"]
       ELSE finish_report(c, "Failed") /\ UNCHANGED fs
  /\ UNCHANGED <<cleanerOthers, disk, faults>>

SyncRemoved(c) ==
  /\ At(c, "SyncRemoved")
  /\ disk' = [disk EXCEPT !.place = fs.place]
  /\ finish_report(c, "Deleted")
  /\ UNCHANGED <<cleanerOthers, fs, faults>>

CleanerStep(c) ==
  \/ recover_tombstone(c) \/ RecoverDiscover(c)
  \/ Preview(c) \/ inspect_candidate(c) \/ EndInspection(c) \/ fresh_cleanup_candidate(c)
  \/ OpenForCleanup(c) \/ LockForCleanup(c) \/ VerifyLease(c) \/ RevalidateArchive(c)
  \/ ensure_cleanup_intent(c) \/ RenameIntent(c) \/ SyncIntent(c)
  \/ unpublish_stale_registry(c) \/ SyncRegistry(c)
  \/ RenameToTombstone(c) \/ SyncParents(c) \/ RemoveEntry(c) \/ SyncRemoval(c)
  \/ RemoveRoot(c) \/ SyncRemoved(c)

(***************************************************************************)
(* Faults.                                                                 *)
(***************************************************************************)
\* A system call fails once the lease is held (before, a failure only ends the
\* invocation early): the lease is dropped and the error reported, a temporary
\* intent file taken back.
Mutating == {"Intent", "IntentRename", "IntentSync", "Unpublish", "UnpublishSync", "Rename",
             "SyncTarget", "SyncSource", "Remove", "RemoveSync", "SyncRemoved"}

CleanerFails(c) ==
  /\ faults < MaxFaults /\ cleaner[c].pc \in Mutating
  /\ faults' = faults + 1
  /\ fs' = IF At(c, "IntentRename") /\ ~cleaner[c].leftover
             THEN [fs EXCEPT !.files = @ \ {"temp"}] ELSE fs
  /\ finish_report(c, "Failed")
  /\ UNCHANGED <<cleanerOthers, disk>>

CleanerCrashes(c) ==
  /\ faults < MaxFaults /\ cleaner[c].pc \in Mutating
  /\ faults' = faults + 1
  /\ cleaner' = [cleaner EXCEPT ![c] = IdleCleaner]
  /\ Unlock(c)
  /\ UNCHANGED <<cleanerOthers, fs, disk>>

\* Each directory comes back as last synced or as last changed.
PowerLoss ==
  /\ faults < MaxFaults
  /\ faults' = faults + 1
  /\ \E place \in {fs.place, disk.place}, files \in {fs.files, disk.files},
        entry \in {fs.entry, disk.entry} :
       /\ fs' = [place |-> place, files |-> IF place = "None" THEN {} ELSE files, entry |-> entry]
       /\ disk' = fs'
  /\ owner' = IF owner = "New" THEN "New" ELSE "Gone"
  /\ writer' = "Closed" /\ abandoned' = FALSE
  /\ lock' = [p \in Processes |-> "free"]
  /\ cleaner' = [c \in Cleaners |-> IdleCleaner]
  /\ reader' = [r \in Readers |-> "Idle"]
  /\ UNCHANGED store

Init ==
  /\ owner = "New" /\ writer = "None" /\ abandoned = FALSE
  /\ fs = [place |-> "None", files |-> {}, entry |-> FALSE] /\ disk = fs
  /\ store = [main |-> "Empty", wal |-> "Empty"]
  /\ lock = [p \in Processes |-> "free"]
  /\ cleaner = [c \in Cleaners |-> IdleCleaner]
  /\ reader = [r \in Readers |-> "Idle"]
  /\ faults = 0

Next ==
  \/ OwnerStep
  \/ \E r \in Readers : ReaderStep(r)
  \/ \E c \in Cleaners : Invoke(c) \/ CleanerStep(c) \/ CleanerFails(c) \/ CleanerCrashes(c)
  \/ PowerLoss

\* Cleanup keeps being invoked, an invocation keeps going, and a reader that
\* has the anchor open goes on to use and to close it.
Fairness ==
  /\ \A c \in Cleaners : WF_vars(Invoke(c) \/ CleanerStep(c))
  /\ \A r \in Readers : WF_vars(ReaderLock(r) \/ OpenArchive(r) \/ CloseArchive(r))

Spec == Init /\ [][Next]_vars /\ Fairness

(***************************************************************************)
(* Properties.                                                             *)
(***************************************************************************)
Whole == fs.place = "Runs" /\ {"anchor", "db"} \subseteq fs.files

\* A discoverable Run directory is never missing parts: what cleanup takes
\* leaves the namespace before anything in it is deleted, and no power loss
\* brings back a Run directory that was partly emptied.
RunsAreNeverHalfDeleted ==
  fs.place = "Runs" /\ store.wal # "Empty" => {"anchor", "db"} \subseteq fs.files

\* An exact cleanup that reports success has removed the Run for good: not
\* even a power loss brings it back.
SatisfiedMeansGone ==
  \A c \in Cleaners :
    cleaner[c].satisfied => fs.place = "None" /\ disk.place = "None"

\* Cleanup never takes an archive from under its writer or a reader: while the
\* writer thread lives, even one the shutdown gave up on, the Run holds its
\* exclusive lease and the directory is in place; an open reader keeps its
\* archive whole.  And a deletion is all or nothing, on the disk too: a Run that
\* can be found is whole, and one that was reported removed does not come back.
ArchivesStayWhole ==
  /\ writer \in {"Running", "Finalized"} => Whole /\ lock[Owner] = "exclusive"
  /\ \A r \in Readers : reader[r] = "Reading" => Whole /\ lock[r] = "shared"
  /\ RunsAreNeverHalfDeleted
  /\ SatisfiedMeansGone

\* A deletion interrupted by a crash, a failing system call, a power loss or
\* another cleanup is finished by the cleanups invoked later: no tombstone stays
\* for good.  (A power loss before the rename is durable brings the Run back.)
InterruptedCleanupFinishes == fs.place = "Tombstone" ~> fs.place # "Tombstone"
=============================================================================
