--------------------------- MODULE TracePublication ---------------------------
(***************************************************************************)
(* The atomic publication of an exported Perfetto trace                    *)
(* (troupe-diagnostics-perfetto, atomic_file.rs).  A publisher writes the  *)
(* trace to a temporary name of the target's directory, keeps a hard link  *)
(* to a file it is about to replace, moves the trace to the target name    *)
(* with one rename, and rolls back what it cannot prove.                   *)
(*                                                                         *)
(* Every system call is one step: between two calls another publisher of   *)
(* the same target, or any other program, may change the directory.  The   *)
(* straight-line stretches of the code, where each failing call has the    *)
(* same consequence, are scripts: sequences of calls with the place the    *)
(* code continues at (next) and the place a failing call leads to (bad).   *)
(*                                                                         *)
(* crash holds the directories a power loss may leave: every directory     *)
(* since the last successful sync, in the order of the operations.         *)
(***************************************************************************)
EXTENDS Naturals, Sequences

CONSTANTS Publishers,    \* concurrent dump commands with the same output
          Forced,        \* the publishers started with --force
          FirstTargets,  \* what the target name may hold at the start
          MaxFaults,     \* failing system calls, over all publishers
          MaxIntrusions  \* replacements by an unrelated program

VARIABLES dir,        \* the directory: entry name -> file
          crash,      \* the directories a power loss may leave
          content,    \* trace file -> how much of it is on the disk
          parent,     \* the output path still leads to the opened directory
          pub,        \* publisher -> its transaction
          cancelled,  \* publishers whose cancellation was requested
          faults, intrusions

pubVars == <<dir, crash, content, parent, pub, cancelled, faults, intrusions>>

Entry(p, n) == <<n, IF n = "target" THEN "shared" ELSE p>>
Target == <<"target", "shared">>
EntryNames == {Target} \cup ({"temp", "backup"} \X Publishers)

Start == [at |-> "inspect", todo |-> <<>>, next |-> "inspect", bad |-> "inspect",
          original |-> "absent", temp |-> "none", backup |-> FALSE,
          doubt |-> FALSE, moved |-> FALSE]

PubInit ==
    /\ \E f \in FirstTargets : dir = [e \in EntryNames |-> IF e = Target THEN f ELSE "absent"]
    /\ crash = {dir}
    /\ content = [p \in Publishers |-> "partial"]
    /\ parent = TRUE
    /\ pub = [p \in Publishers |-> Start]
    /\ cancelled = {}
    /\ faults = 0
    /\ intrusions = 0

Reported(p) == pub[p].at \in {"published", "not_published", "indeterminate"}

(***************************************************************************)
(* The system calls of a script.                                           *)
(***************************************************************************)
See(n, f) == [call |-> "see", name |-> n, arg |-> f]
Unlink(n) == [call |-> "unlink", name |-> n, arg |-> "none"]
RenameNoReplace(n, m) == [call |-> "rename", name |-> n, arg |-> m]
Exchange(n, m) == [call |-> "exchange", name |-> n, arg |-> m]
SyncDirectory == [call |-> "sync", name |-> "none", arg |-> "none"]
SeeParent == [call |-> "parent", name |-> "none", arg |-> "none"]

Run(t, todo, next, bad) ==
    [t EXCEPT !.at = "script", !.todo = todo, !.next = next, !.bad = bad]
Goto(t, label) ==
    [t EXCEPT !.at = label, !.todo = <<>>, !.next = label, !.bad = label]

MayFail == faults < MaxFaults

\* A call that can be made on the directory d, and the directory after it.
Possible(p, c, d) ==
    CASE c.call = "see"      -> d[Entry(p, c.name)] = c.arg
      [] c.call = "unlink"   -> d[Entry(p, c.name)] # "absent"
      [] c.call = "rename"   -> /\ d[Entry(p, c.name)] # "absent"
                                /\ d[Entry(p, c.arg)] = "absent"
      [] c.call = "exchange" -> /\ d[Entry(p, c.name)] # "absent"
                                /\ d[Entry(p, c.arg)] # "absent"
      [] c.call = "parent"   -> parent
      [] c.call = "sync"     -> TRUE

Effect(p, c, d) ==
    CASE c.call = "unlink" -> [d EXCEPT ![Entry(p, c.name)] = "absent"]
      [] c.call \in {"rename", "exchange"} ->
            [d EXCEPT ![Entry(p, c.name)] = d[Entry(p, c.arg)],
                      ![Entry(p, c.arg)] = d[Entry(p, c.name)]]
      [] OTHER -> d

\* What the transaction remembers of a rename: whether its trace replaced the
\* file it found.
Remember(t, c) ==
    IF c.call \in {"rename", "exchange"} THEN [t EXCEPT !.moved = ~t.moved] ELSE t

CallSucceeds(p) ==
    LET t == pub[p]  c == Head(t.todo)  after == Effect(p, c, dir)  rest == Tail(t.todo) IN
    /\ Possible(p, c, dir)
    /\ dir' = after
    /\ crash' = IF c.call = "sync" THEN {after} ELSE crash \cup {after}
    /\ pub' = [pub EXCEPT ![p] =
                 LET u == Remember(t, c)
                 IN IF rest = <<>> THEN Goto(u, t.next) ELSE [u EXCEPT !.todo = rest]]
    /\ UNCHANGED faults

\* The call returns an error, or observes something else than expected: an
\* entry that cannot be read is Unknown, which equals no expectation.
CallFails(p) ==
    LET t == pub[p]  c == Head(t.todo) IN
    /\ \/ ~Possible(p, c, dir) /\ UNCHANGED faults
       \/ MayFail /\ faults' = faults + 1
    /\ pub' = [pub EXCEPT ![p] = Goto(t, t.bad)]
    /\ UNCHANGED <<dir, crash>>

Call(p) ==
    /\ pub[p].at = "script"
    /\ CallSucceeds(p) \/ CallFails(p)
    /\ UNCHANGED <<content, parent, cancelled, intrusions>>

(***************************************************************************)
(* Before the rename.                                                      *)
(***************************************************************************)
At(p, label) == pub[p].at = label
Continue(p, t) == pub' = [pub EXCEPT ![p] = t]
Fails == MayFail /\ faults' = faults + 1

\* Opening the parent and reading the target.  A file needs --force, anything
\* else than a regular file is refused.
Inspect(p) ==
    /\ At(p, "inspect")
    /\ LET f == dir[Target]  t == [pub[p] EXCEPT !.original = f] IN
         \/ /\ ~parent \/ f = "directory" \/ (f # "absent" /\ p \notin Forced)
            /\ Continue(p, Goto(pub[p], "not_published"))
            /\ UNCHANGED faults
         \/ Fails /\ Continue(p, Goto(pub[p], "not_published"))
         \/ /\ parent /\ f # "directory" /\ (f = "absent" \/ p \in Forced)
            /\ Continue(p, Goto(t, "create"))
            /\ UNCHANGED faults
    /\ UNCHANGED <<dir, crash, content, parent, cancelled, intrusions>>

\* create_temp under an unused name; when the metadata of the new file cannot
\* be read its identity stays unknown and it is never removed.
CreateTemp(p) ==
    /\ At(p, "create")
    /\ IF p \in cancelled
       THEN Continue(p, Goto(pub[p], "precommit")) /\ UNCHANGED <<dir, crash, faults>>
       ELSE \/ /\ dir' = [dir EXCEPT ![Entry(p, "temp")] = p]
               /\ crash' = crash \cup {dir'}
               /\ \/ /\ Continue(p, Run([pub[p] EXCEPT !.temp = "known"], <<SyncDirectory>>,
                                       "produce", "precommit"))
                     /\ UNCHANGED faults
                  \/ Fails /\ Continue(p, Goto([pub[p] EXCEPT !.temp = "unknown"], "precommit"))
            \/ /\ Fails
               /\ Continue(p, Goto(pub[p], "precommit"))
               /\ UNCHANGED <<dir, crash>>
    /\ UNCHANGED <<content, parent, cancelled, intrusions>>

\* produce_or_cancel and the flush: the producer writes the whole trace, or
\* fails, or the cancellation wins.
Produce(p) ==
    /\ At(p, "produce")
    /\ \/ /\ p \notin cancelled
          /\ Continue(p, Goto(pub[p], "persist"))
          /\ content' = [content EXCEPT ![p] = "written"]
          /\ UNCHANGED faults
       \/ /\ Continue(p, Goto(pub[p], "precommit"))
          /\ (p \in cancelled /\ UNCHANGED faults) \/ Fails
          /\ UNCHANGED content
    /\ UNCHANGED <<dir, crash, parent, cancelled, intrusions>>

\* Variant: the file is closed without sync_all.
PersistUnsynced(p) ==
    /\ At(p, "persist")
    /\ Continue(p, Run(pub[p], <<See("temp", p)>>, "protect", "precommit"))
    /\ UNCHANGED <<dir, crash, content, parent, cancelled, faults, intrusions>>

\* sync_all, close and verify_temp.
Persist(p) ==
    /\ At(p, "persist")
    /\ \/ /\ p \notin cancelled
          /\ content' = [content EXCEPT ![p] = "durable"]
          /\ Continue(p, Run(pub[p], <<See("temp", p)>>, "protect", "precommit"))
          /\ UNCHANGED faults
       \/ /\ Continue(p, Goto(pub[p], "precommit"))
          /\ (p \in cancelled /\ UNCHANGED faults) \/ Fails
          /\ UNCHANGED content
    /\ UNCHANGED <<dir, crash, parent, cancelled, intrusions>>

Replaces(t) == t.original # "absent"

verify_precommit(p) ==
    <<SeeParent, See("target", pub[p].original), See("temp", p)>>

\* create_backup looks at the target first and then links whatever file the
\* target names; the link is checked after it.
Protect(p) ==
    /\ At(p, "protect")
    /\ Continue(p, IF p \in cancelled THEN Goto(pub[p], "precommit")
                   ELSE IF Replaces(pub[p])
                   THEN Run(pub[p], <<See("target", pub[p].original)>>, "link", "precommit")
                   ELSE Run(pub[p], verify_precommit(p), "commit", "precommit"))
    /\ UNCHANGED <<dir, crash, content, parent, cancelled, faults, intrusions>>

LinkBackup(p) ==
    /\ At(p, "link")
    /\ \/ /\ dir[Target] # "absent"
          /\ dir' = [dir EXCEPT ![Entry(p, "backup")] = dir[Target]]
          /\ crash' = crash \cup {dir'}
          /\ Continue(p, Run([pub[p] EXCEPT !.backup = TRUE],
                             <<SyncDirectory, See("backup", pub[p].original)>>,
                             "linked", "precommit"))
          /\ UNCHANGED faults
       \/ /\ (dir[Target] = "absent" /\ UNCHANGED faults) \/ Fails
          /\ Continue(p, Goto(pub[p], "precommit"))
          /\ UNCHANGED <<dir, crash>>
    /\ UNCHANGED <<content, parent, cancelled, intrusions>>

Linked(p) ==
    /\ At(p, "linked")
    /\ Continue(p, IF p \in cancelled THEN Goto(pub[p], "precommit")
                   ELSE Run(pub[p], verify_precommit(p), "commit", "precommit"))
    /\ UNCHANGED <<dir, crash, content, parent, cancelled, faults, intrusions>>

(***************************************************************************)
(* The rename and what follows it.                                         *)
(***************************************************************************)
\* publish_absent renames without replacing, publish_force exchanges the two
\* names; the directory is synced before anything else is decided.
CommitCall(p) ==
    IF Replaces(pub[p]) THEN Exchange("temp", "target") ELSE RenameNoReplace("temp", "target")

Commit(p) ==
    /\ At(p, "commit")
    /\ Continue(p, IF p \in cancelled THEN Goto(pub[p], "precommit")
                   ELSE Run(pub[p], <<CommitCall(p)>>, "moved", "precommit"))
    /\ UNCHANGED <<dir, crash, content, parent, cancelled, faults, intrusions>>

Moved(p) ==
    /\ At(p, "moved")
    /\ Continue(p, Run(pub[p], <<SyncDirectory>>, "settle", "rollback"))
    /\ UNCHANGED <<dir, crash, content, parent, cancelled, faults, intrusions>>

verify_force_publication(p) ==
    <<See("target", p), See("temp", pub[p].original), See("backup", pub[p].original)>>

\* Variant: the entry is removed unseen.
cleanup_unseen(n, f) == <<Unlink(n), SyncDirectory>>

\* cleanup_entry: the entry must still be the file it was created as.
cleanup_entry(n, f) == <<See(n, f), Unlink(n), SyncDirectory>>

Settle(p) ==
    /\ At(p, "settle")
    /\ Continue(p,
         IF p \in cancelled THEN Goto(pub[p], "rollback")
         ELSE IF Replaces(pub[p])
         THEN Run(pub[p], verify_force_publication(p), "clean", "rollback")
         ELSE Run(pub[p], <<See("target", p), See("temp", "absent"), SeeParent>>,
                  "published", "indeterminate"))
    /\ UNCHANGED <<dir, crash, content, parent, cancelled, faults, intrusions>>

CleanTemp(p) ==
    /\ At(p, "clean")
    /\ Continue(p, Run(pub[p], cleanup_entry("temp", pub[p].original),
                       "cleaned", "indeterminate"))
    /\ UNCHANGED <<dir, crash, content, parent, cancelled, faults, intrusions>>

\* The backup is the last link to the replaced file: it goes only after the
\* target was seen to be the new trace.
CleanBackup(p) ==
    /\ At(p, "cleaned")
    /\ Continue(p,
         IF p \in cancelled THEN Goto(pub[p], "restore")
         ELSE Run(pub[p],
                  <<See("target", p)>> \o cleanup_entry("backup", pub[p].original)
                    \o <<See("target", p), See("temp", "absent"), See("backup", "absent"),
                         SeeParent>>,
                  "published", "indeterminate"))
    /\ UNCHANGED <<dir, crash, content, parent, cancelled, faults, intrusions>>

prove_original_state(p) ==
    <<See("target", pub[p].original), SeeParent, See("temp", "absent"), See("backup", "absent")>>

\* rollback_absent and rollback_force.
Rollback(p) ==
    /\ At(p, "rollback")
    /\ Continue(p, Run(pub[p],
         (IF Replaces(pub[p])
          THEN verify_force_publication(p)
                 \o <<Exchange("temp", "target"), SyncDirectory>>
                 \o cleanup_entry("temp", p)
                 \o cleanup_entry("backup", pub[p].original)
          ELSE <<See("target", p), See("temp", "absent"),
                 RenameNoReplace("target", "temp"), SyncDirectory>>
                 \o cleanup_entry("temp", p))
         \o prove_original_state(p), "not_published", "indeterminate"))
    /\ UNCHANGED <<dir, crash, content, parent, cancelled, faults, intrusions>>

\* rollback_force_from_backup, after the temporary name was removed.
Restore(p) ==
    /\ At(p, "restore")
    /\ Continue(p, Run(pub[p],
         <<See("target", p), See("backup", pub[p].original),
           Exchange("backup", "target"), SyncDirectory>>
         \o cleanup_entry("backup", p) \o prove_original_state(p),
         "not_published", "indeterminate"))
    /\ UNCHANGED <<dir, crash, content, parent, cancelled, faults, intrusions>>

(***************************************************************************)
(* finish_precommit: the backup is kept when the target is no longer the   *)
(* file it protects; the temporary name is removed in any case.            *)
(***************************************************************************)
Precommit(p) ==
    /\ At(p, "precommit")
    /\ \/ /\ pub[p].backup
          /\ Continue(p, Run(pub[p],
               <<See("target", pub[p].original)>> \o cleanup_entry("backup", pub[p].original),
               "discard", "retain"))
       \/ /\ ~pub[p].backup
          /\ Continue(p, Goto(pub[p], "discard"))
    /\ UNCHANGED <<dir, crash, content, parent, cancelled, faults, intrusions>>

Retain(p) ==
    /\ At(p, "retain")
    /\ Continue(p, Goto([pub[p] EXCEPT !.doubt = TRUE], "discard"))
    /\ UNCHANGED <<dir, crash, content, parent, cancelled, faults, intrusions>>

Discard(p) ==
    /\ At(p, "discard")
    /\ Continue(p,
         IF pub[p].temp = "unknown" THEN Goto(pub[p], "indeterminate")
         ELSE Run(pub[p],
                  (IF pub[p].temp = "known" THEN cleanup_entry("temp", p) ELSE <<>>)
                    \o (IF pub[p].doubt THEN <<>> ELSE prove_original_state(p)),
                  IF pub[p].doubt THEN "indeterminate" ELSE "not_published",
                  "indeterminate"))
    /\ UNCHANGED <<dir, crash, content, parent, cancelled, faults, intrusions>>

(***************************************************************************)
(* The environment: a cancellation, a program that renames its own file    *)
(* over the target, a program that moves the output directory away.        *)
(***************************************************************************)
Cancel(p) ==
    /\ ~Reported(p) /\ p \notin cancelled
    /\ cancelled' = cancelled \cup {p}
    /\ UNCHANGED <<dir, crash, content, parent, pub, faults, intrusions>>

Intrude ==
    /\ intrusions < MaxIntrusions
    /\ intrusions' = intrusions + 1
    /\ \/ /\ dir[Target] # "directory"
          /\ dir' = [dir EXCEPT ![Target] = "other"]
          /\ crash' = crash \cup {dir'}
          /\ UNCHANGED parent
       \/ /\ parent' = FALSE
          /\ UNCHANGED <<dir, crash>>
    /\ UNCHANGED <<content, pub, cancelled, faults>>

PublisherStep(p) ==
    \/ Call(p) \/ Inspect(p) \/ CreateTemp(p) \/ Produce(p) \/ Persist(p) \/ Protect(p)
    \/ LinkBackup(p) \/ Linked(p) \/ Commit(p) \/ Moved(p) \/ Settle(p) \/ CleanTemp(p)
    \/ CleanBackup(p) \/ Rollback(p) \/ Restore(p) \/ Precommit(p) \/ Retain(p) \/ Discard(p)

PubNext == (\E p \in Publishers : PublisherStep(p) \/ Cancel(p)) \/ Intrude

(***************************************************************************)
(* Properties.                                                             *)

IsLinked(f, d) == \E e \in EntryNames : d[e] = f

\* At any moment, and after a power loss at any moment, the output path names
\* what it named before or one complete trace on the disk, never a partial
\* one; and a path that named a file never names nothing (publish_absent,
\* publish_force and their rollbacks under failing calls, cancellation and
\* interference).
TargetIsWhole ==
    \A d \in crash :
       /\ \A p \in Publishers : d[Target] = p => content[p] = "durable"
       /\ d[Target] = "absent" => \A p \in Publishers : pub[p].original # "file"

\* What the report says outlives a power loss, whatever other publishers do.
\* published and not_published: no temporary or backup name is left.
\* published: the replaced file does not come back.  not_published: the trace
\* does not appear at the output path.  And two publishers that found the same
\* target are never both told published, so no update is lost silently.
ReportsAreDurable ==
    \A p \in Publishers :
       /\ pub[p].at \in {"published", "not_published"} =>
            \A d \in crash : d[Entry(p, "temp")] = "absent" /\ d[Entry(p, "backup")] = "absent"
       /\ pub[p].at = "published" => \A d \in crash : d[Target] # pub[p].original
       /\ pub[p].at = "not_published" => \A d \in crash : d[Target] # p
       /\ \A q \in Publishers \ {p} :
            pub[p].at = "published" /\ pub[q].at = "published" =>
               pub[p].original # pub[q].original

\* A publication is whole, and reported as what it is.
PublicationIsDurable == TargetIsWhole /\ ReportsAreDurable

\* A publisher removes the last link of a file that is not a trace only when
\* it found that file at the output path, and a publisher's trace or another
\* program took the file's place: cleanup_entry and finish_precommit never
\* delete a file that was put at the output path behind the publisher's back,
\* and never the replaced file of a publication that is rolled back.
FilesSurvive ==
    [][\A p \in Publishers, f \in {"file", "other"} :
          PublisherStep(p) /\ IsLinked(f, dir) /\ ~IsLinked(f, dir') =>
             /\ f = pub[p].original
             /\ (\E q \in Publishers : pub[q].moved) \/ (f = "file" /\ intrusions > 0)]_pubVars
===============================================================================
