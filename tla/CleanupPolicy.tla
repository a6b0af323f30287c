---------------------------- MODULE CleanupPolicy ----------------------------
(***************************************************************************)
(* Which archived Runs a cleanup policy selects (select_preview), and what *)
(* an application of the selection leaves: some of the selected Runs are   *)
(* deleted, others are skipped because someone took a lease meanwhile, and *)
(* a second preview decides whether the policy is satisfied.               *)
(*                                                                         *)
(* A Run without an end time sorts after every other; its end is Never.    *)
(***************************************************************************)
EXTENDS Naturals, FiniteSets, Sequences, SequencesExt, FiniteSetsExt

CONSTANTS RunIds,      \* the archived Runs, numbered
          Times,       \* end times, 0 .. some bound
          Sizes        \* archive sizes in bytes

VARIABLES inventory,   \* the Runs the cleanup finds: a set of records
          policy,      \* the policy of the invocation
          preview,     \* select_preview's answer, and the Runs whose deletion failed
          outcome      \* Found, Previewed, Applied, Satisfied or Unsatisfied

policyVars == <<inventory, policy, preview, outcome>>

Never == Max(Times) + 1
Unknown == Max(Sizes) + 1      \* the size of an archive that cannot be measured

\* completed, incomplete and protected: what inspect_candidate can report.
InventoryRuns(id) ==
  [id : {id}, state : {"Completed"}, protected : BOOLEAN, ended : Times, bytes : Sizes]
  \cup [id : {id}, state : {"Incomplete"}, protected : {FALSE}, ended : {Never}, bytes : {1}]
  \cup [id : {id}, state : {"Unknown"}, protected : {TRUE}, ended : {Never}, bytes : {1, Unknown}]

Policies == [kind : {"Run"}, arg : RunIds]
  \cup [kind : {"OlderThan"}, arg : Times \cup {Never}]
  \cup [kind : {"KeepRuns"}, arg : 0..Cardinality(RunIds)]
  \cup [kind : {"MaxTotalBytes"}, arg : 0..(2 * Max(Sizes))]

\* cleanup_order: end time, then identity
cleanup_order(a, b) == a.ended < b.ended \/ (a.ended = b.ended /\ a.id < b.id)

is_eligible_completed(run) == ~run.protected /\ run.state = "Completed"

BytesOf(runs) == FoldSet(LAMBDA run, total : total + run.bytes, 0, runs)

\* sum_all_bytes: unknown as soon as one size is
BytesKnown(runs) == \A run \in runs : run.bytes # Unknown

SelectRun(runs, id) == {run \in runs : run.id = id /\ ~run.protected}

SelectOlderThan(runs, cutoff) ==
  {run \in runs : ~run.protected /\ run.state # "Incomplete" /\ run.ended < cutoff}

\* Positions count the protected archives too.
SelectKeepRuns(runs, keep) ==
  LET completed == SetToSortSeq({run \in runs : run.state = "Completed"}, cleanup_order)
      select_count == IF Len(completed) > keep THEN Len(completed) - keep ELSE 0
  IN {completed[position] : position \in {q \in 1..select_count : ~completed[q].protected}}

\* Oldest first, until what remains fits; nothing when a size is unknown.
SelectMaxTotalBytes(runs, budget) ==
  LET eligible == SetToSortSeq({run \in runs : is_eligible_completed(run)}, cleanup_order)
      step(run, acc) == IF acc.remaining <= budget
                          THEN acc
                          ELSE [remaining |-> acc.remaining - run.bytes,
                                selected |-> acc.selected \cup {run}]
  IN IF BytesKnown(runs)
       THEN FoldLeft(LAMBDA acc, run : step(run, acc),
                     [remaining |-> BytesOf(runs), selected |-> {}], eligible).selected
       ELSE {}

SelectedBy(runs, p) ==
  CASE p.kind = "Run" -> SelectRun(runs, p.arg)
    [] p.kind = "OlderThan" -> SelectOlderThan(runs, p.arg)
    [] p.kind = "KeepRuns" -> SelectKeepRuns(runs, p.arg)
    [] p.kind = "MaxTotalBytes" -> SelectMaxTotalBytes(runs, p.arg)

\* operation_failure: only a byte budget can fail
select_preview(runs, p) ==
  LET selected == SelectedBy(runs, p)
  IN [selected |-> selected, failed |-> {},
      failure |-> /\ p.kind = "MaxTotalBytes"
                  /\ ~BytesKnown(runs) \/ BytesOf(runs) - BytesOf(selected) > p.arg]

PolicyInit ==
  /\ inventory \in {{f[id] : id \in RunIds} :
                      f \in {g \in [RunIds -> UNION {InventoryRuns(id) : id \in RunIds}] :
                               \A id \in RunIds : g[id].id = id}}
  /\ policy \in Policies
  /\ preview = [selected |-> {}, failure |-> FALSE, failed |-> {}]
  /\ outcome = "Found"

PreviewInventory ==
  /\ outcome = "Found"
  /\ preview' = select_preview(inventory, policy)
  /\ outcome' = "Previewed"
  /\ UNCHANGED <<inventory, policy>>

\* apply_selected_run for each selected Run: deleted, skipped because a
\* reader leased it meanwhile, or failed, before the rename or after it.
ApplySelected ==
  /\ outcome = "Previewed"
  /\ \E leased, failed, renamed \in SUBSET preview.selected :
       /\ leased \cap failed = {} /\ renamed \subseteq failed
       /\ inventory' = (inventory \ preview.selected) \cup (failed \ renamed)
                         \cup {[run EXCEPT !.protected = TRUE] : run \in leased}
       /\ preview' = [preview EXCEPT !.failed = failed]
  /\ outcome' = "Applied"
  /\ UNCHANGED policy

\* Variant: the verdict repeats the first preview's.
TrustFirstPreview ==
  /\ outcome = "Applied"
  /\ outcome' = IF preview.failure THEN "Unsatisfied" ELSE "Satisfied"
  /\ UNCHANGED <<inventory, policy, preview>>

\* The postcondition of a batch policy: a second preview.
Postcondition ==
  /\ outcome = "Applied"
  /\ LET after == select_preview(inventory, policy)
         deleted == {run \in preview.selected \ preview.failed :
                       \A left \in inventory : left.id # run.id}
         satisfied == IF policy.kind = "Run"
                        THEN deleted # {}
                        ELSE ~after.failure /\ after.selected = {} /\ preview.failed = {}
     IN outcome' = IF satisfied THEN "Satisfied" ELSE "Unsatisfied"
  /\ UNCHANGED <<inventory, policy, preview>>

PolicyNext == PreviewInventory \/ ApplySelected \/ Postcondition

(***************************************************************************)
(* Properties.                                                             *)
(***************************************************************************)
Eligible == {run \in inventory : is_eligible_completed(run)}

\* When a policy asks for a Run to go, stated Run by Run, without an order of
\* visits: enough newer archives are kept, or the archives older than it do
\* not free enough.
Expendable(run) ==
  CASE policy.kind = "Run" -> run.id = policy.arg
    [] policy.kind = "OlderThan" -> run.state = "Completed" /\ run.ended < policy.arg
    [] policy.kind = "KeepRuns"
         -> /\ run.state = "Completed"
            /\ policy.arg <= Cardinality({newer \in inventory :
                 newer.state = "Completed" /\ cleanup_order(run, newer)})
    [] policy.kind = "MaxTotalBytes"
         -> /\ run.state = "Completed" /\ BytesKnown(inventory)
            /\ BytesOf(inventory) - BytesOf({older \in Eligible : cleanup_order(older, run)})
                 > policy.arg

\* select_preview takes exactly the unprotected Runs the policy makes
\* expendable: never a protected one, never an incomplete one in a batch,
\* never one of the newest to keep, never more than the byte budget needs.
SelectionIsExact ==
  outcome = "Previewed" =>
    preview.selected = {run \in inventory : ~run.protected /\ Expendable(run)}

\* A cleanup that reports its policy satisfied left an inventory that meets
\* it; and one whose preview promised success fails only because a selected
\* Run was leased in between or could not be deleted.
VerdictIsTruthful ==
  /\ outcome = "Satisfied" =>
       CASE policy.kind = "Run" -> \A run \in inventory : run.id # policy.arg
         [] policy.kind = "OlderThan" -> \A run \in Eligible : run.ended >= policy.arg
         [] policy.kind = "KeepRuns" -> Cardinality(Eligible) <= policy.arg
         [] policy.kind = "MaxTotalBytes" ->
              BytesKnown(inventory) /\ BytesOf(inventory) <= policy.arg
  /\ outcome = "Unsatisfied" /\ ~preview.failure /\ preview.selected # {} =>
       \/ preview.failed # {}
       \/ \E run \in inventory : [run EXCEPT !.protected = FALSE] \in preview.selected

\* Cleanup is exact from the preview to the verdict.
CleanupIsExact == SelectionIsExact /\ VerdictIsTruthful
=============================================================================
