------------------------- MODULE RelationshipMutation -------------------------
(***************************************************************************)
(* The governed mutation of one authorization tuple: the coordinator       *)
(* (approval-core/src/authorization-relationship-coordinator.ts) over the  *)
(* journal in D1 (approval-d1/src/authorization-relationship-store.ts) and *)
(* the external tuple store OpenFGA.  Executors submit mutations, retry    *)
(* them, and a cron reconciles; each is a worker that may die between any  *)
(* two calls.  Every journal operation is one batch, hence one action.     *)
(***************************************************************************)
EXTENDS Naturals

CONSTANTS Keys,       \* mutation keys: the execution idempotency keys
          Workers,    \* executors and reconcilers running at once
          NoKey,      \* a worker that reconciles holds no mutation yet
          MaxFaults   \* bound on failed calls and dead workers

ASSUME RelationshipBounds == MaxFaults \in Nat /\ NoKey \notin Keys

VARIABLES
    muts,     \* authorization_relationship_mutations: key -> row
    rel,      \* authorization_relationships: the tuple's row
    present,  \* whether OpenFGA holds the tuple
    late,     \* writes whose caller is gone and which may still land
    call,     \* worker -> its call of the coordinator
    overlap,  \* whether calls for the tuple overlap, or are made one at a time
    faults

vars == <<muts, rel, present, late, call, overlap, faults>>

Open == {"prepared", "applying", "indeterminate"}                 \* OPEN_STATUSES
Terminal == {"confirmed", "superseded", "failed"}

Known == {k \in Keys : muts[k].status # "absent"}

Idle == [pc |-> "idle", key |-> NoKey, tried |-> FALSE]

Init ==
    /\ muts = [k \in Keys |-> [status |-> "absent", revision |-> 0, desired |-> FALSE,
                               tried |-> FALSE]]
    /\ rel = [revision |-> 0, desired |-> FALSE, sync |-> "none", confirmed |-> 0]
    /\ present \in BOOLEAN
    /\ late = [p \in BOOLEAN |-> 0]
    /\ call = [w \in Workers |-> Idle]
    /\ overlap \in BOOLEAN
    /\ faults = 0

-----------------------------------------------------------------------------
(* The statements of the journal's batches.                                 *)
Latest(k) == muts[k].revision = rel.revision

AnyStatus(k) == TRUE                                                      \* mutant
Writable(k) == muts[k].status \in Open

(* UPDATE ... SET status of an open mutation, by one of the marks.          *)
Marked(k, status) == IF Writable(k) THEN [muts EXCEPT ![k].status = status] ELSE muts

EvenIfNotMarked(k, status, marked) == Latest(k)                           \* mutant
(* The tuple's row follows the mark that took effect on its revision.       *)
Follows(k, status, marked) == Latest(k) /\ marked[k].status = status

Synced(k, status, marked) ==
    IF Follows(k, status, marked) THEN [rel EXCEPT !.sync = status] ELSE rel

(* MAX(revision), 0 for a tuple without mutations.                          *)
MaxRevision == CHOOSE r \in {muts[k].revision : k \in Keys} : \A k \in Keys : muts[k].revision <= r

(* prepare: intent with the next revision, once per key, and desired state. *)
Prepare(k, desired) ==
    IF muts[k].status # "absent" THEN UNCHANGED <<muts, rel>>
    ELSE LET next == MaxRevision + 1
         IN  /\ muts' = [muts EXCEPT ![k] = [status |-> "prepared", revision |-> next,
                                             desired |-> desired, tried |-> FALSE]]
             /\ rel' = [rel EXCEPT !.revision = next, !.desired = desired, !.sync = "prepared"]

(* supersedeStale *)
SupersedeStale ==
    muts' = [k \in Keys |-> IF Writable(k) /\ k \in Known /\ muts[k].revision < rel.revision
                            THEN [muts[k] EXCEPT !.status = "superseded"] ELSE muts[k]]

-----------------------------------------------------------------------------
At(w, pc) == call[w].pc = pc

Goto(w, pc) == call' = [call EXCEPT ![w].pc = pc]
Return(w) == call' = [call EXCEPT ![w] = Idle]

(* Nothing in the code keeps two calls for one tuple apart; "overlap" tells *)
(* the runs apart in which they happen to be.                               *)
MayStart == overlap \/ \A w \in Workers : At(w, "idle")

(* submit, also as a retry of the executor: the same key and update.        *)
Submit(w, k, desired) ==
    /\ At(w, "idle") /\ MayStart
    /\ k \in Known => desired = muts[k].desired
    /\ Prepare(k, desired)
    /\ call' = [call EXCEPT ![w] = [pc |-> "load", key |-> k, tried |-> FALSE]]
    /\ UNCHANGED <<present, late, overlap, faults>>

(* apply: load reads the mutation, then the tuple's row.                    *)
LoadMutation(w) ==
    /\ At(w, "load")
    /\ IF muts[call[w].key].status \in Terminal THEN Return(w)
       ELSE call' = [call EXCEPT ![w].pc = "compare", ![w].tried = muts[call[w].key].tried]
    /\ UNCHANGED <<muts, rel, present, late, overlap, faults>>

LoadRelationship(w) ==
    /\ At(w, "compare")
    /\ Goto(w, IF Latest(call[w].key) THEN "mark_applying" ELSE "supersede")
    /\ UNCHANGED <<muts, rel, present, late, overlap, faults>>

NotCounted(row) == row.tried                                              \* mutant
(* attempt_count + 1; only whether it is positive matters.                  *)
Counted(row) == TRUE

MarkApplying(w) ==
    /\ At(w, "mark_applying")
    /\ LET k == call[w].key
       IN  IF Writable(k) /\ Latest(k)
           THEN /\ muts' = [muts EXCEPT ![k].status = "applying", ![k].tried = Counted(muts[k])]
                /\ rel' = [rel EXCEPT !.sync = "applying"]
                /\ Goto(w, "read")
           ELSE Goto(w, "refused") /\ UNCHANGED <<muts, rel>>
    /\ UNCHANGED <<present, late, overlap, faults>>

(* currentStatus, after a batch that changed nothing.                       *)
Refused(w) ==
    /\ At(w, "refused")
    /\ IF muts[call[w].key].status \in Terminal THEN Return(w) ELSE Goto(w, "supersede")
    /\ UNCHANGED <<muts, rel, present, late, overlap, faults>>

-----------------------------------------------------------------------------
(* The provider, external: an exact read, and a write that is refused when  *)
(* the tuple is already as asked.                                           *)
Desired(w) == muts[call[w].key].desired

ReadTuple(w, pc, same, different) ==
    /\ At(w, pc)
    /\ Goto(w, IF present = Desired(w) THEN same ELSE different)
    /\ UNCHANGED <<muts, rel, present, late, overlap, faults>>

WriteTuple(w, pc, done, refused) ==
    /\ At(w, pc)
    /\ present' = Desired(w)
    /\ Goto(w, IF present = Desired(w) THEN refused ELSE done)
    /\ UNCHANGED <<muts, rel, late, overlap, faults>>

ReadBefore(w)  == ReadTuple(w, "read", "confirm_read", "apply")
Apply(w)       == WriteTuple(w, "apply", "confirm_read", "reread")
Reread(w)      == ReadTuple(w, "reread", "confirm_read", "mark_failed")
ConfirmRead(w) == ReadTuple(w, "confirm_read", "confirm", "mark_indeterminate")
DriftRead(w)   == ReadTuple(w, "drift_read", "return", "drift_apply")
DriftApply(w)  == WriteTuple(w, "drift_apply", "drift_verify", "return")
DriftVerify(w) == ReadTuple(w, "drift_verify", "drift_record", "return")

Reads  == {"read", "reread", "confirm_read", "drift_read", "drift_verify"}
Writes == {"apply", "drift_apply"}
Drifts == {"drift_read", "drift_apply", "drift_verify"}

Fault == faults < MaxFaults /\ faults' = faults + 1

AssumeApplied(pc) == IF pc \in Drifts THEN "return" ELSE "confirm"        \* mutant
AfterFailure(pc) == IF pc \in Drifts THEN "return" ELSE "mark_indeterminate"

(* A call fails: nothing was sent, the provider refuses for good or asks to *)
(* retry, or the answer is lost and the write may land later.               *)
ProviderFails(w) ==
    /\ Fault /\ call[w].pc \in Reads \cup Writes
    /\ \/ Goto(w, AfterFailure(call[w].pc))
       \/ At(w, "apply") /\ Goto(w, "reread")
    /\ late' \in {late} \cup
           (IF overlap /\ call[w].pc \in Writes THEN {[late EXCEPT ![Desired(w)] = @ + 1]} ELSE {})
    /\ UNCHANGED <<muts, rel, present, overlap>>

(* The answer of a write that landed is lost.                               *)
AnswerLost(w) ==
    /\ Fault /\ call[w].pc \in Writes
    /\ present' = Desired(w)
    /\ Goto(w, AfterFailure(call[w].pc))
    /\ UNCHANGED <<muts, rel, late, overlap>>

LateWriteLands(p) ==
    /\ late[p] > 0
    /\ late' = [late EXCEPT ![p] = @ - 1]
    /\ present' = p
    /\ UNCHANGED <<muts, rel, call, overlap, faults>>

-----------------------------------------------------------------------------
(* The marks that end an attempt.                                           *)
MarkConfirmed(w) ==
    /\ At(w, "confirm")
    /\ LET k == call[w].key
           marked == IF Latest(k) THEN Marked(k, "confirmed") ELSE muts
       IN  /\ muts' = marked
           /\ rel' = IF Follows(k, "confirmed", marked)
                     THEN [rel EXCEPT !.sync = "confirmed", !.confirmed = muts[k].revision]
                     ELSE rel
           /\ IF Writable(k) /\ Latest(k) THEN Return(w) ELSE Goto(w, "unconfirmed")
    /\ UNCHANGED <<present, late, overlap, faults>>

(* Our own write may have landed over the newer one: always reconcile.      *)
Unconfirmed(w) ==
    /\ At(w, "unconfirmed")
    /\ IF muts[call[w].key].status = "confirmed" THEN Return(w)
       ELSE call' = [call EXCEPT ![w].pc = "supersede", ![w].tried = TRUE]
    /\ UNCHANGED <<muts, rel, present, late, overlap, faults>>

Mark(w, pc, status) ==
    /\ At(w, pc)
    /\ LET k == call[w].key
           marked == Marked(k, status)
       IN  muts' = marked /\ rel' = Synced(k, status, marked)
    /\ Return(w)
    /\ UNCHANGED <<present, late, overlap, faults>>

MarkFailed(w) == Mark(w, "mark_failed", "failed")
MarkIndeterminate(w) == Mark(w, "mark_indeterminate", "indeterminate")

-----------------------------------------------------------------------------
(* supersede, then reconcileTuple when the stale mutation may have reached  *)
(* the provider.                                                            *)
Supersede(w) ==
    /\ At(w, "supersede")
    /\ SupersedeStale
    /\ IF call[w].tried THEN Goto(w, "reconcile") ELSE Return(w)
    /\ UNCHANGED <<rel, present, late, overlap, faults>>

(* listReconcilable of the cron: an indeterminate mutation, or one idle for *)
(* a minute.                                                                *)
OnlyIndeterminate(k) == muts[k].status = "indeterminate"                  \* mutant
Reconcilable(k) == muts[k].status \in Open

ReconcilePending(w) ==
    /\ At(w, "idle") /\ MayStart /\ \E k \in Keys : Reconcilable(k)
    /\ Goto(w, "reconcile")
    /\ UNCHANGED <<muts, rel, present, late, overlap, faults>>

ReconcileTuple(w) ==
    /\ At(w, "reconcile")
    /\ SupersedeStale
    /\ Goto(w, "load_latest")
    /\ UNCHANGED <<rel, present, late, overlap, faults>>

LoadLatest(w) ==
    /\ At(w, "load_latest")
    /\ \E k \in Known :
         /\ Latest(k)
         /\ CASE muts[k].status = "failed" -> Return(w)
              [] muts[k].status = "confirmed" ->
                   call' = [call EXCEPT ![w] = [pc |-> "drift_read", key |-> k, tried |-> FALSE]]
              [] OTHER ->
                   call' = [call EXCEPT ![w] = [pc |-> "load", key |-> k, tried |-> FALSE]]
    /\ UNCHANGED <<muts, rel, present, late, overlap, faults>>

RecordDriftRepaired(w) ==
    /\ At(w, "drift_record")
    /\ rel' = IF Latest(call[w].key) THEN [rel EXCEPT !.sync = "confirmed"] ELSE rel
    /\ Return(w)
    /\ UNCHANGED <<muts, present, late, overlap, faults>>

Finish(w) ==
    /\ At(w, "return")
    /\ Return(w)
    /\ UNCHANGED <<muts, rel, present, late, overlap, faults>>

(* The journal fails, its answer is lost, or the worker dies; a write it    *)
(* had sent may land later.                                                 *)
Dies(w) ==
    /\ Fault /\ ~At(w, "idle")
    /\ Return(w)
    /\ late' \in {late} \cup
           (IF overlap /\ call[w].pc \in Writes THEN {[late EXCEPT ![Desired(w)] = @ + 1]} ELSE {})
    /\ UNCHANGED <<muts, rel, present, overlap>>

Work(w) ==
    \/ LoadMutation(w) \/ LoadRelationship(w) \/ MarkApplying(w) \/ Refused(w)
    \/ ReadBefore(w) \/ Apply(w) \/ Reread(w) \/ ConfirmRead(w)
    \/ MarkConfirmed(w) \/ Unconfirmed(w) \/ MarkFailed(w) \/ MarkIndeterminate(w)
    \/ Supersede(w) \/ ReconcileTuple(w) \/ LoadLatest(w)
    \/ DriftRead(w) \/ DriftApply(w) \/ DriftVerify(w) \/ RecordDriftRepaired(w) \/ Finish(w)

Next ==
    \/ \E w \in Workers :
         \/ \E k \in Keys, desired \in BOOLEAN : Submit(w, k, desired)
         \/ Work(w) \/ ReconcilePending(w)
         \/ ProviderFails(w) \/ AnswerLost(w) \/ Dies(w)
    \/ \E p \in BOOLEAN : LateWriteLands(p)

(* Workers go on, and the cron runs every minute.                           *)
Fairness ==
    /\ \A w \in Workers : WF_vars(Work(w))
    /\ SF_vars(\E w \in Workers : ReconcilePending(w))

Spec == Init /\ [][Next]_vars
FairSpec == Spec /\ Fairness

-----------------------------------------------------------------------------
Pcs == {"idle", "load", "compare", "mark_applying", "refused", "confirm", "unconfirmed",
        "mark_failed", "mark_indeterminate", "supersede", "reconcile", "load_latest",
        "drift_record", "return"} \cup Reads \cup Writes

(* Types of the journal and the calls; whoever got further than prepared    *)
(* has counted an attempt.                                                  *)
TypeOK ==
    /\ muts \in [Keys -> [status: {"absent"} \cup Open \cup Terminal, revision: Nat,
                          desired: BOOLEAN, tried: BOOLEAN]]
    /\ \A k \in Known : muts[k].status \notin {"prepared", "superseded"} => muts[k].tried
    /\ rel \in [revision: Nat, desired: BOOLEAN, confirmed: Nat,
                sync: {"none", "confirmed", "failed"} \cup Open]
    /\ present \in BOOLEAN /\ late \in [BOOLEAN -> Nat]
    /\ call \in [Workers -> [pc: Pcs, key: Keys \cup {NoKey}, tried: BOOLEAN]]
    /\ \A w \in Workers : call[w].key \in Known \/ call[w].pc \in {"idle", "reconcile", "load_latest"}
    /\ overlap \in BOOLEAN /\ faults \in 0..MaxFaults

(* authorization-console.md: the tuple's sync_status tracks its latest      *)
(* revision, through stale marks of other workers; and only one mutation    *)
(* of the tuple has that revision.                                          *)
SyncTracksLatest ==
    \A k \in Known :
       /\ muts[k].revision <= rel.revision
       /\ Latest(k) => rel.sync = muts[k].status /\ rel.desired = muts[k].desired
       /\ \A j \in Known \ {k} : muts[j].revision # muts[k].revision

(* A mutation that ended stays ended, whichever worker comes late with      *)
(* another mark, and the confirmed revision never moves back.               *)
EndedStaysEnded ==
    [][/\ \A k \in Keys : muts[k].status \in Terminal => muts'[k] = muts[k]
       /\ rel'.confirmed >= rel.confirmed]_vars

(* Nobody looks after the tuple any more: no mutation is open, and no call  *)
(* is in progress.                                                          *)
Quiet == (\A k \in Known : muts[k].status \in Terminal) /\ (\A w \in Workers : At(w, "idle"))

(* Without overlapping calls the provider holds the last desired state once *)
(* nothing is in progress, unless it refused it for good: no lost answer,   *)
(* outage or death between two calls is missed.                             *)
QuietMeansConverged ==
    ~overlap /\ Quiet /\ Known # {} => rel.sync = "failed" \/ present = rel.desired

(* Every mutation ends once the faults do, whoever has died.                *)
EveryMutationEnds == \A k \in Keys : (k \in Known) ~> (muts[k].status \in Terminal)

=============================================================================
