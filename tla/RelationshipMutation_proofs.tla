--------------------- MODULE RelationshipMutation_proofs ---------------------
(***************************************************************************)
(* The journal of relationship mutations for any number of mutations,      *)
(* workers and faults: its type, that the tuple's row tracks the latest    *)
(* revision, that what ended stays ended, and that calls made one at a     *)
(* time leave the provider as it was last asked to be.  The invariant has  *)
(* a part for the journal (JournalOK) and a part for the calls (CallsOK);  *)
(* every action changes the journal in one of four ways, and each of these *)
(* keeps what the calls rely on (Kept).  Serial adds what holds while no   *)
(* call has overlapped another.                                            *)
(*                                                                         *)
(* And of the changes of an application's rules, for any number of changes,*)
(* scopes, proposals and crashes: one winner per version (AuthoringInv: the*)
(* stored rules, what the requests ask for, what the executors have done). *)
(***************************************************************************)
EXTENDS RelationshipMutation, PolicyAuthoring, TLAPS

Rows == [status: {"absent"} \cup Open \cup Terminal, revision: Nat, desired: BOOLEAN,
         tried: BOOLEAN]
Tuples == [revision: Nat, desired: BOOLEAN, confirmed: Nat,
           sync: {"none", "confirmed", "failed"} \cup Open]

(* Revisions are numbered from 1 without repetition, the highest is the     *)
(* tuple's, and the tuple's row tells the status of its mutation.           *)
JournalOK ==
    /\ muts \in [Keys -> Rows] /\ rel \in Tuples
    /\ \A k \in Keys : muts[k].status = "absent" => muts[k].revision = 0
    /\ \A k \in Known : 1 <= muts[k].revision /\ muts[k].revision <= rel.revision
    /\ Known = {} => rel.revision = 0
    /\ Known # {} => \E k \in Known : Latest(k)
    /\ \A k, j \in Known : muts[k].revision = muts[j].revision => k = j
    /\ \A k \in Known : Latest(k) => rel.sync = muts[k].status /\ rel.desired = muts[k].desired
    /\ \A k \in Known : muts[k].status \notin {"prepared", "superseded"} => muts[k].tried
    /\ rel.confirmed <= rel.revision

(* Where a call holds a mutation, has counted its attempt, or has found it  *)
(* confirmed.                                                               *)
Free == {"idle", "reconcile", "load_latest"}
Attempting == {"read", "apply", "reread", "confirm_read", "confirm", "mark_failed",
               "mark_indeterminate"}
Drifting == Drifts \cup {"drift_record"}

CallsOK ==
    /\ call \in [Workers -> [pc: Pcs, key: Keys \cup {NoKey}, tried: BOOLEAN]]
    /\ \A w \in Workers : call[w].pc \notin Free => call[w].key \in Known
    /\ \A w \in Workers : call[w].pc \in Attempting => muts[call[w].key].tried
    /\ \A w \in Workers : call[w].pc \in Drifting => muts[call[w].key].status = "confirmed"

RestOK == present \in BOOLEAN /\ late \in [BOOLEAN -> Nat] /\ overlap \in BOOLEAN
          /\ faults \in 0..MaxFaults

IInv == JournalOK /\ CallsOK /\ RestOK

(* What no step takes from a mutation or the tuple.                         *)
Kept ==
    /\ \A k \in Known : k \in Known' /\ (muts[k].tried => muts'[k].tried)
    /\ \A k \in Keys : muts[k].status \in Terminal => muts'[k] = muts[k]
    /\ rel'.confirmed >= rel.confirmed

-----------------------------------------------------------------------------
(* The four ways in which a step changes the journal.                       *)
(* No mutation changes; the tuple's row at most confirms its revision again. *)
Untouched ==
    /\ muts' = muts
    /\ rel' \in Tuples /\ rel'.revision = rel.revision /\ rel'.desired = rel.desired
    /\ rel'.sync = rel.sync
    /\ rel.confirmed <= rel'.confirmed /\ rel'.confirmed <= rel.revision

(* One open mutation gets another row of the same revision and desired      *)
(* state; the tuple's row follows if it is the latest.                      *)
Moved(k, row) ==
    /\ k \in Known /\ Writable(k)
    /\ row \in Rows /\ row.revision = muts[k].revision /\ row.desired = muts[k].desired
    /\ row.status \in (Open \cup Terminal) \ {"prepared", "superseded"} /\ row.tried
    /\ muts' = [j \in Keys |-> IF j = k THEN row ELSE muts[j]]
    /\ rel' \in Tuples /\ rel'.revision = rel.revision /\ rel'.desired = rel.desired
    /\ rel'.sync = IF Latest(k) THEN row.status ELSE rel.sync
    /\ rel.confirmed <= rel'.confirmed /\ rel'.confirmed <= rel.revision

(* A mutation that is the only one not below the next revision.             *)
LEMMA MaxRevisionIs ==
    ASSUME JournalOK, Keys # {}
    PROVE  MaxRevision = rel.revision
  <1>1. \A k \in Keys : muts[k].revision \in Nat /\ muts[k].revision <= rel.revision
    <2> SUFFICES ASSUME NEW k \in Keys
                 PROVE  muts[k].revision \in Nat /\ muts[k].revision <= rel.revision
      OBVIOUS
    <2>1. muts[k] \in Rows /\ rel \in Tuples
      BY DEF JournalOK
    <2>2. muts[k].revision \in Nat /\ rel.revision \in Nat
      BY <2>1 DEF Rows, Tuples
    <2>3. CASE k \in Known
      BY <2>2, <2>3 DEF JournalOK
    <2>4. CASE muts[k].status = "absent"
      BY <2>2, <2>4 DEF JournalOK
    <2> QED BY <2>3, <2>4 DEF Known
  <1>2. \E k \in Keys : muts[k].revision = rel.revision
    BY DEF JournalOK, Known, Latest
  <1>3. rel.revision \in Nat
    BY DEF JournalOK, Tuples
  <1>4. rel.revision \in {muts[k].revision : k \in Keys}
    BY <1>2
  <1>5. \A r \in {muts[k].revision : k \in Keys} :
          (\A k \in Keys : muts[k].revision <= r) => r = rel.revision
    BY <1>1, <1>2, <1>3
  <1> QED BY <1>1, <1>4, <1>5 DEF MaxRevision

LEMMA PrepareKeeps ==
    ASSUME JournalOK, NEW k \in Keys, NEW desired \in BOOLEAN, Prepare(k, desired)
    PROVE  JournalOK' /\ Kept /\ k \in Known'
  <1>1. CASE muts[k].status # "absent"
    <2>1. UNCHANGED <<muts, rel>>
      BY <1>1 DEF Prepare
    <2> QED BY <1>1, <2>1 DEF JournalOK, Kept, Known, Latest, Tuples, Rows
  <1>2. CASE muts[k].status = "absent"
    <2> DEFINE next == rel.revision + 1
               row == [status |-> "prepared", revision |-> next, desired |-> desired,
                       tried |-> FALSE]
    <2>1. MaxRevision = rel.revision
      BY MaxRevisionIs
    <2>2. /\ muts' = [muts EXCEPT ![k] = row]
          /\ rel' = [rel EXCEPT !.revision = next, !.desired = desired, !.sync = "prepared"]
      BY <1>2, <2>1 DEF Prepare
    <2>3. next \in Nat /\ rel.revision \in Nat /\ rel.confirmed \in Nat
      BY DEF JournalOK, Tuples
    <2>4. row \in Rows
      BY <2>3 DEF Rows, Open
    <2>5. muts' \in [Keys -> Rows] /\ muts'[k] = row /\ \A j \in Keys \ {k} : muts'[j] = muts[j]
      BY <2>2, <2>4 DEF JournalOK
    <2>6. /\ rel' \in Tuples /\ rel'.revision = next /\ rel'.desired = desired
          /\ rel'.sync = "prepared" /\ rel'.confirmed = rel.confirmed
      BY <2>2, <2>3 DEF JournalOK, Tuples, Open
    <2>7. Known' = Known \cup {k} /\ k \notin Known
      BY <1>2, <2>5 DEF Known
    <2>8. \A j \in Known : /\ j # k /\ muts'[j] = muts[j] /\ muts[j].revision \in Nat
                           /\ 1 <= muts[j].revision /\ muts[j].revision <= rel.revision
                           /\ muts'[j].revision # rel'.revision
      BY <2>3, <2>5, <2>6, <2>7 DEF JournalOK, Known, Rows
    <2>9. \A j \in Keys : muts'[j].status = "absent" => muts'[j].revision = 0
      BY <2>5 DEF JournalOK
    <2>10. \A i, j \in Known' : muts'[i].revision = muts'[j].revision => i = j
      BY <2>5, <2>6, <2>7, <2>8 DEF JournalOK
    <2>11. \A j \in Known' : 1 <= muts'[j].revision /\ muts'[j].revision <= rel'.revision
      BY <2>3, <2>5, <2>6, <2>7, <2>8
    <2>12. \A j \in Known' : muts'[j].status \notin {"prepared", "superseded"} => muts'[j].tried
      BY <2>5, <2>7, <2>8 DEF JournalOK
    <2>13. \A j \in Known' : Latest(j)' => j = k
      BY <2>7, <2>8 DEF Latest
    <2>14. JournalOK'
      <3>1. Latest(k)' /\ k \in Known'
        BY <2>5, <2>6, <2>7 DEF Latest
      <3>2. \A j \in Known' : Latest(j)' => rel'.sync = muts'[j].status
                                            /\ rel'.desired = muts'[j].desired
        BY <2>5, <2>6, <2>13
      <3>3. rel'.confirmed <= rel'.revision
        BY <2>3, <2>6 DEF JournalOK
      <3> QED BY <2>5, <2>6, <2>9, <2>10, <2>11, <2>12, <3>1, <3>2, <3>3 DEF JournalOK
    <2>15. Kept
      <3>1. \A j \in Keys : muts[j].status \in Terminal => muts'[j] = muts[j]
        BY <1>2, <2>5 DEF Terminal
      <3>2. \A j \in Known : j \in Known' /\ muts'[j] = muts[j]
        BY <2>7, <2>8
      <3>3. rel'.confirmed >= rel.confirmed
        BY <2>3, <2>6
      <3> QED BY <3>1, <3>2, <3>3 DEF Kept
    <2> QED BY <2>7, <2>14, <2>15
  <1> QED BY <1>1, <1>2

LEMMA MovedKeeps ==
    ASSUME JournalOK, NEW k \in Keys, NEW row, Moved(k, row)
    PROVE  JournalOK' /\ Kept
  <1>1. muts' \in [Keys -> Rows] /\ muts'[k] = row /\ \A j \in Keys \ {k} : muts'[j] = muts[j]
    BY DEF JournalOK, Moved
  <1>2. Known' = Known /\ k \in Known
    BY <1>1 DEF Known, Moved, Open, Terminal
  <1>3. \A j \in Keys : muts'[j].revision = muts[j].revision /\ muts'[j].desired = muts[j].desired
    BY <1>1 DEF Moved
  <1>4. \A j \in Keys : Latest(j)' <=> Latest(j)
    BY <1>3 DEF Latest, Moved
  <1>5. rel'.revision = rel.revision /\ rel' \in Tuples /\ rel'.desired = rel.desired
    BY DEF Moved
  <1>6. \A j \in Known : Latest(j) /\ Latest(k) => j = k
    BY <1>2 DEF JournalOK, Latest
  <1>7. \A j \in Known' : Latest(j)' => rel'.sync = muts'[j].status
    BY <1>1, <1>2, <1>4, <1>6 DEF JournalOK, Moved, Known
  <1>8. \A j \in Known' : muts'[j].status \notin {"prepared", "superseded"} => muts'[j].tried
    BY <1>1, <1>2 DEF JournalOK, Moved, Known
  <1>9. \A j \in Keys : muts'[j].status = "absent" => muts'[j].revision = 0
    BY <1>1 DEF JournalOK, Moved, Open, Terminal
  <1>10. JournalOK'
    <2>1. \A j \in Known' : 1 <= muts'[j].revision /\ muts'[j].revision <= rel'.revision
      BY <1>2, <1>3, <1>5 DEF JournalOK, Known
    <2>2. Known' = {} => rel'.revision = 0
      BY <1>2
    <2>3. Known' # {} => \E j \in Known' : Latest(j)'
      BY <1>2, <1>4 DEF JournalOK, Known
    <2>4. \A i, j \in Known' : muts'[i].revision = muts'[j].revision => i = j
      BY <1>2, <1>3 DEF JournalOK, Known
    <2>5. \A j \in Known' : Latest(j)' => rel'.desired = muts'[j].desired
      BY <1>2, <1>3, <1>4, <1>5 DEF JournalOK, Known
    <2>6. rel'.confirmed <= rel'.revision
      BY DEF Moved
    <2> QED BY <1>1, <1>5, <1>7, <1>8, <1>9, <2>1, <2>2, <2>3, <2>4, <2>5, <2>6 DEF JournalOK
  <1>11. \A j \in Known : muts[j].tried => muts'[j].tried
    BY <1>1 DEF Moved, Known
  <1>12. \A j \in Keys : muts[j].status \in Terminal => muts'[j] = muts[j]
    BY <1>1 DEF Moved, Writable, Open, Terminal
  <1>13. rel'.confirmed >= rel.confirmed
    BY <1>5 DEF Moved, JournalOK, Tuples
  <1> QED BY <1>2, <1>10, <1>11, <1>12, <1>13 DEF Kept

LEMMA SupersedeKeeps ==
    ASSUME JournalOK, SupersedeStale, rel' = rel
    PROVE  JournalOK' /\ Kept
  <1>1. \A j \in Keys : muts'[j] = IF Writable(j) /\ j \in Known /\ muts[j].revision < rel.revision
                                  THEN [muts[j] EXCEPT !.status = "superseded"] ELSE muts[j]
    BY DEF SupersedeStale
  <1>2. \A j \in Keys : [muts[j] EXCEPT !.status = "superseded"] \in Rows
    BY DEF JournalOK, Rows, Terminal
  <1>3. muts' \in [Keys -> Rows]
    BY <1>1, <1>2 DEF JournalOK, SupersedeStale
  <1>4. \A j \in Keys : /\ muts'[j].revision = muts[j].revision
                        /\ muts'[j].desired = muts[j].desired /\ muts'[j].tried = muts[j].tried
                        /\ muts'[j].status \in {muts[j].status, "superseded"}
                        /\ muts'[j].status # muts[j].status => j \in Known
    BY ZenonT(60), <1>1, <1>2 DEF JournalOK, Rows
  <1>5. Known' = Known
    BY <1>4 DEF Known
  <1>6. \A j \in Keys : Latest(j)' <=> Latest(j)
    BY <1>4 DEF Latest
  <1>7. \A j \in Known : Latest(j) => muts'[j] = muts[j]
    <2>1. rel.revision \in Nat /\ ~(rel.revision < rel.revision)
      BY DEF JournalOK, Tuples
    <2> QED BY <1>1, <2>1 DEF Latest, Known
  <1>8. JournalOK'
    <2>1. \A j \in Known' : 1 <= muts'[j].revision /\ muts'[j].revision <= rel'.revision
      BY <1>4, <1>5 DEF JournalOK, Known
    <2>2. Known' # {} => \E j \in Known' : Latest(j)'
      BY <1>5, <1>6 DEF JournalOK, Known
    <2>3. \A i, j \in Known' : muts'[i].revision = muts'[j].revision => i = j
      BY <1>4, <1>5 DEF JournalOK, Known
    <2>4. \A j \in Known' : Latest(j)' => rel'.sync = muts'[j].status
                                          /\ rel'.desired = muts'[j].desired
      BY <1>5, <1>6, <1>7 DEF JournalOK, Known
    <2>5. \A j \in Known' : muts'[j].status \notin {"prepared", "superseded"} => muts'[j].tried
      BY <1>4, <1>5 DEF JournalOK, Known
    <2>6. \A j \in Keys : muts'[j].status = "absent" => muts'[j].revision = 0
      BY <1>4 DEF JournalOK
    <2> QED BY <1>3, <1>5, <2>1, <2>2, <2>3, <2>4, <2>5, <2>6 DEF JournalOK
  <1>9. \A j \in Keys : muts[j].status \in Terminal => muts'[j] = muts[j]
    BY <1>1 DEF Writable, Open, Terminal
  <1>10. rel'.confirmed >= rel.confirmed
    BY DEF JournalOK, Tuples
  <1> QED BY <1>4, <1>5, <1>8, <1>9, <1>10 DEF Kept, Known

LEMMA UntouchedKeeps ==
    ASSUME JournalOK, Untouched
    PROVE  JournalOK' /\ Kept
  <1>1. /\ muts' = muts /\ rel' \in Tuples /\ rel'.revision = rel.revision
        /\ rel'.desired = rel.desired /\ rel'.sync = rel.sync
        /\ rel.confirmed <= rel'.confirmed /\ rel'.confirmed <= rel.revision
    BY DEF Untouched
  <1>2. Known' = Known /\ \A k \in Keys : Latest(k)' <=> Latest(k)
    BY <1>1 DEF Known, Latest
  <1>3. \A k \in Known : k \in Keys
    BY DEF Known
  <1>4. JournalOK'
    BY <1>1, <1>2, <1>3 DEF JournalOK
  <1>5. rel'.confirmed >= rel.confirmed
    BY <1>1 DEF JournalOK, Tuples
  <1> QED BY <1>1, <1>2, <1>4, <1>5 DEF Kept

LEMMA UnchangedKeeps ==
    ASSUME JournalOK, UNCHANGED <<muts, rel>>
    PROVE  JournalOK' /\ Kept
  <1>1. Untouched
    BY DEF Untouched, JournalOK, Tuples
  <1> QED BY <1>1, UntouchedKeeps

-----------------------------------------------------------------------------
(* What the calls know survives every step of the journal.                  *)
LEMMA KeptForCalls ==
    ASSUME JournalOK, CallsOK, Kept, NEW w \in Workers
    PROVE  /\ call[w].pc \notin Free => call[w].key \in Known'
           /\ call[w].pc \in Attempting => muts'[call[w].key].tried
           /\ call[w].pc \in Drifting => muts'[call[w].key].status = "confirmed"
  <1>1. call[w].pc \in Attempting \cup Drifting => call[w].key \in Known
    BY DEF CallsOK, Free, Attempting, Drifting, Drifts
  <1>2. call[w].pc \in Attempting => muts'[call[w].key].tried
    BY <1>1 DEF CallsOK, Kept
  <1>3. call[w].pc \in Drifting => muts'[call[w].key].status = "confirmed"
    BY <1>1 DEF CallsOK, Kept, Known, Terminal
  <1> QED BY <1>2, <1>3 DEF CallsOK, Kept

(* A step that moves the call of one worker w to "row", which satisfies     *)
(* what its new position promises.                                          *)
LEMMA CallsKeep ==
    ASSUME JournalOK, CallsOK, Kept, NEW w \in Workers, NEW row,
           call' = [call EXCEPT ![w] = row],
           row \in [pc: Pcs, key: Keys \cup {NoKey}, tried: BOOLEAN],
           row.pc \notin Free => row.key \in Known',
           row.pc \in Attempting => muts'[row.key].tried,
           row.pc \in Drifting => muts'[row.key].status = "confirmed"
    PROVE  CallsOK'
  <1>1. call' \in [Workers -> [pc: Pcs, key: Keys \cup {NoKey}, tried: BOOLEAN]]
    BY DEF CallsOK
  <1>2. \A v \in Workers : call'[v] = IF v = w THEN row ELSE call[v]
    BY DEF CallsOK
  <1>3. ASSUME NEW v \in Workers
        PROVE  /\ call'[v].pc \notin Free => call'[v].key \in Known'
               /\ call'[v].pc \in Attempting => muts'[call'[v].key].tried
               /\ call'[v].pc \in Drifting => muts'[call'[v].key].status = "confirmed"
    <2>1. CASE v = w
      BY <1>2, <2>1
    <2>2. CASE v # w
      <3>1. call'[v] = call[v]
        BY <1>2, <2>2
      <3> QED BY <3>1, KeptForCalls
    <2> QED BY <2>1, <2>2
  <1> QED BY <1>1, <1>3 DEF CallsOK

(* Goto keeps the mutation of the call.                                     *)
LEMMA GotoKeeps ==
    ASSUME JournalOK, CallsOK, Kept, NEW w \in Workers, NEW pc \in Pcs, Goto(w, pc),
           call[w].pc \notin Free \/ pc \in Free,
           pc \in Attempting => muts'[call[w].key].tried,
           pc \in Drifting => muts'[call[w].key].status = "confirmed"
    PROVE  CallsOK'
  <1> DEFINE row == [call[w] EXCEPT !.pc = pc]
  <1>1. call[w] \in [pc: Pcs, key: Keys \cup {NoKey}, tried: BOOLEAN]
    BY DEF CallsOK
  <1>2. /\ row \in [pc: Pcs, key: Keys \cup {NoKey}, tried: BOOLEAN]
        /\ row.pc = pc /\ row.key = call[w].key
    BY <1>1
  <1>3. call' = [call EXCEPT ![w] = row]
    BY DEF Goto
  <1>4. pc \notin Free => call[w].key \in Known'
    BY KeptForCalls
  <1> HIDE DEF row
  <1> QED BY <1>2, <1>3, <1>4, CallsKeep

LEMMA ReturnKeeps ==
    ASSUME JournalOK, CallsOK, Kept, NEW w \in Workers, Return(w)
    PROVE  CallsOK'
  <1>1. Idle \in [pc: Pcs, key: Keys \cup {NoKey}, tried: BOOLEAN]
    BY DEF Idle, Pcs
  <1>2. Idle.pc = "idle"
    BY DEF Idle
  <1>3. call' = [call EXCEPT ![w] = Idle]
    BY DEF Return
  <1> QED BY <1>1, <1>2, <1>3, CallsKeep DEF Free, Attempting, Drifting, Drifts

LEMMA CallsUnchanged ==
    ASSUME JournalOK, CallsOK, Kept, call' = call
    PROVE  CallsOK'
  <1>1. ASSUME NEW w \in Workers
        PROVE  /\ call'[w].pc \notin Free => call'[w].key \in Known'
               /\ call'[w].pc \in Attempting => muts'[call'[w].key].tried
               /\ call'[w].pc \in Drifting => muts'[call'[w].key].status = "confirmed"
    BY KeptForCalls
  <1> QED BY <1>1 DEF CallsOK

-----------------------------------------------------------------------------
(* The actions.  A step is sound when it keeps the invariant and what the   *)
(* calls rely on.                                                           *)
Sound == JournalOK' /\ CallsOK' /\ Kept

LEMMA SubmitSound ==
    ASSUME IInv, NEW w \in Workers, NEW k \in Keys, NEW desired \in BOOLEAN,
           Submit(w, k, desired)
    PROVE  Sound
  <1> DEFINE row == [pc |-> "load", key |-> k, tried |-> FALSE]
  <1>1. JournalOK' /\ Kept /\ k \in Known'
    BY PrepareKeeps DEF IInv, Submit
  <1>2. row \in [pc: Pcs, key: Keys \cup {NoKey}, tried: BOOLEAN] /\ row.pc = "load" /\ row.key = k
    BY DEF Pcs
  <1>3. call' = [call EXCEPT ![w] = row]
    BY DEF Submit
  <1> HIDE DEF row
  <1>4. CallsOK'
    BY <1>1, <1>2, <1>3, CallsKeep DEF IInv, Attempting, Drifting, Drifts
  <1> QED BY <1>1, <1>4 DEF Sound

(* The calls that only read.                                                *)
LEMMA LoadMutationSound ==
    ASSUME IInv, NEW w \in Workers, LoadMutation(w)
    PROVE  Sound
  <1>1. JournalOK' /\ Kept
    BY UnchangedKeeps DEF IInv, LoadMutation
  <1>2. CASE Return(w)
    BY <1>1, <1>2, ReturnKeeps DEF IInv, Sound
  <1>3. CASE ~Return(w)
    <2> DEFINE k == call[w].key
               row == [call[w] EXCEPT !.pc = "compare", !.tried = muts[k].tried]
    <2>1. call' = [call EXCEPT ![w].pc = "compare", ![w].tried = muts[call[w].key].tried]
      BY <1>3 DEF LoadMutation
    <2>2. call[w] \in [pc: Pcs, key: Keys \cup {NoKey}, tried: BOOLEAN] /\ k \in Known
      BY DEF IInv, CallsOK, LoadMutation, At, Free
    <2>3. muts[k] \in Rows
      BY <2>2 DEF IInv, JournalOK, Known
    <2>4. row \in [pc: Pcs, key: Keys \cup {NoKey}, tried: BOOLEAN] /\ row.pc = "compare" /\ row.key = k
      BY <2>2, <2>3 DEF Pcs, Rows
    <2>5. call' = [call EXCEPT ![w] = row]
      BY <2>1 DEF IInv, CallsOK
    <2>6. row.key \in Known'
      BY <1>1, <2>2 DEF Kept
    <2> HIDE DEF row
    <2>7. CallsOK'
      BY <1>1, <2>4, <2>5, <2>6, CallsKeep DEF IInv, Attempting, Drifting, Drifts
    <2> QED BY <1>1, <2>7 DEF Sound
  <1> QED BY <1>2, <1>3

LEMMA LoadRelationshipSound ==
    ASSUME IInv, NEW w \in Workers, LoadRelationship(w)
    PROVE  Sound
  <1>1. JournalOK' /\ Kept
    BY UnchangedKeeps DEF IInv, LoadRelationship
  <1>2. PICK pc \in {"mark_applying", "supersede"} : Goto(w, pc)
    BY DEF LoadRelationship
  <1>3. pc \in Pcs /\ pc \notin Attempting /\ pc \notin Drifting /\ call[w].pc \notin Free
    BY DEF LoadRelationship, At, Pcs, Attempting, Drifting, Drifts, Free
  <1> QED BY <1>1, <1>2, <1>3, GotoKeeps DEF IInv, Sound

LEMMA RefusedSound ==
    ASSUME IInv, NEW w \in Workers, Refused(w)
    PROVE  Sound
  <1>1. JournalOK' /\ Kept
    BY UnchangedKeeps DEF IInv, Refused
  <1>2. CASE Return(w)
    BY <1>1, <1>2, ReturnKeeps DEF IInv, Sound
  <1>3. CASE Goto(w, "supersede")
    <2>1. "supersede" \in Pcs /\ "supersede" \notin Attempting /\ "supersede" \notin Drifting
          /\ call[w].pc \notin Free
      BY DEF Refused, At, Pcs, Attempting, Drifting, Drifts, Free
    <2> QED BY <1>1, <1>3, <2>1, GotoKeeps DEF IInv, Sound
  <1> QED BY <1>2, <1>3 DEF Refused

LEMMA ReadTupleSound ==
    ASSUME IInv, NEW w \in Workers, NEW pc \in Reads, NEW same \in Pcs, NEW different \in Pcs,
           ReadTuple(w, pc, same, different),
           pc \in Drifts => {same, different} \subseteq Drifting \cup {"return"},
           pc \notin Drifts => {same, different} \subseteq Attempting
    PROVE  Sound
  <1>1. JournalOK' /\ Kept
    BY UnchangedKeeps DEF IInv, ReadTuple
  <1>2. PICK next \in {same, different} : Goto(w, next)
    BY DEF ReadTuple
  <1>3. call[w].pc = pc /\ pc \notin Free /\ next \in Pcs
    BY DEF ReadTuple, At, Reads, Free
  <1>5. CASE pc \in Drifts
    <2>1. muts'[call[w].key].status = "confirmed"
      BY <1>1, <1>3, <1>5, KeptForCalls DEF IInv, Drifting
    <2>2. next \notin Attempting
      BY <1>5 DEF Drifting, Drifts, Attempting
    <2> QED BY <1>1, <1>2, <1>3, <2>1, <2>2, GotoKeeps DEF IInv, Sound
  <1>6. CASE pc \notin Drifts
    <2>1. muts'[call[w].key].tried
      BY <1>1, <1>3, <1>6, KeptForCalls DEF IInv, Attempting, Reads, Drifts
    <2>2. next \notin Drifting
      BY <1>6 DEF Drifting, Drifts, Attempting
    <2> QED BY <1>1, <1>2, <1>3, <2>1, <2>2, GotoKeeps DEF IInv, Sound
  <1> QED BY <1>5, <1>6

LEMMA WriteTupleSound ==
    ASSUME IInv, NEW w \in Workers, NEW pc \in Writes, NEW done \in Pcs, NEW refused \in Pcs,
           WriteTuple(w, pc, done, refused),
           pc \in Drifts => {done, refused} \subseteq Drifting \cup {"return"},
           pc \notin Drifts => {done, refused} \subseteq Attempting
    PROVE  Sound
  <1>1. JournalOK' /\ Kept
    BY UnchangedKeeps DEF IInv, WriteTuple
  <1>2. PICK next \in {done, refused} : Goto(w, next)
    BY DEF WriteTuple
  <1>3. call[w].pc = pc /\ pc \notin Free /\ next \in Pcs
    BY DEF WriteTuple, At, Writes, Free
  <1>4. CASE pc \in Drifts
    <2>1. muts'[call[w].key].status = "confirmed"
      BY <1>1, <1>3, <1>4, KeptForCalls DEF IInv, Drifting
    <2>2. next \notin Attempting
      BY <1>4 DEF Drifting, Drifts, Attempting
    <2> QED BY <1>1, <1>2, <1>3, <2>1, <2>2, GotoKeeps DEF IInv, Sound
  <1>5. CASE pc \notin Drifts
    <2>1. muts'[call[w].key].tried
      BY <1>1, <1>3, <1>5, KeptForCalls DEF IInv, Attempting, Writes, Drifts
    <2>2. next \notin Drifting
      BY <1>5 DEF Drifting, Drifts, Attempting
    <2> QED BY <1>1, <1>2, <1>3, <2>1, <2>2, GotoKeeps DEF IInv, Sound
  <1> QED BY <1>4, <1>5

LEMMA ProviderSound ==
    ASSUME IInv, NEW w \in Workers,
           \/ ReadBefore(w) \/ Apply(w) \/ Reread(w) \/ ConfirmRead(w)
           \/ DriftRead(w) \/ DriftApply(w) \/ DriftVerify(w)
    PROVE  Sound
  <1>1. CASE ReadBefore(w)
    BY <1>1, ReadTupleSound DEF ReadBefore, Reads, Writes, Drifts, Attempting, Pcs
  <1>2. CASE Apply(w)
    BY <1>2, WriteTupleSound DEF Apply, Reads, Writes, Drifts, Attempting, Pcs
  <1>3. CASE Reread(w)
    BY <1>3, ReadTupleSound DEF Reread, Reads, Writes, Drifts, Attempting, Pcs
  <1>4. CASE ConfirmRead(w)
    BY <1>4, ReadTupleSound DEF ConfirmRead, Reads, Writes, Drifts, Attempting, Pcs
  <1>5. CASE DriftRead(w)
    BY <1>5, ReadTupleSound DEF DriftRead, Reads, Writes, Drifts, Drifting, Pcs
  <1>6. CASE DriftApply(w)
    BY <1>6, WriteTupleSound DEF DriftApply, Reads, Writes, Drifts, Drifting, Pcs
  <1>7. CASE DriftVerify(w)
    BY <1>7, ReadTupleSound DEF DriftVerify, Reads, Writes, Drifts, Drifting, Pcs
  <1> QED BY <1>1, <1>2, <1>3, <1>4, <1>5, <1>6, <1>7

LEMMA FaultSound ==
    ASSUME IInv, NEW w \in Workers, ProviderFails(w) \/ AnswerLost(w) \/ Dies(w)
    PROVE  Sound
  <1>1. JournalOK' /\ Kept
    BY UnchangedKeeps DEF IInv, ProviderFails, AnswerLost, Dies
  <1>2. CASE Dies(w)
    BY <1>1, <1>2, ReturnKeeps DEF IInv, Sound, Dies
  <1>3. CASE ProviderFails(w) \/ AnswerLost(w)
    <2>1. call[w].pc \in Reads \cup Writes /\ call[w].pc \notin Free
      BY <1>3 DEF ProviderFails, AnswerLost, Reads, Writes, Free
    <2>2. PICK next \in {"return", "mark_indeterminate", "reread"} :
             /\ Goto(w, next)
             /\ next \in Attempting => call[w].pc \in Attempting
      BY <1>3, <2>1 DEF ProviderFails, AnswerLost, AfterFailure, At, Attempting, Reads, Writes, Drifts
    <2>3. next \in Pcs /\ next \notin Drifting
      BY DEF Pcs, Reads, Drifting, Drifts
    <2>4. next \in Attempting => muts'[call[w].key].tried
      BY <1>1, <2>2, KeptForCalls DEF IInv
    <2> QED BY <1>1, <2>1, <2>2, <2>3, <2>4, GotoKeeps DEF IInv, Sound
  <1> QED BY <1>2, <1>3

LEMMA MarkApplyingSound ==
    ASSUME IInv, NEW w \in Workers, MarkApplying(w)
    PROVE  Sound
  <1> DEFINE k == call[w].key
             row == [muts[k] EXCEPT !.status = "applying", !.tried = TRUE]
  <1>1. call[w].pc = "mark_applying" /\ k \in Known /\ k \in Keys
    BY DEF IInv, CallsOK, MarkApplying, At, Free, Known
  <1>2. muts[k] \in Rows
    BY <1>1 DEF IInv, JournalOK
  <1>3. CASE Writable(k) /\ Latest(k)
    <2>1. /\ row \in Rows /\ row.status = "applying" /\ row.tried
          /\ row.revision = muts[k].revision /\ row.desired = muts[k].desired
      BY <1>2 DEF Rows, Open
    <2>2. muts' = [j \in Keys |-> IF j = k THEN row ELSE muts[j]]
      <3>1. muts' = [muts EXCEPT ![k].status = "applying", ![k].tried = TRUE]
        BY <1>3 DEF MarkApplying, Counted
      <3>2. muts' = [muts EXCEPT ![k] = [muts[k] EXCEPT !.status = "applying", !.tried = TRUE]]
        BY <3>1 DEF IInv, JournalOK
      <3> QED BY <3>2 DEF IInv, JournalOK
    <2>3. rel' = [rel EXCEPT !.sync = "applying"]
      BY <1>3 DEF MarkApplying
    <2>4. /\ rel' \in Tuples /\ rel'.revision = rel.revision /\ rel'.desired = rel.desired
          /\ rel'.sync = "applying" /\ rel'.confirmed = rel.confirmed
          /\ rel.confirmed <= rel.confirmed /\ rel.confirmed <= rel.revision
      BY <2>3 DEF IInv, JournalOK, Tuples, Open
    <2> HIDE DEF row
    <2>5. Moved(k, row)
      BY <1>1, <1>3, <2>1, <2>2, <2>4 DEF Moved, Open
    <2>6. JournalOK' /\ Kept
      BY <1>1, <2>5, MovedKeeps DEF IInv
    <2>7. muts'[k].tried
      BY <1>1, <2>1, <2>2
    <2>8. Goto(w, "read") /\ "read" \in Pcs /\ "read" \notin Drifting /\ call[w].pc \notin Free
      BY <1>1, <1>3 DEF MarkApplying, Pcs, Reads, Drifting, Drifts, Free
    <2> QED BY <2>6, <2>7, <2>8, GotoKeeps DEF IInv, Sound
  <1>4. CASE ~(Writable(k) /\ Latest(k))
    <2>1. JournalOK' /\ Kept
      BY <1>4, UnchangedKeeps DEF IInv, MarkApplying
    <2>2. /\ Goto(w, "refused") /\ "refused" \in Pcs /\ call[w].pc \notin Free
          /\ "refused" \notin Attempting /\ "refused" \notin Drifting
      BY <1>1, <1>4 DEF MarkApplying, Pcs, Attempting, Drifting, Drifts, Free
    <2> QED BY <2>1, <2>2, GotoKeeps DEF IInv, Sound
  <1> QED BY <1>3, <1>4

(* The three marks that end an attempt, whether they take effect or not.    *)
LEMMA MarkKeeps ==
    ASSUME IInv, NEW w \in Workers, NEW status \in {"failed", "indeterminate"}, NEW pc \in Attempting,
           Mark(w, pc, status)
    PROVE  Sound
  <1> DEFINE k == call[w].key
             row == [muts[k] EXCEPT !.status = status]
  <1>1. call[w].pc = pc /\ k \in Known /\ k \in Keys /\ muts[k].tried
    BY DEF IInv, CallsOK, Mark, At, Free, Known, Attempting
  <1>2. muts[k] \in Rows
    BY <1>1 DEF IInv, JournalOK
  <1>3. JournalOK' /\ Kept
    <2>1. CASE Writable(k)
      <3>1. /\ row \in Rows /\ row.status = status /\ row.tried
            /\ row.revision = muts[k].revision /\ row.desired = muts[k].desired
        BY <1>1, <1>2 DEF Rows, Open, Terminal
      <3>2. muts' = [j \in Keys |-> IF j = k THEN row ELSE muts[j]]
        <4>1. muts' = [muts EXCEPT ![k].status = status]
          BY <2>1 DEF Mark, Marked
        <4>2. muts' = [muts EXCEPT ![k] = [muts[k] EXCEPT !.status = status]]
          BY <4>1 DEF IInv, JournalOK
        <4> QED BY <4>2 DEF IInv, JournalOK
      <3>3. rel' = IF Latest(k) THEN [rel EXCEPT !.sync = status] ELSE rel
        <4>1. Marked(k, status) = muts' /\ muts'[k].status = status
          BY <1>1, <3>1, <3>2 DEF Mark
        <4> QED BY <4>1 DEF Mark, Synced, Follows
      <3>4. /\ rel' \in Tuples /\ rel'.revision = rel.revision /\ rel'.desired = rel.desired
            /\ rel'.sync = IF Latest(k) THEN status ELSE rel.sync
            /\ rel'.confirmed = rel.confirmed
            /\ rel.confirmed <= rel.confirmed /\ rel.confirmed <= rel.revision
        BY <3>3 DEF IInv, JournalOK, Tuples, Open
      <3> HIDE DEF row
      <3>5. Moved(k, row)
        BY <1>1, <2>1, <3>1, <3>2, <3>4 DEF Moved, Open, Terminal
      <3> QED BY <1>1, <3>5, MovedKeeps DEF IInv
    <2>2. CASE ~Writable(k)
      <3>1. muts' = muts
        BY <2>2 DEF Mark, Marked
      <3>2. rel' = rel
        <4>1. rel' = IF Latest(k) /\ muts[k].status = status THEN [rel EXCEPT !.sync = status] ELSE rel
          BY <2>2 DEF Mark, Marked, Synced, Follows
        <4>2. Latest(k) => rel.sync = muts[k].status
          BY <1>1 DEF IInv, JournalOK
        <4>3. [rel EXCEPT !.sync = rel.sync] = rel
          BY DEF IInv, JournalOK, Tuples
        <4> QED BY <4>1, <4>2, <4>3
      <3> QED BY <3>1, <3>2, UnchangedKeeps DEF IInv
    <2> QED BY <2>1, <2>2
  <1> QED BY <1>3, ReturnKeeps DEF IInv, Mark, Sound

LEMMA MarkConfirmedSound ==
    ASSUME IInv, NEW w \in Workers, MarkConfirmed(w)
    PROVE  Sound
  <1> DEFINE k == call[w].key
             row == [muts[k] EXCEPT !.status = "confirmed"]
  <1>1. call[w].pc = "confirm" /\ k \in Known /\ k \in Keys /\ muts[k].tried
    BY DEF IInv, CallsOK, MarkConfirmed, At, Free, Known, Attempting
  <1>2. muts[k] \in Rows /\ rel \in Tuples
    BY <1>1 DEF IInv, JournalOK
  <1>3. rel.confirmed \in Nat /\ rel.revision \in Nat /\ rel.confirmed <= rel.revision
    BY <1>2 DEF IInv, JournalOK, Tuples
  <1>4. CASE Writable(k) /\ Latest(k)
    <2>1. /\ row \in Rows /\ row.status = "confirmed" /\ row.tried
          /\ row.revision = muts[k].revision /\ row.desired = muts[k].desired
      BY <1>1, <1>2 DEF Rows, Terminal
    <2>2. muts' = [j \in Keys |-> IF j = k THEN row ELSE muts[j]]
      <3>1. muts' = [muts EXCEPT ![k].status = "confirmed"]
        BY <1>4 DEF MarkConfirmed, Marked
      <3>2. muts' = [muts EXCEPT ![k] = [muts[k] EXCEPT !.status = "confirmed"]]
        BY <3>1 DEF IInv, JournalOK
      <3> QED BY <3>2 DEF IInv, JournalOK
    <2>3. rel' = [rel EXCEPT !.sync = "confirmed", !.confirmed = muts[k].revision]
      <3>1. Marked(k, "confirmed") = muts' /\ muts'[k].status = "confirmed"
        BY <1>1, <1>4, <2>1, <2>2 DEF MarkConfirmed
      <3> QED BY <1>4, <3>1 DEF MarkConfirmed, Follows
    <2>4. /\ rel' \in Tuples /\ rel'.revision = rel.revision /\ rel'.desired = rel.desired
          /\ rel'.sync = "confirmed" /\ rel'.confirmed = rel.revision
      BY <1>2, <1>3, <1>4, <2>3 DEF Tuples, Latest
    <2> HIDE DEF row
    <2>5. Moved(k, row)
      BY <1>1, <1>3, <1>4, <2>1, <2>2, <2>4 DEF Moved, Terminal
    <2>6. JournalOK' /\ Kept
      BY <1>1, <2>5, MovedKeeps DEF IInv
    <2>7. Return(w)
      BY <1>4 DEF MarkConfirmed
    <2> QED BY <2>6, <2>7, ReturnKeeps DEF IInv, Sound
  <1>5. CASE ~(Writable(k) /\ Latest(k))
    <2>1. muts' = muts
      BY <1>5 DEF MarkConfirmed, Marked
    <2>2. rel' = IF Latest(k) /\ muts[k].status = "confirmed"
                 THEN [rel EXCEPT !.sync = "confirmed", !.confirmed = muts[k].revision] ELSE rel
      BY <1>5, <2>1 DEF MarkConfirmed, Marked, Follows
    <2>3. Latest(k) => muts[k].revision = rel.revision /\ rel.sync = muts[k].status
      BY <1>1 DEF IInv, JournalOK, Latest
    <2>4. /\ rel' \in Tuples /\ rel'.revision = rel.revision /\ rel'.desired = rel.desired
          /\ rel'.sync = rel.sync /\ rel'.confirmed \in {rel.confirmed, rel.revision}
      BY <1>2, <1>3, <2>2, <2>3 DEF Tuples
    <2>5. JournalOK' /\ Kept
      BY <1>3, <2>1, <2>4, UntouchedKeeps DEF IInv, Untouched
    <2>6. /\ Goto(w, "unconfirmed") /\ "unconfirmed" \in Pcs /\ call[w].pc \notin Free
          /\ "unconfirmed" \notin Attempting /\ "unconfirmed" \notin Drifting
      BY <1>1, <1>5 DEF MarkConfirmed, Pcs, Attempting, Drifting, Drifts, Free
    <2> QED BY <2>5, <2>6, GotoKeeps DEF IInv, Sound
  <1> QED BY <1>4, <1>5

LEMMA UnconfirmedSound ==
    ASSUME IInv, NEW w \in Workers, Unconfirmed(w)
    PROVE  Sound
  <1>1. JournalOK' /\ Kept
    BY UnchangedKeeps DEF IInv, Unconfirmed
  <1>2. CASE Return(w)
    BY <1>1, <1>2, ReturnKeeps DEF IInv, Sound
  <1>3. CASE ~Return(w)
    <2> DEFINE row == [call[w] EXCEPT !.pc = "supersede", !.tried = TRUE]
    <2>1. call[w] \in [pc: Pcs, key: Keys \cup {NoKey}, tried: BOOLEAN] /\ call[w].key \in Known
      BY DEF IInv, CallsOK, Unconfirmed, At, Free
    <2>2. /\ row \in [pc: Pcs, key: Keys \cup {NoKey}, tried: BOOLEAN]
          /\ row.pc = "supersede" /\ row.key = call[w].key
      BY <2>1 DEF Pcs
    <2>3. call' = [call EXCEPT ![w] = row]
      BY <1>3 DEF Unconfirmed, IInv, CallsOK
    <2>4. row.key \in Known'
      BY <1>1, <2>1, <2>2 DEF Kept
    <2> HIDE DEF row
    <2>5. CallsOK'
      BY <1>1, <2>2, <2>3, <2>4, CallsKeep DEF IInv, Attempting, Drifting, Drifts
    <2> QED BY <1>1, <2>5 DEF Sound
  <1> QED BY <1>2, <1>3

LEMMA SupersedeSound ==
    ASSUME IInv, NEW w \in Workers, Supersede(w) \/ ReconcileTuple(w)
    PROVE  Sound
  <1>1. JournalOK' /\ Kept
    BY SupersedeKeeps DEF IInv, Supersede, ReconcileTuple
  <1>2. CASE Return(w)
    BY <1>1, <1>2, ReturnKeeps DEF IInv, Sound
  <1>3. CASE ~Return(w)
    <2>1. PICK next \in {"reconcile", "load_latest"} : Goto(w, next)
      BY <1>3 DEF Supersede, ReconcileTuple
    <2>2. next \in Pcs /\ next \in Free /\ next \notin Attempting /\ next \notin Drifting
      BY DEF Pcs, Free, Attempting, Drifting, Drifts
    <2> QED BY <1>1, <2>1, <2>2, GotoKeeps DEF IInv, Sound
  <1> QED BY <1>2, <1>3

LEMMA ReconcilePendingSound ==
    ASSUME IInv, NEW w \in Workers, ReconcilePending(w)
    PROVE  Sound
  <1>1. JournalOK' /\ Kept
    BY UnchangedKeeps DEF IInv, ReconcilePending
  <1>2. /\ Goto(w, "reconcile") /\ "reconcile" \in Pcs /\ "reconcile" \in Free
        /\ "reconcile" \notin Attempting /\ "reconcile" \notin Drifting
    BY DEF ReconcilePending, Pcs, Free, Attempting, Drifting, Drifts
  <1> QED BY <1>1, <1>2, GotoKeeps DEF IInv, Sound

LEMMA LoadLatestSound ==
    ASSUME IInv, NEW w \in Workers, LoadLatest(w)
    PROVE  Sound
  <1>1. JournalOK' /\ Kept
    BY UnchangedKeeps DEF IInv, LoadLatest
  <1>2. CASE Return(w)
    BY <1>1, <1>2, ReturnKeeps DEF IInv, Sound
  <1>3. CASE ~Return(w)
    <2>1. PICK k \in Known, pc \in {"drift_read", "load"} :
             /\ call' = [call EXCEPT ![w] = [pc |-> pc, key |-> k, tried |-> FALSE]]
             /\ pc = "drift_read" => muts[k].status = "confirmed"
      BY <1>3 DEF LoadLatest
    <2> DEFINE row == [pc |-> pc, key |-> k, tried |-> FALSE]
    <2>2. /\ row \in [pc: Pcs, key: Keys \cup {NoKey}, tried: BOOLEAN]
          /\ row.pc = pc /\ row.key = k
      BY DEF Pcs, Reads, Known
    <2>3. k \in Known' /\ (pc = "drift_read" => muts'[k].status = "confirmed")
      BY <1>1, <2>1 DEF Kept, Known, Terminal
    <2>4. call' = [call EXCEPT ![w] = row]
      BY <2>1
    <2> HIDE DEF row
    <2>5. CallsOK'
      BY <1>1, <2>2, <2>3, <2>4, CallsKeep DEF IInv, Attempting, Drifting, Drifts
    <2> QED BY <1>1, <2>5 DEF Sound
  <1> QED BY <1>2, <1>3

LEMMA RecordDriftRepairedSound ==
    ASSUME IInv, NEW w \in Workers, RecordDriftRepaired(w)
    PROVE  Sound
  <1>1. call[w].key \in Known /\ muts[call[w].key].status = "confirmed"
    BY DEF IInv, CallsOK, RecordDriftRepaired, At, Free, Drifting
  <1>2. Latest(call[w].key) => rel.sync = "confirmed"
    BY <1>1 DEF IInv, JournalOK
  <1>3. [rel EXCEPT !.sync = rel.sync] = rel
    BY DEF IInv, JournalOK, Tuples
  <1>4. rel' = rel /\ muts' = muts
    BY <1>2, <1>3 DEF RecordDriftRepaired
  <1>5. JournalOK' /\ Kept
    BY <1>4, UnchangedKeeps DEF IInv
  <1> QED BY <1>5, ReturnKeeps DEF IInv, RecordDriftRepaired, Sound

LEMMA WorkSound ==
    ASSUME IInv, NEW w \in Workers, Work(w)
    PROVE  Sound
  <1>1. CASE LoadMutation(w)
    BY <1>1, LoadMutationSound
  <1>2. CASE LoadRelationship(w)
    BY <1>2, LoadRelationshipSound
  <1>3. CASE MarkApplying(w)
    BY <1>3, MarkApplyingSound
  <1>4. CASE Refused(w)
    BY <1>4, RefusedSound
  <1>5. CASE \/ ReadBefore(w) \/ Apply(w) \/ Reread(w) \/ ConfirmRead(w)
             \/ DriftRead(w) \/ DriftApply(w) \/ DriftVerify(w)
    BY <1>5, ProviderSound
  <1>6. CASE MarkConfirmed(w)
    BY <1>6, MarkConfirmedSound
  <1>7. CASE Unconfirmed(w)
    BY <1>7, UnconfirmedSound
  <1>8. CASE MarkFailed(w) \/ MarkIndeterminate(w)
    BY <1>8, MarkKeeps DEF MarkFailed, MarkIndeterminate, Attempting
  <1>9. CASE Supersede(w) \/ ReconcileTuple(w)
    BY <1>9, SupersedeSound
  <1>10. CASE LoadLatest(w)
    BY <1>10, LoadLatestSound
  <1>11. CASE RecordDriftRepaired(w)
    BY <1>11, RecordDriftRepairedSound
  <1>12. CASE Finish(w)
    <2>1. JournalOK' /\ Kept /\ Return(w)
      BY <1>12, UnchangedKeeps DEF IInv, Finish
    <2> QED BY <2>1, ReturnKeeps DEF IInv, Sound
  <1> QED BY <1>1, <1>2, <1>3, <1>4, <1>5, <1>6, <1>7, <1>8, <1>9, <1>10, <1>11, <1>12 DEF Work

(* The provider's tuple, the writes in flight and the faults stay typed.    *)
LEMMA RestKeeps ==
    ASSUME IInv, [Next]_vars
    PROVE  RestOK'
  <1>1. ASSUME NEW w \in Workers, call[w].pc \in Reads \cup Writes
        PROVE  Desired(w) \in BOOLEAN
    <2>1. call[w].key \in Keys
      BY <1>1 DEF IInv, CallsOK, Reads, Writes, Free, Known
    <2> QED BY <2>1 DEF Desired, IInv, JournalOK, Rows
  <1>2. ASSUME NEW p \in BOOLEAN
        PROVE  [late EXCEPT ![p] = @ + 1] \in [BOOLEAN -> Nat]
    BY DEF IInv, RestOK
  <1>3. ASSUME NEW w \in Workers, ProviderFails(w) \/ Dies(w) \/ AnswerLost(w)
        PROVE  RestOK'
    <2>1. faults' \in 0..MaxFaults
      BY <1>3, RelationshipBounds DEF IInv, RestOK, ProviderFails, Dies, AnswerLost, Fault
    <2>2. late' \in [BOOLEAN -> Nat]
      BY <1>1, <1>2, <1>3 DEF IInv, RestOK, ProviderFails, Dies, AnswerLost
    <2>3. present' \in BOOLEAN /\ overlap' \in BOOLEAN
      BY <1>1, <1>3 DEF IInv, RestOK, ProviderFails, Dies, AnswerLost
    <2> QED BY <2>1, <2>2, <2>3 DEF RestOK
  <1>4. ASSUME NEW p \in BOOLEAN, LateWriteLands(p)
        PROVE  RestOK'
    <2>1. late[p] - 1 \in Nat
      BY <1>4 DEF IInv, RestOK, LateWriteLands
    <2> QED BY <1>4, <2>1 DEF IInv, RestOK, LateWriteLands
  <1>5. ASSUME NEW w \in Workers, Work(w)
        PROVE  RestOK'
    <2>1. UNCHANGED <<late, overlap, faults>> /\ present' \in BOOLEAN
      <3>1. CASE \/ Apply(w) \/ DriftApply(w)
        BY <1>1, <3>1 DEF Apply, DriftApply, WriteTuple, At, Writes
      <3>2. CASE ~(Apply(w) \/ DriftApply(w))
        BY <1>5, <3>2 DEF Work, IInv, RestOK, LoadMutation, LoadRelationship, MarkApplying, Refused,
           ReadBefore, Reread, ConfirmRead, DriftRead, DriftVerify, ReadTuple, MarkConfirmed,
           Unconfirmed, MarkFailed, MarkIndeterminate, Mark, Supersede, ReconcileTuple, LoadLatest,
           RecordDriftRepaired, Finish
      <3> QED BY <3>1, <3>2
    <2> QED BY <2>1 DEF IInv, RestOK
  <1>6. ASSUME NEW w \in Workers, NEW k \in Keys, NEW desired \in BOOLEAN,
               Submit(w, k, desired)
        PROVE  RestOK'
    BY <1>6 DEF IInv, RestOK, Submit
  <1>7. ASSUME NEW w \in Workers, ReconcilePending(w)
        PROVE  RestOK'
    BY <1>7 DEF IInv, RestOK, ReconcilePending
  <1>8. CASE UNCHANGED vars
    BY <1>8 DEF IInv, RestOK, vars
  <1> QED BY <1>3, <1>4, <1>5, <1>6, <1>7, <1>8 DEF Next

LEMMA NextSound ==
    ASSUME IInv, [Next]_vars
    PROVE  Sound
  <1>1. ASSUME NEW w \in Workers, NEW k \in Keys, NEW desired \in BOOLEAN, Submit(w, k, desired)
        PROVE  Sound
    BY <1>1, SubmitSound
  <1>2. ASSUME NEW w \in Workers, Work(w)
        PROVE  Sound
    BY <1>2, WorkSound
  <1>3. ASSUME NEW w \in Workers, ReconcilePending(w)
        PROVE  Sound
    BY <1>3, ReconcilePendingSound
  <1>4. ASSUME NEW w \in Workers, ProviderFails(w) \/ AnswerLost(w) \/ Dies(w)
        PROVE  Sound
    BY <1>4, FaultSound
  <1>5. ASSUME UNCHANGED <<muts, rel, call>>
        PROVE  Sound
    <2>1. JournalOK' /\ Kept
      BY <1>5, UnchangedKeeps DEF IInv
    <2> QED BY <1>5, <2>1, CallsUnchanged DEF IInv, Sound
  <1>6. ASSUME NEW p \in BOOLEAN, LateWriteLands(p)
        PROVE  Sound
    BY <1>5, <1>6 DEF LateWriteLands
  <1>7. CASE UNCHANGED vars
    BY <1>5, <1>7 DEF vars
  <1> QED BY <1>1, <1>2, <1>3, <1>4, <1>6, <1>7 DEF Next

LEMMA InitInv == Init => IInv
  <1> SUFFICES ASSUME Init
               PROVE  IInv
    OBVIOUS
  <1>1. Known = {} /\ muts \in [Keys -> Rows] /\ \A k \in Keys : muts[k].revision = 0
    BY DEF Init, Known, Rows
  <1>2. rel \in Tuples /\ rel.revision = 0 /\ rel.confirmed = 0
    BY DEF Init, Tuples
  <1>3. JournalOK
    BY <1>1, <1>2 DEF JournalOK
  <1>4. Idle \in [pc: Pcs, key: Keys \cup {NoKey}, tried: BOOLEAN] /\ Idle.pc = "idle"
    BY DEF Idle, Pcs
  <1>5. CallsOK
    <2>1. \A w \in Workers : call[w].pc = "idle"
      BY <1>4 DEF Init
    <2>2. call \in [Workers -> [pc: Pcs, key: Keys \cup {NoKey}, tried: BOOLEAN]]
      BY <1>4 DEF Init
    <2> QED BY <2>1, <2>2 DEF CallsOK, Free, Attempting, Drifting, Drifts
  <1>6. RestOK
    BY RelationshipBounds DEF Init, RestOK
  <1> QED BY <1>3, <1>5, <1>6 DEF IInv

(* The invariant holds throughout every behaviour: revisions are unique,    *)
(* the tuple's row follows the latest one, and every call works on a        *)
(* mutation of the journal.                                                 *)
THEOREM Invariance == Spec => []IInv
  <1>1. IInv /\ [Next]_vars => IInv'
    BY NextSound, RestKeeps DEF IInv, Sound
  <1> QED BY <1>1, InitInv, PTL DEF Spec

(* The journal and the calls have their types, and whoever got further than *)
(* prepared has counted an attempt.                                         *)
THEOREM TypeCorrect == Spec => []TypeOK
  <1>1. IInv => TypeOK
    <2> SUFFICES ASSUME IInv
                 PROVE  TypeOK
      OBVIOUS
    <2>1. \A w \in Workers : call[w].key \in Known \/ call[w].pc \in Free
      BY DEF IInv, CallsOK
    <2>2. \A k \in Known : muts[k].status \notin {"prepared", "superseded"} => muts[k].tried
      BY DEF IInv, JournalOK
    <2>3. muts \in [Keys -> Rows] /\ rel \in Tuples
      BY DEF IInv, JournalOK
    <2>4. call \in [Workers -> [pc: Pcs, key: Keys \cup {NoKey}, tried: BOOLEAN]]
      BY DEF IInv, CallsOK
    <2> QED BY <2>1, <2>2, <2>3, <2>4 DEF IInv, RestOK, TypeOK, Rows, Tuples, Free
  <1> QED BY <1>1, Invariance, PTL

(* The tuple's row tells status and desired state of the latest revision,   *)
(* which belongs to one mutation only.                                      *)
THEOREM SyncTracksLatestHolds == Spec => []SyncTracksLatest
  <1>1. IInv => SyncTracksLatest
    BY DEF IInv, JournalOK, SyncTracksLatest
  <1> QED BY <1>1, Invariance, PTL

(* An ended mutation stays as it ended, and the confirmed revision of the   *)
(* tuple never moves back.                                                  *)
THEOREM EndedStaysEndedHolds == Spec => EndedStaysEnded
  <1>1. IInv /\ [Next]_vars =>
          [/\ \A k \in Keys : muts[k].status \in Terminal => muts'[k] = muts[k]
           /\ rel'.confirmed >= rel.confirmed]_vars
    BY NextSound DEF Sound, Kept
  <1> QED BY <1>1, Invariance, PTL DEF Spec, EndedStaysEnded

-----------------------------------------------------------------------------
(* Calls that are made one at a time.  Nothing is in flight, a call that    *)
(* attempts or repairs works on the latest revision, and a confirmed tuple  *)
(* is as it was last asked for.                                             *)
InTurn ==
    /\ \A v, w \in Workers : ~At(v, "idle") /\ ~At(w, "idle") => v = w
    /\ \A p \in BOOLEAN : late[p] = 0
    /\ \A w \in Workers :
         /\ call[w].pc \in Attempting => Latest(call[w].key) /\ muts[call[w].key].status = "applying"
         /\ call[w].pc \in Drifting => Latest(call[w].key)
         /\ call[w].pc = "confirm" => present = Desired(w)
    /\ rel.sync = "confirmed" => present = rel.desired

Serial == ~overlap => InTurn

OthersIdle(w) == \A v \in Workers \ {w} : At(v, "idle") /\ call'[v] = call[v]

LEMMA AloneAtWork ==
    ASSUME IInv, InTurn, NEW w \in Workers, ~At(w, "idle"), NEW row, call' = [call EXCEPT ![w] = row]
    PROVE  OthersIdle(w) /\ call'[w] = row
BY DEF IInv, CallsOK, InTurn, OthersIdle

LEMMA GoesOn ==
    ASSUME IInv, InTurn, NEW w \in Workers, ~At(w, "idle"), NEW pc, Goto(w, pc)
    PROVE  OthersIdle(w) /\ call'[w].pc = pc /\ call'[w].key = call[w].key
  <1>1. call[w] \in [pc: Pcs, key: Keys \cup {NoKey}, tried: BOOLEAN]
    BY DEF IInv, CallsOK
  <1>2. call' = [call EXCEPT ![w] = [call[w] EXCEPT !.pc = pc]]
    BY DEF IInv, CallsOK, Goto
  <1>3. OthersIdle(w) /\ call'[w] = [call[w] EXCEPT !.pc = pc]
    BY <1>2, AloneAtWork
  <1> QED BY <1>1, <1>3

LEMMA Returns ==
    ASSUME IInv, InTurn, NEW w \in Workers, ~At(w, "idle"), Return(w)
    PROVE  OthersIdle(w) /\ call'[w].pc = "idle"
  <1>1. OthersIdle(w) /\ call'[w] = Idle
    BY AloneAtWork DEF Return
  <1> QED BY <1>1 DEF Idle

(* The one call that moves must keep to the latest revision.                *)
LEMMA OneMoves ==
    ASSUME InTurn, NEW w \in Workers, OthersIdle(w), late' = late,
           call'[w].pc \in Attempting => /\ muts'[call'[w].key].revision = rel'.revision
                                         /\ muts'[call'[w].key].status = "applying",
           call'[w].pc \in Drifting => muts'[call'[w].key].revision = rel'.revision,
           call'[w].pc = "confirm" => present' = muts'[call'[w].key].desired,
           rel'.sync = "confirmed" => present' = rel'.desired
    PROVE  InTurn'
  <1>1. ASSUME NEW v \in Workers \ {w}
        PROVE  call'[v].pc \notin Attempting \cup Drifting \cup {"confirm"}
    BY <1>1 DEF OthersIdle, At, Attempting, Drifting, Drifts
  <1>2. \A v, u \in Workers : ~At(v, "idle")' /\ ~At(u, "idle")' => v = u
    BY DEF OthersIdle, At
  <1> QED BY <1>1, <1>2 DEF InTurn, Latest, Desired

(* A call that goes where it does not touch the tuple confirms nothing.     *)
LEMMA PlainStep ==
    ASSUME InTurn, NEW w \in Workers, OthersIdle(w), late' = late, present' = present,
           call'[w].pc \notin Attempting \cup Drifting,
           rel'.sync = "confirmed" => rel.sync = "confirmed" /\ rel'.desired = rel.desired
    PROVE  InTurn'
  <1>1. "confirm" \in Attempting
    BY DEF Attempting
  <1> QED BY <1>1, OneMoves DEF InTurn

(* A call of the provider on behalf of an attempt or a repair.              *)
LEMMA ProviderStep ==
    ASSUME IInv, InTurn, NEW w \in Workers, NEW pc, Goto(w, pc), ~At(w, "idle"),
           UNCHANGED <<muts, rel, late>>,
           call[w].pc \in Attempting \cup Drifting,
           pc \in Attempting => call[w].pc \in Attempting,
           pc \in Drifting => call[w].pc \in Drifting,
           pc = "confirm" => present' = Desired(w),
           present' \in {present, Desired(w)}
    PROVE  InTurn'
  <1>1. OthersIdle(w) /\ call'[w].pc = pc /\ call'[w].key = call[w].key
    BY GoesOn
  <1>2. call[w].key \in Known
    BY DEF IInv, CallsOK, Free, Attempting, Drifting, Drifts
  <1>3. /\ Latest(call[w].key) /\ rel.desired = Desired(w)
        /\ rel.sync = muts[call[w].key].status
    BY <1>2 DEF InTurn, IInv, JournalOK, Desired
  <1>4. rel'.sync = "confirmed" => present' = rel'.desired
    BY <1>3 DEF InTurn
  <1>5. present' = Desired(w) => present' = muts'[call'[w].key].desired
    BY <1>1 DEF Desired
  <1> QED BY <1>1, <1>3, <1>4, <1>5, OneMoves DEF InTurn, Latest

LEMMA ProviderInTurn ==
    ASSUME IInv, InTurn, NEW w \in Workers,
           \/ ReadBefore(w) \/ Apply(w) \/ Reread(w) \/ ConfirmRead(w)
           \/ DriftRead(w) \/ DriftApply(w) \/ DriftVerify(w)
    PROVE  InTurn'
  <1>1. UNCHANGED <<muts, rel, late>> /\ present' \in {present, Desired(w)} /\ ~At(w, "idle")
    BY DEF ReadBefore, Apply, Reread, ConfirmRead, DriftRead, DriftApply, DriftVerify, ReadTuple,
           WriteTuple, At
  <1>2. CASE ReadBefore(w) \/ Apply(w) \/ Reread(w) \/ ConfirmRead(w)
    <2>1. PICK pc \in Attempting : /\ Goto(w, pc) /\ call[w].pc \in Attempting
                                   /\ pc = "confirm" => present' = Desired(w)
      BY <1>2 DEF ReadBefore, Apply, Reread, ConfirmRead, ReadTuple, WriteTuple, Attempting, At
    <2>2. pc \notin Drifting
      BY DEF Attempting, Drifting, Drifts
    <2> QED BY <1>1, <2>1, <2>2, ProviderStep
  <1>3. CASE DriftRead(w) \/ DriftApply(w) \/ DriftVerify(w)
    <2>1. PICK pc \in Drifting \cup {"return"} : Goto(w, pc) /\ call[w].pc \in Drifting
      BY <1>3 DEF DriftRead, DriftApply, DriftVerify, ReadTuple, WriteTuple, Drifting, Drifts, At
    <2>2. pc \notin Attempting /\ pc # "confirm"
      BY DEF Attempting, Drifting, Drifts
    <2> QED BY <1>1, <2>1, <2>2, ProviderStep
  <1> QED BY <1>2, <1>3

LEMMA FaultInTurn ==
    ASSUME IInv, InTurn, ~overlap, NEW w \in Workers, ProviderFails(w) \/ AnswerLost(w) \/ Dies(w)
    PROVE  InTurn'
  <1>1. UNCHANGED <<muts, rel, late>>
    BY DEF ProviderFails, AnswerLost, Dies
  <1>2. CASE Dies(w)
    <2>1. OthersIdle(w) /\ call'[w].pc = "idle" /\ present' = present
      BY <1>2, Returns DEF Dies
    <2> QED BY <1>1, <2>1, PlainStep DEF Attempting, Drifting, Drifts
  <1>3. CASE ProviderFails(w) \/ AnswerLost(w)
    <2>1. /\ call[w].pc \in Attempting \cup Drifting /\ ~At(w, "idle")
          /\ present' \in {present, Desired(w)}
      BY <1>3 DEF ProviderFails, AnswerLost, Reads, Writes, Attempting, Drifting, Drifts, At
    <2>2. PICK pc \in {"return", "mark_indeterminate", "reread"} :
             Goto(w, pc) /\ (pc \in Attempting => call[w].pc \in Attempting)
      BY <1>3, <2>1 DEF ProviderFails, AnswerLost, AfterFailure, At, Attempting, Drifts, Reads, Writes
    <2>3. pc \notin Drifting /\ pc # "confirm"
      BY DEF Drifting, Drifts
    <2> QED BY <1>1, <2>1, <2>2, <2>3, ProviderStep
  <1> QED BY <1>2, <1>3

LEMMA PlainInTurn ==
    ASSUME IInv, InTurn, NEW w \in Workers,
           \/ LoadMutation(w) \/ LoadRelationship(w) \/ Refused(w) \/ Unconfirmed(w)
           \/ Supersede(w) \/ ReconcileTuple(w) \/ Finish(w)
    PROVE  InTurn'
  <1>1. UNCHANGED <<rel, present, late>> /\ ~At(w, "idle")
    BY DEF LoadMutation, LoadRelationship, Refused, Unconfirmed, Supersede, ReconcileTuple, Finish, At
  <1>2. \/ Return(w)
        \/ \E pc \in {"mark_applying", "supersede", "reconcile", "load_latest"} : Goto(w, pc)
        \/ LoadMutation(w) /\ ~Return(w)
        \/ Unconfirmed(w) /\ ~Return(w)
    BY DEF LoadRelationship, Refused, Supersede, ReconcileTuple, Finish
  <1>3. CASE Return(w)
    BY <1>1, <1>3, Returns, PlainStep DEF Attempting, Drifting, Drifts
  <1>4. CASE \E pc \in {"mark_applying", "supersede", "reconcile", "load_latest"} : Goto(w, pc)
    <2>1. PICK pc \in {"mark_applying", "supersede", "reconcile", "load_latest"} : Goto(w, pc)
      BY <1>4
    <2>2. OthersIdle(w) /\ call'[w].pc = pc
      BY <1>1, <2>1, GoesOn
    <2> QED BY <1>1, <2>2, PlainStep DEF Attempting, Drifting, Drifts
  <1>5. CASE (LoadMutation(w) \/ Unconfirmed(w)) /\ ~Return(w)
    <2>1. call[w] \in [pc: Pcs, key: Keys \cup {NoKey}, tried: BOOLEAN]
      BY DEF IInv, CallsOK
    <2>2. PICK pc \in {"compare", "supersede"}, tried \in BOOLEAN :
             call' = [call EXCEPT ![w] = [call[w] EXCEPT !.pc = pc, !.tried = tried]]
      <3>1. CASE LoadMutation(w)
        <4>1. call[w].key \in Keys
          BY <3>1 DEF LoadMutation, At, IInv, CallsOK, Known, Free
        <4>2. muts[call[w].key].tried \in BOOLEAN
          BY <4>1 DEF IInv, JournalOK, Rows
        <4> QED BY <1>5, <2>1, <3>1, <4>2 DEF LoadMutation
      <3>2. CASE Unconfirmed(w)
        BY <1>5, <2>1, <3>2 DEF Unconfirmed
      <3> QED BY <1>5, <3>1, <3>2
    <2>3. OthersIdle(w) /\ call'[w] = [call[w] EXCEPT !.pc = pc, !.tried = tried]
      BY <1>1, <2>2, AloneAtWork
    <2>4. call'[w].pc = pc
      BY <2>1, <2>3
    <2> QED BY <1>1, <2>3, <2>4, PlainStep DEF Attempting, Drifting, Drifts
  <1> QED BY <1>2, <1>3, <1>4, <1>5

LEMMA StartInTurn ==
    ASSUME IInv, InTurn, ~overlap, NEW w \in Workers,
           \/ ReconcilePending(w)
           \/ \E k \in Keys, desired \in BOOLEAN : Submit(w, k, desired)
    PROVE  InTurn'
  <1>1. UNCHANGED <<present, late>> /\ \A v \in Workers : At(v, "idle")
    BY DEF ReconcilePending, Submit, MayStart
  <1>2. CASE ReconcilePending(w)
    <2>1. OthersIdle(w) /\ call'[w].pc = "reconcile" /\ rel' = rel
      BY <1>1, <1>2 DEF ReconcilePending, Goto, OthersIdle, IInv, CallsOK
    <2> QED BY <1>1, <2>1, PlainStep DEF Attempting, Drifting, Drifts
  <1>3. CASE \E k \in Keys, desired \in BOOLEAN : Submit(w, k, desired)
    <2>1. PICK k \in Keys, desired \in BOOLEAN : Submit(w, k, desired)
      BY <1>3
    <2>2. OthersIdle(w) /\ call'[w].pc = "load"
      BY <1>1, <2>1 DEF Submit, OthersIdle, IInv, CallsOK
    <2>3. rel' = rel \/ rel'.sync = "prepared"
      BY <2>1 DEF Submit, Prepare, IInv, JournalOK, Tuples
    <2> QED BY <1>1, <2>2, <2>3, PlainStep DEF Attempting, Drifting, Drifts
  <1> QED BY <1>2, <1>3

LEMMA MarkApplyingInTurn ==
    ASSUME IInv, InTurn, NEW w \in Workers, MarkApplying(w)
    PROVE  InTurn'
  <1> DEFINE k == call[w].key
  <1>1. /\ UNCHANGED <<present, late>> /\ ~At(w, "idle") /\ k \in Keys
        /\ muts \in [Keys -> Rows] /\ muts[k] \in Rows /\ rel \in Tuples
    BY DEF MarkApplying, At, IInv, CallsOK, Free, Known, JournalOK
  <1>2. CASE Writable(k) /\ Latest(k)
    <2>1. /\ muts' = [muts EXCEPT ![k].status = "applying", ![k].tried = TRUE]
          /\ rel' = [rel EXCEPT !.sync = "applying"] /\ Goto(w, "read")
      BY <1>2 DEF MarkApplying, Counted
    <2>2. muts'[k] = [muts[k] EXCEPT !.status = "applying", !.tried = TRUE]
      BY <1>1, <2>1
    <2>3. muts'[k].status = "applying" /\ muts'[k].revision = muts[k].revision
      BY <1>1, <2>2 DEF Rows
    <2>4. rel'.revision = rel.revision /\ rel'.sync = "applying"
      BY <1>1, <2>1 DEF Tuples
    <2>5. OthersIdle(w) /\ call'[w].pc = "read" /\ call'[w].key = k
      BY <1>1, <2>1, GoesOn
    <2> QED BY <1>1, <1>2, <2>3, <2>4, <2>5, OneMoves DEF Latest, Drifting, Drifts
  <1>3. CASE ~(Writable(k) /\ Latest(k))
    <2>1. OthersIdle(w) /\ call'[w].pc = "refused" /\ rel' = rel
      BY <1>1, <1>3, GoesOn DEF MarkApplying
    <2> QED BY <1>1, <2>1, PlainStep DEF Attempting, Drifting, Drifts
  <1> QED BY <1>2, <1>3

LEMMA MarkInTurn ==
    ASSUME IInv, InTurn, NEW w \in Workers, MarkFailed(w) \/ MarkIndeterminate(w)
    PROVE  InTurn'
  <1>1. UNCHANGED <<present, late>> /\ ~At(w, "idle") /\ Return(w) /\ rel \in Tuples
    BY DEF MarkFailed, MarkIndeterminate, Mark, At, IInv, JournalOK
  <1>2. \E status \in {"failed", "indeterminate"} : rel' \in {rel, [rel EXCEPT !.sync = status]}
    BY DEF MarkFailed, MarkIndeterminate, Mark, Synced
  <1>3. rel' = rel \/ rel'.sync \in {"failed", "indeterminate"}
    BY <1>1, <1>2 DEF Tuples
  <1> QED BY <1>1, <1>3, Returns, PlainStep DEF Attempting, Drifting, Drifts

(* What is confirmed has just been read back.                               *)
LEMMA MarkConfirmedInTurn ==
    ASSUME IInv, InTurn, NEW w \in Workers, MarkConfirmed(w)
    PROVE  InTurn'
  <1> DEFINE k == call[w].key
  <1>1. /\ UNCHANGED <<present, late>> /\ ~At(w, "idle") /\ k \in Known /\ rel \in Tuples
        /\ Latest(k) /\ muts[k].status = "applying" /\ present = Desired(w)
    BY DEF MarkConfirmed, At, IInv, CallsOK, Free, JournalOK, InTurn, Attempting
  <1>2. Writable(k) /\ rel.desired = Desired(w)
    BY <1>1 DEF Writable, Open, IInv, JournalOK, Desired
  <1>3. Return(w) /\ rel'.desired = rel.desired
    BY <1>1, <1>2 DEF MarkConfirmed, Tuples
  <1>4. OthersIdle(w) /\ call'[w].pc = "idle"
    BY <1>1, <1>3, Returns
  <1> QED BY <1>1, <1>2, <1>3, <1>4, OneMoves DEF Attempting, Drifting, Drifts

LEMMA LoadLatestInTurn ==
    ASSUME IInv, InTurn, NEW w \in Workers, LoadLatest(w)
    PROVE  InTurn'
  <1>1. UNCHANGED <<muts, rel, present, late>> /\ ~At(w, "idle")
    BY DEF LoadLatest, At
  <1>2. CASE Return(w)
    BY <1>1, <1>2, Returns, PlainStep DEF Attempting, Drifting, Drifts
  <1>3. CASE ~Return(w)
    <2>1. PICK k \in Known, pc \in {"drift_read", "load"} :
             Latest(k) /\ call' = [call EXCEPT ![w] = [pc |-> pc, key |-> k, tried |-> FALSE]]
      BY <1>3 DEF LoadLatest
    <2>2. OthersIdle(w) /\ call'[w] = [pc |-> pc, key |-> k, tried |-> FALSE]
      BY <1>1, <2>1, AloneAtWork
    <2>3. call'[w].pc = pc /\ call'[w].key = k
      BY <2>2
    <2>4. pc \notin Attempting
      BY DEF Attempting
    <2> QED BY <1>1, <2>1, <2>2, <2>3, <2>4, OneMoves DEF Latest, InTurn
  <1> QED BY <1>2, <1>3

LEMMA RecordDriftInTurn ==
    ASSUME IInv, InTurn, NEW w \in Workers, RecordDriftRepaired(w)
    PROVE  InTurn'
  <1>1. call[w].key \in Known /\ muts[call[w].key].status = "confirmed" /\ rel \in Tuples
    BY DEF IInv, CallsOK, RecordDriftRepaired, At, Free, Drifting, JournalOK
  <1>2. rel.sync = "confirmed" /\ ~At(w, "idle")
    BY <1>1 DEF IInv, JournalOK, InTurn, RecordDriftRepaired, At, Drifting
  <1>3. rel'.desired = rel.desired
    BY <1>1 DEF RecordDriftRepaired, Tuples
  <1>4. OthersIdle(w) /\ call'[w].pc = "idle" /\ present' = present /\ late' = late
    BY <1>2, Returns DEF RecordDriftRepaired
  <1> QED BY <1>2, <1>3, <1>4, PlainStep DEF Attempting, Drifting, Drifts

LEMMA NextSerial ==
    ASSUME IInv, Serial, [Next]_vars
    PROVE  Serial'
  <1>1. overlap' = overlap
    <2>1. ASSUME NEW w \in Workers, Work(w)
          PROVE  overlap' = overlap
      BY <2>1 DEF Work, LoadMutation, LoadRelationship, MarkApplying, Refused, ReadBefore, Reread,
         ConfirmRead, DriftRead, DriftVerify, ReadTuple, Apply, DriftApply, WriteTuple, MarkConfirmed,
         Unconfirmed, MarkFailed, MarkIndeterminate, Mark, Supersede, ReconcileTuple, LoadLatest,
         RecordDriftRepaired, Finish
    <2> QED BY <2>1 DEF Next, vars, Submit, ReconcilePending, ProviderFails, AnswerLost, Dies,
            LateWriteLands
  <1> SUFFICES ASSUME ~overlap, InTurn PROVE InTurn'
    BY <1>1 DEF Serial
  <1>2. ASSUME NEW w \in Workers, Work(w)
        PROVE  InTurn'
    <2>1. CASE \/ LoadMutation(w) \/ LoadRelationship(w) \/ Refused(w) \/ Unconfirmed(w)
               \/ Supersede(w) \/ ReconcileTuple(w) \/ Finish(w)
      BY <2>1, PlainInTurn
    <2>2. CASE \/ ReadBefore(w) \/ Apply(w) \/ Reread(w) \/ ConfirmRead(w)
               \/ DriftRead(w) \/ DriftApply(w) \/ DriftVerify(w)
      BY <2>2, ProviderInTurn
    <2>3. CASE MarkApplying(w) \/ MarkConfirmed(w)
      BY <2>3, MarkApplyingInTurn, MarkConfirmedInTurn
    <2>4. CASE MarkFailed(w) \/ MarkIndeterminate(w)
      BY <2>4, MarkInTurn
    <2>5. CASE LoadLatest(w) \/ RecordDriftRepaired(w)
      BY <2>5, LoadLatestInTurn, RecordDriftInTurn
    <2> QED BY <1>2, <2>1, <2>2, <2>3, <2>4, <2>5 DEF Work
  <1>3. ASSUME NEW w \in Workers,
               ReconcilePending(w) \/ \E k \in Keys, desired \in BOOLEAN : Submit(w, k, desired)
        PROVE  InTurn'
    BY <1>3, StartInTurn
  <1>4. ASSUME NEW w \in Workers, ProviderFails(w) \/ AnswerLost(w) \/ Dies(w)
        PROVE  InTurn'
    BY <1>4, FaultInTurn
  <1>5. ASSUME NEW p \in BOOLEAN, LateWriteLands(p)
        PROVE  InTurn'
    BY <1>5 DEF LateWriteLands, InTurn
  <1>6. CASE UNCHANGED vars
    BY <1>6 DEF vars, InTurn, At, Latest, Desired
  <1> QED BY <1>2, <1>3, <1>4, <1>5, <1>6 DEF Next

LEMMA InitSerial == Init => Serial
  <1> SUFFICES ASSUME Init PROVE InTurn
    BY DEF Serial
  <1>1. \A w \in Workers : call[w].pc = "idle"
    BY DEF Init, Idle
  <1>2. rel.sync = "none" /\ \A p \in BOOLEAN : late[p] = 0
    BY DEF Init
  <1> QED BY <1>1, <1>2 DEF InTurn, At, Attempting, Drifting, Drifts

(* Calls that do not overlap leave the provider with the last desired state *)
(* once nothing is in progress, unless it refused it for good, whatever     *)
(* fails and whoever dies on the way.                                       *)
THEOREM QuietMeansConvergedHolds == Spec => []QuietMeansConverged
  <1>1. IInv /\ Serial => QuietMeansConverged
    <2> SUFFICES ASSUME IInv, Serial, ~overlap, Quiet, Known # {}
                 PROVE  rel.sync = "failed" \/ present = rel.desired
      BY DEF QuietMeansConverged
    <2>1. PICK k \in Known : Latest(k)
      BY DEF IInv, JournalOK
    <2>2. rel.sync = muts[k].status /\ rel \in Tuples /\ muts[k].status \in Terminal
      BY <2>1 DEF IInv, JournalOK, Quiet
    <2>3. rel.sync \in {"confirmed", "failed"}
      BY <2>2 DEF Tuples, Terminal, Open
    <2> QED BY <2>3 DEF Serial, InTurn
  <1>2. Serial /\ IInv /\ [Next]_vars => Serial'
    BY NextSerial
  <1> QED BY <1>1, <1>2, InitSerial, Invariance, PTL DEF Spec

(***************************************************************************)
(* The changes of an application's rules.                                  *)
(***************************************************************************)
(* The versions of a scope's rules run from 1 without a gap, each made by a *)
(* change of its own that was made against the version before.             *)
Versions(scope) == {rec.version : rec \in {x \in records : x.scope = scope}}
RecordsOK ==
    /\ \A rec \in records :
        /\ rec.source \in Changes /\ rec.scope \in Scopes
        /\ rec.scope = requests[rec.source].scope /\ rec.version = requests[rec.source].base + 1
        /\ requests[rec.source].status \in {"approved", "succeeded", "failed"}
    /\ \A a, b \in records : a # b => a.source # b.source /\ (a.scope = b.scope => a.version # b.version)
    /\ \A scope \in Scopes : \E k \in Nat : Versions(scope) = 1 .. k

Applied(c) == \E rec \in records : rec.source = c
RequestOK(c, request) ==
    /\ DOMAIN request = DOMAIN Unsent
    /\ request.status # "none" =>
        /\ request.scope \in Scopes /\ request.base \in Nat
        /\ 1 .. request.base \subseteq Versions(request.scope)
    /\ request.status = "succeeded" => Applied(c)
RequestsOK == DOMAIN requests = Requests /\ \A c \in Changes : RequestOK(c, requests[c])

ExecutorOK(c, e) ==
    /\ DOMAIN e = DOMAIN AtRest
    /\ e.pc # "idle" => requests[c].status = "approved"
    /\ e.pc = "answer" /\ e.answer = "succeeded" => Applied(c)
ExecutorsOK == DOMAIN executors = Changes /\ \A c \in Changes : ExecutorOK(c, executors[c])

AuthoringInv == RecordsOK /\ RequestsOK /\ ExecutorsOK

LEMMA AuthoringInitial == AuthoringInit => AuthoringInv
  <1> SUFFICES ASSUME AuthoringInit PROVE AuthoringInv
    OBVIOUS
  <1>1. records = {} /\ requests = [r \in Requests |-> Unsent] /\ executors = [c \in Changes |-> AtRest]
    BY DEF AuthoringInit
  <1>2. RecordsOK
    <2>1. \A scope \in Scopes : Versions(scope) = 1 .. 0
      BY <1>1 DEF Versions
    <2> QED BY <1>1, <2>1 DEF RecordsOK
  <1>3. RequestsOK
    BY <1>1 DEF RequestsOK, RequestOK, Unsent, Requests
  <1>4. ExecutorsOK
    BY <1>1 DEF ExecutorsOK, ExecutorOK, AtRest
  <1> QED BY <1>2, <1>3, <1>4 DEF AuthoringInv

(* What a scope stands at: the last of its versions.                       *)
LEMMA CurrentIsLast ==
  ASSUME AuthoringInv, NEW scope \in Scopes
  PROVE  /\ Current(scope).version \in Nat /\ Versions(scope) = 1 .. Current(scope).version
         /\ Current(scope).source # "catalog" => Current(scope) \in records /\ Current(scope).scope = scope
         /\ Current(scope).source \in Changes => Current(scope) \in records
  <1> DEFINE own == {x \in records : x.scope = scope}
  <1>1. PICK k \in Nat : Versions(scope) = 1 .. k
    BY DEF AuthoringInv, RecordsOK
  <1>2. CASE own = {}
    <2>1. Versions(scope) = {}
      BY <1>2 DEF Versions
    <2>2. k = 0
      <3>1. k >= 1 => 1 \in 1 .. k
        OBVIOUS
      <3> QED BY <1>1, <2>1, <3>1
    <2> QED BY <1>1, <1>2, <2>2, AuthoringBounds DEF Current
  <1>3. CASE own # {}
    <2>1. k \in Versions(scope)
      <3>1. PICK rec \in own : TRUE
        BY <1>3
      <3>2. rec.version \in 1 .. k
        BY <1>1, <3>1 DEF Versions
      <3> QED BY <1>1, <3>2
    <2>2. PICK top \in own : top.version = k
      BY <2>1 DEF Versions
    <2>3. \A other \in own : other.version \in 1 .. k
      BY <1>1 DEF Versions
    <2>4. \A other \in own : other.version <= top.version
      BY <2>2, <2>3
    <2>5. Newest(own) \in own /\ \A other \in own : other.version <= Newest(own).version
      BY <2>2, <2>4 DEF Newest
    <2>6. Newest(own).version = k
      BY <2>2, <2>3, <2>5
    <2>7. Current(scope) = Newest(own)
      BY <1>3 DEF Current
    <2> QED BY <1>1, <2>5, <2>6, <2>7
  <1> QED BY <1>2, <1>3

(***************************************************************************)
(* A request that is made or goes on keeps what it asks for.               *)
(***************************************************************************)
AsksTheSame(x, request) ==
    /\ DOMAIN x = DOMAIN request /\ x.scope = request.scope /\ x.base = request.base
    /\ x.status \notin {"none", "succeeded"}

LEMMA StandingIsOpen == \A flow, by, votes : Standing(flow, by, votes) \in {"approved", "rejected", "failed", "pending_approval"}
  <1> TAKE flow, by, votes
  <1>1. CASE IsApproved(flow, votes)
    BY <1>1 DEF Standing
  <1>2. CASE ~IsApproved(flow, votes)
    <2> PICK open : open = OpenSteps(flow, votes)
      OBVIOUS
    <2> PICK none : none = {s \in open : Eligible(s, by) = {}}
      OBVIOUS
    <2>1. (CASE open = {} -> "rejected"
             [] \E s \in open : Eligible(s, by) = {} -> "failed"
             [] open # {} /\ \A s \in open : Eligible(s, by) # {} -> "pending_approval")
          \in {"rejected", "failed", "pending_approval"}
      BY Zenon
    <2>2. Standing(flow, by, votes) \in {"rejected", "failed", "pending_approval"}
      BY <1>2, <2>1 DEF Standing, With
    <2> QED BY <2>2
  <1> QED BY <1>1, <1>2

LEMMA CommittedAsksTheSame ==
  ASSUME NEW request, DOMAIN request = DOMAIN Unsent, NEW made
  PROVE  AsksTheSame(Committed(request, made), request)
  <1>1. CASE IsError(made) \/ ~VerifyPlan(made)
    BY <1>1 DEF Committed, AsksTheSame, Unsent
  <1>2. CASE ~IsError(made) /\ VerifyPlan(made)
    <2> PICK plan : plan = Saved(made)
      OBVIOUS
    <2> PICK standing : standing = Standing(made.flow, request.by, {})
      OBVIOUS
    <2>1. standing \notin {"none", "succeeded"}
      BY StandingIsOpen
    <2>2. Committed(request, made) = [request EXCEPT !.plan = plan, !.sources = {}, !.status = standing]
      BY <1>2 DEF Committed
    <2> QED BY <2>1, <2>2 DEF AsksTheSame, Unsent
  <1> QED BY <1>1, <1>2

LEMMA CommitAsksTheSame ==
  ASSUME NEW r, NEW request, DOMAIN request = DOMAIN Unsent
  PROVE  AsksTheSame(Commit(r, request), request)
  <1>1. \E made : Commit(r, request) = Committed(request, made)
    BY DEF Commit, With
  <1> QED BY <1>1, CommittedAsksTheSame

(***************************************************************************)
(* Steps that write no record.                                             *)
(***************************************************************************)
LEMMA RequestMoves ==
  ASSUME AuthoringInv, NEW r \in Requests, NEW x,
         records' = records, executors' = executors, requests' = [requests EXCEPT ![r] = x],
         r \in Changes => /\ requests[r].status \notin {"approved", "succeeded", "failed"}
                          /\ RequestOK(r, x)
  PROVE  AuthoringInv'
  <1>1. \A scope : Versions(scope)' = Versions(scope)
    BY DEF Versions
  <1>2. \A c \in Changes : requests'[c] = IF c = r THEN x ELSE requests[c]
    BY DEF AuthoringInv, RequestsOK, Requests
  <1>3. RecordsOK'
    BY <1>1, <1>2 DEF AuthoringInv, RecordsOK
  <1>4. RequestsOK'
    BY <1>1, <1>2 DEF AuthoringInv, RequestsOK, RequestOK, Applied
  <1>5. ExecutorsOK'
    BY <1>2 DEF AuthoringInv, ExecutorsOK, ExecutorOK, Applied
  <1> QED BY <1>3, <1>4, <1>5 DEF AuthoringInv

LEMMA ExecutorMoves ==
  ASSUME AuthoringInv, NEW c \in Changes, NEW next, records' = records, requests' = requests,
         executors' = [executors EXCEPT ![c] = next], ExecutorOK(c, next)
  PROVE  AuthoringInv'
  <1>1. \A scope : Versions(scope)' = Versions(scope)
    BY DEF Versions
  <1>2. \A d \in Changes : executors'[d] = IF d = c THEN next ELSE executors[d]
    BY DEF AuthoringInv, ExecutorsOK
  <1>3. RecordsOK'
    BY <1>1 DEF AuthoringInv, RecordsOK
  <1>4. RequestsOK'
    BY <1>1 DEF AuthoringInv, RequestsOK, RequestOK, Applied
  <1>5. ExecutorsOK'
    BY <1>2 DEF AuthoringInv, ExecutorsOK, ExecutorOK, Applied
  <1> QED BY <1>3, <1>4, <1>5 DEF AuthoringInv

LEMMA StartKeeps ==
  ASSUME AuthoringInv, NEW r \in Requests, NEW request, StartEvaluation(r, request), DOMAIN request = DOMAIN Unsent,
         request.status = "none",
         r \in Changes => request.scope \in Scopes /\ request.base \in Nat /\ 1 .. request.base \subseteq Versions(request.scope)
  PROVE  AuthoringInv'
  <1>1. PICK x : requests' = [requests EXCEPT ![r] = x] /\ AsksTheSame(x, request)
    <2> PICK applicable : applicable = ResolvePolicyBindings(bindings, ContextOfRequest(r, request))
      OBVIOUS
    <2>1. requests' = [requests EXCEPT ![r] =
              IF IsError(applicable) THEN [request EXCEPT !.status = "refused"]
              ELSE IF applicable.bindings = <<>> THEN Commit(r, request)
              ELSE [request EXCEPT !.status = "evaluating", !.todo = applicable.bindings]]
      BY DEF StartEvaluation
    <2>2. AsksTheSame([request EXCEPT !.status = "refused"], request)
      BY DEF AsksTheSame, Unsent
    <2>3. AsksTheSame([request EXCEPT !.status = "evaluating", !.todo = applicable.bindings], request)
      BY DEF AsksTheSame, Unsent
    <2>4. AsksTheSame(Commit(r, request), request)
      BY CommitAsksTheSame
    <2> QED BY <2>1, <2>2, <2>3, <2>4
  <1>2. requests[r].status = "none" /\ records' = records /\ executors' = executors
    BY DEF StartEvaluation, store
  <1>3. r \in Changes => RequestOK(r, x)
    BY <1>1 DEF AsksTheSame, RequestOK
  <1> QED BY <1>1, <1>2, <1>3, RequestMoves

LEMMA SubmitChangeKeeps == ASSUME AuthoringInv, NEW c \in Changes, SubmitChange(c) PROVE AuthoringInv'
  <1>1. PICK p \in Proposals : \E base \in 0 .. Current(p.scope).version :
          StartEvaluation(c, [Unsent EXCEPT !.scope = p.scope, !.by = p.by, !.base = base, !.rules = p.rules])
    BY DEF SubmitChange
  <1>2. PICK base \in 0 .. Current(p.scope).version :
          StartEvaluation(c, [Unsent EXCEPT !.scope = p.scope, !.by = p.by, !.base = base, !.rules = p.rules])
    BY <1>1
  <1> DEFINE request == [Unsent EXCEPT !.scope = p.scope, !.by = p.by, !.base = base, !.rules = p.rules]
  <1>3. p.scope \in Scopes
    BY AuthoringBounds
  <1>4. Current(p.scope).version \in Nat /\ Versions(p.scope) = 1 .. Current(p.scope).version
    BY <1>3, CurrentIsLast
  <1>5. base \in Nat /\ 1 .. base \subseteq Versions(p.scope)
    BY <1>4
  <1>6. /\ DOMAIN request = DOMAIN Unsent /\ request.status = "none"
        /\ request.scope = p.scope /\ request.base = base
    BY DEF Unsent
  <1>7. c \in Requests /\ StartEvaluation(c, request)
    BY <1>2 DEF Requests
  <1> HIDE DEF request
  <1> QED BY <1>3, <1>5, <1>6, <1>7, StartKeeps

LEMMA SubmitPublicationKeeps == ASSUME AuthoringInv, NEW r \in Publications, SubmitPublication(r) PROVE AuthoringInv'
  <1>1. PICK asked \in Calls : StartEvaluation(r, [Unsent EXCEPT !.scope = asked.scope, !.by = asked.by, !.call = asked])
    BY DEF SubmitPublication
  <1> DEFINE request == [Unsent EXCEPT !.scope = asked.scope, !.by = asked.by, !.call = asked]
  <1>2. DOMAIN request = DOMAIN Unsent /\ request.status = "none"
    BY DEF Unsent
  <1>3. r \in Requests /\ r \notin Changes /\ StartEvaluation(r, request)
    BY <1>1, AuthoringBounds DEF Requests
  <1> HIDE DEF request
  <1> QED BY <1>2, <1>3, StartKeeps

(* A request that changes neither what it asks for nor has been applied.   *)
LEMMA RequestGoesOn ==
  ASSUME AuthoringInv, NEW r \in Requests, NEW x, AsksTheSame(x, requests[r]),
         requests[r].status \notin {"none", "approved", "succeeded", "failed"},
         records' = records, executors' = executors, requests' = [requests EXCEPT ![r] = x]
  PROVE  AuthoringInv'
  <1>1. r \in Changes => RequestOK(r, x)
    BY DEF AuthoringInv, RequestsOK, RequestOK, AsksTheSame
  <1> QED BY <1>1, RequestMoves

LEMMA ReadPolicyKeeps == ASSUME AuthoringInv, NEW r \in Requests, ReadPolicy(r) PROVE AuthoringInv'
  <1> PICK request : request = requests[r]
    OBVIOUS
  <1>1. request.status = "evaluating" /\ records' = records /\ executors' = executors
    BY DEF ReadPolicy, store
  <1>2. PICK x, read, todo, sources :
          /\ requests' = [requests EXCEPT ![r] = x] /\ read = [request EXCEPT !.todo = todo, !.sources = sources]
          /\ x = [request EXCEPT !.status = "refused", !.todo = <<>>, !.sources = {}] \/ x = read \/ x = Commit(r, read)
    BY DEF ReadPolicy
  <1>3. CASE r \in Changes
    <2>1. DOMAIN request = DOMAIN Unsent
      BY <1>3 DEF AuthoringInv, RequestsOK, RequestOK
    <2>2. AsksTheSame([request EXCEPT !.status = "refused", !.todo = <<>>, !.sources = {}], request)
      BY <2>1 DEF AsksTheSame, Unsent
    <2>3. DOMAIN read = DOMAIN Unsent /\ AsksTheSame(read, request)
      BY <1>1, <1>2, <2>1 DEF AsksTheSame, Unsent
    <2>4. AsksTheSame(Commit(r, read), request)
      BY <2>1, <2>3, CommitAsksTheSame DEF AsksTheSame
    <2>5. AsksTheSame(x, request)
      BY <1>2, <2>2, <2>3, <2>4
    <2> QED BY <1>1, <1>2, <2>5, RequestGoesOn
  <1>4. CASE r \notin Changes
    BY <1>1, <1>2, <1>4, RequestMoves
  <1> QED BY <1>3, <1>4

LEMMA DecideKeeps == ASSUME AuthoringInv, NEW c \in Changes, Decide(c) PROVE AuthoringInv'
  <1>1. PICK votes : requests' = [requests EXCEPT ![c].votes = votes,
                                   ![c].status = Standing(requests[c].plan.flow, requests[c].by, votes)]
    BY DEF Decide
  <1> PICK standing : standing = Standing(requests[c].plan.flow, requests[c].by, votes)
    OBVIOUS
  <1>2. standing \notin {"none", "succeeded"}
    BY StandingIsOpen
  <1>3. DOMAIN requests[c] = DOMAIN Unsent /\ c \in DOMAIN requests /\ c \in Requests
    BY DEF AuthoringInv, RequestsOK, RequestOK, Requests
  <1> DEFINE x == [requests[c] EXCEPT !.votes = votes, !.status = standing]
  <1>4. requests' = [requests EXCEPT ![c] = x]
    BY <1>1, <1>3
  <1>5. AsksTheSame(x, requests[c])
    BY <1>2, <1>3 DEF AsksTheSame, Unsent
  <1>6. requests[c].status = "pending_approval" /\ records' = records /\ executors' = executors
    BY DEF Decide, store
  <1> HIDE DEF x
  <1> QED BY <1>3, <1>4, <1>5, <1>6, RequestGoesOn

(***************************************************************************)
(* The executor.                                                           *)
(***************************************************************************)
LEMMA ReadCurrentKeeps == ASSUME AuthoringInv, NEW c \in Changes, ReadCurrent(c) PROVE AuthoringInv'
  <1>1. requests[c].status = "approved" /\ records' = records /\ requests' = requests
    BY DEF ReadCurrent, Step, store
  <1>2. requests[c].scope \in Scopes /\ DOMAIN executors[c] = DOMAIN AtRest
    BY <1>1 DEF AuthoringInv, RequestsOK, RequestOK, ExecutorsOK, ExecutorOK
  <1> PICK current : current = Current(requests[c].scope)
    OBVIOUS
  <1>3. current.source = c => Applied(c)
    BY <1>2, CurrentIsLast DEF Applied
  <1> PICK e : e = executors[c]
    OBVIOUS
  <1>4. PICK next : Step(c, next) /\
          \/ current.source = c /\ next = [e EXCEPT !.pc = "answer", !.answer = "succeeded"]
          \/ next = [e EXCEPT !.pc = "answer", !.answer = "conflict"]
          \/ next = [e EXCEPT !.pc = "both"]
    BY DEF ReadCurrent
  <1>5. ExecutorOK(c, next)
    BY <1>1, <1>2, <1>3, <1>4 DEF ExecutorOK, AtRest
  <1> QED BY <1>1, <1>4, <1>5, ExecutorMoves DEF Step

LEMMA ListCurrentKeeps == ASSUME AuthoringInv, NEW c \in Changes, ListCurrent(c) PROVE AuthoringInv'
  <1>1. records' = records /\ requests' = requests /\ executors[c].pc = "both"
    BY DEF ListCurrent, Step, store
  <1>2. PICK others : executors' = [executors EXCEPT ![c] = [executors[c] EXCEPT !.listed = TRUE, !.others = others]]
    BY DEF ListCurrent, Step
  <1> DEFINE next == [executors[c] EXCEPT !.listed = TRUE, !.others = others]
  <1>3. ExecutorOK(c, next)
    BY <1>1 DEF AuthoringInv, ExecutorsOK, ExecutorOK, AtRest
  <1> HIDE DEF next
  <1>4. executors' = [executors EXCEPT ![c] = next]
    BY <1>2 DEF next
  <1> QED BY <1>1, <1>3, <1>4, ExecutorMoves

LEMMA ReadLatestKeeps == ASSUME AuthoringInv, NEW c \in Changes, ReadLatest(c) PROVE AuthoringInv'
  <1>1. records' = records /\ requests' = requests /\ executors[c].pc = "both"
    BY DEF ReadLatest, Step, store
  <1>2. PICK latest : executors' = [executors EXCEPT ![c] = [executors[c] EXCEPT !.latest = latest]]
    BY DEF ReadLatest, Step
  <1> DEFINE next == [executors[c] EXCEPT !.latest = latest]
  <1>3. ExecutorOK(c, next)
    BY <1>1 DEF AuthoringInv, ExecutorsOK, ExecutorOK, AtRest
  <1>4. executors' = [executors EXCEPT ![c] = next]
    BY <1>2
  <1> HIDE DEF next
  <1> QED BY <1>1, <1>3, <1>4, ExecutorMoves

LEMMA CrashKeeps == ASSUME AuthoringInv, NEW c \in Changes, Crash(c) PROVE AuthoringInv'
  <1>1. records' = records /\ requests' = requests /\ executors' = [executors EXCEPT ![c] = AtRest]
    BY DEF Crash, store
  <1>2. ExecutorOK(c, AtRest)
    BY DEF ExecutorOK, AtRest
  <1> QED BY <1>1, <1>2, ExecutorMoves

LEMMA AnswerKeeps == ASSUME AuthoringInv, NEW c \in Changes, Answer(c) PROVE AuthoringInv'
  <1>1. records' = records /\ executors[c].pc = "answer" /\ executors' = [executors EXCEPT ![c] = AtRest]
    BY DEF Answer, store
  <1> PICK standing : standing = IF executors[c].answer = "succeeded" THEN "succeeded" ELSE "failed"
    OBVIOUS
  <1> DEFINE x == [requests[c] EXCEPT !.status = standing]
  <1>2. c \in DOMAIN requests /\ DOMAIN requests[c] = DOMAIN Unsent /\ requests[c].status = "approved"
    BY <1>1 DEF AuthoringInv, RequestsOK, RequestOK, Requests, ExecutorsOK, ExecutorOK
  <1>3. requests' = [requests EXCEPT ![c] = x]
    BY <1>2 DEF Answer
  <1>4. /\ DOMAIN x = DOMAIN Unsent /\ x.scope = requests[c].scope /\ x.base = requests[c].base
        /\ x.status = standing
    BY <1>2 DEF Unsent
  <1> HIDE DEF x
  <1>5. RequestOK(c, x)
    BY <1>1, <1>2, <1>4 DEF AuthoringInv, RequestsOK, RequestOK, ExecutorsOK, ExecutorOK
  <1>6. \A d \in Changes : requests'[d] = IF d = c THEN x ELSE requests[d]
    BY <1>3 DEF AuthoringInv, RequestsOK, Requests
  <1>7. \A d \in Changes : executors'[d] = IF d = c THEN AtRest ELSE executors[d]
    BY <1>1 DEF AuthoringInv, ExecutorsOK
  <1>8. \A scope : Versions(scope)' = Versions(scope)
    BY <1>1 DEF Versions
  <1>9. RecordsOK'
    BY <1>1, <1>4, <1>6, <1>8 DEF AuthoringInv, RecordsOK
  <1>10. RequestsOK'
    BY <1>1, <1>3, <1>5, <1>6, <1>8 DEF AuthoringInv, RequestsOK, RequestOK, Applied
  <1>11. ExecutorsOK'
    BY ZenonT(60), <1>1, <1>6, <1>7 DEF AuthoringInv, ExecutorsOK, ExecutorOK, Applied, AtRest
  <1> QED BY <1>9, <1>10, <1>11 DEF AuthoringInv

(* The batch adds the next version of the scope, once for a change, or     *)
(* nothing at all.                                                         *)
LEMMA ApplyChangeKeeps == ASSUME AuthoringInv, NEW c \in Changes, ApplyChange(c) PROVE AuthoringInv'
  <1> PICK e : e = executors[c]
    OBVIOUS
  <1>1. /\ requests' = requests /\ e.pc = "both" /\ DOMAIN executors = Changes
        /\ DOMAIN requests[c] = DOMAIN Unsent /\ requests[c].status = "approved"
        /\ requests[c].scope \in Scopes /\ requests[c].base \in Nat
        /\ 1 .. requests[c].base \subseteq Versions(requests[c].scope)
    BY DEF ApplyChange, Step, AuthoringInv, ExecutorsOK, ExecutorOK, RequestsOK, RequestOK
  <1> PICK record : record = [scope |-> requests[c].scope, version |-> requests[c].base + 1,
                              policy |-> requests[c].rules, approval |-> e.latest + 1, source |-> c]
    OBVIOUS
  <1>2. record.scope = requests[c].scope /\ record.version = requests[c].base + 1 /\ record.source = c
    OBVIOUS
  <1>3. \/ /\ records' = records
           /\ \E next : /\ executors' = [executors EXCEPT ![c] = next]
                        /\ next \in {[AtRest EXCEPT !.attempt = e.attempt + 1], AtRest}
        \/ /\ records' = records \cup {record}
           /\ \A rec \in records : rec.source # c /\ ~(rec.scope = record.scope /\ rec.version = record.version)
           /\ executors' = [executors EXCEPT ![c] = [AtRest EXCEPT !.pc = "answer", !.answer = "succeeded"]]
    BY DEF ApplyChange, Step, BatchConflicts, store
  <1>4. CASE records' = records /\ \E next : /\ executors' = [executors EXCEPT ![c] = next]
                                            /\ next \in {[AtRest EXCEPT !.attempt = e.attempt + 1], AtRest}
    <2>1. ExecutorOK(c, [AtRest EXCEPT !.attempt = e.attempt + 1]) /\ ExecutorOK(c, AtRest)
      BY DEF ExecutorOK, AtRest
    <2> QED BY <1>1, <1>4, <2>1, ExecutorMoves
  <1>5. CASE /\ records' = records \cup {record}
             /\ \A rec \in records : rec.source # c /\ ~(rec.scope = record.scope /\ rec.version = record.version)
             /\ executors' = [executors EXCEPT ![c] = [AtRest EXCEPT !.pc = "answer", !.answer = "succeeded"]]
    <2> DEFINE next == [AtRest EXCEPT !.pc = "answer", !.answer = "succeeded"]
    <2>1. DOMAIN next = DOMAIN AtRest /\ next.pc = "answer"
      BY DEF AtRest
    <2>2. \A d \in Changes : executors'[d] = IF d = c THEN next ELSE executors[d]
      BY <1>1, <1>5
    <2> HIDE DEF next
    <2>3. \A scope : Versions(scope)' = IF scope = record.scope THEN Versions(scope) \cup {record.version}
                                       ELSE Versions(scope)
      BY <1>5 DEF Versions
    <2>4. PICK k \in Nat : Versions(record.scope) = 1 .. k
      BY <1>1, <1>2 DEF AuthoringInv, RecordsOK
    <2>5. record.version \notin Versions(record.scope)
      BY <1>5 DEF Versions
    <2>6. record.version = k + 1
      <3>1. requests[c].base <= k
        <4>1. requests[c].base >= 1 => requests[c].base \in 1 .. requests[c].base
          BY <1>1
        <4> QED BY <1>1, <1>2, <2>4, <4>1
      <3>2. ~(requests[c].base + 1 <= k)
        BY <1>1, <1>2, <2>4, <2>5
      <3> QED BY <1>1, <1>2, <3>1, <3>2
    <2>7. 1 .. k \cup {k + 1} = 1 .. (k + 1)
      OBVIOUS
    <2>8. RecordsOK'
      <3>1. \A rec \in records' :
              /\ rec.source \in Changes /\ rec.scope \in Scopes
              /\ rec.scope = requests[rec.source].scope /\ rec.version = requests[rec.source].base + 1
              /\ requests[rec.source].status \in {"approved", "succeeded", "failed"}
        BY <1>1, <1>2, <1>5 DEF AuthoringInv, RecordsOK
      <3>2. \A a, b \in records' : a # b => a.source # b.source /\ (a.scope = b.scope => a.version # b.version)
        BY <1>2, <1>5 DEF AuthoringInv, RecordsOK
      <3>3. \A scope \in Scopes : \E n \in Nat : Versions(scope)' = 1 .. n
        <4> TAKE scope \in Scopes
        <4>1. CASE scope = record.scope
          <5>1. Versions(scope)' = Versions(scope) \cup {record.version}
            BY <2>3, <4>1
          <5>2. Versions(scope) = 1 .. k
            BY <2>4, <4>1
          <5>3. k + 1 \in Nat /\ Versions(scope)' = 1 .. (k + 1)
            BY <2>6, <2>7, <5>1, <5>2
          <5> QED BY <5>3
        <4>2. CASE scope # record.scope
          BY <2>3, <4>2 DEF AuthoringInv, RecordsOK
        <4> QED BY <4>1, <4>2
      <3> QED BY <1>1, <3>1, <3>2, <3>3 DEF RecordsOK
    <2>9. \A d : Applied(d) \/ d = c => Applied(d)'
      BY <1>2, <1>5 DEF Applied
    <2>10. RequestsOK'
      BY <1>1, <2>3, <2>9 DEF AuthoringInv, RequestsOK, RequestOK
    <2>11. ExecutorsOK'
      BY <1>1, <1>5, <2>1, <2>2, <2>9 DEF AuthoringInv, ExecutorsOK, ExecutorOK
    <2> QED BY <2>8, <2>10, <2>11 DEF AuthoringInv
  <1> QED BY <1>3, <1>4, <1>5

LEMMA AuthoringKeeps == ASSUME AuthoringInv, [AuthoringNext]_authoringVars PROVE AuthoringInv'
  <1>1. ASSUME NEW c \in Changes, SubmitChange(c) \/ Decide(c) \/ Execute(c) \/ Crash(c) PROVE AuthoringInv'
    BY <1>1, SubmitChangeKeeps, DecideKeeps, ReadCurrentKeeps, ListCurrentKeeps, ReadLatestKeeps, ApplyChangeKeeps, AnswerKeeps,
       CrashKeeps DEF Execute
  <1>2. ASSUME NEW r \in Publications, SubmitPublication(r) PROVE AuthoringInv'
    BY <1>2, SubmitPublicationKeeps
  <1>3. ASSUME NEW r \in Requests, ReadPolicy(r) PROVE AuthoringInv'
    BY <1>3, ReadPolicyKeeps
  <1>4. CASE UNCHANGED <<records, requests, executors>>
    <2>1. \A scope : Versions(scope)' = Versions(scope)
      BY <1>4 DEF Versions
    <2>2. RecordsOK'
      BY <1>4, <2>1 DEF AuthoringInv, RecordsOK
    <2>3. RequestsOK'
      BY <1>4, <2>1 DEF AuthoringInv, RequestsOK, RequestOK, Applied
    <2>4. ExecutorsOK'
      BY <1>4 DEF AuthoringInv, ExecutorsOK, ExecutorOK, Applied
    <2> QED BY <2>2, <2>3, <2>4 DEF AuthoringInv
  <1>5. ASSUME NEW row \in GovernancePolicies, PublishPolicy(row) PROVE AuthoringInv'
    BY <1>4, <1>5 DEF PublishPolicy, Governs
  <1>6. ASSUME NEW binding \in GovernanceBindings, UpdateBinding(binding) PROVE AuthoringInv'
    BY <1>4, <1>6 DEF UpdateBinding, Governs
  <1>7. CASE Migrate
    BY <1>4, <1>7 DEF Migrate
  <1>8. CASE UNCHANGED authoringVars
    BY <1>4, <1>8 DEF authoringVars, store
  <1> QED BY <1>1, <1>2, <1>3, <1>5, <1>6, <1>7, <1>8 DEF AuthoringNext

(***************************************************************************)
(* Of the changes of a scope's rules that were made against one version at *)
(* most one is applied, once, the versions run without a gap, and a change *)
(* that is answered as applied is: however the executors, their retries    *)
(* after a conflict and their crashes interleave with governance           *)
(* (ApplicationApprovalPolicyExecutor.execute and its batch).              *)
(***************************************************************************)
THEOREM OneWinnerPerVersionHolds == AuthoringSpec => []OneWinnerPerVersion
  <1>1. AuthoringInv => OneWinnerPerVersion
    <2> SUFFICES ASSUME AuthoringInv PROVE OneWinnerPerVersion
      OBVIOUS
    <2>1. \A rec \in records : \A n \in 1 .. rec.version : \E old \in records : old.scope = rec.scope /\ old.version = n
      <3> TAKE rec \in records
      <3>1. PICK k \in Nat : Versions(rec.scope) = 1 .. k
        BY DEF AuthoringInv, RecordsOK
      <3>2. rec.version \in 1 .. k
        BY <3>1 DEF Versions
      <3> QED BY <3>1, <3>2 DEF Versions
    <2>2. \A c \in Changes : requests[c].status = "succeeded" =>
            \E rec \in records : rec.source = c /\ rec.version = requests[c].base + 1
      BY DEF AuthoringInv, RequestsOK, RequestOK, Applied, RecordsOK
    <2> QED BY <2>1, <2>2 DEF OneWinnerPerVersion, AuthoringInv, RecordsOK
  <1> QED BY <1>1, AuthoringInitial, AuthoringKeeps, PTL DEF AuthoringSpec
=============================================================================
