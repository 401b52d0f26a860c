--------------------------- MODULE WorkflowSchedule ---------------------------
(***************************************************************************)
(* One workflow schedule: the routes of apps/approval-api/src/schedule-     *)
(* api.ts, the sweep the every-minute cron runs (sweepWorkflowSchedules,    *)
(* ibid.) and their tables (workflow-d1/src/schedules.ts).  Sweepers        *)
(* overlap: each keeps what it read, and a slot's lease runs out while its  *)
(* holder is slow.  A slot is the minute it is for; every minute is one.    *)
(***************************************************************************)
EXTENDS Integers, FiniteSets

CONSTANTS Registrants, \* calls that register the schedule's key
          Definitions,   \* who owns the schedule, and what it does
          Sweepers,   \* cron invocations at work
          LastSlot,   \* bound on the minutes that pass
          MaxTroubles \* bound on failed calls, dead sweepers, stops by the owner
                      \* and resumptions of a schedule that was not stopped

ASSUME ScheduleBounds == LastSlot \in Nat /\ MaxTroubles \in Nat

VARIABLES
    now,       \* the minute it is
    schedule,  \* workflow_schedules: definition, status and next_slot_at
    calls,     \* registrant -> its call
    slots,     \* workflow_schedule_slots, by slot_at
    stored,    \* the plan kept for a slot's ActionRequest, by slot
    at, work,  \* sweeper -> where its sweep is, and what it holds
    troubles

scheduleVars == <<now, schedule, calls, slots, stored, at, work, troubles>>
Environment == <<now, calls>>

Slots == 1..LastSlot
Settled == {"accepted", "denied", "failed", "skipped"}
NoPlan == <<>>
NoSlot == [status |-> "none", plan |-> NoPlan, locked |-> FALSE]
NothingHeld == [next |-> -1, todo |-> {}, slot |-> 0, plan |-> NoPlan, finish |-> "none"]

(* WorkflowSchedule and WorkflowScheduleSlot: what a sweeper and the owner  *)
(* read is what the row has.                                                *)
Plans == {NoPlan} \cup ({"prepared", "authorization_denied"} \X Sweepers)
Schedules == [status: {"none", "active", "stopped"}, next: {-1} \cup 1..(LastSlot + 1),
              definition: Definitions \cup {"none"}]
SlotRows == [status: {"none", "pending", "running"} \cup Settled, plan: Plans, locked: BOOLEAN]
CallSteps == {"new", "create", "created", "same", "conflict", "refused"}

ScheduleInit ==
    /\ now = 0
    /\ schedule = [status |-> "none", next |-> -1, definition |-> "none"]
    /\ \E asked \in [Registrants -> Definitions], come \in SUBSET Registrants :
          calls = [r \in Registrants |-> [step |-> IF r \in come THEN "new" ELSE "refused",
                                          next |-> -1, definition |-> asked[r]]]
    /\ slots = [t \in Slots |-> NoSlot] /\ stored = [t \in Slots |-> NoPlan]
    /\ at = [w \in Sweepers |-> "idle"] /\ work = [w \in Sweepers |-> NothingHeld]
    /\ troubles = 0

-----------------------------------------------------------------------------
Trouble == troubles < MaxTroubles /\ troubles' = troubles + 1

(* The owner's routes.  POST finds who has the key; sameDefinition decides  *)
(* what it answers.                                                         *)
AnswerTo(r) == IF schedule.definition = calls[r].definition THEN "same" ELSE "conflict"

(* nextScheduleSlot, findByKey and the preparation, which may be denied.    *)
BeginRegistration(r) ==
    /\ calls[r].step = "new"
    /\ \/ /\ schedule.status # "none"
          /\ calls' = [calls EXCEPT ![r].step = AnswerTo(r)]
       \/ /\ schedule.status = "none"
          /\ \E step \in {"create", "refused"} :
                calls' = [calls EXCEPT ![r].step = step, ![r].next = now + 1]
    /\ UNCHANGED <<now, schedule, slots, stored, at, work, troubles>>

(* INSERT OR IGNORE; who comes second reads the row that is there.          *)
KeyIsFree == schedule.status = "none"

Register(r) ==
    /\ calls[r].step = "create"
    /\ IF KeyIsFree
       THEN /\ schedule' = [status |-> "active", next |-> calls[r].next,
                            definition |-> calls[r].definition]
            /\ calls' = [calls EXCEPT ![r].step = "created"]
       ELSE /\ calls' = [calls EXCEPT ![r].step = AnswerTo(r)]
            /\ UNCHANGED schedule
    /\ UNCHANGED <<now, slots, stored, at, work, troubles>>

(* setStatus stopped: the slots still pending are skipped in the same batch. *)
Stop ==
    /\ schedule.status # "none"
    /\ Trouble
    /\ schedule' = [schedule EXCEPT !.status = "stopped", !.next = -1]
    /\ slots' = [t \in Slots |-> IF slots[t].status = "pending"
                                 THEN [slots[t] EXCEPT !.status = "skipped"] ELSE slots[t]]
    /\ UNCHANGED <<Environment, stored, at, work>>

(* nextScheduleSlot(now): the first minute after the one it is when the     *)
(* call comes; authentication, the find and setStatus follow, however late, *)
(* and setStatus asks nothing of the row.                                   *)
ResumeSchedule ==
    /\ schedule.status # "none"
    /\ \E read \in 0..now :
          schedule' = [schedule EXCEPT !.status = "active", !.next = read + 1]
    /\ Trouble \/ (schedule.status = "stopped" /\ UNCHANGED troubles)
    /\ UNCHANGED <<Environment, slots, stored, at, work>>

-----------------------------------------------------------------------------
(* sweepWorkflowSchedules.                                                  *)
Go(w, where, what) == at' = [at EXCEPT ![w] = where] /\ work' = [work EXCEPT ![w] = what]

(* due: the schedule as it is now, and the cursor it has.                   *)
BeginSweep(w) ==
    /\ at[w] = "idle"
    /\ IF schedule.status = "active" /\ schedule.next <= now
       THEN Go(w, "enqueue", [NothingHeld EXCEPT !.next = schedule.next])
       ELSE Go(w, "select", NothingHeld)
    /\ UNCHANGED <<Environment, schedule, slots, stored, troubles>>

CursorIs(next) == schedule.status = "active" /\ schedule.next = next

(* enqueueSlot: the cursor moves on and its slot is made, in one batch.     *)
Enqueue(w) ==
    /\ at[w] = "enqueue"
    /\ LET next == work[w].next
       IN  IF CursorIs(next)
           THEN /\ schedule' = [schedule EXCEPT !.next = next + 1]
                /\ slots' = IF slots[next].status # "none" THEN slots
                            ELSE [slots EXCEPT ![next].status = "pending"]
           ELSE UNCHANGED <<schedule, slots>>
    /\ Go(w, "select", NothingHeld)
    /\ UNCHANGED <<Environment, stored, troubles>>

OnlyPending(slot) == slot.status = "pending"                              \* mutant
MayClaim(slot) == slot.status = "pending" \/ (slot.status = "running" /\ ~slot.locked)

(* The earliest slot of those still to take up, with the plan it had when   *)
(* it was selected.                                                         *)
TakeUp(w, open) ==
    \/ open = {} /\ Go(w, "idle", NothingHeld)
    \/ \E slot \in open :
          /\ \A other \in open : slot[1] <= other[1]
          /\ Go(w, "claim", [next |-> -1, todo |-> open \ {slot}, slot |-> slot[1], plan |-> slot[2],
                             finish |-> "none"])

(* pending: the slots to take up, and the plan each has by now.             *)
Select(w) ==
    /\ at[w] = "select"
    /\ LET open == {t \in Slots : schedule.status = "active" /\ MayClaim(slots[t])}
       IN  TakeUp(w, {<<t, slots[t].plan>> : t \in open})
    /\ UNCHANGED <<Environment, schedule, slots, stored, troubles>>

Slot(w) == work[w].slot
NextSlot(w) == TakeUp(w, work[w].todo)

(* A call that fails, before or after it wrote: the sweep goes on to the    *)
(* next slot and leaves this one as it is.                                  *)
PassesOver(w, written) == Trouble /\ slots' \in {slots, written} /\ NextSlot(w)

Claim(w) ==
    /\ at[w] = "claim"
    /\ LET claimed == [slots EXCEPT ![Slot(w)].status = "running", ![Slot(w)].locked = TRUE]
       IN  \/ /\ MayClaim(slots[Slot(w)])
              /\ \/ slots' = claimed /\ Go(w, "load", work[w]) /\ UNCHANGED troubles
                 \/ PassesOver(w, claimed)
           \/ ~MayClaim(slots[Slot(w)]) /\ NextSlot(w) /\ UNCHANGED <<slots, troubles>>
    /\ UNCHANGED <<Environment, schedule, stored>>

FinishWith(w, status) == Go(w, "finish", [work[w] EXCEPT !.finish = status])

(* service.prepare: a plan, or its denial; or an error.                     *)
Prepare(w) ==
    \/ /\ \E type \in {"prepared", "authorization_denied"} :
            Go(w, "save", [work[w] EXCEPT !.plan = <<type, w>>])
       /\ UNCHANGED troubles
    \/ Trouble /\ \E status \in {"pending", "failed"} : FinishWith(w, status)

(* The runs of requests that were accepted begin and end by themselves, so  *)
(* any of them may be running or waiting, or none.                          *)
MayBeActive(t) == \E u \in Slots : u < t /\ stored[u] # NoPlan

(* The schedule again, then the client's grant (external), the runs of      *)
(* earlier slots and the plan; none of it for a slot that had its plan when *)
(* it was selected.  A find that fails ends the slot like a stopped         *)
(* schedule; another failure before the plan is there leaves it running.    *)
Load(w) ==
    /\ at[w] = "load"
    /\ \/ schedule.status # "active" /\ FinishWith(w, "failed") /\ UNCHANGED troubles
       \/ Trouble /\ FinishWith(w, "failed")
       \/ /\ schedule.status = "active" /\ work[w].plan # NoPlan
          /\ Go(w, "commit", work[w]) /\ UNCHANGED troubles
       \/ /\ schedule.status = "active" /\ work[w].plan = NoPlan
          /\ \/ FinishWith(w, "denied") /\ UNCHANGED troubles
             \/ MayBeActive(Slot(w)) /\ FinishWith(w, "skipped") /\ UNCHANGED troubles
             \/ Prepare(w)
             \/ Trouble /\ NextSlot(w)
    /\ UNCHANGED <<Environment, schedule, slots, stored>>

AnyPlan(slot) == slot.status = "running"                                  \* mutant
WithoutPlan(slot) == slot.status = "running" /\ slot.plan = NoPlan

(* savePreparation: the first plan stays; who comes second goes on to the   *)
(* next slot and leaves this one to its lease.                              *)
SavePreparation(w) ==
    /\ at[w] = "save"
    /\ LET saved == [slots EXCEPT ![Slot(w)].plan = work[w].plan]
       IN  \/ /\ WithoutPlan(slots[Slot(w)])
              /\ \/ slots' = saved /\ Go(w, "commit", work[w]) /\ UNCHANGED troubles
                 \/ PassesOver(w, saved)
           \/ ~WithoutPlan(slots[Slot(w)]) /\ NextSlot(w) /\ UNCHANGED <<slots, troubles>>
    /\ UNCHANGED <<Environment, schedule, stored>>

(* service.commit with resume: the plan is stored once, and a call may fail  *)
(* before or after it is.                                                   *)
Commit(w) ==
    /\ at[w] = "commit"
    /\ LET kept == IF work[w].plan[1] = "authorization_denied" \/ stored[Slot(w)] # NoPlan
                   THEN stored ELSE [stored EXCEPT ![Slot(w)] = work[w].plan]
       IN  \/ /\ stored' = kept
              /\ FinishWith(w, IF work[w].plan[1] = "prepared" THEN "accepted" ELSE "denied")
              /\ UNCHANGED troubles
           \/ Trouble /\ stored' \in {stored, kept} /\ FinishWith(w, "pending")
           \/ Trouble /\ stored' = stored /\ FinishWith(w, "failed")
    /\ UNCHANGED <<Environment, schedule, slots>>

AnyOpen(slot) == slot.status # "none"                                     \* mutant
StillRunning(slot) == slot.status = "running"

FinishSlot(w) ==
    /\ at[w] = "finish"
    /\ LET finished == IF StillRunning(slots[Slot(w)])
                       THEN [slots EXCEPT ![Slot(w)].status = work[w].finish, ![Slot(w)].locked = FALSE]
                       ELSE slots
       IN  \/ slots' = finished /\ NextSlot(w) /\ UNCHANGED troubles
           \/ PassesOver(w, finished)
    /\ UNCHANGED <<Environment, schedule, stored>>

SweeperDies(w) ==
    /\ at[w] # "idle" /\ Trouble /\ Go(w, "idle", NothingHeld)
    /\ UNCHANGED <<Environment, schedule, slots, stored>>

-----------------------------------------------------------------------------
(* External: time passes, and leases run out.                               *)
Minute ==
    /\ now < LastSlot /\ now' = now + 1
    /\ UNCHANGED <<schedule, calls, slots, stored, at, work, troubles>>

LeaseExpires ==
    /\ \E t \in Slots : slots[t].locked /\ slots' = [slots EXCEPT ![t].locked = FALSE]
    /\ UNCHANGED <<Environment, schedule, stored, at, work, troubles>>

Sweeping(w) ==
    \/ Enqueue(w) \/ Select(w) \/ Claim(w) \/ Load(w)
    \/ SavePreparation(w) \/ Commit(w) \/ FinishSlot(w)

ScheduleNext ==
    \/ \E r \in Registrants : BeginRegistration(r) \/ Register(r)
    \/ Stop \/ ResumeSchedule
    \/ \E w \in Sweepers : BeginSweep(w) \/ Sweeping(w) \/ SweeperDies(w)
    \/ Minute \/ LeaseExpires

(* A sweep that has begun goes on, the cron begins one every minute, and a  *)
(* lease runs out.                                                          *)
Moves(w) == \E where \in {"idle", "enqueue", "select", "claim", "load",
                          "save", "commit", "finish"} \ {at[w]} : at' = [at EXCEPT ![w] = where]

ScheduleSpec == ScheduleInit /\ [][ScheduleNext]_scheduleVars
FairSpec == ScheduleSpec /\ (\A w \in Sweepers : WF_at(Moves(w))) /\ WF_scheduleVars(LeaseExpires)

-----------------------------------------------------------------------------
TypeOK ==
    /\ now \in 0..LastSlot /\ troubles \in 0..MaxTroubles
    /\ schedule \in Schedules /\ slots \in [Slots -> SlotRows] /\ stored \in [Slots -> Plans]
    /\ \A r \in Registrants : calls[r].step \in CallSteps

(* One call makes the schedule; whoever is told it is theirs, registered    *)
(* what the row has.                                                        *)
RegistrationsAgree ==
    /\ \A r, q \in Registrants : calls[r].step = "created" /\ calls[q].step = "created" => r = q
    /\ \A r \in Registrants :
          calls[r].step \in {"created", "same"} => schedule.definition = calls[r].definition

(* workflow-schedules.md: recovery resumes with the same plan.  Whoever     *)
(* commits a slot, however late, commits the plan its row has, and the      *)
(* request of an accepted slot has that plan.                               *)
OnePlanPerSlot ==
    /\ \A w \in Sweepers : at[w] = "commit" => slots[Slot(w)].plan = work[w].plan
    /\ \A t \in Slots : /\ stored[t] # NoPlan => stored[t] = slots[t].plan
                        /\ slots[t].status = "accepted" => stored[t] # NoPlan

SchedulesAreSound == TypeOK /\ RegistrationsAgree /\ OnePlanPerSlot

(* A slot's end is final; a slot is made only by the cursor that passes it, *)
(* the cursor passes none it does not make, and only a resumption, whose    *)
(* call may have read an earlier minute, sets it elsewhere.                 *)
SlotsAreFinal ==
    [][/\ \A t \in Slots : slots[t].status \in Settled => slots'[t].status = slots[t].status
       /\ \A t \in Slots : slots[t].status = "none" /\ slots'[t].status # "none" =>
             schedule.status = "active" /\ schedule.next = t /\ schedule'.next = t + 1
       /\ schedule.status = "active" /\ schedule'.status = "active" =>
             \/ schedule'.next = schedule.next \/ ResumeSchedule
             \/ schedule'.next = schedule.next + 1 /\ slots'[schedule.next].status # "none"]_scheduleVars

(* A slot that is due is settled in the end, whichever sweepers die, unless *)
(* its schedule is stopped.                                                 *)
EverySlotIsSettled ==
    \A t \in Slots : [](slots[t].status \in {"pending", "running"} =>
                          <>(slots[t].status \in Settled \/ schedule.status = "stopped"))
=============================================================================
