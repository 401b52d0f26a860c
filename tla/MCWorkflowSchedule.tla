-------------------------- MODULE MCWorkflowSchedule --------------------------
(* Registrations race in one part of the behaviours, and sweepers in the    *)
(* other: the sweeps see nothing of a registration but the row it made.     *)
EXTENDS WorkflowSchedule

First == CHOOSE r \in Registrants : TRUE
OneCall == \A r \in Registrants \ {First} : calls[r].step = "refused" /\ calls[r].next = -1

MCInit ==
    /\ ScheduleInit
    /\ calls[First].step = "new" /\ calls[First].definition = CHOOSE d \in Definitions : TRUE
    /\ OneCall => \A r \in Registrants : calls[r].definition = calls[First].definition

SweepsFollow == OneCall /\ ScheduleNext
CallsRace == ~OneCall /\ ((ScheduleNext /\ UNCHANGED at) \/ UNCHANGED scheduleVars)
MCNext == SweepsFollow \/ CallsRace
MCSpec ==
    /\ MCInit /\ [][MCNext]_scheduleVars
    /\ (\A w \in Sweepers : WF_at(Moves(w))) /\ WF_scheduleVars(LeaseExpires)
=============================================================================
