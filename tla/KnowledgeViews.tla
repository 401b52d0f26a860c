---------------------------- MODULE KnowledgeViews ----------------------------
(***************************************************************************)
(* What Knowledge tells people about a publication and its run: the panel  *)
(* of a page view, Home's attention list and the Automation screen, each   *)
(* put together from the page's database and the runs as they are stored   *)
(* (apps/knowledge/src/server/service.ts).  The rows carry no times here:  *)
(* what is said of the panel holds of every snapshot it could be about.    *)
(***************************************************************************)
EXTENDS KnowledgePublication

Snapshots == 1..Len(snapshots)
Runs == {r \in 1..Len(runs) : runs[r] # NoRun}
FailedEffects(s) == {e \in Effects : effects[s][e].status = "failed"}

(***************************************************************************)
(* publicationPanel.                                                       *)
(***************************************************************************)
\* findRequest and findRunByActionRequest.
Requested(s) == {r \in attached : runs[r].snap = s}
RunStatus(s) ==
    IF Requested(s) = {} THEN "none" ELSE runs[CHOOSE r \in Requested(s) : TRUE].status

PanelState(s) ==
    CASE outcomes[s] = "conflict" -> "conflict"
      [] outcomes[s] = "published" ->
            IF FailedEffects(s) = {} THEN "published" ELSE "published_effect_failed"
      [] outcomes[s] = "none" /\ RunStatus(s) = "waiting" -> "waiting_approval"
      [] outcomes[s] = "none" /\ RunStatus(s) \in {"rejected", "cancelled"} -> RunStatus(s)
      [] outcomes[s] = "none" /\ RunStatus(s) = "running" -> "analyzing"
      [] OTHER -> "failed_before_publish"

CanCancel(p, s) ==
    PanelState(s) = "waiting_approval" /\ (snapshots[s].by = p \/ roles[p] = "owner")

RetryableEffects(p, s) ==
    IF outcomes[s] = "published" /\ MayPublish(p) THEN FailedEffects(s) ELSE {}

(***************************************************************************)
(* Home's attention: what waits for a person or can be repaired by them.   *)
(***************************************************************************)
ReadsPage(p) == Active /\ roles[p] # "none"
PendingTask(r) == tasks[r].status = "pending"

WaitsForApproval(p) ==
    {r \in Runs : /\ ReadsPage(p) /\ runs[r].kind = "publish" /\ runs[r].by = p
                  /\ runs[r].status = "waiting" /\ PendingTask(r)}

\* failedForPages: of the publication the page shows, where the reader may publish.
RepairableEffects(p) ==
    {x \in Snapshots \X Effects :
        page.published = x[1] /\ MayPublish(p) /\ x[2] \in FailedEffects(x[1])}

(***************************************************************************)
(* Automation: the runs whose resources a person may see.                  *)
(***************************************************************************)
\* Every role here reads drafts.
SeesRun(p, r) == roles[p] # "none"

Recovered(r) ==
    /\ runs[r].status = "failed" /\ runs[r].snap # 0
    /\ outcomes[runs[r].snap] = "published"
    /\ \A e \in Effects : effects[runs[r].snap][e].status = "succeeded"

Category(p, r) ==
    CASE runs[r].status = "failed" /\ ~Recovered(r) -> "needs_attention"
      [] runs[r].status = "input" /\ p = PageOwner -> "needs_attention"
      [] runs[r].status = "waiting" \/ (runs[r].status = "input" /\ p # PageOwner) -> "waiting"
      [] runs[r].status = "running" -> "running"
      [] OTHER -> "completed"

OffersRetry(p, r) == IF SeesRun(p, r) /\ runs[r].snap # 0 THEN RetryableEffects(p, runs[r].snap) ELSE {}

(***************************************************************************)
(* Properties.                                                             *)
(***************************************************************************)
Underway(r) == \E c \in Calls : "run" \in DOMAIN proc[c] /\ proc[c].run = r
Starting(s) ==
    \E c \in Calls : proc[c].at = "request" /\ proc[c].kind = "publish" /\ proc[c].snap = s

\* While no call about it is under way and none died, no publication is said to be running,
\* and one that is said to be cancelled, rejected or never to have started is over: nobody is
\* still asked to approve it.
SaidToBeOver == {"cancelled", "rejected", "failed_before_publish"}

PanelIsTrue ==
    troubles = 0 =>
        \A s \in Snapshots :
            ~Starting(s) /\ (\A r \in 1..Len(requests) : ~Underway(r)) =>
                /\ PanelState(s) # "analyzing"
                /\ PanelState(s) \in SaidToBeOver =>
                      \A r \in Runs : runs[r].kind = "publish" /\ runs[r].snap = s => ~PendingTask(r)

\* What a view offers its reader is accepted when it is asked for: a cancellation, and the
\* retry of an effect by whoever may publish; a run in the list of completed ones has no effect
\* that failed and was not repaired; and who is told to wait for an approval is not who could
\* give it.
OffersWork ==
    /\ \A s \in Snapshots, p \in People :
        /\ CanCancel(p, s) => \E r \in Requested(s) : MayCancel(p, r)
        /\ \A e \in RetryableEffects(p, s) \cup {x[2] : x \in {y \in RepairableEffects(p) : y[1] = s}} :
            SnapshotForAuthor(p, s) /\ outcomes[s] = "published" /\ effects[s][e].status = "failed"
    /\ \A r \in Runs, p \in People :
        Category(p, r) = "completed" /\ runs[r].kind = "publish" /\ runs[r].status # "cancelled" /\ troubles = 0
            => OffersRetry(p, r) = {}
    /\ \A p \in People : \A r \in WaitsForApproval(p) : p \notin tasks[r].candidates
=============================================================================
