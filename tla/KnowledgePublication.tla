------------------------ MODULE KnowledgePublication ------------------------
(***************************************************************************)
(* Publishing, archiving and the retry of effects: Knowledge's service     *)
(* (apps/knowledge/src/server/service.ts) calls the platform stand-in that *)
(* is built beside it (src/ultra-easy/mock/platform.ts), which checks the  *)
(* caller, asks for the approval its policy wants and calls the MCP tools  *)
(* back (src/mcp/tools.ts).  A call is the work of one HTTP request.  It   *)
(* keeps the run it read in memory (`copy`) and stores all of it at the    *)
(* end (saveRun), so two calls about one run work on copies of their own.  *)
(* A run's children are its child ActionRequests; a task is the approval   *)
(* task of the one child of a run that may need it.                        *)
(***************************************************************************)
EXTENDS KnowledgeStore

CONSTANTS SpaceOwners,
          AuthorCalls,    \* calls of authors and owners about their page
          ApproverCalls,  \* calls of approvers about a task
          MaxSnapshots, MaxRuns, MaxDrafts,
          MaxTroubles   \* how many calls fail or end early and roles are lost

VARIABLES roles,      \* "owner", "editor" or "none" of each person
          requests,   \* the idempotency key of each ActionRequest
          runs,       \* the stored run of each request; NoRun before its row is inserted
          tasks,      \* [status, by] of each run's approval task
          attached,   \* the run of each snapshot that publication_requests knows
          proc,       \* what each call does next
          troubles

platformVars == <<roles, requests, runs, tasks, attached, proc, troubles>>
knowledgeVars == <<storeVars, platformVars>>

Calls == AuthorCalls \cup ApproverCalls
Children == {"publish", "archive", "reindex", "notify", "mark"}
NoRun == [status |-> "none"]
NoTask == [status |-> "none", by |-> "nobody"]
NoCall == [at |-> "idle"]

\* The children of a run in order (PUBLISH_NODES, SINGLE_CHILD_ACTION); the one of a
\* maintenance run is what was decided about the page.
Plan(run) ==
    CASE run.kind = "publish" -> <<"publish", "reindex", "notify">>
      [] run.kind = "maintain" -> <<run.decision>>
      [] OTHER -> <<run.kind>>

PublicationInit ==
    /\ StoreInit
    /\ roles = [p \in People |-> IF p \in SpaceOwners THEN "owner" ELSE "editor"]
    /\ requests = <<>> /\ runs = <<>> /\ tasks = <<>>
    /\ attached = {}
    /\ proc = [c \in Calls |-> NoCall]
    /\ troubles = 0

Go(c, step) == proc' = [proc EXCEPT ![c].at = step]
Ends(c) == proc' = [proc EXCEPT ![c] = NoCall]
Holds(c, step, copy) == proc' = [proc EXCEPT ![c] = [at |-> step, run |-> @.run, copy |-> copy]]

(***************************************************************************)
(* The platform's decisions.                                               *)
(***************************************************************************)
Authorized(who, kind) ==
    IF kind \in {"archive", "mark", "maintain"} THEN roles[who] = "owner" ELSE roles[who] \in {"owner", "editor"}

\* A maintenance run acts as the agent, on the authority of who started it.
Actor(run) == IF run.kind = "maintain" THEN "agent" ELSE run.by

\* matchRule over DEFAULT_KNOWLEDGE_POLICY.
NeedsApproval(run, child) ==
    \/ (child = "publish" /\ snapshots[run.snap].wide)
    \/ (child = "archive" /\ Actor(run) # PageOwner)

AnyCandidate(run, child) ==  \* mutant: the actor may approve
    IF child = "archive" THEN {PageOwner} ELSE {p \in People : roles[p] = "owner"}

Candidates(run, child) ==
    (IF child = "archive" THEN {PageOwner} ELSE {p \in People : roles[p] = "owner"}) \ {Actor(run)}

\* advancePublish, advanceSingle: the first child decides alone whether the run goes on.
EndsAfterFirst(run) ==  \* mutant: the effects are forgotten
    LET first == Plan(run)[1] IN IF run.children[first] = "none" THEN first ELSE "none"

NextChild(run) ==
    LET plan == Plan(run)
        open == {i \in 1..Len(plan) : run.children[plan[i]] = "none"}
    IN  IF run.children[plan[1]] \notin {"none", "succeeded"} \/ open = {} THEN "none"
        ELSE plan[CHOOSE i \in open : \A j \in open : i <= j]

\* A page whose archive was rejected or cancelled is done for its maintenance run.
StatusOf(run) ==
    LET plan == Plan(run)
        first == run.children[plan[1]]
        failed == \E i \in 1..Len(plan) : run.children[plan[i]] = "failed"
    IN  IF first = "waiting" THEN "waiting"
        ELSE IF run.kind = "maintain" /\ first # "failed" THEN "succeeded"
        ELSE IF first \in {"rejected", "cancelled"} THEN first
        ELSE IF failed THEN "failed" ELSE "succeeded"

\* advance: on to the next child, or to saveRun.
Advance(c, run) ==
    LET next == NextChild(run) IN
    IF next # "none" THEN Holds(c, "child", run)
    ELSE Holds(c, "save", [run EXCEPT !.status = StatusOf(run)])

FinishChild(c, child, result, run) == Advance(c, [run EXCEPT !.children[child] = result])
Ran(c, result) == FinishChild(c, proc[c].child, result, proc[c].copy)

\* The child a call is executing.
Current(c) == proc[c].child
Snap(c) == proc[c].copy.snap

\* pageAccess: who may edit and publish an active page, and what a retry looks up first.
MayPublish(p) == Active /\ roles[p] # "none"
SnapshotForAuthor(p, s) == s \in 1..Len(snapshots) /\ roles[p] # "none"

(***************************************************************************)
(* The service's calls.                                                    *)
(***************************************************************************)
EditDraft(p) ==
    /\ MayPublish(p) /\ draft.version < MaxDrafts
    /\ snapshots # <<>>  \* until then an edit is another first draft
    /\ \E t \in Texts \ {draft.text}, wide \in BOOLEAN : SaveDraft(draft.version, t, wide)
    /\ UNCHANGED <<page, revisions, snapshots, outcomes, effects, found, delivered,
                   platformVars>>

\* publish: loadPage, findDraft and latest; a draft saved since the browser showed it ends it.
PreparePublication(c) ==
    /\ proc[c].at = "idle" /\ Len(snapshots) < MaxSnapshots
    /\ \E p \in People :
        /\ MayPublish(p)
        /\ LET latest == Len(revisions)
               reuse == latest > 0 /\ revisions[latest] = draft.text
           IN  proc' = [proc EXCEPT ![c] =
                  [at |-> "insert", reuse |-> reuse, text |-> draft.text,
                   snapshot |-> [revision |-> IF reuse THEN latest ELSE latest + 1,
                                 expected |-> page.version, by |-> p, wide |-> draft.wide]]]
    /\ UNCHANGED <<storeVars, roles, requests, runs, tasks, attached, troubles>>

\* Calls startAction with a key of its own, for snapshot s.
Starts(c, kind, who, s, key) ==
    proc' = [proc EXCEPT ![c] = [at |-> "request", kind |-> kind, who |-> who, snap |-> s,
                                 key |-> key]]

WritePublication(c) ==
    /\ proc[c].at = "insert" /\ Len(snapshots) < MaxSnapshots
    /\ LET p == proc[c] IN
        IF p.reuse \/ NumberIsFree(p.snapshot.revision)
        THEN /\ InsertPublication(p.text, p.snapshot.revision, p.snapshot)
             /\ Starts(c, "publish", p.snapshot.by, Len(snapshots) + 1, <<"publish", Len(snapshots) + 1, "", 0>>)
        ELSE /\ Ends(c)
             /\ UNCHANGED <<revisions, snapshots, outcomes, effects>>
    /\ UNCHANGED <<page, draft, found, delivered,
                   roles, requests, runs, tasks, attached, troubles>>

AskArchive(c) ==
    /\ proc[c].at = "idle" /\ Active
    /\ \E p \in People :
        /\ roles[p] = "owner"
        /\ Starts(c, "archive", p, 0, <<"archive", page.version, p, 0>>)
    /\ UNCHANGED <<storeVars, roles, requests, runs, tasks, attached, troubles>>

\* retryEffect: a new request for an effect that failed, keyed by its attempts.
RetryEffect(c) ==
    /\ proc[c].at = "idle"
    /\ \E p \in People, s \in 1..Len(snapshots), e \in Effects :
        /\ SnapshotForAuthor(p, s) /\ outcomes[s] = "published" /\ effects[s][e].status = "failed"
        /\ Starts(c, e, p, s, <<"retry", s, e, effects[s][e].attempts>>)
    /\ UNCHANGED <<storeVars, roles, requests, runs, tasks, attached, troubles>>

\* startSpaceMaintenance, by hand or by the weekly trigger, unless one is open.
Open(r) == runs[r] # NoRun /\ runs[r].kind = "maintain" /\ runs[r].status \in {"running", "waiting", "input"}

RunMaintenance(c) ==
    /\ proc[c].at = "idle" /\ Len(requests) < MaxRuns
    /\ ~\E r \in 1..Len(runs) : Open(r)
    /\ \E p \in People :
        roles[p] = "owner" /\ Starts(c, "maintain", p, 0, <<"maintain", Len(requests), p, 0>>)
    /\ UNCHANGED <<storeVars, roles, requests, runs, tasks, attached, troubles>>

RestorePage(p) ==
    /\ ~Active /\ roles[p] = "owner"
    /\ Restore
    /\ UNCHANGED <<draft, revisions, snapshots, outcomes, effects, delivered,
                   platformVars>>


(***************************************************************************)
(* startAction.  The request and the run are two writes, and the run is    *)
(* stored without its children until the call saves it.                    *)
(***************************************************************************)
KeyOf(c) == proc[c].key
Existing(key) == {r \in 1..Len(requests) : requests[r] = key}

FindOrInsert(c) ==
    /\ proc[c].at = "request" /\ Len(requests) < MaxRuns
    /\ IF Existing(KeyOf(c)) # {} \/ ~Authorized(proc[c].who, proc[c].kind)
       THEN /\ Ends(c)
            /\ UNCHANGED <<requests, runs, tasks>>
       ELSE /\ requests' = Append(requests, KeyOf(c))
            /\ runs' = Append(runs, NoRun)
            /\ tasks' = Append(tasks, NoTask)
            /\ proc' = [proc EXCEPT ![c] = [at |-> "run", run |-> Len(requests) + 1,
                            copy |-> [kind |-> @.kind, by |-> @.who, snap |-> @.snap,
                                      status |-> "running", decision |-> "none",
                                      children |-> [k \in Children |-> "none"]]]]
    /\ UNCHANGED <<storeVars, roles, attached, troubles>>

InsertRun(c) ==
    /\ proc[c].at = "run"
    /\ runs' = [runs EXCEPT ![proc[c].run] = proc[c].copy]
    /\ IF proc[c].copy.kind = "maintain" THEN Go(c, "analyze") ELSE Advance(c, proc[c].copy)
    /\ UNCHANGED <<storeVars, roles, requests, tasks, attached, troubles>>

\* advanceMaintenance: is the published page stale, and what the analysis says of it.
Analyze(c) ==
    /\ proc[c].at = "analyze"
    /\ LET run == proc[c].copy IN
        \/ Holds(c, "save", [run EXCEPT !.status = "succeeded"])
        \/ Active /\ page.published # 0 /\
            \/ Holds(c, "save", [run EXCEPT !.status = "input"])
            \/ \E d \in {"archive", "mark"} : Advance(c, [run EXCEPT !.decision = d])
    /\ UNCHANGED <<storeVars, roles, requests, runs, tasks, attached, troubles>>

\* submitHumanInput: the owner's answer, on the run as it is stored now.
Answer(c) ==
    /\ proc[c].at = "idle"
    /\ \E r \in 1..Len(runs), d \in {"archive", "mark"} :
        /\ runs[r].status = "input"
        /\ proc' = [proc EXCEPT ![c] = [at |-> "child", run |-> r,
                                        copy |-> [runs[r] EXCEPT !.decision = d]]]
    /\ UNCHANGED <<storeVars, roles, requests, runs, tasks, attached, troubles>>

\* startChild: authorization, policy, then the approval task or the execution.
StartChild(c) ==
    /\ proc[c].at = "child"
    /\ LET run == proc[c].copy
           child == NextChild(run)
       IN  IF ~Authorized(run.by, child) THEN FinishChild(c, child, "failed", run) /\ UNCHANGED tasks
           ELSE IF ~NeedsApproval(run, child)
           THEN /\ proc' = [proc EXCEPT ![c] = [at |-> "execute", run |-> @.run, copy |-> run,
                                                child |-> child]]
                /\ UNCHANGED tasks
           ELSE IF Candidates(run, child) = {} THEN FinishChild(c, child, "failed", run) /\ UNCHANGED tasks
           ELSE /\ tasks' = [tasks EXCEPT ![proc[c].run] =
                                [status |-> "pending", by |-> "nobody", child |-> child,
                                 candidates |-> Candidates(run, child)]]
                /\ FinishChild(c, child, "waiting", run)
    /\ UNCHANGED <<storeVars, roles, requests, runs, attached, troubles>>

(***************************************************************************)
(* executeChild: one MCP tool, statement by statement.                     *)
(***************************************************************************)
Executes(c, child) == proc[c].at = "execute" /\ Current(c) = child

\* commitPublish up to its decision.
FindPublication(c) ==
    /\ Executes(c, "publish")
    /\ LET s == Snap(c) IN
        IF outcomes[s] # "none"
        THEN Ran(c, IF outcomes[s] = "published" THEN "succeeded" ELSE "failed")
        ELSE Go(c, IF DecidePublishCommit(s) = "conflict" THEN "conflict" ELSE "commit")
    /\ UNCHANGED <<storeVars, roles, requests, runs, tasks, attached, troubles>>

Commit(c) ==
    /\ proc[c].at = "commit"
    /\ CommitBatch(Snap(c))
    /\ Go(c, "reread")
    /\ UNCHANGED <<draft, revisions, snapshots, found, delivered,
                   roles, requests, runs, tasks, attached, troubles>>

Reread(c) ==
    /\ proc[c].at = "reread"
    /\ IF page.published = Snap(c) THEN Ran(c, "succeeded") ELSE Go(c, "conflict")
    /\ UNCHANGED <<storeVars, roles, requests, runs, tasks, attached, troubles>>

\* recordConflict answers with the outcome that is stored.
Conflict(c) ==
    /\ proc[c].at = "conflict"
    /\ RecordConflict(Snap(c))
    /\ Ran(c, IF outcomes'[Snap(c)] = "published" THEN "succeeded" ELSE "failed")
    /\ UNCHANGED <<page, draft, revisions, snapshots, effects, found, delivered,
                   roles, requests, runs, tasks, attached, troubles>>

ArchiveTool(c) ==
    /\ Executes(c, "archive")
    /\ Archive
    /\ Ran(c, "succeeded")
    /\ UNCHANGED <<draft, revisions, snapshots, outcomes, effects, delivered,
                   roles, requests, runs, tasks, attached, troubles>>

\* knowledge.page.mark_reviewed: only an active page is marked.
MarkReviewed(c) ==
    /\ Executes(c, "mark")
    /\ Ran(c, IF Active THEN "succeeded" ELSE "failed")
    /\ UNCHANGED <<storeVars, roles, requests, runs, tasks, attached, troubles>>

\* The search index or the notifier is down: the attempt is recorded.
EffectFails(c) ==
    /\ \E e \in Effects : Executes(c, e) /\ RecordEffect(Snap(c), e, "failed") /\ Ran(c, "failed")
    /\ troubles < MaxTroubles /\ troubles' = troubles + 1
    /\ UNCHANGED <<page, draft, revisions, snapshots, outcomes, found, delivered,
                   roles, requests, runs, tasks, attached>>

Reindex(c) ==
    /\ Executes(c, "reindex")
    /\ ReindexPublished(Snap(c))
    /\ Go(c, "record")
    /\ UNCHANGED <<page, draft, revisions, snapshots, outcomes, effects, delivered,
                   roles, requests, runs, tasks, attached, troubles>>

Notify(c) ==
    /\ Executes(c, "notify")
    /\ Deliver(Snap(c))
    /\ Go(c, "record")
    /\ UNCHANGED <<page, draft, revisions, snapshots, outcomes, effects, found,
                   roles, requests, runs, tasks, attached, troubles>>

RecordDone(c) ==
    /\ proc[c].at = "record"
    /\ RecordEffect(Snap(c), Current(c), "succeeded")
    /\ Ran(c, "succeeded")
    /\ UNCHANGED <<page, draft, revisions, snapshots, outcomes, found, delivered,
                   roles, requests, runs, tasks, attached, troubles>>

\* saveRun, whatever is stored by now.
SaveRun(c) ==
    /\ proc[c].at = "save"
    /\ LET p == proc[c] IN
        /\ runs' = [runs EXCEPT ![p.run] = p.copy]
        /\ IF p.copy.kind = "publish" /\ c \in AuthorCalls /\ p.run \notin attached
           THEN Go(c, "attach") ELSE Ends(c)
    /\ UNCHANGED <<storeVars, roles, requests, tasks, attached, troubles>>

\* publish stores the request its snapshot was answered with.
AttachRequest(c) ==
    /\ proc[c].at = "attach"
    /\ attached' = attached \cup {proc[c].run}
    /\ Ends(c)
    /\ UNCHANGED <<storeVars, roles, requests, runs, tasks, troubles>>

(***************************************************************************)
(* decideApproval and cancelAction, about a run another call may hold.     *)
(***************************************************************************)
Decide(c) ==
    /\ proc[c].at = "idle"
    /\ \E r \in 1..Len(tasks), p \in People, verdict \in {"approved", "rejected"} :
        /\ tasks[r].status = "pending" /\ p \in tasks[r].candidates
        /\ tasks' = [tasks EXCEPT ![r].status = verdict, ![r].by = p]
        /\ proc' = [proc EXCEPT ![c] = [at |-> "decided", run |-> r]]
    /\ UNCHANGED <<storeVars, roles, requests, runs, attached, troubles>>

\* The stored run may not have the child yet: the decision is taken and nothing follows.
ApplyDecision(c) ==
    /\ proc[c].at = "decided"
    /\ LET r == proc[c].run
           run == runs[r]
           child == tasks[r].child
       IN  IF run = NoRun \/ (run # NoRun /\ run.children[child] = "none") THEN Ends(c)
           ELSE IF tasks[r].status = "rejected" THEN FinishChild(c, child, "rejected", run)
           ELSE IF ~Authorized(run.by, child) THEN FinishChild(c, child, "failed", run)
           ELSE proc' = [proc EXCEPT ![c] =
                            [at |-> "execute", run |-> r, child |-> child, copy |-> run]]
    /\ UNCHANGED <<storeVars, roles, requests, runs, tasks, attached, troubles>>

MayCancel(p, r) ==
    /\ runs[r].status = "waiting"
    /\ runs[r].by = p \/ roles[p] = "owner"
    /\ r \in attached  \* only publications are cancelled from here

LoadToCancel(c) ==
    /\ proc[c].at = "idle"
    /\ \E p \in People, r \in 1..Len(runs) :
        /\ MayCancel(p, r)
        /\ proc' = [proc EXCEPT ![c] = [at |-> "cancel", run |-> r, copy |->
                [runs[r] EXCEPT !.children = [k \in Children |->
                                    IF @[k] = "waiting" THEN "cancelled" ELSE @[k]],
                                !.status = "cancelled"]]]
    /\ UNCHANGED <<storeVars, roles, requests, runs, tasks, attached, troubles>>

CancelItsTask(c) ==
    /\ proc[c].at = "cancel"
    /\ LET r == proc[c].run IN
        tasks' = [tasks EXCEPT ![r].status = IF @ = "pending" THEN "cancelled" ELSE @]
    /\ Go(c, "save")
    /\ UNCHANGED <<storeVars, roles, requests, runs, attached, troubles>>

(***************************************************************************)
(* What happens around the calls.                                          *)
(***************************************************************************)
\* A call ends early, after its first write: nothing resumes it.
CallEnds(c) ==
    /\ proc[c].at \notin {"idle", "insert"} /\ troubles < MaxTroubles
    /\ troubles' = troubles + 1
    /\ Ends(c)
    /\ UNCHANGED <<storeVars, roles, requests, runs, tasks, attached>>

\* A tool's statement fails, or its answer is lost after it was applied.
ToolFails(c) ==
    /\ proc[c].at \in {"execute", "commit", "reread", "conflict", "record"}
    /\ troubles < MaxTroubles
    /\ troubles' = troubles + 1
    /\ Ran(c, "failed")
    /\ UNCHANGED <<storeVars, roles, requests, runs, tasks, attached>>

\* A space owner takes a role away.
Revoke(p) ==
    /\ p \notin SpaceOwners /\ roles[p] # "none" /\ troubles < MaxTroubles
    /\ troubles' = troubles + 1
    /\ roles' = [roles EXCEPT ![p] = "none"]
    /\ UNCHANGED <<storeVars, requests, runs, tasks, attached, proc>>

Step(c) ==
    \/ WritePublication(c)
    \/ FindOrInsert(c) \/ InsertRun(c) \/ Analyze(c) \/ StartChild(c)
    \/ FindPublication(c) \/ Commit(c) \/ Reread(c) \/ Conflict(c)
    \/ ArchiveTool(c) \/ MarkReviewed(c) \/ EffectFails(c) \/ Reindex(c) \/ Notify(c) \/ RecordDone(c)
    \/ SaveRun(c) \/ AttachRequest(c) \/ ApplyDecision(c) \/ CancelItsTask(c)

PublicationNext ==
    \/ \E p \in People : EditDraft(p) \/ RestorePage(p) \/ Revoke(p)
    \/ \E c \in AuthorCalls :
        PreparePublication(c) \/ AskArchive(c) \/ RetryEffect(c) \/ RunMaintenance(c)
        \/ LoadToCancel(c)
    \/ \E c \in ApproverCalls : Decide(c) \/ Answer(c)
    \/ \E c \in Calls : Step(c) \/ CallEnds(c) \/ ToolFails(c)

(***************************************************************************)
(* Properties.                                                             *)
(***************************************************************************)
PublicationTypeOK ==
    /\ page.status \in {"active", "archived"} /\ page.published \in 0..Len(snapshots)
    /\ Len(outcomes) = Len(snapshots) /\ Len(effects) = Len(snapshots)
    /\ Len(runs) = Len(requests) /\ Len(tasks) = Len(requests)

\* The README's lifecycle rule: of the snapshots pinned at one version at most one is
\* published, the page shows the one pinned last, and one that ended as a conflict never was
\* shown, whichever calls overlapped, failed after their commit or were repeated.
LatestPublicationIsShown ==
    LET published == {s \in 1..Len(snapshots) : outcomes[s] = "published"} IN
    /\ page.published = 0 <=> published = {}
    /\ page.published # 0 =>
        /\ page.published \in published
        /\ \A s \in published \ {page.published} :
            snapshots[s].expected < snapshots[page.published].expected
    /\ \A s \in 1..Len(snapshots) : outcomes[s] = "conflict" => effects[s] = NoEffect

\* Search finds what readers may read: nothing of an archived page, and of an active one
\* whose publication recorded its reindex, the revision that publication pinned; however late
\* another publication's reindex runs.
SearchShowsThePage ==
    /\ ~Active => found = 0
    /\ found # 0 => \E s \in 1..Len(snapshots) :
                        outcomes[s] = "published" /\ snapshots[s].revision = found
    /\ Active /\ page.published # 0 /\ effects[page.published]["reindex"].status = "succeeded"
        => found = RevisionOf(page.published)

\* Readers find the latest publication, by its page and by search, or nothing at all.
ReadersSeeTheLatest == LatestPublicationIsShown /\ SearchShowsThePage

\* A publication that waited for approval was approved by another person than its author
\* before it took effect, and a run that says it succeeded, or was rejected, says so truly,
\* although calls about one run overwrite each other's copy of it.
RunsAreTrue ==
    \A r \in 1..Len(runs) : runs[r] # NoRun =>
        LET run == runs[r] IN
        /\ run.status = "rejected" => run.snap = 0 \/ outcomes[run.snap] = "none"
        /\ run.kind = "publish" =>
            /\ run.status = "succeeded" => outcomes[run.snap] = "published"
            /\ outcomes[run.snap] # "none" /\ tasks[r].status # "none" =>
                tasks[r].status = "approved" /\ tasks[r].by # run.by

Published(s) == s <= Len(snapshots) /\ outcomes[s] = "published"
Attempted(s) == s <= Len(snapshots) /\ \A e \in Effects : effects[s][e].attempts > 0

\* What a publication promised after its commit is attempted, unless its call died, failed or
\* its author lost the role in between: a retry is offered only for a recorded failure.
EffectsAreAttempted ==
    \A s \in 1..MaxSnapshots : Published(s) ~> (troubles > 0 \/ Attempted(s))
=============================================================================
