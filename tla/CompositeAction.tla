---------------------------- MODULE CompositeAction ----------------------------
(***************************************************************************)
(* Workflows as actions: publication (workflow-application/src/publishing.  *)
(* ts, composite/lifecycle.ts), the executor that turns the action request  *)
(* of a composite action into a workflow run (composite/executor.ts), the   *)
(* child requests a run makes (composite/child-actions.ts), and the quotas  *)
(* all of them are held to (governance/resources.ts).  Every operation is a *)
(* call that reads and writes D1 one statement after the other, beside      *)
(* other calls; a call may die, and be made again.                          *)
(***************************************************************************)
EXTENDS Integers, Sequences, FiniteSets, FiniteSetsExt

CONSTANTS Workflows, Contents,  \* workflow definitions, and what they may contain
          Types, TypesOf,       \* action types; those a workflow is published under
          Edited,               \* the workflows that are being published
          Requests, Parent,     \* action requests; whose run makes it
          Asks,                 \* the action types it may be of
          Before,               \* links a request without a parent here may have
          None,                 \* no request
          Calls,                \* invocations at work
          MaxVersions,          \* bound on the versions of a workflow
          MaxDepth,             \* MAX_WORKFLOW_DEPTH
          TenantRuns, SystemRuns, \* ResourceLimits
          MaxFaults             \* bound on calls that die

ASSUME CompositeBounds ==
    /\ {MaxVersions, MaxDepth, TenantRuns, SystemRuns, MaxFaults} \subseteq Nat
    /\ Parent \in [Requests -> Requests \cup {None}] /\ None \notin Requests
    /\ Edited \subseteq Workflows /\ Before \subseteq [depth: Nat, ancestry: SUBSET Workflows]

VARIABLES
    versions,   \* workflow_versions: workflow -> what was published, in order
    bindings,   \* workflow_action_bindings: workflow -> action version -> what runs
    catalog,    \* published_action_definitions of the same
    requests,   \* the snapshot an action request was made with, and its fate
    links,      \* workflow_child_actions
    runs,       \* workflow_runs, by the request they execute
    leases,     \* workflow_quota_leases of the tenant: request and scope
    call,       \* what a call holds
    disturbed,  \* requests whose start was overlapped or has died
    faults

vars == <<versions, bindings, catalog, requests, links, runs, leases, call, disturbed, faults>>

Published == <<versions, bindings, catalog>>
Idle == [at |-> "idle"]
NoRequest == [status |-> "none"]

(* A row is inserted, unless its key is there.                              *)
Inserted(rows, key, row) ==
    [k \in DOMAIN rows \cup {key} |-> IF k \in DOMAIN rows THEN rows[k] ELSE row]
NoRows == [k \in {} |-> None]

Binding(version, content, type) == [version |-> version, content |-> content, type |-> type]
(* The schema of a composite action's input is that of the workflow version. *)
Definition(type, schema) == [type |-> type, schema |-> schema]

(* The workflows that are not being published have been published once; a   *)
(* request without a parent comes from the API, or from a run that is       *)
(* itself within others.                                                    *)
Init ==
    /\ \E c \in Contents : versions = [w \in Workflows |-> IF w \in Edited THEN <<>> ELSE <<c>>]
    /\ \E type \in [Workflows -> Types] :
         /\ \A w \in Workflows : type[w] \in TypesOf[w]
         /\ bindings = [w \in Workflows |-> IF w \in Edited THEN NoRows
                                           ELSE Inserted(NoRows, 1, Binding(1, versions[w][1], type[w]))]
         /\ catalog = [w \in Workflows |-> IF w \in Edited THEN NoRows
                                          ELSE Inserted(NoRows, 1, Definition(type[w], 1))]
    /\ requests = [r \in Requests |-> NoRequest]
    /\ \E given \in SUBSET {r \in Requests : Parent[r] = None} : links \in [given -> Before]
    /\ runs = NoRows /\ leases = {}
    /\ call = [k \in Calls |-> Idle] /\ disturbed = {} /\ faults = 0

-----------------------------------------------------------------------------
At(k, at) == call[k].at = at
Hold(k, what) == call' = [call EXCEPT ![k] = what]
Goto(k, at) == Hold(k, [call[k] EXCEPT !.at = at])
Return(k) == Hold(k, Idle)

LatestVersion(w) == Max({0} \cup DOMAIN catalog[w])

(* publish: the number after the latest; a definition that is invalid or    *)
(* whose grants the capability broker does not let pass changes nothing.    *)
StartPublish(k) ==
    /\ At(k, "idle")
    /\ \E w \in Edited : \E c \in Contents, t \in TypesOf[w] :
         /\ Len(versions[w]) < MaxVersions
         /\ Hold(k, [at |-> "saveVersion", w |-> w, content |-> c, type |-> t,
                     version |-> Len(versions[w]) + 1, number |-> 0, already |-> FALSE])
    /\ UNCHANGED <<Published, requests, links, runs, leases, disturbed, faults>>

SaveVersion(k) ==
    /\ At(k, "saveVersion")
    /\ LET c == call[k]
       IN  \/ /\ c.version > Len(versions[c.w])
              /\ versions' = [versions EXCEPT ![c.w] = Append(@, c.content)]
              /\ Goto(k, "listBindings")
           \/ /\ c.version <= Len(versions[c.w]) /\ versions[c.w][c.version] = c.content
              /\ Goto(k, "listBindings") /\ UNCHANGED versions
           \/ /\ c.version <= Len(versions[c.w]) /\ versions[c.w][c.version] # c.content
              /\ Return(k) /\ UNCHANGED versions
    /\ UNCHANGED <<bindings, catalog, requests, links, runs, leases, disturbed, faults>>

ListBindings(k) ==
    /\ At(k, "listBindings")
    /\ LET c == call[k]
           same == {n \in DOMAIN bindings[c.w] : /\ bindings[c.w][n].version = c.version
                                                 /\ bindings[c.w][n].type = c.type}
       IN  Hold(k, [c EXCEPT !.at = "readLatest", !.already = same # {},
                             !.number = IF same = {} THEN 0 ELSE Min(same)])
    /\ UNCHANGED <<Published, requests, links, runs, leases, disturbed, faults>>

ReadLatest(k) ==
    /\ At(k, "readLatest")
    /\ LET c == call[k]
       IN  Hold(k, [c EXCEPT !.at = "saveBinding",
                             !.number = IF c.already THEN @ ELSE LatestVersion(c.w) + 1])
    /\ UNCHANGED <<Published, requests, links, runs, leases, disturbed, faults>>

AnyBinding(held, wanted) == TRUE                                          \* mutant
(* The type is not compared.                                                *)
SameBinding(held, wanted) == held.version = wanted.version /\ held.content = wanted.content

(* Insert-only, and before the catalog has the definition.                  *)
SaveBinding(k) ==
    /\ At(k, "saveBinding")
    /\ LET c == call[k]
           wanted == Binding(c.version, c.content, c.type)
           free == c.number \notin DOMAIN bindings[c.w]
           next == IF c.already THEN "idle" ELSE "catalog"
       IN  /\ bindings' = [bindings EXCEPT ![c.w] = Inserted(@, c.number, wanted)]
           /\ IF next = "catalog" /\ (free \/ SameBinding(bindings[c.w][c.number], wanted))
              THEN Goto(k, "catalog") ELSE Return(k)
    /\ UNCHANGED <<versions, catalog, requests, links, runs, leases, disturbed, faults>>

PublishToCatalog(k) ==
    /\ At(k, "catalog")
    /\ LET c == call[k]
       IN  catalog' = [catalog EXCEPT ![c.w] = Inserted(@, c.number, Definition(c.type, c.version))]
    /\ Return(k)
    /\ UNCHANGED <<versions, bindings, requests, links, runs, leases, disturbed, faults>>

-----------------------------------------------------------------------------
(* D1PublishedActionDefinitionResolver: the definition of an action type    *)
(* with the greatest version, of whichever workflow.                        *)
OfType(t) == UNION {{<<w, n>> : n \in {n \in DOMAIN catalog[w] : catalog[w][n].type = t}} : w \in Workflows}
Resolved(t) == {d \in OfType(t) : \A e \in OfType(t) : e[2] <= d[2]}

Snapshot(d) == [status |-> "open", w |-> d[1], number |-> d[2],
                type |-> catalog[d[1]][d[2]].type, schema |-> catalog[d[1]][d[2]].schema]

(* A request of the API: its definition is materialized; when its execution *)
(* is asked for, after approval, is when the executor is called.            *)
Submit(r) ==
    /\ requests[r].status = "none" /\ Parent[r] = None
    /\ \E t \in Asks[r] : \E d \in Resolved(t) : requests' = [requests EXCEPT ![r] = Snapshot(d)]
    /\ UNCHANGED <<Published, links, runs, leases, call, disturbed, faults>>

-----------------------------------------------------------------------------
(* dispatch of a child, an effect of a run, unless it is there already or   *)
(* chargeAction refuses it: the effect fails, and nothing is made.          *)
StartChild(k) ==
    /\ At(k, "idle")
    /\ \E r \in Requests : \E t \in Asks[r] :
         /\ Parent[r] \in DOMAIN runs /\ runs[Parent[r]].status = "running"
         /\ requests[r].status = "none"
         /\ Hold(k, [at |-> "link", r |-> r, type |-> t])
    /\ UNCHANGED <<Published, requests, links, runs, leases, disturbed, faults>>

OnlyInherited(p) == runs[p].ancestry                                      \* mutant
Ancestry(p) == runs[p].ancestry \cup {runs[p].w}

(* The link is there before the request is, and never changes.              *)
RecordLink(k) ==
    /\ At(k, "link")
    /\ LET r == call[k].r
       IN  links' = Inserted(links, r, [depth |-> runs[Parent[r]].depth,
                                         ancestry |-> Ancestry(Parent[r])])
    /\ Goto(k, "commit")
    /\ UNCHANGED <<Published, requests, runs, leases, disturbed, faults>>

(* prepare and commit; whoever comes second resumes what is there.          *)
CommitChild(k) ==
    /\ At(k, "commit")
    /\ LET r == call[k].r
       IN  IF requests[r].status = "none" /\ Resolved(call[k].type) # {}
           THEN \E d \in Resolved(call[k].type) : requests' = [requests EXCEPT ![r] = Snapshot(d)]
           ELSE UNCHANGED requests
    /\ Return(k)
    /\ UNCHANGED <<Published, links, runs, leases, disturbed, faults>>

-----------------------------------------------------------------------------
(* WorkflowActionExecutor.dispatch.                                         *)
Bound(r) == /\ requests[r].number \in DOMAIN bindings[requests[r].w]
            /\ bindings[requests[r].w][requests[r].number].type = requests[r].type
BoundTo(r) == bindings[requests[r].w][requests[r].number]

Depth(r) == IF r \in DOMAIN links THEN links[r].depth + 1 ELSE 0
AncestryOf(r) == IF r \in DOMAIN links THEN links[r].ancestry ELSE {}

Startable(r) ==
    /\ Bound(r)
    /\ BoundTo(r).version <= Len(versions[requests[r].w])
    /\ versions[requests[r].w][BoundTo(r).version] = BoundTo(r).content
    /\ requests[r].w \notin AncestryOf(r)
    /\ Depth(r) <= MaxDepth

(* The answer of the executor; the first one is recorded.                   *)
Answer(r, status) ==
    requests' = [requests EXCEPT ![r].status = IF @ = "open" THEN status ELSE @]

StartsOf(r) == {k \in Calls : call[k].at \in {"tenant", "system", "undo", "create"} /\ call[k].r = r}

(* What is read up to the admission does not change once it is there, but   *)
(* for the run itself.                                                      *)
StartRun(k) ==
    /\ At(k, "idle")
    /\ \E r \in Requests :
         /\ requests[r].status = "open"
         /\ \/ r \in DOMAIN runs /\ Answer(r, "accepted") /\ UNCHANGED <<call, disturbed>>
            \/ r \notin DOMAIN runs /\ ~Startable(r) /\ Answer(r, "refused") /\ UNCHANGED <<call, disturbed>>
            \/ /\ r \notin DOMAIN runs /\ Startable(r)
               /\ Hold(k, [at |-> "tenant", r |-> r])
               /\ disturbed' = IF StartsOf(r) = {} THEN disturbed ELSE disturbed \cup {r}
               /\ UNCHANGED requests
    /\ UNCHANGED <<Published, links, runs, leases, faults>>

Held(scope) == {l \in leases : l[2] = scope}
Admissible(r, scope, limit) == <<r, scope>> \in leases \/ Cardinality(Held(scope)) + 1 <= limit

AcquireTenant(k) ==
    /\ At(k, "tenant")
    /\ LET r == call[k].r
       IN  \/ /\ Admissible(r, "tenant", TenantRuns)
              /\ leases' = leases \cup {<<r, "tenant">>}
              /\ Goto(k, "system") /\ UNCHANGED requests
           \/ /\ ~Admissible(r, "tenant", TenantRuns)
              /\ Answer(r, "refused") /\ Return(k) /\ UNCHANGED leases
    /\ UNCHANGED <<Published, links, runs, disturbed, faults>>

(* Other tenants may have the rest of the system's.                         *)
AcquireSystem(k) ==
    /\ At(k, "system")
    /\ LET r == call[k].r
       IN  \/ /\ Admissible(r, "system", SystemRuns)
              /\ leases' = leases \cup {<<r, "system">>}
              /\ Goto(k, "create")
           \/ <<r, "system">> \notin leases /\ Goto(k, "undo") /\ UNCHANGED leases
    /\ UNCHANGED <<Published, requests, links, runs, disturbed, faults>>

KeepAcquired(r) == leases                                                 \* mutant
Undone(r) == leases \ {<<r, "tenant">>}

(* acquireAll gives back what it has acquired.                              *)
UndoAdmission(k) ==
    /\ At(k, "undo")
    /\ leases' = Undone(call[k].r)
    /\ Answer(call[k].r, "refused") /\ Return(k)
    /\ UNCHANGED <<Published, links, runs, disturbed, faults>>

(* The scheduler is told, and the caller records the answer, unless it dies *)
(* before it does.                                                          *)
CreateRun(k) ==
    /\ At(k, "create")
    /\ LET r == call[k].r
       IN  /\ runs' = Inserted(runs, r, [w |-> requests[r].w, version |-> BoundTo(r).version,
                                       depth |-> Depth(r), ancestry |-> AncestryOf(r),
                                       status |-> "running"])
           /\ \/ Answer(r, "accepted") /\ UNCHANGED faults
              \/ faults < MaxFaults /\ faults' = faults + 1 /\ UNCHANGED requests
    /\ Return(k)
    /\ UNCHANGED <<Published, links, leases, disturbed>>

-----------------------------------------------------------------------------
(* The run ends; finish tells the parent, once that has the acceptance, and *)
(* releases one lease after the other.  The flag comes last, so a finish    *)
(* that dies is made again.                                                 *)
EndRun(r) ==
    /\ r \in DOMAIN runs /\ runs[r].status = "running"
    /\ runs' = [runs EXCEPT ![r].status = "ended"]
    /\ UNCHANGED <<Published, requests, links, leases, call, disturbed, faults>>

Finish(k) ==
    /\ At(k, "idle")
    /\ \E r \in DOMAIN runs :
         /\ runs[r].status = "ended" /\ requests[r].status = "accepted"
         /\ leases' = leases \ {<<r, "tenant">>}
         /\ Hold(k, [at |-> "releaseSystem", r |-> r])
    /\ UNCHANGED <<Published, requests, links, runs, disturbed, faults>>

ReleaseSystem(k) ==
    /\ At(k, "releaseSystem")
    /\ leases' = leases \ {<<call[k].r, "system">>} /\ Goto(k, "delivered")
    /\ UNCHANGED <<Published, requests, links, runs, disturbed, faults>>

RecordDelivered(k) ==
    /\ At(k, "delivered")
    /\ runs' = [runs EXCEPT ![call[k].r].status = "delivered"] /\ Return(k)
    /\ UNCHANGED <<Published, requests, links, leases, disturbed, faults>>

-----------------------------------------------------------------------------
Dies(k) ==
    /\ ~At(k, "idle") /\ faults < MaxFaults /\ faults' = faults + 1
    /\ disturbed' = disturbed \cup {r \in Requests : k \in StartsOf(r)}
    /\ Return(k)
    /\ UNCHANGED <<Published, requests, links, runs, leases>>

Publishing(k) ==
    StartPublish(k) \/ SaveVersion(k) \/ ListBindings(k) \/ ReadLatest(k) \/ SaveBinding(k) \/ PublishToCatalog(k)
MakingChild(k) == StartChild(k) \/ RecordLink(k) \/ CommitChild(k)
Starting(k) == StartRun(k) \/ AcquireTenant(k) \/ AcquireSystem(k) \/ UndoAdmission(k) \/ CreateRun(k)
Finishing(k) == Finish(k) \/ ReleaseSystem(k) \/ RecordDelivered(k)

Next ==
    \/ \E k \in Calls : Publishing(k) \/ MakingChild(k) \/ Starting(k) \/ Finishing(k) \/ Dies(k)
    \/ \E r \in Requests : Submit(r) \/ EndRun(r)

Spec == Init /\ [][Next]_vars

-----------------------------------------------------------------------------
(* lifecycle.ts: a request that was materialized with a definition runs the *)
(* workflow version that definition was published with, whose schema its    *)
(* input was checked against, however many publishers race or die between   *)
(* the binding and the catalog, and however long it waits for approval.     *)
RunsWhatWasRequested ==
    \A r \in DOMAIN runs :
       /\ runs[r].w = requests[r].w /\ runs[r].version = requests[r].schema
       /\ versions[runs[r].w][runs[r].version] = BoundTo(r).content

(* executor.ts: no workflow runs within a run of itself, and none deeper    *)
(* than the bound.  The runs around a run are those whose children it is,   *)
(* and those the first of them was within.                                  *)
Around[r \in Requests] == IF Parent[r] = None THEN {} ELSE {Parent[r]} \cup Around[Parent[r]]
First(r) == CHOOSE p \in {p \in Around[r] \cup {r} : Parent[p] = None} : TRUE

(* The recursion comes to an end: a request is made by a run that was there  *)
(* before it.  For the proofs, which cannot unfold a recursive function.    *)
ASSUME AroundIsDefined ==
    \A r \in Requests :
       Around[r] = IF Parent[r] = None THEN {} ELSE {Parent[r]} \cup Around[Parent[r]]

NothingRunsWithinItself ==
    \A r \in DOMAIN runs :
       /\ Around[r] \subseteq DOMAIN runs
       /\ \A p \in Around[r] : runs[p].w # runs[r].w
       /\ runs[r].w \notin AncestryOf(First(r))
       /\ Cardinality(Around[r]) + Depth(First(r)) <= MaxDepth

(* resources.ts: the leases are within the limits and are those of the runs *)
(* that live: a run that nothing has disturbed holds both until its parent  *)
(* knows its end, and a start that was refused and a run that was delivered *)
(* leave none.                                                              *)
QuotasFollowRuns ==
    /\ Cardinality(Held("tenant")) <= TenantRuns /\ Cardinality(Held("system")) <= SystemRuns
    /\ \A r \in Requests \ disturbed :
         LET its == leases \cap ({r} \X {"tenant", "system"})
         IN  /\ r \in DOMAIN runs /\ runs[r].status = "running" => its = {r} \X {"tenant", "system"}
             /\ r \in DOMAIN runs /\ runs[r].status = "delivered" => its = {}
             /\ r \notin DOMAIN runs /\ StartsOf(r) = {} => its = {}
=============================================================================
