-------------------------- MODULE PolicyAuthoring --------------------------
(***************************************************************************)
(* The rules under which an organization approves actions, changed while   *)
(* they are in use: the changes of an application's rules (submitted,      *)
(* approved under the meta policy, applied by their executor next to each  *)
(* other), the governance actions that publish a policy or a binding, the  *)
(* catalog migration, and the requests whose plans are made from whatever  *)
(* is published when they are evaluated.                                   *)
(*                                                                         *)
(* Evaluation reads the bindings first and then one policy after another.  *)
(* The rules of approval themselves are ApprovalFlow's; here a step is     *)
(* decided once by one of the users it resolves to.                        *)
(***************************************************************************)
EXTENDS ApplicationPolicy

CONSTANTS Changes,            \* ActionRequests that change the rules of a scope
          Publications,       \* ActionRequests the rules are about
          Scopes, Owners,     \* owners of each scope
          Admins,             \* editors of authorization_admin:root
          Proposals,          \* what a change may propose: [scope, by, rules]
          Calls,              \* what a publication may be: [scope, by, action, input]
          GovernancePolicies, \* what approval_policy.publish may carry
          GovernanceBindings, \* what approval_policy_binding.update may carry
          MaxApplyAttempts, MaxGovernance, MaxCrashes

Requests == Changes \cup Publications

ASSUME AuthoringBounds ==
    /\ Changes \cap Publications = {} /\ "catalog" \notin Changes
    /\ \A p \in Proposals : p.scope \in Scopes

VARIABLES published,  \* published_approval_policy_versions
          bindings,   \* approval_policy_bindings
          records,    \* application_approval_policies, insert only
          catalog,    \* entries of the catalog that are deployed
          requests, executors,
          governed,   \* the policies and bindings that governance wrote
          crashes     \* how often executors died

store == <<published, bindings, records, catalog>>
authoringVars == <<store, requests, executors, governed, crashes>>

NoPlan == [flow |-> None, used |-> {}]
NoCall == [action |-> <<>>]
Unsent == [status |-> "none", scope |-> "", by |-> "", base |-> 0, rules |-> <<>>, call |-> NoCall,
           todo |-> <<>>, sources |-> {}, plan |-> NoPlan, votes |-> {}]
AtRest == [pc |-> "idle", others |-> {}, listed |-> FALSE, latest |-> 0, attempt |-> 0, answer |-> ""]

AuthoringInit ==
    /\ published = ApprovalPolicyEntry.policies
    /\ bindings = ApprovalPolicyEntry.bindings
    /\ catalog = {ApprovalPolicyEntry.id}
    /\ records = {}
    /\ requests = [r \in Requests |-> Unsent]
    /\ executors = [c \in Changes |-> AtRest]
    /\ governed = {} /\ crashes = 0

Newest(rows) == CHOOSE row \in rows : \A other \in rows : other.version <= row.version
Current(scope) ==
    LET own == {rec \in records : rec.scope = scope}
    IN  IF own = {} THEN [scope |-> scope, version |-> 0, policy |-> Scheme.defaultPolicy,
                          source |-> "catalog"]
        ELSE Newest(own)

-----------------------------------------------------------------------------
(* Submission: ActionRequestApplicationService.evaluate, prepare, commit.  *)

ContextOf(action, scope, by, input) ==
    [org |-> Org, type |-> action, resource |-> [type |-> Scheme.scopeType, id |-> scope],
     fields |-> [path \in {<<"action", "resource", "id">>, <<"authority", "principal", "id">>}
                          \cup {<<"action", "input", name>> : name \in DOMAIN input} |->
                    CASE path[2] = "resource" -> Str(scope)
                      [] path[2] = "principal" -> Str(by)
                      [] path[2] = "input" -> Str(input[path[3]])],
     actor |-> [type |-> "user", id |-> by], authority |-> [type |-> "user", id |-> by],
     caller |-> Failed, chain |-> <<>>, constraints |-> None]

NoInput == [name \in {} |-> ""]

ContextOfRequest(r, request) ==
    IF r \in Changes THEN ContextOf(UpdateAction, request.scope, request.by, NoInput)
    ELSE ContextOf(request.call.action, request.scope, request.by, request.call.input)

(* The users a step resolves to.                                           *)
Holders(target) ==
    CASE target.type = "user" -> {target.user}
      [] target.type = "relation" /\ target.object[1] = "authorization_admin" -> Admins
      [] target.type = "relation" /\ target.object[1] # "authorization_admin" ->
            Owners[target.object[2]]

Eligible(step, by) ==
    LET own == IF step.self = "deny" THEN {by} ELSE {}
    IN  IF Holders(step.target) \ own # {} \/ step.fallback = None
        THEN Holders(step.target) \ own ELSE Holders(step.fallback) \ own

IsApproved(root, votes) ==
    LET approved[way \in Ways] ==
            LET flow == FlowAt(root, way)
            IN  CASE flow.type = "none" -> TRUE
                  [] flow.type = "approval" ->
                        \E v \in votes : v.step = flow.id /\ v.decision = "approve"
                  [] flow.type = "serial" -> \A i \in DOMAIN flow.children : approved[Append(way, i)]
                  [] flow.type = "parallel" -> \E i \in DOMAIN flow.children : approved[Append(way, i)]
    IN  approved[<<>>]

(* The steps that are open; a parallel flow here needs any of its children.*)
OpenSteps(root, votes) ==
    LET open[way \in Ways] ==
            LET flow == FlowAt(root, way)
                left == {i \in DOMAIN flow.children : ~IsApproved(flow.children[i], votes)}
            IN  CASE flow.type = "none" -> {}
                  [] flow.type = "approval" -> IF \E v \in votes : v.step = flow.id THEN {} ELSE {flow}
                  [] flow.type = "serial" ->
                        IF left = {} THEN {}
                        ELSE open[Append(way, CHOOSE i \in left : \A j \in left : i <= j)]
                  [] flow.type = "parallel" -> UNION {open[Append(way, i)] : i \in DOMAIN flow.children}
    IN  open[<<>>]

(* What becomes of a request whose approval stands at votes: a step that   *)
(* nobody may decide fails the workflow.                                   *)
Standing(flow, by, votes) ==
    IF IsApproved(flow, votes) THEN "approved"
    ELSE With(OpenSteps(flow, votes), LAMBDA open :
            CASE open = {} -> "rejected"
              [] \E s \in open : Eligible(s, by) = {} -> "failed"
              [] open # {} /\ \A s \in open : Eligible(s, by) # {} -> "pending_approval")

(* Of a saved plan only what is read later is kept.                        *)
Saved(plan) ==
    [flow |-> plan.flow,
     used |-> {[binding |-> plan.bindings[i].binding, policyKey |-> plan.bindings[i].policyKey,
                version |-> plan.bindings[i].version] : i \in DOMAIN plan.bindings}]

(* The plan is verified and saved, and its workflow started.               *)
Committed(request, made) ==
    IF IsError(made) THEN [request EXCEPT !.status = "refused", !.sources = {}]
    ELSE IF ~VerifyPlan(made) THEN [request EXCEPT !.status = "refused", !.sources = {}]
    ELSE [request EXCEPT !.plan = Saved(made), !.sources = {},
                         !.status = Standing(made.flow, request.by, {})]

Commit(r, request) ==
    With(MaterializeApprovalPlan(r, ContextOfRequest(r, request),
                                 {[s EXCEPT !.policy = Definition(@)] : s \in request.sources}),
         LAMBDA made : Committed(request, made))

(* D1PublishedPolicyBindingResolver reads the bindings that apply ...      *)
StartEvaluation(r, request) ==
    LET applicable == ResolvePolicyBindings(bindings, ContextOfRequest(r, request))
    IN  /\ requests[r].status = "none"
        /\ requests' = [requests EXCEPT ![r] =
              IF IsError(applicable) THEN [request EXCEPT !.status = "refused"]
              ELSE IF applicable.bindings = <<>> THEN Commit(r, request)
              ELSE [request EXCEPT !.status = "evaluating", !.todo = applicable.bindings]]
        /\ UNCHANGED <<store, executors, governed, crashes>>

SubmitChange(c) ==
    \E p \in Proposals : \E base \in 0 .. Current(p.scope).version :
        /\ p.by \in Owners[p.scope]
        /\ ValidateUpdateInput([base |-> base, rules |-> p.rules])
        /\ StartEvaluation(c, [Unsent EXCEPT !.scope = p.scope, !.by = p.by, !.base = base,
                                             !.rules = p.rules])

SubmitPublication(r) ==
    \E call \in Calls :
        StartEvaluation(r, [Unsent EXCEPT !.scope = call.scope, !.by = call.by, !.call = call])

(* ... and then the newest policy of each of them, one read at a time; with*)
(* the last one the plan is made, which reads nothing more.                *)
ReadPolicy(r) ==
    LET request == requests[r]
        binding == request.todo[1]
        rows == {row \in published : row.key = binding.policyKey}
        read == [request EXCEPT !.todo = Tail(@),
                                !.sources = @ \cup {[binding |-> binding,
                                                     version |-> Newest(rows).version,
                                                     policy |-> Newest(rows).policy]}]
    IN  /\ request.status = "evaluating"
        /\ requests' = [requests EXCEPT ![r] =
              IF rows = {} THEN [request EXCEPT !.status = "refused", !.todo = <<>>, !.sources = {}]
              ELSE IF Tail(request.todo) # <<>> THEN read
              ELSE Commit(r, read)]
        /\ UNCHANGED <<store, executors, governed, crashes>>

(* Only the approval of changes matters here.                              *)
Decide(r) ==
    LET request == requests[r]
    IN  /\ request.status = "pending_approval"
        /\ \E step \in OpenSteps(request.plan.flow, request.votes),
              decision \in {"approve", "reject"} :
              \E u \in Eligible(step, request.by) :
                 LET votes == request.votes
                              \cup {[step |-> step.id, user |-> u, decision |-> decision]}
                 IN  requests' = [requests EXCEPT
                        ![r].votes = votes,
                        ![r].status = Standing(request.plan.flow, request.by, votes)]
        /\ UNCHANGED <<store, executors, governed, crashes>>

-----------------------------------------------------------------------------
(* ApplicationApprovalPolicyExecutor.execute, called once the change is    *)
(* approved, and called again when its call died.                          *)

Step(c, next) ==
    /\ executors' = [executors EXCEPT ![c] = next]
    /\ UNCHANGED <<requests, governed, crashes>>

ReadCurrent(c) ==
    LET e == executors[c]
        current == Current(requests[c].scope)
    IN  /\ requests[c].status = "approved" /\ e.pc = "idle"
        /\ Step(c, CASE current.source = c -> [e EXCEPT !.pc = "answer", !.answer = "succeeded"]
                     [] current.source # c /\ current.version # requests[c].base ->
                           [e EXCEPT !.pc = "answer", !.answer = "conflict"]
                     [] current.source # c /\ current.version = requests[c].base ->
                           [e EXCEPT !.pc = "both"])
        /\ UNCHANGED store

(* The rules of all scopes and the newest compiled version are read        *)
(* concurrently, in either order.                                          *)
ListCurrent(c) ==
    /\ executors[c].pc = "both" /\ ~executors[c].listed
    /\ Step(c, [executors[c] EXCEPT !.listed = TRUE,
                  !.others = {Current(s) : s \in {rec.scope : rec \in records}
                                                 \ {requests[c].scope}}])
    /\ UNCHANGED store

(* The keys are written together, so one of them tells.                    *)
LatestApprovalPolicyVersion ==
    Newest({row \in published : \E type \in ActionTypes : row.key = ApplicationPolicyKey(type)}).version

ReadLatest(c) ==
    /\ executors[c].pc = "both" /\ executors[c].latest = 0
    /\ Step(c, [executors[c] EXCEPT !.latest = LatestApprovalPolicyVersion])
    /\ UNCHANGED store

BatchChecksPolicies(record, compiled) ==     \* mutant: only the compiled policies are unique
    \E row \in published, new \in compiled : row.key = new.key /\ row.version = new.version

(* One batch: a row that is already there undoes all of it.                *)
BatchConflicts(record, compiled) ==
    \/ \E rec \in records : \/ rec.scope = record.scope /\ rec.version = record.version
                            \/ rec.source = record.source
    \/ \E row \in published, new \in compiled : row.key = new.key /\ row.version = new.version

RulesOf(c, others) ==
    LET scopes == {rec.scope : rec \in others} \cup {requests[c].scope}
    IN  [s \in scopes |->
            IF s = requests[c].scope THEN requests[c].rules
            ELSE (CHOOSE rec \in others : rec.scope = s).policy]

ApplyChange(c) ==
    LET e == executors[c]
        record == [scope |-> requests[c].scope, version |-> requests[c].base + 1,
                   policy |-> requests[c].rules, approval |-> e.latest + 1, source |-> c]
        compiled == {Row(ApplicationPolicyKey(type), e.latest + 1,
                         Compiled(type, RulesOf(c, e.others)), c) : type \in ActionTypes}
    IN  /\ e.pc = "both" /\ e.listed /\ e.latest # 0
        /\ \/ /\ BatchConflicts(record, compiled)
              /\ Step(c, IF e.attempt + 1 < MaxApplyAttempts
                         THEN [AtRest EXCEPT !.attempt = e.attempt + 1]
                         ELSE AtRest)     \* contention is retriable: called again
              /\ UNCHANGED store
           \/ /\ ~BatchConflicts(record, compiled)
              /\ records' = records \cup {record}
              /\ published' = published \cup compiled
              /\ Step(c, [AtRest EXCEPT !.pc = "answer", !.answer = "succeeded"])
              /\ UNCHANGED <<bindings, catalog>>

Answer(c) ==
    /\ executors[c].pc = "answer"
    /\ requests' = [requests EXCEPT ![c].status =
                       IF executors[c].answer = "succeeded" THEN "succeeded" ELSE "failed"]
    /\ executors' = [executors EXCEPT ![c] = AtRest]
    /\ UNCHANGED <<store, governed, crashes>>

(* The call dies, or its answer is lost.                                   *)
Crash(c) ==
    /\ executors[c].pc # "idle" /\ crashes < MaxCrashes
    /\ crashes' = crashes + 1
    /\ executors' = [executors EXCEPT ![c] = AtRest]
    /\ UNCHANGED <<store, requests, governed>>

-----------------------------------------------------------------------------
(* GovernanceActionExecutor and the catalog migration.                     *)

Governs(written) ==
    /\ Cardinality(governed) < MaxGovernance /\ governed' = governed \cup {written}
    /\ UNCHANGED <<records, catalog, requests, executors, crashes>>

(* INSERT OR IGNORE: the same content again is fine, another is refused.   *)
PublishPolicy(row) ==
    /\ ValidPolicy(Definition(row.policy))
    /\ ~ \E old \in published : old.key = row.key /\ old.version = row.version
    /\ published' = published \cup {row}
    /\ Governs(row) /\ UNCHANGED bindings

(* The last write wins, and nothing asks whether the policy exists.        *)
UpdateBinding(binding) ==
    /\ binding.org = Org /\ ValidBinding(binding)
    /\ bindings' = {b \in bindings : b.id # binding.id} \cup {binding}
    /\ Governs(binding) /\ UNCHANGED published

(* Entries that are not deployed yet, as plain inserts: a row that is      *)
(* there already fails the migration.                                      *)
Migrate ==
    \E i \in DOMAIN RenderCatalogEntries :
        LET entry == RenderCatalogEntries[i]
        IN  /\ entry.id \notin catalog
            /\ ~ \E old \in published, new \in entry.policies :
                    old.key = new.key /\ old.version = new.version
            /\ published' = published \cup entry.policies
            /\ bindings' = bindings \cup entry.bindings
            /\ catalog' = catalog \cup {entry.id}
            /\ UNCHANGED <<records, requests, executors, governed, crashes>>

Execute(c) ==
    \/ ReadCurrent(c) \/ ListCurrent(c) \/ ReadLatest(c) \/ ApplyChange(c) \/ Answer(c)

AuthoringNext ==
    \/ \E c \in Changes : SubmitChange(c) \/ Decide(c) \/ Execute(c) \/ Crash(c)
    \/ \E r \in Publications : SubmitPublication(r)
    \/ \E r \in Requests : ReadPolicy(r)
    \/ \E row \in GovernancePolicies : PublishPolicy(row)
    \/ \E binding \in GovernanceBindings : UpdateBinding(binding)
    \/ Migrate

AuthoringSpec == AuthoringInit /\ [][AuthoringNext]_authoringVars

-----------------------------------------------------------------------------
(* Properties.                                                             *)

(* A rule in force whose plan was made under the meta policy of the        *)
(* catalog, whichever of its versions, was approved by an owner of its     *)
(* scope or an administrator who did not ask for it, whatever governance   *)
(* publishes before, between or after.  Only what governance itself wrote  *)
(* for the meta policy - a version, or its binding - makes another plan.   *)
PlannedByCatalog(r) ==
    \E used \in requests[r].plan.used, row \in published :
        /\ used.binding = MetaBindingId /\ row.source = "catalog"
        /\ row.key = MetaPolicyKey /\ used.policyKey = row.key /\ used.version = row.version

MetaApprovalRewritten ==
    governed \cap ({row \in published : row.key = MetaPolicyKey}
                   \cup {b \in bindings : b.id = MetaBindingId}) # {}

ChangesAreApproved ==
    \A rec \in records :
        IF PlannedByCatalog(rec.source)
        THEN \E v \in requests[rec.source].votes :
               /\ v.decision = "approve"
               /\ v.user # requests[rec.source].by
               /\ v.user \in Owners[rec.scope] \cup Admins
        ELSE MetaApprovalRewritten

(* Of the changes made against one version of the rules at most one is     *)
(* applied, once, however the executors interleave or die; and a change    *)
(* that is answered as applied is.                                         *)
OneWinnerPerVersion ==
    /\ \A a, b \in records : a # b => a.source # b.source
                                      /\ (a.scope = b.scope => a.version # b.version)
    /\ \A rec \in records : \A n \in 1 .. rec.version :
          \E old \in records : old.scope = rec.scope /\ old.version = n
    /\ \A c \in Changes : requests[c].status = "succeeded" =>
          \E rec \in records : rec.source = c /\ rec.version = requests[c].base + 1

(* What a rule means to the people who wrote it, read without compiling.   *)
Applies(entry, call) ==
    /\ entry.action = call.action
    /\ CASE entry.when.type = "always" -> TRUE
         [] entry.when.type = "field" -> call.input[entry.when.field] = entry.when.equals
         [] entry.when.type = "requesterIsNot" ->
               call.by # call.input[Scheme.requesterIsNot[entry.when.who]]

ApproversBy(rules, call) ==
    LET fits == {i \in DOMAIN rules : Applies(rules[i], call)}
    IN  IF fits = {} THEN {}
        ELSE LET entry == rules[CHOOSE i \in fits : \A j \in fits : i <= j]
                 approver == Scheme.approvers[entry.approvers]
             IN  IF approver.type = "input" THEN {call.input[approver.field]}
                 ELSE Owners[call.scope]

(* The step an application's policy put into a plan asks exactly whom the  *)
(* rules of the request's own scope name: the rules just applied when the  *)
(* version the plan names was made for this scope, else those of some      *)
(* version of the scope or the default ones.                               *)
PlansFollowTheRules ==
    \A r \in Publications :
        LET plan == requests[r].plan
            call == requests[r].call
        IN  \A used \in {u \in plan.used : u.binding < MetaBindingId} :
              LET row == CHOOSE row \in published :
                            row.key = used.policyKey /\ row.version = used.version
                  asked == UNION {Holders(s.target) : s \in
                              {s \in StepsOf(plan.flow) : s.source.binding = used.binding}}
                  rules == IF row.source \in Changes /\ requests[row.source].scope = call.scope
                           THEN {requests[row.source].rules}
                           ELSE {rec.policy : rec \in {x \in records : x.scope = call.scope}}
                                \cup {Scheme.defaultPolicy}
              IN  asked \in {ApproversBy(own, call) : own \in rules}

(* What the executor promises by reading everything again after a conflict:*)
(* the newest compiled policies hold the rules in force of every scope.    *)
RulesInForce ==
    LET inForce == [s \in {rec.scope : rec \in records} |-> Current(s).policy]
    IN  \A type \in ActionTypes :
          Newest({row \in published : row.key = ApplicationPolicyKey(type)}).policy
              = Compiled(type, inForce)

(* A change reported as failed left nothing behind.                        *)
FailedChangeIsNotApplied ==
    \A c \in Changes : requests[c].status = "failed" => ~ \E rec \in records : rec.source = c
=============================================================================
