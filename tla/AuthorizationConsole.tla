------------------------- MODULE AuthorizationConsole -------------------------
(***************************************************************************)
(* The administration console of the authorization relationships           *)
(* (approval-application/src/authorization-admin.ts): its reader pages      *)
(* through the relationships and through their audit                        *)
(* (approval-d1/src/authorization-relationship-repository.ts) while         *)
(* mutations go on, simulates requests, and submits the updates that        *)
(* approval-core/src/authorization-admin.ts lets through.                   *)
(***************************************************************************)
EXTENDS FgaAccess, FiniteSetsExt, SequencesExt

CONSTANTS TupleCount,   \* tuple keys are 1..TupleCount, in their order as text
          ConsolePage,  \* the limit parameter, between 1 and 100
          MutationPage, \* how many mutations a relationship's page shows: 50
          MaxEvents,    \* bound on the audit events
          MaxClock      \* bound on the instants that stamp rows

ASSUME ConsoleBounds == {TupleCount, ConsolePage, MutationPage, MaxEvents, MaxClock} \subseteq Nat \ {0}

VARIABLES rels,    \* authorization_relationships: tuple -> row
          muts,    \* authorization_relationship_mutations: tuple -> its mutations, by revision
          audit,   \* authorization_relationship_events, by sequence number
          walk     \* the listing the reader is in

consoleVars == <<rels, muts, audit, walk>>

Tuples == 1..TupleCount
Instants == 1..MaxClock
SyncStatuses == {"prepared", "applying", "confirmed", "indeterminate", "failed"}
OpenStatuses == {"prepared", "applying", "indeterminate"}                 \* OPEN_STATUSES
EventTypes == {"change_requested", "apply_started", "change_confirmed", "change_indeterminate",
               "change_superseded", "change_failed", "drift_repaired"}

NoRelationship == [revision |-> 0, sync |-> "failed", updated |-> 0]
Mutation(status, attempts) == [status |-> status, attempts |-> attempts]
Event(type, tuple, revision, key) == [type |-> type, tuple |-> tuple, revision |-> revision, key |-> key]
NoWalk == [of |-> "nothing", row |-> NoRelationship, filter |-> {}, cursor |-> <<>>, page |-> "end", shown |-> <<>>,
           told |-> "nothing", steady |-> {}, back |-> {}]

Stored == {t \in Tuples : rels[t].revision > 0}

-----------------------------------------------------------------------------
(* What a reader may ask: authorize takes the caller's organization from    *)
(* his identity and lets a viewer in; an error of the provider does not.    *)
Authorized(response) == CheckAnswer(response) = "allow"

(* The session tells both permissions, or nothing when one check failed.    *)
Unavailable == [viewer |-> FALSE, editor |-> FALSE, status |-> 503]
Session(viewer, editor) ==
    IF "error" \in {CheckAnswer(viewer), CheckAnswer(editor)} THEN Unavailable
    ELSE [viewer |-> Authorized(viewer), editor |-> Authorized(editor), status |-> 200]

-----------------------------------------------------------------------------
(* Listings, newest first, a page at a time after the cursor.               *)
Before(x, y) == x[1] > y[1] \/ (x[1] = y[1] /\ x[2] > y[2])
Past(cursor, place) == Before(cursor, place)

(* A relationship's place is its last update, then its key.                 *)
RelationshipPlace(t) == <<rels[t].updated, t>>
RelationshipsMatching(filter) == {t \in Stored : rels[t].sync \in filter}
AuditMatching(filter) == {n \in DOMAIN audit : audit[n].type \in filter}

RowsOf(w) == IF w.of = "relationships" THEN RelationshipsMatching(w.filter) ELSE AuditMatching(w.filter)
Place(w, x) == IF w.of = "relationships" THEN RelationshipPlace(x) ELSE <<x, 0>>

(* One row more than the page tells that there is a next one.               *)
RestOf(w) == {x \in RowsOf(w) : w.cursor = <<>> \/ Past(w.cursor, Place(w, x))}
FirstOf(w, rows) ==
    {x \in rows : Cardinality({y \in rows : Before(Place(w, y), Place(w, x))}) < ConsolePage}
LastOf(w, page) == CHOOSE x \in page : \A y \in page : ~ Before(Place(w, x), Place(w, y))
NextPageOf(w) ==
    LET rows == RestOf(w)
        page == FirstOf(w, rows)
        more == Cardinality(rows) > ConsolePage
    IN  [w EXCEPT !.shown = Append(@, page),
                  !.page = IF more THEN "more" ELSE "end",
                  !.cursor = IF more THEN Place(w, LastOf(w, page)) ELSE @]

ListRelationships(filter, response) ==
    /\ walk = NoWalk /\ Authorized(response)
    /\ walk' = NextPageOf([NoWalk EXCEPT !.of = "relationships", !.filter = filter,
                                         !.steady = RelationshipsMatching(filter)])
    /\ UNCHANGED <<rels, muts, audit>>

ListAudit(filter, response) ==
    /\ walk = NoWalk /\ Authorized(response)
    /\ walk' = NextPageOf([NoWalk EXCEPT !.of = "audit", !.filter = filter,
                                         !.steady = AuditMatching(filter)])
    /\ UNCHANGED <<rels, muts, audit>>

Continue(response) ==
    /\ walk.of \in {"relationships", "audit"} /\ walk.page = "more" /\ Authorized(response)
    /\ walk' = NextPageOf(walk)
    /\ UNCHANGED <<rels, muts, audit>>

(* A relationship's page: the row, then in a query of its own the latest    *)
(* mutations (every revision is one), then what the provider answers when   *)
(* the reader asks what it holds.                                           *)
ReadRow(t, response) ==
    /\ walk = NoWalk /\ Authorized(response) /\ t \in Stored
    /\ walk' = [NoWalk EXCEPT !.of = "detail", !.filter = {t}, !.row = rels[t], !.page = "more"]
    /\ UNCHANGED <<rels, muts, audit>>

LatestMutations(t) == {n \in DOMAIN muts[t] : n > Len(muts[t]) - MutationPage}

ReadMutations ==
    /\ walk.of = "detail" /\ walk.page = "more"
    /\ LET n == walk.row.revision
       IN  \E t \in walk.filter :
              walk' = [walk EXCEPT !.page = "end", !.shown = <<LatestMutations(t)>>,
                                   !.told = IF n \in LatestMutations(t) THEN muts[t][n].status ELSE @]
    /\ UNCHANGED <<rels, muts, audit>>

-----------------------------------------------------------------------------
(* The batches of the journal, of any number of workers (the coordinator's  *)
(* calls are RelationshipMutation's).  A batch stamps what it writes with   *)
(* an instant its caller read some time before it, whatever is stored.      *)
Room(events) == Len(audit) + events <= MaxEvents
IsLatest(t, n) == rels[t].revision = n

(* INSERT OR IGNORE: one event of a type for a mutation and its attempt.    *)
Recorded(event) == IF event \in ToSet(audit) THEN audit ELSE Append(audit, event)

(* The reader's listing loses sight of a row that moves.                    *)
Moves(t, at) ==
    walk' = IF walk.of = "relationships"
            THEN [walk EXCEPT !.steady = @ \ {t},
                              !.back = IF at < rels[t].updated THEN @ \cup {t} ELSE @]
            ELSE walk

Stamped(t, row) == rels' = [rels EXCEPT ![t] = row] /\ Moves(t, row.updated)

Requested(t, at) ==
    LET n == Len(muts[t]) + 1
    IN  /\ Room(1)
        /\ muts' = [muts EXCEPT ![t] = Append(@, Mutation("prepared", 0))]
        /\ Stamped(t, [revision |-> n, sync |-> "prepared", updated |-> at])
        /\ audit' = Recorded(Event("change_requested", t, n, 0))

EventOf(status) == CASE status = "applying" -> "apply_started"
                     [] status = "confirmed" -> "change_confirmed"
                     [] status = "indeterminate" -> "change_indeterminate"
                     [] status = "failed" -> "change_failed"
                     [] OTHER -> "change_superseded"

(* Only of the latest revision a start and a confirmation are marked, but   *)
(* any open mutation may fail or stay indeterminate.                        *)
MarkedStale(t, n, status) == muts[t][n].status \in OpenStatuses           \* mutant
MayMark(t, n, status) ==
    muts[t][n].status \in OpenStatuses /\ (status \in {"applying", "confirmed"} => IsLatest(t, n))

Marked(t, n, status) ==
    IF MayMark(t, n, status)
    THEN Mutation(status, muts[t][n].attempts + (IF status = "applying" THEN 1 ELSE 0))
    ELSE muts[t][n]

(* The row follows its own revision's mark, also one repeated by a second   *)
(* worker, which stamps the row once more and records nothing.              *)
Mark(t, n, status, at) ==
    LET marked == Marked(t, n, status)
    IN  /\ Room(1) /\ (status = "applying" \/ muts[t][n].attempts > 0)
        /\ muts' = [muts EXCEPT ![t][n] = marked]
        /\ IF marked.status = status /\ IsLatest(t, n)
           THEN Stamped(t, [rels[t] EXCEPT !.sync = status, !.updated = at])
           ELSE UNCHANGED <<rels, walk>>
        /\ audit' = IF marked.status = status
                    THEN Recorded(Event(EventOf(status), t, n, marked.attempts)) ELSE audit

(* Every open mutation of an older revision, in whatever order the rows     *)
(* come; the tuple's row is not touched.                                    *)
Stale(t) == {n \in DOMAIN muts[t] : muts[t][n].status \in OpenStatuses /\ n < rels[t].revision}
SupersedeStale(t) ==
    /\ Stale(t) # {} /\ Room(Cardinality(Stale(t)))
    /\ muts' = [muts EXCEPT ![t] = [n \in DOMAIN @ |->
                   IF n \in Stale(t) THEN Mutation("superseded", @[n].attempts) ELSE @[n]]]
    /\ \E order \in SetToSeqs(Stale(t)) :
          audit' = audit \o [i \in DOMAIN order |->
                      Event("change_superseded", t, order[i], muts[t][order[i]].attempts)]
    /\ UNCHANGED <<rels, walk>>

(* A drift of a confirmed mutation was repaired; a newer one may have come. *)
DriftRepaired(t, n, at) ==
    /\ Room(1) /\ muts[t][n].status = "confirmed"
    /\ IF IsLatest(t, n) THEN Stamped(t, [rels[t] EXCEPT !.sync = "confirmed", !.updated = at])
       ELSE UNCHANGED <<rels, walk>>
    /\ audit' = Recorded(Event("drift_repaired", t, n, at))
    /\ UNCHANGED muts

ConsoleInit ==
    /\ rels = [t \in Tuples |-> NoRelationship]
    /\ muts = [t \in Tuples |-> <<>>]
    /\ audit = <<>>
    /\ walk = NoWalk

Journal ==
    \E t \in Tuples :
       \/ SupersedeStale(t)
       \/ \E at \in Instants :
            \/ Requested(t, at)
            \/ \E n \in DOMAIN muts[t] :
                 \/ \E status \in SyncStatuses \ {"prepared"} : Mark(t, n, status, at)
                 \/ DriftRepaired(t, n, at)

ConsoleNext ==
    \/ \E response \in Responses :
         \/ \E filter \in {SyncStatuses, {"prepared"}} : ListRelationships(filter, response)
         \/ \E filter \in {EventTypes, {"change_requested"}} : ListAudit(filter, response)
         \/ Continue(response)
         \/ \E t \in Tuples : ReadRow(t, response)
    \/ ReadMutations
    \/ Journal

-----------------------------------------------------------------------------
(* The input of authorization.relationship.update.  Texts are told apart by *)
(* what its validation looks at.                                            *)
RelationAdmin == "authorization_admin"
CatalogEntries == {"ticket", "space", RelationAdmin} \X {"can_execute", "viewer"}
Users   == [type : {"user", "agent"}, id : {"stable", "email", "spaced"}]
Objects == [type : {"ticket", "space", RelationAdmin, "untyped"}, id : {"stable", "scoped", "spaced"}]
UpdateInputs == [operation : {"write", "delete", "other"}, user : Users, object : Objects,
                 relation : {"can_execute", "viewer", "Bad Relation"}, extra : BOOLEAN]

WellFormed(relation) == relation # "Bad Relation"

(* isManagedRelationship: the catalog cannot give membership of the console *)
(* itself away.                                                             *)
Managed(catalog, type, relation) == type # RelationAdmin /\ <<type, relation>> \in catalog

(* An issue is reported at the first check of a part that fails.            *)
UserIssues(user) ==
    IF user.type # "user" \/ user.id = "spaced" THEN {"invalid_user"}
    ELSE IF user.id = "email" THEN {"pii_identifier"} ELSE {}
ObjectIssues(object) ==
    IF object.type = "untyped" \/ object.id = "spaced" THEN {"invalid_object"}
    ELSE IF object.id = "scoped" THEN {"provider_scoped_object"} ELSE {}
CatalogTrusted(catalog, object, relation) ==                              \* mutant
    IF <<object.type, relation>> \in catalog THEN {} ELSE {"relationship_not_managed"}
CatalogIssues(catalog, object, relation) ==
    CASE object.type = RelationAdmin -> {"admin_relationship_immutable"}
      [] object.type # "untyped" /\ WellFormed(relation) /\ <<object.type, relation>> \notin catalog ->
           {"relationship_not_managed"}
      [] OTHER -> {}

ValidateRelationshipUpdate(input, catalog) ==
    {"unexpected_field" : x \in {x \in {TRUE} : input.extra}}
    \cup {"invalid_operation" : x \in {x \in {TRUE} : input.operation = "other"}}
    \cup {"invalid_tuple" : x \in {x \in {TRUE} : ~WellFormed(input.relation)}}
    \cup UserIssues(input.user) \cup ObjectIssues(input.object)
    \cup CatalogIssues(catalog, input.object, input.relation)

(* authorizationAdminActionRelation: an update is an action on the console  *)
(* of the organization and asks for its editors.                            *)
AdminActionRelation(type, resource) ==
    IF type = "authorization.relationship.update" /\ resource = <<RelationAdmin, "root">>
    THEN "editor" ELSE "none"

-----------------------------------------------------------------------------
(* explain: what submitting a request would come to, without submitting it. *)
(* Evaluations are what ActionRequestService.evaluate answers.              *)
AfterAuthorization == {"policy_binding_resolution_failed", "policy_evaluation_failed",
                       "materialization_failed"}
EvaluationErrors == {"action_definition_not_found", "action_input_validation_failed",
                     "authorization_provider_failed"} \cup AfterAuthorization
Evaluations == [type : {"error"}, code : EvaluationErrors]
               \cup [type : {"authorization_denied"}]
               \cup [type : {"planned"}, approval : BOOLEAN]

ExplainError(outcome) == [authorization |-> outcome, effective |-> "evaluation_error"]

Explain(overrides, simulatable, evaluation) ==
    IF ~(overrides \subseteq simulatable) THEN ExplainError("not_evaluated")
    ELSE CASE evaluation.type = "error" ->
                ExplainError(CASE evaluation.code = "authorization_provider_failed" -> "error"
                               [] evaluation.code \in AfterAuthorization -> "allow"
                               [] OTHER -> "not_evaluated")
           [] evaluation.type = "authorization_denied" -> [authorization |-> "deny", effective |-> "deny"]
           [] OTHER -> [authorization |-> "allow",
                        effective |-> IF evaluation.approval THEN "allowed_requires_approval"
                                                             ELSE "allowed_no_approval"]

-----------------------------------------------------------------------------
(* A reader who goes to the end of a listing has seen every row that was    *)
(* there all along and nobody wrote; he sees a row twice only where a       *)
(* worker stamped it with an older instant than it had, which moves it back *)
(* past his cursor; and the audit, where nothing moves, he sees from its    *)
(* end.                                                                     *)
ConsoleShowsAll ==
    /\ \A i, j \in DOMAIN walk.shown : i # j => walk.shown[i] \cap walk.shown[j] \subseteq walk.back
    /\ walk.page = "end" => \A x \in walk.steady : \E i \in DOMAIN walk.shown : x \in walk.shown[i]
    /\ walk.of = "audit" =>
         \A i, j \in DOMAIN walk.shown : i < j => \A m \in walk.shown[i], n \in walk.shown[j] : m > n

(* The audit of a tuple tells one story, whichever workers come late: what  *)
(* is requested, started or confirmed is never of an older revision than    *)
(* anything told before (an end, a doubt or a repair of an older revision   *)
(* may follow); and nothing follows the end of a mutation but the repairs   *)
(* of a confirmed one.                                                      *)
Leading == {"change_requested", "apply_started", "change_confirmed"}
Endings == {"change_confirmed", "change_superseded", "change_failed"}
AuditTellsOneStory ==
    \A m, n \in DOMAIN audit :
        m < n /\ audit[m].tuple = audit[n].tuple =>
           /\ audit[n].type \in Leading => audit[m].revision <= audit[n].revision
           /\ audit[m].revision = audit[n].revision /\ audit[m].type \in Endings =>
                 audit[m].type = "change_confirmed" /\ audit[n].type = "drift_repaired"

(* The page of a relationship, read in two queries, holds together: the     *)
(* history is never behind the row, and a row that says its mutation ended  *)
(* is not contradicted by that mutation's own entry.                        *)
DetailIsRecent ==
    walk.of = "detail" /\ walk.page = "end" =>
        /\ \E n \in walk.shown[1] : n >= walk.row.revision
        /\ walk.row.sync \notin OpenStatuses /\ walk.told # "nothing" => walk.told = walk.row.sync

(* Nothing but a positive answer of the provider shows a permission, nothing *)
(* but a finished evaluation "allowed", and no list of approvers is complete *)
(* that names more than users.                                              *)
FailsClosed ==
    /\ \A viewer, editor \in Responses :
         LET session == Session(viewer, editor)
         IN  /\ session.viewer => viewer = "allowed"
             /\ session.editor => editor = "allowed"
    /\ \A evaluation \in Evaluations :
         Explain({}, {}, evaluation).effective \in {"allowed_no_approval", "allowed_requires_approval"}
            => evaluation.type = "planned"
    /\ \A entries \in SUBSET [kind : {"user", "userset"}, id : {"ann", "team"}] :
         ListUsers(entries, TRUE).complete => entries \subseteq [kind : {"user"}, id : {"ann", "team"}]

(* No catalog lets an update through that touches who may use the console,  *)
(* names a person by mail address or an object of another organization.     *)
UpdatesAreGoverned ==
    \A catalog \in SUBSET CatalogEntries : \A input \in UpdateInputs :
       ValidateRelationshipUpdate(input, catalog) = {} =>
          /\ Managed(catalog, input.object.type, input.relation)
          /\ input.user = [type |-> "user", id |-> "stable"] /\ input.object.id = "stable"
=============================================================================
