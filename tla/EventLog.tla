------------------------------ MODULE EventLog ------------------------------
(***************************************************************************)
(* The append-only action_events of one ActionRequest                      *)
(* (approval-d1/src/action-event-repository.ts) with the status every      *)
(* reader folds from it.  An event is [type, on, detail]: type and on make *)
(* its eventKey, which the table holds once (INSERT OR IGNORE).            *)
(***************************************************************************)
VARIABLE log   \* events: the rows; status: the fold of the rows so far

Lifecycle == INSTANCE ActionRequestLifecycle WITH status <- log.status

Event(type, on, detail) == [type |-> type, on |-> on, detail |-> detail]

(* eventDiscriminator: nothing else when the type alone makes the key. *)
Whole(type, detail) == Event(type, << >>, detail)

SameKey(e, f) == e.type = f.type /\ e.on = f.on

HasKey(l, e) == \E f \in l.events : SameKey(e, f)

(* The row of e is there with another content (verifyExisting). *)
Contradicts(l, e) == \E f \in l.events : SameKey(e, f) /\ f # e

Insert(l, e) ==
    IF HasKey(l, e) THEN l
    ELSE [events |-> l.events \cup {e}, status |-> Lifecycle!Applied(l.status, e)]

(* Rows of events that point to no status. *)
Audit(l, es) == [l EXCEPT !.events = @ \cup {e \in es : ~HasKey(l, e)}]

EmptyLog(approvalRequired) ==
    [events |-> {}, status |-> Lifecycle!StatusOfPlan(approvalRequired)]
=============================================================================
