------------------------------- MODULE TaskInbox -------------------------------
(***************************************************************************)
(* A user pages through the tasks he is a candidate of                      *)
(* (listMyApprovalTasks of approval-d1/src/public-api-repository.ts, the    *)
(* inbox of approval-application/src/public-http.ts) while tasks are opened *)
(* and closed.  Task ids are random: a new task may sort anywhere.          *)
(***************************************************************************)
EXTENDS Integers, Sequences, FiniteSetsExt

CONSTANTS TaskCount,   \* task ids are 1..TaskCount, in their order as text
          PageSize     \* the limit parameter of a listing

Tasks == 1..TaskCount
ASSUME InboxBounds == {TaskCount, PageSize} \subseteq Nat \ {0}

VARIABLES tasks,       \* approval_tasks: "absent", "pending" or "closed"
          listing      \* the page it is at, its cursor, the pages it has shown,
                       \* and the tasks that matched and were readable all along
inboxVars == <<tasks, listing>>

Matching(ts, cursor) == {t \in DOMAIN ts : ts[t] = "pending" /\ t > cursor}

InboxInit ==
    /\ tasks \in [Tasks -> {"absent", "pending"}]
    /\ listing = [page |-> "more", cursor |-> 0, shown |-> <<>>, steady |-> Matching(tasks, 0)]

(* PageSize + 1 rows after the cursor tell whether there are more; the      *)
(* cursor is the last row of the page, which the client may not see.        *)
FirstRows(rows) == {t \in rows : Cardinality({u \in rows : u < t}) < PageSize}
NextCursor(page) == Max(page)

(* authorizePublicAction leaves tasks of an action the client may not read  *)
(* out of the page it answers.                                              *)
NextPage(readable) ==
    /\ listing.page = "more"
    /\ LET rows == Matching(tasks, listing.cursor)
           page == FirstRows(rows)
           more == Cardinality(rows) > PageSize
       IN  listing' = [page |-> IF more THEN "more" ELSE "end",
                       cursor |-> IF more THEN NextCursor(page) ELSE listing.cursor,
                       shown |-> Append(listing.shown, page \cap readable),
                       steady |-> listing.steady \cap readable]
    /\ UNCHANGED tasks

(* External: ApprovalWorkflow opens and closes tasks.                       *)
Move(t, from, to) ==
    /\ tasks[t] = from /\ tasks' = [tasks EXCEPT ![t] = to]
    /\ listing' = [listing EXCEPT !.steady = @ \ {t}]

InboxNext ==
    \/ \E readable \in SUBSET Tasks : NextPage(readable)
    \/ \E t \in Tasks : Move(t, "absent", "pending") \/ Move(t, "pending", "closed")

-----------------------------------------------------------------------------
(* A listing read to its end has shown every task that was pending and      *)
(* readable throughout, and no task twice, whatever tasks came and went.    *)
InboxIsComplete ==
    /\ \A i, j \in DOMAIN listing.shown : i # j => listing.shown[i] \cap listing.shown[j] = {}
    /\ listing.page = "end" =>
         \A t \in listing.steady : \E i \in DOMAIN listing.shown : t \in listing.shown[i]
=============================================================================
