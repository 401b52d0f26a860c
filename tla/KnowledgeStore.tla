--------------------------- MODULE KnowledgeStore ---------------------------
(***************************************************************************)
(* The Knowledge database of one page (packages/knowledge-d1): its draft,  *)
(* revisions and publication snapshots that are only ever inserted, the    *)
(* page row every lifecycle transition compares and swaps, the outcome and *)
(* effects of each snapshot, the published search index and the            *)
(* notifications.  One operator per statement or batch, since each of      *)
(* those is atomic; what a caller does between two of them is              *)
(* KnowledgePublication's.  A revision is its place in `revisions` and a   *)
(* snapshot its place in `snapshots`; 0 is NULL.                           *)
(***************************************************************************)
EXTENDS Naturals, Sequences, FiniteSets

CONSTANTS People,      \* principals of the organization
          PageOwner,   \* the page's owner
          Watchers,    \* who watches the page
          Texts        \* contents of a draft that sameContent tells apart

ASSUME PageOwnerIsSomeone == PageOwner \in People
ASSUME SomethingIsWritten == Texts # {}

VARIABLES page,        \* [status, version, published]
          draft,       \* [text, wide, version]: wide publications need approval
          revisions,   \* the text of each revision
          snapshots,   \* [revision, expected, by, wide] of each snapshot
          outcomes,    \* "none", "published" or "conflict" of each snapshot
          effects,     \* [reindex, notify], each [status, attempts]
          found,       \* the revision in the published index
          delivered

storeVars == <<page, draft, revisions, snapshots, outcomes, effects, found, delivered>>

Effects == {"reindex", "notify"}
NoEffect == [e \in Effects |-> [status |-> "none", attempts |-> 0]]

StoreInit ==
    /\ page = [status |-> "active", version |-> 1, published |-> 0]
    /\ \E wide \in BOOLEAN :
        draft = [text |-> CHOOSE t \in Texts : TRUE, wide |-> wide, version |-> 1]
    /\ revisions = <<>> /\ snapshots = <<>> /\ outcomes = <<>> /\ effects = <<>>
    /\ found = 0
    /\ delivered = {}

Active == page.status = "active"
RevisionOf(s) == IF s = 0 THEN 0 ELSE snapshots[s].revision

\* saveDraft: a compare-and-swap on the draft's version.
SaveDraft(expected, text, wide) ==
    /\ draft.version = expected
    /\ draft' = [text |-> text, wide |-> wide, version |-> expected + 1]

\* insertPublication: one batch; the number of a new revision is taken (UNIQUE) or not.
NumberIsFree(number) == number > Len(revisions)

InsertPublication(text, number, snapshot) ==
    /\ revisions' = IF NumberIsFree(number) THEN Append(revisions, text) ELSE revisions
    /\ snapshots' = Append(snapshots, snapshot)
    /\ outcomes' = Append(outcomes, "none")
    /\ effects' = Append(effects, NoEffect)

\* decidePublishCommit
DecidePublishCommit(s) ==
    CASE page.published = s -> "already_published"
      [] page.published # s /\ (~Active \/ page.version # snapshots[s].expected) -> "conflict"
      [] OTHER -> "commit"

AnyVersion(s) == Active  \* mutant: the UPDATE forgets lifecycle_version

\* The CAS of commitStatements: the page moves only from the version that was pinned.
CasHolds(s) == Active /\ page.version = snapshots[s].expected

\* commitPublish's batch.  The follow-up rows are inserted where the page is at
\* this snapshot, whether this batch moved it there or an earlier one.
CommitBatch(s) ==
    LET here == CasHolds(s) \/ page.published = s
    IN  /\ page' = IF CasHolds(s)
                   THEN [page EXCEPT !.version = @ + 1, !.published = s] ELSE page
        /\ outcomes' = IF here /\ outcomes[s] = "none"
                       THEN [outcomes EXCEPT ![s] = "published"] ELSE outcomes
        /\ effects' = IF here
                      THEN [effects EXCEPT ![s] = [e \in Effects |->
                                IF @[e].status = "none" THEN [@[e] EXCEPT !.status = "pending"]
                                                        ELSE @[e]]]
                      ELSE effects

\* recordConflict: an outcome that is there already stays.
OverwriteOutcome(s) == outcomes' = [outcomes EXCEPT ![s] = "conflict"]  \* mutant: DO UPDATE

RecordConflict(s) ==
    outcomes' = [outcomes EXCEPT ![s] = IF @ = "none" THEN "conflict" ELSE @]

\* record: every attempt of an effect counts.
RecordEffect(s, e, status) ==
    effects' = [effects EXCEPT ![s][e] = [status |-> status, attempts |-> @.attempts + 1]]

\* reindexPublished: the row is rebuilt from what the page shows now.
IndexSnapshot(s) == found' = snapshots[s].revision  \* mutant: the snapshot's own revision

ReindexPublished(s) == found' = IF Active THEN RevisionOf(page.published) ELSE 0

\* deliverNotifications, to the watchers but the author.
Deliver(s) ==
    delivered' = delivered \cup {<<s, w>> : w \in Watchers \ {snapshots[s].by}}

\* archive and restore: the transition and the index change are one batch.
Archive ==
    /\ page' = IF Active THEN [page EXCEPT !.status = "archived", !.version = @ + 1] ELSE page
    /\ found' = 0

RestoreOnly ==  \* mutant: restored without its index row
    /\ page' = IF Active THEN page ELSE [page EXCEPT !.status = "active", !.version = @ + 1]
    /\ UNCHANGED found

Restore ==
    /\ page' = IF Active THEN page ELSE [page EXCEPT !.status = "active", !.version = @ + 1]
    /\ found' = RevisionOf(page.published)
=============================================================================
