--------------------------- MODULE KnowledgeReading ---------------------------
(***************************************************************************)
(* What Knowledge shows to whom.  A page view asks pageAccess              *)
(* (packages/knowledge-core/src/authorization.ts) about a row it loaded;   *)
(* listings and searches carry the same rules as conditions of their SQL   *)
(* (packages/knowledge-d1/src/search-repository.ts).  A request of the     *)
(* service (apps/knowledge/src/server/service.ts) is several statements,   *)
(* between which pages are edited, published and archived, and spaces are  *)
(* founded.  A text is a number, and so is the revision that has it.       *)
(***************************************************************************)
EXTENDS Naturals, FiniteSets

CONSTANTS Visitors,     \* who reads
          Founders,     \* who creates spaces
          Spaces,       \* keys of spaces
          NewSpace,     \* the key the founders want
          Leaves,       \* pages
          LeafTexts,    \* a subset of Nat \ {0}
          SpaceOf, OwnerOf,   \* of each page
          RowLimit,     \* LIMIT of a listing
          MaxChanges    \* how often pages change

ASSUME ReadingBounds ==
    /\ LeafTexts \subseteq Nat \ {0} /\ LeafTexts # {}
    /\ SpaceOf \in [Leaves -> Spaces] /\ NewSpace \notin Spaces
    /\ "nobody" \notin Founders

VARIABLES members,      \* the role of everyone in each space
          founded,      \* [by, name] of the new space
          scheduled,    \* maintenance of the new space is registered
          leaves,       \* the row of each page, with its draft
          indexed,      \* the revision in its published index row, 0 without one
          founding,     \* what each founder does
          asks,         \* the request of each visitor
          past,         \* what there was to read since each request began
          changes

readingVars == <<members, founded, scheduled, leaves, indexed, founding, asks, past, changes>>

SpaceRoles == {"viewer", "editor", "owner", "none"}
Visibilities == {"organization", "space", "private"}
Everyone == Visitors \cup Founders

NoLeaf == [status |-> "absent", published |-> 0, visibility |-> "none", draft |-> 0, wants |-> "none"]
LeafRows == [status : {"absent", "active", "archived"}, published : LeafTexts \cup {0},
             visibility : Visibilities \cup {"none"}, draft : LeafTexts \cup {0},
             wants : Visibilities \cup {"none"}]

(***************************************************************************)
(* authorization.ts: decided about a row in memory.                        *)
(***************************************************************************)
ReadsDrafts(role) == role \in {"editor", "owner"}

CanReadPublished(who, rolesOf, p, row) ==
    /\ row.published # 0
    /\ CASE row.visibility = "organization" -> TRUE
         [] row.visibility = "space" -> rolesOf[SpaceOf[p]] # "none"
         [] row.visibility = "private" -> OwnerOf[p] = who \/ rolesOf[SpaceOf[p]] = "owner"
         [] OTHER -> FALSE

CanReadDraft(rolesOf, p, row) == row.status # "absent" /\ ReadsDrafts(rolesOf[SpaceOf[p]])
CanReadHistory(rolesOf, p) == rolesOf[SpaceOf[p]] = "owner"
CanSee(who, rolesOf, p, row) == CanReadPublished(who, rolesOf, p, row) \/ CanReadDraft(rolesOf, p, row)

(***************************************************************************)
(* readScope and search-repository.ts: decided in the database.            *)
(***************************************************************************)
ReadScope(who, rolesOf) ==
    [principal |-> who,
     member |-> {s \in Spaces : rolesOf[s] # "none"},
     owner |-> {s \in Spaces : rolesOf[s] = "owner"},
     authoring |-> {s \in Spaces : ReadsDrafts(rolesOf[s])}]

MembersReadPrivate(scope, p, row) ==  \* mutant: the wrong list is bound
    /\ row.status = "active" /\ row.published # 0
    /\ \/ row.visibility = "organization"
       \/ row.visibility = "space" /\ SpaceOf[p] \in scope.member
       \/ row.visibility = "private" /\ (OwnerOf[p] = scope.principal \/ SpaceOf[p] \in scope.member)

ReadablePublished(scope, p, row) ==
    /\ row.status = "active" /\ row.published # 0
    /\ \/ row.visibility = "organization"
       \/ row.visibility = "space" /\ SpaceOf[p] \in scope.member
       \/ row.visibility = "private" /\ (OwnerOf[p] = scope.principal \/ SpaceOf[p] \in scope.owner)

ReadableAuthoring(scope, p, row) == row.status = "active" /\ SpaceOf[p] \in scope.authoring

\* The rows a statement matches; `in` is the set of spaces it is asked about.  A word is a text.
ListPublished(scope, in) == {p \in Leaves : SpaceOf[p] \in in /\ ReadablePublished(scope, p, leaves[p])}
ListAuthoring(scope, in) == {p \in Leaves : SpaceOf[p] \in in /\ ReadableAuthoring(scope, p, leaves[p])}
SearchPublished(scope, in, word) ==
    {p \in ListPublished(scope, in) : indexed[p] = leaves[p].published /\ indexed[p] = word}
SearchAuthoring(scope, in, word) == {p \in ListAuthoring(scope, in) : leaves[p].draft = word}
\* Related pages share a tag with the page, backlinks link to it: here every page does both.
Related(scope, p) == ListPublished(scope, Spaces) \ {p}
TagsOf(scope, in) ==
    {<<p, "published", leaves[p].published>> : p \in ListPublished(scope, in)}
    \cup {<<p, "draft", leaves[p].draft>> : p \in ListAuthoring(scope, in)}

\* The first rows, in whatever order they are sorted.
Limited(rows) == {S \in SUBSET rows : Cardinality(S) = RowLimit \/ (S = rows /\ Cardinality(S) < RowLimit)}

(***************************************************************************)
(* Requests.                                                               *)
(***************************************************************************)
PageViews == {"page", "edit", "history"}
ListingViews == {"home", "space", "search"}
NoAsk == [at |-> "idle"]

ReadingTypeOK ==
    /\ members \in [Spaces \cup {NewSpace} -> [Everyone -> SpaceRoles]]
    /\ leaves \in [Leaves -> LeafRows] /\ indexed \in [Leaves -> LeafTexts \cup {0}]
    /\ scheduled \in BOOLEAN
    /\ \A v \in Visitors : asks[v].at \in {"idle", "load", "rest", "lists", "answered"}
    /\ \A f \in Founders : founding[f] \in {"idle", "taken", "grant", "schedule", "answered"}

\* A page was never written, or is published and indexed as it was drafted.
ShownLeaf(t, w) == [status |-> "active", published |-> t, visibility |-> w, draft |-> t, wants |-> w]
FirstLeaves == {NoLeaf} \cup {ShownLeaf(CHOOSE t \in LeafTexts : TRUE, w) : w \in Visibilities}

ReadingInit ==
    /\ \E given \in [Spaces -> [Visitors -> SpaceRoles]] :
        members = [s \in Spaces \cup {NewSpace} |->
                      [e \in Everyone |-> IF s # NewSpace /\ e \in Visitors THEN given[s][e] ELSE "none"]]
    /\ founded = [by |-> "nobody", name |-> ""] /\ scheduled = FALSE
    /\ leaves \in [Leaves -> FirstLeaves] /\ indexed = [p \in Leaves |-> leaves[p].published]
    /\ founding = [f \in Founders |-> "idle"]
    /\ asks = [v \in Visitors |-> NoAsk] /\ past = [v \in Visitors |-> {}]
    /\ changes = 0

Roles(who) == [s \in Spaces |-> members[s][who]]
Scope(v) == ReadScope(v, asks[v].roles)
At(v, step) == asks[v].at = step
Showing(v, step, items) == asks' = [asks EXCEPT ![v].at = step, ![v].seen = @ \cup items]
PublishedRows(rows) == {<<p, "published", leaves[p].published>> : p \in rows}
DraftRows(rows) == {<<p, "draft", leaves[p].draft>> : p \in rows}

ReadOnly == UNCHANGED <<members, founded, scheduled, leaves, indexed, founding, changes>>

(***************************************************************************)
(* One page.  The caller's roles are read first, once for the request, and *)
(* an unreadable page is answered like an unknown one.                     *)
(***************************************************************************)
AskPage(v) ==
    /\ At(v, "idle")
    /\ \E view \in PageViews, p \in Leaves :
        asks' = [asks EXCEPT ![v] = [at |-> "load", view |-> view, page |-> p, row |-> NoLeaf,
                                     roles |-> Roles(v), seen |-> {}]]
    /\ ReadOnly

\* loadPage, and what each view asks of the access it gets.
LoadPage(v) ==
    LET p == asks[v].page
        row == leaves[p]
        rolesOf == asks[v].roles
        refused == \/ ~CanSee(v, rolesOf, p, row)
                   \/ asks[v].view = "edit" /\ ~(row.status = "active" /\ CanReadDraft(rolesOf, p, row))
                   \/ asks[v].view = "history" /\ ~CanReadHistory(rolesOf, p)
    IN  IF refused THEN Showing(v, "answered", {})
        ELSE asks' = [asks EXCEPT ![v].at = "rest", ![v].row = row,
                 ![v].seen = IF CanReadPublished(v, rolesOf, p, row)
                             THEN {<<p, "published", row.published>>} ELSE {}]

Load(v) == At(v, "load") /\ LoadPage(v) /\ ReadOnly

\* The views go on with the access of the row they loaded.
DraftToo(v) == IF CanReadDraft(asks[v].roles, asks[v].page, asks[v].row) THEN DraftRows({asks[v].page}) ELSE {}

ViewPage(v) ==
    /\ At(v, "rest") /\ asks[v].view = "page"
    /\ Showing(v, "answered", DraftToo(v) \cup PublishedRows(Related(Scope(v), asks[v].page)))
    /\ ReadOnly

ViewEdit(v) ==
    /\ At(v, "rest") /\ asks[v].view = "edit"
    /\ Showing(v, "answered", DraftToo(v))
    /\ ReadOnly

ViewHistory(v) == At(v, "rest") /\ asks[v].view = "history" /\ Showing(v, "answered", {}) /\ ReadOnly

(***************************************************************************)
(* Listings: statements still to do, rows found, rows left out by a limit. *)
(***************************************************************************)
AskListing(v, view, in, word, todo) ==
    /\ At(v, "idle")
    /\ asks' = [asks EXCEPT ![v] = [at |-> "lists", view |-> view, word |-> word, in |-> in, roles |-> Roles(v),
                                    seen |-> {}, hits |-> {}, full |-> FALSE, todo |-> todo]]
    /\ ReadOnly

Lists(v, view, statement) == At(v, "lists") /\ asks[v].view = view /\ statement \in asks[v].todo

Listed(v, statement, hits, items, cut) ==
    /\ asks' = [asks EXCEPT ![v].at = IF asks[v].todo = {statement} THEN "answered" ELSE @,
                            ![v].todo = @ \ {statement}, ![v].full = @ \/ cut,
                            ![v].hits = @ \cup hits, ![v].seen = @ \cup items]
    /\ ReadOnly

\* The first rows, without those of spaces whose rows are not for this list.
ListedRows(v, statement, rows, hidden) ==
    \E first \in Limited(rows) :
        LET shown == {p \in first : SpaceOf[p] \notin hidden}
        IN  Listed(v, statement, shown,
                   IF statement = "published" THEN PublishedRows(shown) ELSE DraftRows(shown), first # rows)

ListedTags(v, in) == Listed(v, "tags", {}, TagsOf(Scope(v), in), FALSE)

AnyWord == CHOOSE w \in LeafTexts : TRUE

AskHome(v) == AskListing(v, "home", Spaces, AnyWord, {"published", "authoring"})

Home(v) ==
    \/ Lists(v, "home", "published") /\ ListedRows(v, "published", ListPublished(Scope(v), Spaces), {})
    \/ Lists(v, "home", "authoring") /\ ListedRows(v, "authoring", ListAuthoring(Scope(v), Spaces), {})

\* spaceDetail wants a role in its space, and lists drafts to who may read them, else what is
\* published; then its tags.
AskSpace(v) ==
    \E s \in Spaces :
        /\ Roles(v)[s] # "none"
        /\ AskListing(v, "space", {s}, AnyWord, {IF ReadsDrafts(Roles(v)[s]) THEN "authoring" ELSE "published", "tags"})

SpaceDetail(v) ==
    \/ Lists(v, "space", "published") /\ ListedRows(v, "published", ListPublished(Scope(v), asks[v].in), {})
    \/ Lists(v, "space", "authoring") /\ ListedRows(v, "authoring", ListAuthoring(Scope(v), asks[v].in), {})
    \/ Lists(v, "space", "tags") /\ asks[v].todo = {"tags"} /\ ListedTags(v, asks[v].in)

\* The filter of a search resolves only spaces the caller is a member of.
AskSearch(v) ==
    \E word \in LeafTexts, in \in {Spaces} \cup {{s} : s \in {t \in Spaces : Roles(v)[t] # "none"}} :
        AskListing(v, "search", in, word, {"tags", "published", "authoring"})

\* Who reads the drafts of a space is shown those, never what is published of them.
Search(v) ==
    \/ Lists(v, "search", "tags") /\ ListedTags(v, Spaces)
    \/ /\ Lists(v, "search", "published") /\ "tags" \notin asks[v].todo
       /\ ListedRows(v, "published", SearchPublished(Scope(v), asks[v].in, asks[v].word), Scope(v).authoring)
    \/ /\ Lists(v, "search", "authoring") /\ "tags" \notin asks[v].todo
       /\ ListedRows(v, "authoring", SearchAuthoring(Scope(v), asks[v].in, asks[v].word), {})

(***************************************************************************)
(* What others do to pages meanwhile, each one statement of the store.     *)
(***************************************************************************)
ChangePage(p, row, index) ==
    /\ changes < MaxChanges /\ changes' = changes + 1
    /\ leaves' = [leaves EXCEPT ![p] = row]
    /\ indexed' = [indexed EXCEPT ![p] = index]
    /\ UNCHANGED <<members, founded, scheduled, founding, asks>>

\* createPage
CreatePage(p) ==
    /\ leaves[p] = NoLeaf
    /\ \E t \in LeafTexts : ChangePage(p, [NoLeaf EXCEPT !.status = "active", !.draft = t, !.wants = "space"], 0)

EditPage(p) ==
    /\ leaves[p].status = "active"
    /\ \E t \in LeafTexts, w \in Visibilities :
        /\ <<t, w>> # <<leaves[p].draft, leaves[p].wants>>
        /\ ChangePage(p, [leaves[p] EXCEPT !.draft = t, !.wants = w], indexed[p])

\* The page changes first; its index row follows with the reindex.
PublishPage(p) ==
    /\ leaves[p].status = "active"
    /\ ChangePage(p, [leaves[p] EXCEPT !.published = leaves[p].draft,
                                       !.visibility = leaves[p].wants], indexed[p])

IndexPage(p) ==
    /\ leaves[p].status = "active" /\ indexed[p] # leaves[p].published
    /\ ChangePage(p, leaves[p], leaves[p].published)

ArchivePage(p) ==
    /\ leaves[p].status = "active"
    /\ ChangePage(p, [leaves[p] EXCEPT !.status = "archived"], 0)

ReturnPage(p) ==
    /\ leaves[p].status = "archived"
    /\ ChangePage(p, [leaves[p] EXCEPT !.status = "active"], leaves[p].published)

(***************************************************************************)
(* createSpace: three calls, and a repeat of one's own goes on with them.  *)
(***************************************************************************)
NextStep(f, step) == founding' = [founding EXCEPT ![f] = step]

OwnRepeat(f, name) == founded.by = f /\ founded.name = name

CreateSpace(f, name) ==
    /\ founding[f] = "idle"
    /\ IF founded.by = "nobody"
       THEN founded' = [by |-> f, name |-> name] /\ NextStep(f, "grant")
       ELSE UNCHANGED founded /\ NextStep(f, IF OwnRepeat(f, name) THEN "grant" ELSE "taken")
    /\ UNCHANGED <<members, scheduled, leaves, indexed, asks, changes>>

GrantOwner(f) ==
    /\ founding[f] = "grant"
    /\ members' = [members EXCEPT ![NewSpace][f] = "owner"]
    /\ NextStep(f, "schedule")
    /\ UNCHANGED <<founded, scheduled, leaves, indexed, asks, changes>>

\* registerMaintenanceSchedule wants the owner it is called for.
RegisterMaintenance(f) ==
    /\ founding[f] = "schedule" /\ members[NewSpace][f] = "owner"
    /\ scheduled' = TRUE
    /\ NextStep(f, "answered")
    /\ UNCHANGED <<members, founded, leaves, indexed, asks, changes>>

\* The request ends between two of its calls; the founder may ask again.
FoundingEnds(f) ==
    /\ founding[f] \in {"taken", "grant", "schedule"}
    /\ NextStep(f, "idle")
    /\ UNCHANGED <<members, founded, scheduled, leaves, indexed, asks, changes>>

Visiting(v) ==
    \/ AskPage(v) \/ Load(v) \/ ViewPage(v) \/ ViewEdit(v) \/ ViewHistory(v)
    \/ AskHome(v) \/ Home(v) \/ AskSpace(v) \/ SpaceDetail(v) \/ AskSearch(v) \/ Search(v)
Changing(p) == CreatePage(p) \/ EditPage(p) \/ PublishPage(p) \/ IndexPage(p) \/ ArchivePage(p) \/ ReturnPage(p)
Founding(f) ==
    \/ \E name \in {"handbook", "other"} : CreateSpace(f, name)
    \/ GrantOwner(f) \/ RegisterMaintenance(f) \/ FoundingEnds(f)

ReadingNext ==
    /\ (\E v \in Visitors : Visiting(v)) \/ (\E p \in Leaves : Changing(p)) \/ (\E f \in Founders : Founding(f))
    /\ past' = [v \in Visitors |-> IF asks'[v].at = "idle" THEN {} ELSE past[v] \cup {<<leaves', indexed'>>}]

ReadingSpec == ReadingInit /\ [][ReadingNext]_readingVars

(***************************************************************************)
(* Properties.                                                             *)
(***************************************************************************)
\* What authorization.ts lets someone read of rows as they were.
MayRead(v, rolesOf, rows) ==
    {<<p, "published", rows[p].published>> : p \in {q \in Leaves : CanReadPublished(v, rolesOf, q, rows[q])}}
    \cup {<<p, "draft", rows[p].draft>> : p \in {q \in Leaves : CanReadDraft(rolesOf, q, rows[q])}}

\* Whatever a request shows (a page, a draft, a search hit, a related page, a tag) its reader
\* was allowed to read at a moment of that request, by the roles it began with; a listing shows
\* nothing of pages that were archived throughout.
OnlyReadableIsShown ==
    \A v \in Visitors : ~At(v, "idle") =>
        \A item \in asks[v].seen : \E world \in past[v] :
            /\ item \in MayRead(v, asks[v].roles, world[1])
            /\ asks[v].view \in ListingViews => world[1][item[1]].status = "active"

\* A page that matched a search throughout and was readable throughout is found, whether its
\* reader is shown drafts of its space or what is published, unless a statement had more rows
\* than it may answer with.
Found(v, p, world) ==
    LET row == world[1][p]
        rolesOf == asks[v].roles
    IN  /\ row.status = "active" /\ SpaceOf[p] \in asks[v].in
        /\ IF ReadsDrafts(rolesOf[SpaceOf[p]]) THEN row.draft = asks[v].word
           ELSE CanReadPublished(v, rolesOf, p, row) /\ world[2][p] = row.published /\ row.published = asks[v].word

NothingReadableIsMissed ==
    \A v \in Visitors : At(v, "answered") /\ asks[v].view = "search" /\ ~asks[v].full =>
        \A p \in Leaves : (\A world \in past[v] : Found(v, p, world)) => p \in asks[v].hits

\* Only who created the space under its key owns it, however often and by whomever its
\* creation was asked, and one that was answered has its owner and its maintenance.
SpacesHaveTheirFounder ==
    \A f \in Founders :
        /\ members[NewSpace][f] = "owner" => founded.by = f
        /\ founding[f] = "answered" => scheduled /\ members[NewSpace][f] = "owner"
=============================================================================
