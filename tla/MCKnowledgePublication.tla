----------------------- MODULE MCKnowledgePublication -----------------------
(***************************************************************************)
(* Three of Knowledge's questions, which share no variable: one page,      *)
(* whose owner is an editor of the space, the space's owner, and a call    *)
(* each; a visitor of two spaces; and the founders of a third.             *)
(***************************************************************************)
EXTENDS KnowledgeViews, KnowledgeReading

CONSTANTS author, boss, c1, c2, visitor, founder, rival, nearby, faraway, leaf1, leaf2, new

MCPeople == {author, boss}
MCTexts == {"text", "other text"}
MCSpaceOf == [p \in Leaves |-> IF p = leaf1 THEN nearby ELSE faraway]
MCOwnerOf == [p \in Leaves |-> IF p = leaf1 THEN visitor ELSE founder]

VARIABLE part   \* "publish", "read" or "found"
mcVars == <<part, knowledgeVars, readingVars>>

\* The visitor has any role nearby and is an editor far away or nobody; what is far away was
\* published to the organization, or was not written yet.
MCInit ==
    /\ PublicationInit /\ ReadingInit
    /\ members[faraway][visitor] \in {"none", "editor"}
    /\ leaves[leaf2].visibility \in {"none", "organization"}
    /\ part \in {"publish", "read", "found"}
    /\ part # "publish" => ~draft.wide
    /\ part = "read" => leaves[leaf1] # NoLeaf
    /\ part # "read" => /\ \A p \in Leaves : leaves[p] = NoLeaf
                        /\ \A s \in Spaces : members[s][visitor] = "none"

PublishPart(Action) == part = "publish" /\ Action /\ UNCHANGED <<part, readingVars>>
PublishBehaviours == PublishPart(PublicationNext)
ReadBehaviours == part \in {"read", "found"} /\ ReadingNext /\ UNCHANGED <<part, knowledgeVars>>
                  /\ IF part = "read" THEN founding' = founding ELSE changes' = changes /\ asks' = asks

MCNext == PublishBehaviours \/ ReadBehaviours
(* A request that was begun goes on until it ends (CallEnds excepted).     *)
MCSpec == MCInit /\ [][MCNext]_mcVars /\ \A c \in Calls : WF_mcVars(PublishPart(Step(c)))

(***************************************************************************)
(* Readers find the latest publication, by its page and by search, or      *)
(* nothing at all; they are shown what they may read, all of it, and only  *)
(* that, in spaces whose founder owns them.                                *)
(***************************************************************************)
ReadersAreServed ==
    /\ ReadersSeeTheLatest
    /\ ReadingTypeOK /\ OnlyReadableIsShown /\ NothingReadableIsMissed /\ SpacesHaveTheirFounder

(***************************************************************************)
(* What a run, the panel of its publication and the lists of what is to do *)
(* say is so, and what they offer is accepted.                             *)
(***************************************************************************)
ViewsAreTrue == RunsAreTrue /\ PanelIsTrue /\ OffersWork
=============================================================================
