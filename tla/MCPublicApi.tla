------------------------------ MODULE MCPublicApi ------------------------------
(* The operations that write, the inbox, the administration console and the *)
(* access to OpenFGA share no variable: a behaviour of the run is a         *)
(* behaviour of one of them.                                                *)
EXTENDS PublicApi, TaskInbox, AuthorizationConsole, TLC

ApiRests == (\A c \in Calls : at[c] = "new") /\ task = "open" /\ now = 0
InboxRests == listing.page = "more" /\ \A t \in Tasks : tasks[t] = "absent"
ConsoleRests == walk = NoWalk /\ audit = <<>>
FgaRests == instant = 0 /\ secret = Unset /\ \A a \in Askers : ask[a].pc = "new"

(* Decisions and creations share neither keys, nor windows, nor what they   *)
(* write: a behaviour has calls of one of the two.                          *)
OneOperation ==
    \E keys \in {DecisionKeys, CreateKeys} : \A c \in Calls : Key(c) \in keys \cup {"none"}

ApiBehaviours ==
    /\ InboxRests /\ ConsoleRests /\ FgaRests
    /\ Next /\ OneOperation' /\ UNCHANGED <<inboxVars, consoleVars, fgaVars>>
InboxBehaviours ==
    /\ ApiRests /\ ConsoleRests /\ FgaRests
    /\ InboxNext /\ UNCHANGED <<vars, consoleVars, fgaVars>>
ConsoleBehaviours ==
    /\ ApiRests /\ InboxRests /\ FgaRests
    /\ ConsoleNext /\ UNCHANGED <<vars, inboxVars, fgaVars>>
FgaBehaviours ==
    /\ ApiRests /\ InboxRests /\ ConsoleRests
    /\ FgaNext /\ UNCHANGED <<vars, inboxVars, consoleVars>>

MCInit == Init /\ InboxInit /\ ConsoleInit /\ FgaInit
MCNext == ApiBehaviours \/ InboxBehaviours \/ ConsoleBehaviours \/ FgaBehaviours
MCSpec == MCInit /\ [][MCNext]_<<vars, inboxVars, consoleVars, fgaVars>>

Alike == Permutations(Calls) \cup Permutations(Askers)

(* Every listing shows what was there all along, once where nothing moves   *)
(* back, and what the console shows of a tuple's history holds together.    *)
ListingsAreComplete == InboxIsComplete /\ ConsoleShowsAll /\ AuditTellsOneStory /\ DetailIsRecent

(* A token out of the cache outlasts its use - one of an exchange a caller  *)
(* shared with others is taken as it comes -, organizations do not meet in  *)
(* OpenFGA, no update touches who may use the console, and errors never     *)
(* allow.  The last three are facts about the translation of names, the     *)
(* guard of updates and the answers of checks, whatever the state.          *)
AccessIsGoverned == /\ TokensOutlastTheirUse /\ TenantsAreApart
                    /\ UpdatesAreGoverned /\ FailsClosed
=============================================================================
