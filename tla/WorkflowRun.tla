------------------------------ MODULE WorkflowRun ------------------------------
(***************************************************************************)
(* One durable workflow run: WorkflowRuntime (workflow-application/src/     *)
(* runtime.ts) over its row in D1 (workflow-d1/src/repositories.ts), driven *)
(* by the Cloudflare runner, resumptions and the cron sweeper.  Each is a   *)
(* worker that reads the row, calls the effect handlers one after the       *)
(* other, and writes what they reported if the row is still the one it      *)
(* read.  Its revision is kept as that: "fresh" says whether it is.         *)
(***************************************************************************)
EXTENDS WorkflowScheduler

CONSTANTS Workers,     \* runners, resumptions and sweepers at work
          Cases,       \* definitions with what their expressions come to
          YieldKinds,  \* effects a program may ask for
          MaxFaults    \* bound on failed calls and dead workers

ASSUME RunBounds ==
    /\ MaxFaults \in Nat /\ MaxEffects \in Nat
    /\ \A c \in Cases : IsDefinition(c.graph)

VARIABLES
    run,        \* workflow_runs.state_json
    wake,       \* wake_at is set: due at some time
    delivered,  \* completion_delivered
    told,       \* whether the parent was given the result
    admitted,   \* whether the run holds its concurrency lease
    events,     \* workflow_events, by key
    outside,    \* children and timers: effect id -> what has become of it
    pc,         \* worker -> where it is in advance
    call,       \* worker -> what its call of advance holds
    faults

vars == <<definition, data, run, wake, delivered, told, admitted, events, outside, pc, call, faults>>

Pcs == {"idle", "call", "save", "tell", "release", "record"}
Nothing == [fresh |-> FALSE, read |-> Fresh, todo |-> <<>>, news |-> <<>>]

(* workflowRunTransitionEvents: the ends of node runs, effects and the run  *)
(* that "after" has and "before" has not, the decisions and the requests.   *)
Ends(s) ==
    {<<"node", r, StatusOf(s, r)>> : r \in {r \in DOMAIN s.runs : StatusOf(s, r) \in NodeEnded}}
    \cup {<<"effect", e.id, e.status>> : e \in {e \in ToSet(s.effects) : ~InFlight(e)}}
    \cup (IF Ended(s) THEN {<<"run", s.status, s.error>>} ELSE {})
Others(s) == {<<"requested", e.id, e.kind>> : e \in ToSet(s.effects)}
             \cup {<<"decision", d[1], d[2]>> : d \in s.decided}

TransitionEvents(before, after) == (Ends(after) \cup Others(after)) \ (Ends(before) \cup Others(before))

(* start: the run is created where the kernel comes to first, with its      *)
(* lease, and due until its end has been told.                              *)
Init ==
    /\ \E c \in Cases : definition = c.graph /\ data \in c.data
    /\ run = Settle(Fresh)
    /\ wake = TRUE /\ delivered = FALSE /\ told = FALSE /\ admitted = TRUE
    /\ events = TransitionEvents(Fresh, run)
    /\ outside = <<>>
    /\ pc = [w \in Workers |-> "idle"] /\ call = [w \in Workers |-> Nothing]
    /\ faults = 0

-----------------------------------------------------------------------------
(* The row.                                                                 *)
NeedsPolling(s) == \E e \in ToPoll(s) : e.kind # "human_input"

OnlyWork(s, isDelivered) == ToDispatch(s) # {} \/ NeedsPolling(s)           \* mutant
(* wake_at as save computes it.                                             *)
WakeAt(s, isDelivered) ==
    IF Ended(s) THEN ~isDelivered \/ ToPropagate(s) # {}
    ELSE ToDispatch(s) # {} \/ NeedsPolling(s)

(* The update of the row, with its events in the same batch; every other    *)
(* worker's read is out of date from here on.                               *)
Write(w, s, isDelivered) ==
    /\ run' = s /\ delivered' = isDelivered /\ wake' = WakeAt(s, isDelivered)
    /\ events' = events \cup TransitionEvents(run, s)
    /\ pc' = [pc EXCEPT ![w] = "idle"]
    /\ call' = [v \in Workers |-> IF v = w THEN Nothing ELSE [call[v] EXCEPT !.fresh = FALSE]]

(* listDue *)
Due == wake /\ (~Ended(run) \/ ~delivered)

At(w, at) == pc[w] = at
Goto(w, at) == pc' = [pc EXCEPT ![w] = at] /\ UNCHANGED call
Return(w) == pc' = [pc EXCEPT ![w] = "idle"] /\ call' = [call EXCEPT ![w] = Nothing]

Row == <<run, wake, delivered, events>>
Fixed == <<definition, data>>

-----------------------------------------------------------------------------
Of(what, s, wanted(_)) ==
    LET chosen == SelectSeq(s.effects, wanted)
    IN  [i \in DOMAIN chosen |-> [what |-> what, effect |-> chosen[i]]]

(* What a round has to do: cancel outside, poll, and deliver; an effect     *)
(* that backs off only once its time has come.                              *)
Round(s, elapsed) ==
    LET cancels == Of("cancel", s, LAMBDA e : e \in ToPropagate(s))
        polls == Of("poll", s, LAMBDA e : e \in ToPoll(s))
        dispatches == Of("dispatch", s, LAMBDA e : e \in ToDispatch(s) /\ (elapsed \/ ~e.later))
    IN  IF Ended(s) THEN cancels ELSE cancels \o polls \o dispatches

(* Where a round goes on: the next call, the write of what was reported,    *)
(* and else the end of advance or, for a run read as ended, finish.         *)
NextPc(todo, news, ended) ==
    CASE todo # <<>> -> "call"
      [] todo = <<>> /\ news # <<>> -> "save"
      [] todo = <<>> /\ news = <<>> -> IF ended /\ ~delivered THEN "tell" ELSE "idle"

StartRound(w) ==
    /\ At(w, "idle")
    /\ \E elapsed \in BOOLEAN :
         LET todo == Round(run, elapsed)
             at == NextPc(todo, <<>>, Ended(run))
         IN  /\ at # "idle"
             /\ pc' = [pc EXCEPT ![w] = at]
             /\ call' = [call EXCEPT ![w] = [fresh |-> TRUE, read |-> run, todo |-> todo, news |-> <<>>]]
    /\ UNCHANGED <<Fixed, Row, told, admitted, outside, faults>>

(* advance: a resumption or the runner's next round at any time, and the    *)
(* sweeper when the row is due.                                             *)
Resumed(w) == ~Due /\ StartRound(w)
Sweep(w) == Due /\ StartRound(w)

Calling(w, what) == At(w, "call") /\ Head(call[w].todo).what = what
Asked(w) == Head(call[w].todo).effect

(* What a handler reported, as events for the kernel; only a run that has   *)
(* ended has anything to cancel.                                            *)
Reported(w, news) ==
    LET todo == Tail(call[w].todo)
        all == call[w].news \o news
    IN  /\ pc' = [pc EXCEPT ![w] = NextPc(todo, all, Head(call[w].todo).what = "cancel")]
        /\ call' = [call EXCEPT ![w] = [@ EXCEPT !.todo = todo, !.news = all]]

Event(type, e, outcome, code) == <<[type |-> type, id |-> e.id, outcome |-> outcome, code |-> code]>>
Dispatched(e) == Event("dispatched", e, "none", "none")
Waiting(e, reason) == Event("waiting", e, "none", reason)
Completed(e) == Event("ended", e, "completed", "none")
Failed(e, code) == Event("ended", e, "failed", code)

(* A call that fails for now leaves the effect for the next round.          *)
Unavailable(w) ==
    /\ At(w, "call") /\ faults < MaxFaults
    /\ faults' = faults + 1
    /\ Reported(w, <<>>)
    /\ UNCHANGED <<Fixed, Row, told, admitted, outside>>

Known(e) == e.id \in DOMAIN outside

(* The child's end is asked for, and the effect is done with.               *)
Cancel(w) ==
    /\ Calling(w, "cancel")
    /\ outside' = IF Known(Asked(w)) /\ outside[Asked(w).id] = "open"
                  THEN [outside EXCEPT ![Asked(w).id] = "cancelled"] ELSE outside
    /\ Reported(w, Event("propagated", Asked(w), "none", "none"))
    /\ UNCHANGED <<Fixed, Row, told, admitted, faults>>

AssumeExecuted(e) == Completed(e)                                         \* mutant
(* childStatusReport, and a timer that fires.                               *)
StatusReport(e) ==
    CASE outside[e.id] = "open" -> Waiting(e, IF e.kind = "timer" THEN "waiting_timer" ELSE "waiting_action")
      [] outside[e.id] = "executed" -> Completed(e)
      [] OTHER -> Failed(e, outside[e.id])

SameReason(w, e, report) == report[1].type = "waiting" /\ call[w].read.runs[e.run].reason = report[1].code

Poll(w) ==
    /\ Calling(w, "poll")
    /\ LET e == Asked(w)
       IN  IF ~Known(e) \/ SameReason(w, e, StatusReport(e)) THEN Reported(w, <<>>)
           ELSE Reported(w, StatusReport(e))
    /\ UNCHANGED <<Fixed, Row, told, admitted, outside, faults>>

(* The handlers.  A child is made or refused once for an effect and looked  *)
(* up after; a person is only waited for; a program yields or ends.         *)
DispatchAction(w) ==
    /\ Calling(w, "dispatch") /\ Asked(w).kind \in {"action", "timer"}
    /\ LET e == Asked(w)
       IN  \/ /\ ~Known(e)
              /\ outside' = (e.id :> "open") @@ outside
              /\ Reported(w, Dispatched(e) \o Waiting(e, IF e.kind = "timer" THEN "waiting_timer"
                                                         ELSE "waiting_action"))
           \/ Known(e) /\ Reported(w, Dispatched(e) \o StatusReport(e)) /\ UNCHANGED outside
           \/ /\ ~Known(e) /\ e.kind = "action"
              /\ \E code \in {"quota_exceeded", "retriable"} :
                   /\ outside' = (e.id :> code) @@ outside
                   /\ Reported(w, Dispatched(e) \o Failed(e, code))
    /\ UNCHANGED <<Fixed, Row, told, admitted, faults>>

DispatchHumanInput(w) ==
    /\ Calling(w, "dispatch") /\ Asked(w).kind = "human_input"
    /\ Reported(w, Dispatched(Asked(w)) \o Waiting(Asked(w), "waiting_input"))
    /\ UNCHANGED <<Fixed, Row, told, admitted, outside, faults>>

(* parseProgramResult: a yielded effect of another kind fails the program.  *)
Yieldable == YieldKinds \cap {"action", "llm", "timer", "human_input"}

DispatchProgram(w) ==
    /\ Calling(w, "dispatch") /\ Asked(w).kind = "program"
    /\ \/ Reported(w, Dispatched(Asked(w)) \o Completed(Asked(w)))
       \/ Reported(w, Dispatched(Asked(w)) \o Failed(Asked(w), "program_failed"))
       \/ \E kind \in Yieldable :
            Reported(w, Dispatched(Asked(w)) \o Event("yielded", Asked(w), "none", kind))
    /\ UNCHANGED <<Fixed, Row, told, admitted, outside, faults>>

DispatchLlm(w) ==
    /\ Calling(w, "dispatch") /\ Asked(w).kind = "llm"
    /\ \/ Reported(w, Dispatched(Asked(w)) \o Completed(Asked(w)))
       \/ Reported(w, Dispatched(Asked(w)) \o Failed(Asked(w), "budget_exhausted"))
    /\ UNCHANGED <<Fixed, Row, told, admitted, outside, faults>>

ReadOrNot(w) == TRUE                                                      \* mutant
AsRead(w) == call[w].fresh

(* The events of the round, one after the other, and the compare-and-set;   *)
(* in either case the next round starts from a new read.                    *)
Save(w) ==
    /\ At(w, "save")
    /\ IF AsRead(w)
       THEN \E s \in {FoldLeft(LAMBDA s, ev : Advance(s, ev), call[w].read, call[w].news)} :
              Write(w, s, delivered)
       ELSE Return(w) /\ UNCHANGED Row
    /\ UNCHANGED <<Fixed, told, admitted, outside, faults>>

-----------------------------------------------------------------------------
(* finish: the listener, the lease, then the flag.                          *)
Tell(w) ==
    /\ At(w, "tell")
    /\ told' = TRUE
    /\ Goto(w, "release")
    /\ UNCHANGED <<Fixed, Row, admitted, outside, faults>>

(* The parent has not recorded the acceptance yet: the row keeps its wake.  *)
NotYetAccepted(w) ==
    /\ At(w, "tell") /\ faults < MaxFaults
    /\ faults' = faults + 1
    /\ IF AsRead(w) THEN Write(w, call[w].read, FALSE)
       ELSE Return(w) /\ UNCHANGED Row
    /\ UNCHANGED <<Fixed, told, admitted, outside>>

Release(w) ==
    /\ At(w, "release")
    /\ admitted' = FALSE
    /\ Goto(w, "record")
    /\ UNCHANGED <<Fixed, Row, told, outside, faults>>

RecordDelivered(w) ==
    /\ At(w, "record")
    /\ IF AsRead(w) THEN Write(w, call[w].read, TRUE)
       ELSE Return(w) /\ UNCHANGED Row
    /\ UNCHANGED <<Fixed, told, admitted, outside, faults>>

Dies(w) ==
    /\ ~At(w, "idle") /\ faults < MaxFaults
    /\ faults' = faults + 1
    /\ Return(w)
    /\ UNCHANGED <<Fixed, Row, told, admitted, outside>>

-----------------------------------------------------------------------------
(* deliver and answerHumanInput read and write without a call in between,   *)
(* so the write that succeeds is made on the row as it is.                  *)
ApplyNow(ev) ==
    /\ \E s \in {Advance(run, ev)} :
         /\ run' = s /\ wake' = WakeAt(s, delivered)
         /\ events' = events \cup TransitionEvents(run, s)
    /\ call' = [w \in Workers |-> [call[w] EXCEPT !.fresh = FALSE]]
    /\ UNCHANGED pc

CancelRequested ==
    /\ ~Ended(run)
    /\ ApplyNow([type |-> "cancel"])
    /\ UNCHANGED <<Fixed, delivered, told, admitted, outside, faults>>

AnswerHumanInput ==
    /\ \E e \in ToPoll(run) :
         /\ e.kind = "human_input"
         /\ run.runs[e.run].status = "waiting" /\ run.runs[e.run].reason = "waiting_input"
         /\ ApplyNow(Completed(e)[1])
    /\ UNCHANGED <<Fixed, delivered, told, admitted, outside, faults>>

(* External: a child comes to its end, a timer's time comes.                *)
ChildEnds ==
    /\ \E id \in DOMAIN outside :
         /\ outside[id] = "open"
         /\ \E end \in {"executed", "failed"} : outside' = [outside EXCEPT ![id] = end]
    /\ UNCHANGED <<Fixed, Row, told, admitted, pc, call, faults>>

Work(w) ==
    \/ Cancel(w) \/ Poll(w) \/ DispatchAction(w) \/ DispatchHumanInput(w)
    \/ DispatchProgram(w) \/ DispatchLlm(w) \/ Save(w)
    \/ Tell(w) \/ Release(w) \/ RecordDelivered(w)

Next ==
    \/ \E w \in Workers :
         Resumed(w) \/ Sweep(w) \/ Work(w) \/ Unavailable(w) \/ NotYetAccepted(w) \/ Dies(w)
    \/ CancelRequested \/ AnswerHumanInput \/ ChildEnds

(* A call that has begun goes on, the cron runs every minute, and children  *)
(* and timers come to their end.                                            *)
Moves(w) == ~At(w, "idle") /\ \E at \in Pcs \ {pc[w]} : pc' = [pc EXCEPT ![w] = at]
Sweeps ==
    /\ Due
    /\ \E w \in Workers : At(w, "idle") /\ \E at \in Pcs \ {"idle"} : pc' = [pc EXCEPT ![w] = at]

Fairness == (\A w \in Workers : WF_pc(Moves(w))) /\ SF_pc(Sweeps) /\ WF_vars(ChildEnds)

Spec == Init /\ [][Next]_vars
FairSpec == Spec /\ Fairness

-----------------------------------------------------------------------------
(* The statuses of a run and its node runs, and what can be heard of the    *)
(* children outside.                                                        *)
RunStatuses == {"running", "waiting"} \cup RunEnded
NodeStatuses == {"pending", "ready", "running", "waiting"} \cup NodeEnded
WaitingReasons == {"none", "waiting_action", "waiting_input", "waiting_timer"}
EffectKinds == {"action", "program", "llm", "timer", "human_input"}
ChildStatuses == {"open", "executed", "failed", "cancelled", "quota_exceeded", "retriable"}

TypeOK ==
    /\ run.status \in RunStatuses
    /\ \A c \in DOMAIN run.scopes : run.scopes[c] \in {"running"} \cup RunEnded
    /\ \A r \in DOMAIN run.runs :
         run.runs[r].status \in NodeStatuses /\ run.runs[r].reason \in WaitingReasons
    /\ \A e \in ToSet(run.effects) : e.kind \in EffectKinds
    /\ \A id \in DOMAIN outside : outside[id] \in ChildStatuses
    /\ \A event \in events : event[1] \in {"node", "effect", "run", "requested", "decision"}
    /\ delivered \in BOOLEAN /\ wake \in BOOLEAN /\ \A w \in Workers : pc[w] \in Pcs

(* workflow-engine.md, kernel: a node has started only when all edges into  *)
(* it in its own scope are decided and one of them is active, and reads the *)
(* outputs of all that are, an edge is decided only by the end of its       *)
(* source, exactly one case of a branch is taken, and a loop has neither    *)
(* lost nor repeated an iteration.                                          *)
SourceEnded(k) ==
    LET edge == GraphOf(k[1]).edges[k[2]]
    IN  StatusOf(run, <<k[1], edge.source>>) \in {"succeeded", "skipped"}

NodesFollowEdges ==
    /\ \A k \in DOMAIN run.edges : SourceEnded(k)
    /\ \A r \in DOMAIN run.runs :
         StatusOf(run, r) \in {"running", "waiting", "succeeded", "failed"} =>
           LET in == Incoming(GraphOf(r[1]), r[2])
           IN  /\ \A e \in in : <<r[1], e>> \in DOMAIN run.edges
               /\ in # {} => \E e \in in : run.edges[<<r[1], e>>] = "active"
               /\ \A e \in in : run.edges[<<r[1], e>>] = "active" =>
                    <<r[1], GraphOf(r[1]).edges[e].source>> \in Readable(run, r[1])
    /\ \A r \in DOMAIN run.runs :
         NodeOf(r).type = "branch" /\ StatusOf(run, r) = "succeeded" =>
           \A e \in Outgoing(GraphOf(r[1]), r[2]) :
              run.edges[<<r[1], e>>] = "active" <=> GraphOf(r[1]).edges[e].branch = data.value[r[2]]
    /\ \A r \in DOMAIN run.runs :
         NodeOf(r).type = "for_each" /\ StatusOf(run, r) = "succeeded" =>
           {c \in DOMAIN run.scopes : c # Root /\ LoopRunOf(c) = r /\ run.scopes[c] = "succeeded"}
             = {Append(r[1], <<r[2], i>>) : i \in 0..(data.value[r[2]] - 1)}

(* A run that has ended has nothing running in it, at any depth: no scope,  *)
(* node run or effect is left open by fail-fast or a cancel; a run that     *)
(* goes on has an effect to go on with; and a valid graph never stalls.     *)
EndedRunIsQuiet ==
    /\ Ended(run) => /\ \A c \in DOMAIN run.scopes : run.scopes[c] # "running"
                     /\ \A r \in DOMAIN run.runs : StatusOf(run, r) \in NodeEnded
                     /\ \A i \in DOMAIN run.effects : ~InFlight(run.effects[i])
    /\ ~Ended(run) => \E i \in DOMAIN run.effects : InFlight(run.effects[i])
    /\ ValidDefinition(definition) => run.error # "scheduler_stalled"

(* What a node run is given as its result is what happened outside: an      *)
(* action completed only if its child was executed, whichever worker saw it *)
(* and however late.                                                        *)
ResultsAreTrue ==
    \A e \in ToSet(run.effects) :
       /\ e.kind \in {"action", "timer"} /\ e.status = "completed" =>
             Known(e) /\ outside[e.id] = "executed"
       /\ e.kind = "action" /\ Known(e) /\ outside[e.id] = "executed" /\ ~InFlight(e) =>
             e.status \in {"completed", "cancelled"}

(* The graph is followed, on results that are true, and an end is an end.   *)
RunIsSound == TypeOK /\ NodesFollowEdges /\ ResultsAreTrue /\ EndedRunIsQuiet

(* What is decided stays decided, over retries, crashes and two workers at  *)
(* once: ends of nodes and effects, the edges taken, the end of the run;    *)
(* and the journal has what the row has come to, no more and no less.       *)
DecidedIsFinal ==
    [][/\ \A r \in DOMAIN run.runs : StatusOf(run, r) \in NodeEnded => run'.runs[r] = run.runs[r]
       /\ \A k \in DOMAIN run.edges : run'.edges[k] = run.edges[k]
       /\ \A i \in DOMAIN run.effects :
            ~InFlight(run.effects[i]) => run'.effects[i].status = run.effects[i].status
       /\ events' = Ends(run') \cup Others(run')
       /\ Ended(run) => run'.status = run.status]_vars

(* Every run ends and its end reaches the parent and frees the lease, if    *)
(* the children and timers do and no person is asked in vain, whoever has   *)
(* died.                                                                    *)
Asking == \E e \in ToPoll(run) : e.kind = "human_input"
RunEndsAndIsTold == <>(Ended(run) /\ told /\ delivered /\ ~admitted) \/ <>[]Asking

=============================================================================
