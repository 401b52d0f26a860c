------------------------ MODULE McpInvocation_proofs ------------------------
(***************************************************************************)
(* For any number of handlers, requests and faults, leases that run out    *)
(* under their handlers among them: the types, that the executor is called *)
(* at most once, and that a given answer is final.  The invariant has a    *)
(* part for the row, for each handler, for the lease tokens and for the    *)
(* execution.  A second one (Founded) says what a handler's answer rests   *)
(* on, and gives that answers are founded.  A third (Honoured), of the     *)
(* time before any lease runs out early, says what the one working handler *)
(* knows of the row: a call stands for one request and is answered truly.  *)
(*                                                                         *)
(* The second half is about Knowledge, whose publications run as such      *)
(* executions: for any texts, people, spaces and pages, readers are shown  *)
(* the latest publication, what they may read and only that.  KnowledgeInv *)
(* is its invariant of the store, the runs and the calls, ReadingInv that  *)
(* of the readers' requests and of the founding of a space, and ViewInv    *)
(* that of what the copies of a run say of its publication.                *)
(***************************************************************************)
EXTENDS McpInvocation, MCKnowledgePublication, FiniteSetTheorems, TLAPS

Final == {"committed", "completed"}
Kinds == {"none", "immediate", "approval"}
Rows == [column: Statuses, status: Statuses, lease: {"held", "expired"},
         request: Requests \cup {Nobody}, kind: Kinds, response: Answers]
Pcs == {"idle", "take", "withdraw", "admit"} \cup Committing
HandlerSet == [pc: Pcs, intent: {"none", "call", "poll", "cancel"}, current: BOOLEAN,
               resume: BOOLEAN, request: Requests \cup {Nobody}, kind: Kinds, copy: Rows,
               response: Answers \cup {"accepted", "allow"}]

(* A prepared row names its request.                                        *)
Placed(row) == row.status = "prepared" => row.request \in Requests

(* The column and the status in the JSON may differ, but not in whether the *)
(* invocation is there and unfinished; a finished row's lease is given up.  *)
RowOK ==
    /\ inv \in Rows /\ Placed(inv)
    /\ inv.column = "absent" <=> inv.status = "absent"
    /\ inv.column \in Unfinished <=> inv.status \in Unfinished
    /\ inv.status \in Final => inv.lease = "expired"

(* A handler, with the plans "ps" and the log "l" it acts on.               *)
HandlerOK(x, ps, l) ==
    /\ x \in HandlerSet
    /\ x.pc = "take" => x.copy.status \in Unfinished /\ Placed(x.copy)
    /\ x.pc = "plan" => x.request \in Requests
    /\ x.pc = "start" => x.request \in ps
    /\ x.pc \in {"take", "withdraw", "admit", "plan", "start", "reauthorize", "finish"}
         => x.response \in Answers
    /\ x.pc = "record" => x.response \in Outcomes \cup {"accepted"}
    /\ x.pc = "execute" => HasKey(l, Reauthorized)

HandlersOK == h \in [Handlers -> HandlerSet] /\ \A w \in Handlers : HandlerOK(h[w], plans, log)

IsWorking(x) == x.current /\ x.pc \notin {"idle", "take"}

(* At most one handler works under the row's token, and only on a row that  *)
(* is not finished.                                                         *)
TokensOK ==
    /\ \A v, w \in Handlers : IsWorking(h[v]) /\ IsWorking(h[w]) => v = w
    /\ \A w \in Handlers : IsWorking(h[w]) => inv.status \in Unfinished

(* Whoever may call the executor has put its evidence in the log, and       *)
(* nobody has called it before.                                             *)
ExecutionOK ==
    /\ calls \in Nat /\ calls <= 1
    /\ calls = 1 => HasKey(log, Reauthorized)
    /\ \A w \in Handlers : h[w].pc = "execute" => calls = 0
    /\ \A v, w \in Handlers : h[v].pc = "execute" /\ h[w].pc = "execute" => v = w

Troubles == [count: 0..MaxFaults, overrun: BOOLEAN]

DataOK == plans \subseteq Requests /\ started \subseteq plans
          /\ result \in {"none"} \cup Outcomes /\ faults \in Troubles

IInv == RowOK /\ HandlersOK /\ TokensOK /\ ExecutionOK /\ DataOK

-----------------------------------------------------------------------------
(* What every step leaves alone: plans and evidence are never taken back,   *)
(* a finished row is not touched.                                           *)
Grows == plans \subseteq plans' /\ (HasKey(log, Reauthorized) => HasKey(log, Reauthorized)')

LEMMA InsertKeeps ==
    ASSUME NEW l, NEW e, NEW f
    PROVE  /\ HasKey(l, f) => HasKey(Insert(l, e), f)
           /\ HasKey(Insert(l, e), e)
  <1>1. CASE HasKey(l, e)
    BY <1>1 DEF Insert
  <1>2. CASE ~HasKey(l, e)
    <2>1. Insert(l, e).events = l.events \cup {e}
      BY <1>2 DEF Insert
    <2>2. SameKey(e, e)
      BY DEF SameKey
    <2> QED BY <2>1, <2>2 DEF HasKey
  <1> QED BY <1>1, <1>2

LEMMA HandlerGrows ==
    ASSUME NEW x, HandlerOK(x, plans, log), Grows
    PROVE  HandlerOK(x, plans', log')
BY DEF HandlerOK, Grows

(* One handler moves to "row", the others at most lose their token.         *)
Turn(w, row) ==
    /\ h' \in [Handlers -> HandlerSet] /\ h'[w] = row
    /\ \A v \in Handlers \ {w} : h'[v] = h[v]

Granting(w, row) ==
    /\ h' \in [Handlers -> HandlerSet] /\ h'[w] = row
    /\ \A v \in Handlers \ {w} : h'[v] = [h[v] EXCEPT !.current = FALSE]

LEMMA TurnIntro ==
    ASSUME HandlersOK, NEW w \in Handlers, NEW row \in HandlerSet, h' = [h EXCEPT ![w] = row]
    PROVE  Turn(w, row)
BY DEF HandlersOK, Turn

LEMMA TurnHandlers ==
    ASSUME HandlersOK, Grows, NEW w \in Handlers, NEW row, HandlerOK(row, plans', log'),
           Turn(w, row) \/ Granting(w, row)
    PROVE  HandlersOK'
  <1>1. ASSUME NEW v \in Handlers
        PROVE  HandlerOK(h'[v], plans', log')
    <2>1. CASE v = w
      BY <2>1 DEF Turn, Granting
    <2>2. CASE v # w
      <3>1. HandlerOK(h[v], plans, log)
        BY DEF HandlersOK
      <3>2. HandlerOK([h[v] EXCEPT !.current = FALSE], plans, log)
        <4> DEFINE x == [h[v] EXCEPT !.current = FALSE]
        <4>1. h[v] \in HandlerSet
          BY <3>1 DEF HandlerOK
        <4>2. x \in HandlerSet
          BY <4>1 DEF HandlerSet
        <4>3. x.pc = h[v].pc /\ x.request = h[v].request /\ x.copy = h[v].copy
              /\ x.response = h[v].response
          BY <4>1 DEF HandlerSet
        <4> HIDE DEF x
        <4>4. HandlerOK(x, plans, log)
          BY <3>1, <4>2, <4>3 DEF HandlerOK
        <4> QED BY <4>4 DEF x
      <3>3. h'[v] = h[v] \/ h'[v] = [h[v] EXCEPT !.current = FALSE]
        BY <2>2 DEF Turn, Granting
      <3> QED BY <3>1, <3>2, <3>3, HandlerGrows
    <2> QED BY <2>1, <2>2
  <1> QED BY <1>1 DEF HandlersOK, Turn, Granting

-----------------------------------------------------------------------------
(* Tokens.                                                                  *)

(* A turn that gives nobody a token, on a row that stays unfinished unless  *)
(* its holder was the one who finished it and stopped.                      *)
LEMMA TurnTokens ==
    ASSUME TokensOK, NEW w \in Handlers, NEW row, Turn(w, row),
           IsWorking(row) => IsWorking(h[w]),
           \/ inv' = inv \/ inv'.status \in Unfinished
           \/ IsWorking(h[w]) /\ ~IsWorking(row)
    PROVE  TokensOK'
  <1>1. \A v \in Handlers : IsWorking(h'[v]) => IsWorking(h[v])
    BY DEF Turn
  <1>2. \A u, v \in Handlers : IsWorking(h'[u]) /\ IsWorking(h'[v]) => u = v
    BY <1>1 DEF TokensOK
  <1>3. ASSUME NEW v \in Handlers, IsWorking(h'[v])
        PROVE  inv'.status \in Unfinished
    <2>1. CASE inv' = inv \/ inv'.status \in Unfinished
      BY <1>1, <1>3, <2>1 DEF TokensOK
    <2>2. CASE IsWorking(h[w]) /\ ~IsWorking(row)
      <3>1. v # w
        BY <1>3, <2>2 DEF Turn
      <3> QED BY <1>1, <1>3, <2>2, <3>1 DEF TokensOK
    <2> QED BY <2>1, <2>2
  <1> QED BY <1>2, <1>3 DEF TokensOK

LEMMA GrantingTokens ==
    ASSUME HandlersOK, NEW w \in Handlers, NEW row, Granting(w, row), inv'.status \in Unfinished
    PROVE  TokensOK'
  <1>1. \A v \in Handlers \ {w} : h'[v].current = FALSE
    BY DEF Granting, HandlersOK, HandlerSet
  <1>2. \A v \in Handlers : IsWorking(h'[v]) => v = w
    BY <1>1 DEF IsWorking
  <1> QED BY <1>2 DEF TokensOK

(* What a handler in the middle of its work can write.                      *)
LEMMA PatchedBy ==
    ASSUME IInv, NEW w \in Handlers, h[w].pc \notin {"idle", "take"}, NEW patch, Patched(w, patch)
    PROVE  \/ inv' = inv
           \/ inv' = patch /\ IsWorking(h[w]) /\ inv.status \in Unfinished /\ TokenHolds(w)
  <1>1. CASE TokenHolds(w)
    <2>1. IsWorking(h[w])
      BY <1>1 DEF TokenHolds, IsWorking
    <2> QED BY <1>1, <2>1 DEF Patched, IInv, TokensOK
  <1>2. CASE ~TokenHolds(w)
    BY <1>2 DEF Patched
  <1> QED BY <1>1, <1>2

-----------------------------------------------------------------------------
(* The execution.                                                           *)
LEMMA TurnExecution ==
    ASSUME ExecutionOK, Grows, NEW w \in Handlers, NEW row, calls' = calls,
           Turn(w, row) \/ Granting(w, row),
           row.pc # "execute", HandlersOK
    PROVE  ExecutionOK'
  <1>1. \A v \in Handlers : h'[v].pc = "execute" => h[v].pc = "execute"
    <2>1. \A v \in Handlers : [h[v] EXCEPT !.current = FALSE].pc = h[v].pc
      BY DEF HandlersOK, HandlerSet
    <2> QED BY <2>1 DEF Turn, Granting
  <1> QED BY <1>1 DEF ExecutionOK, Grows

-----------------------------------------------------------------------------
(* The actions.  A step is sound when it keeps the invariant and a finished *)
(* row.                                                                     *)
Sound ==
    /\ RowOK' /\ HandlersOK' /\ TokensOK' /\ ExecutionOK' /\ DataOK'
    /\ inv.status \in Final => inv' = inv

LEMMA TurnSound ==
    ASSUME IInv, Grows, NEW w \in Handlers, NEW row, Turn(w, row),
           HandlerOK(row, plans', log'), row.pc # "execute", calls' = calls,
           IsWorking(row) => IsWorking(h[w]),
           \/ inv' = inv
           \/ /\ RowOK' /\ IsWorking(h[w]) /\ inv.status \in Unfinished
              /\ inv'.status \in Unfinished \/ ~IsWorking(row),
           DataOK'
    PROVE  Sound
  <1>1. HandlersOK'
    BY TurnHandlers DEF IInv
  <1>2. TokensOK'
    BY TurnTokens DEF IInv
  <1>3. ExecutionOK'
    BY TurnExecution DEF IInv
  <1>4. RowOK'
    BY DEF IInv, RowOK
  <1>5. inv.status \in Final => inv' = inv
    BY DEF Final, Unfinished
  <1> QED BY <1>1, <1>2, <1>3, <1>4, <1>5 DEF Sound

(* The handler stops, whatever became of the row.                           *)
LEMMA IdleOK == Idle \in HandlerSet /\ ~IsWorking(Idle) /\ Idle.pc = "idle" /\ HandlerOK(Idle, plans', log')
  <1>1. NoRow \in Rows
    BY DEF NoRow, Rows, Statuses, Answers, Kinds
  <1>2. Idle \in HandlerSet /\ Idle.pc = "idle"
    BY <1>1 DEF Idle, HandlerSet, Pcs, Answers, Kinds
  <1> QED BY <1>2 DEF IsWorking, HandlerOK

LEMMA StopSound ==
    ASSUME IInv, Grows, NEW w \in Handlers, h' = [h EXCEPT ![w] = Idle], calls' = calls,
           \/ inv' = inv
           \/ RowOK' /\ IsWorking(h[w]) /\ inv.status \in Unfinished,
           DataOK'
    PROVE  Sound
  <1>1. Turn(w, Idle)
    BY IdleOK, TurnIntro DEF IInv
  <1> QED BY <1>1, IdleOK, TurnSound

(* The handler's next step and answer; its next step only.                  *)
Sets(w, pc, response) == h' = [h EXCEPT ![w].pc = pc, ![w].response = response]
Steps(w, pc) == h' = [h EXCEPT ![w].pc = pc]

LEMMA SetTurn ==
    ASSUME HandlersOK, NEW w \in Handlers, NEW pc, pc \in Pcs,
           NEW response, response \in Answers \cup {"accepted", "allow"},
           Sets(w, pc, response)
    PROVE  \E row \in HandlerSet :
             /\ Turn(w, row)
             /\ row.pc = pc /\ row.response = response /\ row.request = h[w].request
             /\ row.current = h[w].current
  <1> DEFINE row == [h[w] EXCEPT !.pc = pc, !.response = response]
  <1>1. h[w] \in HandlerSet
    BY DEF HandlersOK
  <1>2. /\ row \in HandlerSet
        /\ row.pc = pc /\ row.response = response /\ row.request = h[w].request
        /\ row.current = h[w].current
    BY <1>1 DEF HandlerSet
  <1>3. h' = [h EXCEPT ![w] = row]
    BY DEF HandlersOK, Sets
  <1> HIDE DEF row
  <1> QED BY <1>2, <1>3, TurnIntro

(* The handler goes on and leaves its answer as it is.                      *)
LEMMA StepTurn ==
    ASSUME HandlersOK, NEW w \in Handlers, NEW pc, pc \in Pcs, Steps(w, pc)
    PROVE  \E row \in HandlerSet :
             /\ Turn(w, row)
             /\ row.pc = pc /\ row.response = h[w].response /\ row.request = h[w].request
             /\ row.current = h[w].current
  <1> DEFINE row == [h[w] EXCEPT !.pc = pc]
  <1>1. h[w] \in HandlerSet
    BY DEF HandlersOK
  <1>2. /\ row \in HandlerSet
        /\ row.pc = pc /\ row.response = h[w].response /\ row.request = h[w].request
        /\ row.current = h[w].current
    BY <1>1 DEF HandlerSet
  <1>3. h' = [h EXCEPT ![w] = row]
    BY DEF HandlersOK, Steps
  <1> HIDE DEF row
  <1> QED BY <1>2, <1>3, TurnIntro

LEMMA Unmoved == UNCHANGED db => Grows /\ calls' = calls
BY DEF db, Grows

LEMMA DataKeeps ==
    ASSUME DataOK, UNCHANGED <<plans, started, result>>, faults' \in Troubles
    PROVE  DataOK'
BY DEF DataOK

(* A fault is counted, and is no lease that ran out.                        *)
LEMMA FaultCounts ==
    ASSUME DataOK, Fault
    PROVE  faults' \in Troubles /\ faults'.overrun = faults.overrun
BY FaultsAssumption DEF DataOK, Fault, Troubles

LEMMA RowStays ==
    ASSUME RowOK, NEW lease \in {"held", "expired"}, inv' = [inv EXCEPT !.lease = lease],
           inv.status \in Final => lease = "expired"
    PROVE  RowOK' /\ inv'.status = inv.status /\ (inv.status \in Final => inv' = inv)
  <1>1. /\ inv' \in Rows /\ inv'.status = inv.status /\ inv'.column = inv.column
        /\ inv'.request = inv.request /\ inv'.lease = lease
    BY DEF RowOK, Rows
  <1>2. inv.status \in Final => inv' = inv
    <2>1. inv = [inv EXCEPT !.lease = inv.lease]
      BY DEF RowOK, Rows
    <2> QED BY <2>1 DEF RowOK
  <1> QED BY <1>1, <1>2 DEF RowOK, Placed

(* A commit that can be resumed gives up the lease and stops.               *)
LEMMA RecoverableSound ==
    ASSUME IInv, Grows, NEW w \in Handlers, h[w].pc \notin {"idle", "take"}, Recoverable(w),
           calls' = calls, DataOK'
    PROVE  Sound
  <1>1. Patched(w, [inv EXCEPT !.lease = "expired"]) /\ h' = [h EXCEPT ![w] = Idle]
    BY DEF Recoverable
  <1>2. inv' = inv \/ (inv' = [inv EXCEPT !.lease = "expired"] /\ IsWorking(h[w])
                       /\ inv.status \in Unfinished)
    BY <1>1, PatchedBy
  <1>3. inv' = inv \/ (RowOK' /\ IsWorking(h[w]) /\ inv.status \in Unfinished)
    BY <1>2, RowStays DEF IInv
  <1> QED BY <1>1, <1>3, StopSound

LEMMA CallSound ==
    ASSUME IInv, NEW w \in Handlers, Call(w)
    PROVE  Sound
  <1>1. Grows /\ calls' = calls /\ DataOK'
    BY Unmoved, DataKeeps DEF Call, IInv, db, DataOK
  <1>2. inv \in Rows /\ NoRow \in Rows /\ h[w] \in HandlerSet
    BY DEF IInv, RowOK, HandlersOK, NoRow, Rows, Statuses, Answers, Kinds
  <1>3. CASE inv.column = "absent"
    <2> DEFINE row == [[Idle EXCEPT !.pc = "admit", !.intent = "call"] EXCEPT !.current = TRUE]
    <2>1. row \in HandlerSet /\ row.pc = "admit" /\ row.response = "none"
      BY IdleOK DEF HandlerSet, Pcs, Idle
    <2>2. h' = Granted(w, [Idle EXCEPT !.pc = "admit", !.intent = "call"])
      BY <1>3 DEF Call
    <2> HIDE DEF row
    <2>3. \A v \in Handlers : [h[v] EXCEPT !.current = FALSE] \in HandlerSet
      BY DEF IInv, HandlersOK, HandlerSet
    <2>4. Granting(w, row)
      BY <2>1, <2>2, <2>3 DEF Granted, Granting, row
    <2>5. HandlerOK(row, plans', log')
      BY <2>1 DEF HandlerOK, Answers
    <2>6. inv' = [WithStatus(NoRow, "reserved") EXCEPT !.lease = "held"]
      BY <1>3 DEF Call
    <2>7. /\ inv' \in Rows /\ inv'.column = "reserved" /\ inv'.status = "reserved"
          /\ inv'.lease = "held"
      BY <1>2, <2>6 DEF WithStatus, Rows, Statuses, Unfinished, NoRow
    <2>8. RowOK' /\ inv'.status \in Unfinished
      BY <2>7 DEF RowOK, Placed, Unfinished, Final
    <2>9. HandlersOK' /\ TokensOK' /\ ExecutionOK'
      BY <1>1, <2>1, <2>4, <2>5, <2>8, TurnHandlers, GrantingTokens, TurnExecution DEF IInv
    <2>10. inv.status \notin Final
      BY <1>3 DEF IInv, RowOK, Final
    <2> QED BY <1>1, <2>8, <2>9, <2>10 DEF Sound
  <1>4. CASE inv.column # "absent"
    <2> DEFINE row == [Idle EXCEPT !.pc = "take", !.intent = "call", !.copy = inv, !.current = TRUE]
    <2>1. /\ row \in HandlerSet /\ row.pc = "take" /\ row.copy = inv /\ ~IsWorking(row)
          /\ row.response \in Answers
      BY <1>2, IdleOK DEF Answers, HandlerSet, Pcs, Idle, IsWorking
    <2>2. h' = [h EXCEPT ![w] = row] /\ inv' = inv /\ inv.status \in Unfinished
      BY <1>4 DEF Call, Stealable
    <2> HIDE DEF row
    <2>3. HandlerOK(row, plans', log') /\ Turn(w, row)
      BY <2>1, <2>2, TurnIntro DEF HandlerOK, IInv, RowOK
    <2> QED BY <1>1, <2>1, <2>2, <2>3, TurnSound
  <1> QED BY <1>3, <1>4

LEMMA AskSound ==
    ASSUME IInv, NEW w \in Handlers, NEW intent \in {"poll", "cancel"}, Ask(w, intent)
    PROVE  Sound
  <1>1. Grows /\ calls' = calls /\ DataOK'
    BY Unmoved, DataKeeps DEF Ask, IInv, db, DataOK
  <1> DEFINE row == [Idle EXCEPT !.pc = "take", !.intent = intent, !.copy = inv, !.current = TRUE]
  <1>2. inv \in Rows
    BY DEF IInv, RowOK
  <1>3. /\ row \in HandlerSet /\ row.pc = "take" /\ row.copy = inv /\ ~IsWorking(row)
        /\ row.response \in Answers
    BY <1>2, IdleOK DEF Answers, HandlerSet, Pcs, Idle, IsWorking
  <1>4. h' = [h EXCEPT ![w] = row] /\ inv' = inv /\ inv.status \in Unfinished
    BY DEF Ask, Stealable
  <1> HIDE DEF row
  <1>5. HandlerOK(row, plans', log') /\ Turn(w, row)
    BY <1>3, <1>4, TurnIntro DEF HandlerOK, IInv, RowOK
  <1> QED BY <1>1, <1>3, <1>4, <1>5, TurnSound

LEMMA TakeOverSound ==
    ASSUME IInv, NEW w \in Handlers, TakeOver(w)
    PROVE  Sound
  <1>1. Grows /\ calls' = calls /\ DataOK'
    BY Unmoved, DataKeeps DEF TakeOver, IInv, db, DataOK
  <1>2. /\ h[w] \in HandlerSet /\ h[w].copy \in Rows /\ h[w].copy.status \in Unfinished
        /\ Placed(h[w].copy) /\ h[w].response \in Answers /\ inv \in Rows
    BY DEF IInv, RowOK, HandlersOK, HandlerOK, HandlerSet, TakeOver
  <1>3. CASE TokenHolds(w) /\ inv.lease = "expired" /\ inv.column \in Unfinished
    <2> DEFINE copy == h[w].copy
               mine == [h[w] EXCEPT !.request = copy.request, !.kind = copy.kind, !.copy = NoRow]
               next == IF mine.intent = "cancel" THEN [mine EXCEPT !.pc = "withdraw"]
                       ELSE IF copy.status = "reserved" THEN [mine EXCEPT !.pc = "admit"]
                       ELSE [mine EXCEPT !.pc = "plan", !.resume = TRUE]
               row == [next EXCEPT !.current = TRUE]
    <2>1. /\ mine \in HandlerSet /\ mine.response = h[w].response /\ mine.request = copy.request
          /\ copy.request \in Requests \cup {Nobody}
      <3>1. NoRow \in Rows
        BY DEF NoRow, Rows, Statuses, Answers, Kinds
      <3> QED BY <1>2, <3>1 DEF HandlerSet, Rows
    <2>2. copy.status = "reserved" \/ copy.request \in Requests
      BY <1>2 DEF Unfinished, Placed
    <2>3. h' = Granted(w, next) /\ inv' = [copy EXCEPT !.column = inv.column, !.lease = "held"]
      BY <1>3 DEF TakeOver
    <2> HIDE DEF mine, copy
    <2>4. /\ row \in HandlerSet /\ row.pc \in {"withdraw", "admit", "plan"}
          /\ row.response = mine.response
          /\ row.pc = "plan" => row.request \in Requests
      BY <2>1, <2>2 DEF HandlerSet, Pcs, Committing
    <2> HIDE DEF next
    <2>5. \A v \in Handlers : [h[v] EXCEPT !.current = FALSE] \in HandlerSet
      BY DEF IInv, HandlersOK, HandlerSet
    <2>6. Granting(w, row)
      BY <2>3, <2>4, <2>5 DEF Granted, Granting
    <2>7. HandlerOK(row, plans', log') /\ row.pc # "execute"
      BY <1>2, <2>1, <2>4 DEF HandlerOK
    <2>8. /\ inv' \in Rows /\ inv'.column = inv.column /\ inv'.status = copy.status
          /\ inv'.request = copy.request
      BY <1>2, <2>3 DEF Rows, copy
    <2>9. RowOK' /\ inv'.status \in Unfinished
      BY <1>2, <1>3, <2>8 DEF RowOK, Placed, Unfinished, Final, copy
    <2>10. HandlersOK' /\ TokensOK' /\ ExecutionOK'
      BY <1>1, <2>6, <2>7, <2>9, TurnHandlers, GrantingTokens, TurnExecution DEF IInv
    <2>11. inv.status \notin Final
      BY <1>3 DEF IInv, RowOK, Final, Unfinished
    <2> QED BY <1>1, <2>9, <2>10, <2>11 DEF Sound
  <1>4. CASE ~(TokenHolds(w) /\ inv.lease = "expired" /\ inv.column \in Unfinished)
    <2>1. h' = [h EXCEPT ![w] = Idle] /\ inv' = inv
      BY <1>4 DEF TakeOver
    <2> QED BY <1>1, <2>1, StopSound
  <1> QED BY <1>3, <1>4

LEMMA HandBackSound ==
    ASSUME IInv, NEW w \in Handlers, HandBack(w)
    PROVE  Sound
  <1>1. Grows /\ calls' = calls /\ DataOK'
    BY Unmoved, DataKeeps DEF HandBack, IInv, db, DataOK
  <1>2. h[w].pc \notin {"idle", "take"} /\ Recoverable(w)
    BY DEF HandBack, Recoverable
  <1> QED BY <1>1, <1>2, RecoverableSound

(* A row that is finished with any answer is in order.                      *)
LEMMA FinishedRow ==
    ASSUME inv \in Rows, NEW s \in Final, NEW answer \in Answers,
           \/ inv' = [WithStatus(inv, s) EXCEPT !.lease = "expired", !.response = answer]
           \/ inv' = [WithStatus(inv, s) EXCEPT !.lease = "expired"]
    PROVE  RowOK'
  <1>1. /\ inv' \in Rows /\ inv'.column = s /\ inv'.status = s /\ inv'.lease = "expired"
    BY DEF WithStatus, Rows, Final, Statuses
  <1> QED BY <1>1 DEF RowOK, Placed, Final, Unfinished

LEMMA WithdrawSound ==
    ASSUME IInv, NEW w \in Handlers, Withdraw(w)
    PROVE  Sound
  <1>1. Grows /\ calls' = calls /\ DataOK'
    BY Unmoved, DataKeeps DEF Withdraw, IInv, db, DataOK
  <1> DEFINE patch == [WithStatus(inv, "completed") EXCEPT !.lease = "expired",
                                                           !.response = "cancelled"]
  <1>2. h[w].pc \notin {"idle", "take"} /\ Patched(w, patch) /\ h' = [h EXCEPT ![w] = Idle]
    BY DEF Withdraw
  <1>3. inv' = patch => RowOK'
    BY FinishedRow DEF IInv, RowOK, Final, Answers
  <1> HIDE DEF patch
  <1>4. inv' = inv \/ (RowOK' /\ IsWorking(h[w]) /\ inv.status \in Unfinished)
    BY <1>2, <1>3, PatchedBy
  <1> QED BY <1>1, <1>2, <1>4, StopSound

LEMMA FinishSound ==
    ASSUME IInv, NEW w \in Handlers, Finish(w)
    PROVE  Sound
  <1>1. Grows /\ calls' = calls /\ DataOK'
    BY Unmoved, DataKeeps DEF Finish, IInv, db, DataOK
  <1> DEFINE patch == IF h[w].kind = "approval" /\ h[w].response = "none"
                      THEN [WithStatus(inv, "committed") EXCEPT !.lease = "expired"]
                      ELSE [WithStatus(inv, "completed") EXCEPT !.lease = "expired",
                                                                !.response = h[w].response]
  <1>2. h[w].pc \notin {"idle", "take"} /\ Patched(w, patch) /\ h' = [h EXCEPT ![w] = Idle]
    BY DEF Finish
  <1>3. h[w].response \in Answers /\ inv \in Rows
    BY DEF IInv, RowOK, HandlersOK, HandlerOK, Finish
  <1>4. inv' = patch => RowOK'
    BY <1>3, FinishedRow DEF Final, Answers
  <1> HIDE DEF patch
  <1>5. inv' = inv \/ (RowOK' /\ IsWorking(h[w]) /\ inv.status \in Unfinished)
    BY <1>2, <1>4, PatchedBy
  <1> QED BY <1>1, <1>2, <1>5, StopSound

LEMMA AdmitRefusedSound ==
    ASSUME IInv, NEW w \in Handlers, AdmitRefused(w)
    PROVE  Sound
  <1>1. Grows /\ calls' = calls /\ DataOK'
    BY Unmoved, DataKeeps DEF AdmitRefused, IInv, db, DataOK
  <1>2. h' = [h EXCEPT ![w] = Idle]
    BY DEF AdmitRefused, Release
  <1>3. CASE TokenHolds(w) /\ inv.column \in Unfinished
    <2>1. IsWorking(h[w]) /\ inv.status \in Unfinished /\ inv' = NoRow
      BY <1>3 DEF AdmitRefused, Release, TokenHolds, IsWorking, IInv, RowOK
    <2>2. NoRow \in Rows /\ NoRow.column = "absent" /\ NoRow.status = "absent"
      BY DEF NoRow, Rows, Statuses, Answers, Kinds
    <2>3. RowOK'
      BY <2>1, <2>2 DEF RowOK, Placed, Unfinished, Final
    <2> QED BY <1>1, <1>2, <2>1, <2>3, StopSound
  <1>4. CASE ~(TokenHolds(w) /\ inv.column \in Unfinished)
    <2>1. inv' = inv
      BY <1>4 DEF AdmitRefused, Release
    <2> QED BY <1>1, <1>2, <2>1, StopSound
  <1> QED BY <1>3, <1>4

LEMMA AdmitDeniedSound ==
    ASSUME IInv, NEW w \in Handlers, AdmitDenied(w)
    PROVE  Sound
  <1>1. Grows /\ calls' = calls /\ DataOK' /\ inv' = inv
    BY Unmoved, DataKeeps DEF AdmitDenied, IInv, db, DataOK
  <1>2. PICK row \in HandlerSet : /\ Turn(w, row) /\ row.pc = "finish"
                                  /\ row.response = "authorization_denied"
                                  /\ row.current = h[w].current
    <2>1. /\ Sets(w, "finish", "authorization_denied")
          /\ HandlersOK /\ "finish" \in Pcs
          /\ "authorization_denied" \in Answers \cup {"accepted", "allow"}
      BY DEF AdmitDenied, IInv, Pcs, Committing, Answers, Sets
    <2> QED BY <2>1, SetTurn
  <1>3. HandlerOK(row, plans', log')
    BY <1>2 DEF HandlerOK, Answers
  <1>4. IsWorking(row) => IsWorking(h[w])
    BY <1>2 DEF IsWorking, AdmitDenied
  <1> QED BY <1>1, <1>2, <1>3, <1>4, TurnSound

LEMMA AdmitPreparedSound ==
    ASSUME IInv, NEW w \in Handlers, NEW r \in Requests, NEW kind \in {"immediate", "approval"},
           AdmitPrepared(w, r, kind)
    PROVE  Sound
  <1>1. Grows /\ calls' = calls /\ DataOK'
    BY Unmoved, DataKeeps DEF AdmitPrepared, IInv, db, DataOK
  <1>2. CASE TokenHolds(w)
    <2> DEFINE row == [h[w] EXCEPT !.pc = "plan", !.resume = FALSE, !.request = r, !.kind = kind]
    <2>1. h[w] \in HandlerSet /\ h[w].response \in Answers /\ inv \in Rows
      BY DEF AdmitPrepared, IInv, HandlersOK, HandlerOK, RowOK
    <2>2. /\ row \in HandlerSet /\ row.pc = "plan" /\ row.request = r
          /\ row.response = h[w].response /\ row.current = h[w].current
      BY <2>1 DEF HandlerSet, Pcs, Committing, Kinds
    <2>3. h' = [h EXCEPT ![w] = row]
      BY <1>2 DEF AdmitPrepared
    <2> HIDE DEF row
    <2>4. inv' = [WithStatus(inv, "prepared") EXCEPT !.request = r, !.kind = kind]
      BY <1>2 DEF AdmitPrepared, Patched
    <2>5. /\ inv' \in Rows /\ inv'.column = "prepared" /\ inv'.status = "prepared"
          /\ inv'.request = r
      BY <2>1, <2>4 DEF WithStatus, Rows, Statuses, Unfinished, Kinds
    <2>6. RowOK' /\ inv'.status \in Unfinished
      BY <2>5 DEF RowOK, Placed, Unfinished, Final
    <2>7. IsWorking(h[w]) /\ inv.status \in Unfinished
      BY <1>2 DEF TokenHolds, IsWorking, AdmitPrepared, IInv, TokensOK
    <2>8. Turn(w, row) /\ HandlerOK(row, plans', log')
      BY <2>1, <2>2, <2>3, TurnIntro DEF IInv, HandlerOK
    <2> QED BY <1>1, <2>2, <2>6, <2>7, <2>8, TurnSound
  <1>3. CASE ~TokenHolds(w)
    <2>1. h' = [h EXCEPT ![w] = Idle] /\ inv' = inv
      BY <1>3 DEF AdmitPrepared, Patched
    <2> QED BY <1>1, <2>1, StopSound
  <1> QED BY <1>2, <1>3

LEMMA SavePlanSound ==
    ASSUME IInv, NEW w \in Handlers, SavePlan(w)
    PROVE  Sound
  <1> DEFINE r == h[w].request
  <1>1. /\ h[w] \in HandlerSet /\ r \in Requests /\ h[w].response \in Answers /\ HandlersOK
        /\ h[w].pc = "plan"
    BY DEF SavePlan, IInv, HandlersOK, HandlerOK
  <1>2. /\ calls' = calls /\ inv' = inv /\ started' = started /\ result' = result
        /\ log' = log /\ faults' = faults
    BY DEF SavePlan
  <1>3. CASE r \notin plans \/ h[w].resume
    <2>1. plans' = plans \cup {r}
      BY <1>3 DEF SavePlan
    <2>2. Grows /\ DataOK'
      BY <1>1, <1>2, <2>1 DEF Grows, IInv, DataOK
    <2>3. PICK pc \in {"start", "reauthorize"} : Steps(w, pc)
      BY <1>3 DEF SavePlan, Steps
    <2>4. pc \in Pcs /\ h[w].response \in Answers \cup {"accepted", "allow"}
      BY <1>1 DEF Pcs, Committing
    <2>5. PICK row \in HandlerSet : /\ Turn(w, row) /\ row.pc = pc /\ row.response = h[w].response
                                    /\ row.request = r /\ row.current = h[w].current
      BY <1>1, <2>3, <2>4, StepTurn
    <2>6. HandlerOK(row, plans', log')
      BY <1>1, <2>1, <2>3, <2>5 DEF HandlerOK
    <2>7. IsWorking(row) => IsWorking(h[w])
      BY <1>1, <2>5 DEF IsWorking
    <2> QED BY <1>2, <2>2, <2>3, <2>5, <2>6, <2>7, TurnSound
  <1>4. CASE ~(r \notin plans \/ h[w].resume)
    <2>1. /\ Sets(w, "finish", "error") /\ plans' = plans
          /\ "finish" \in Pcs /\ "error" \in Answers \cup {"accepted", "allow"}
      BY <1>4 DEF SavePlan, Pcs, Committing, Answers, Sets
    <2>2. Grows /\ DataOK'
      BY <1>2, <2>1 DEF Grows, IInv, DataOK
    <2>3. PICK row \in HandlerSet : /\ Turn(w, row) /\ row.pc = "finish" /\ row.response = "error"
                                    /\ row.current = h[w].current
      BY <1>1, <2>1, SetTurn
    <2>4. HandlerOK(row, plans', log')
      BY <2>3 DEF HandlerOK, Answers
    <2>5. IsWorking(row) => IsWorking(h[w])
      BY <1>1, <2>3 DEF IsWorking
    <2> QED BY <1>2, <2>2, <2>3, <2>4, <2>5, TurnSound
  <1> QED BY <1>3, <1>4

LEMMA StartWorkflowSound ==
    ASSUME IInv, NEW w \in Handlers, StartWorkflow(w)
    PROVE  Sound
  <1>1. /\ h[w] \in HandlerSet /\ h[w].request \in plans /\ h[w].response \in Answers
        /\ HandlersOK /\ h[w].pc = "start" /\ "finish" \in Pcs
        /\ h[w].response \in Answers \cup {"accepted", "allow"}
    BY DEF StartWorkflow, IInv, HandlersOK, HandlerOK, Pcs, Committing
  <1>2. calls' = calls /\ inv' = inv /\ Steps(w, "finish")
    BY DEF StartWorkflow, Steps
  <1>3. Grows /\ DataOK'
    BY <1>1 DEF StartWorkflow, Grows, IInv, DataOK
  <1>4. PICK row \in HandlerSet : /\ Turn(w, row) /\ row.pc = "finish"
                                  /\ row.response = h[w].response /\ row.current = h[w].current
    BY <1>1, <1>2, StepTurn
  <1>5. HandlerOK(row, plans', log')
    BY <1>1, <1>4 DEF HandlerOK
  <1>6. IsWorking(row) => IsWorking(h[w])
    BY <1>1, <1>4 DEF IsWorking
  <1> QED BY <1>2, <1>3, <1>4, <1>5, <1>6, TurnSound

LEMMA ReauthorizeSound ==
    ASSUME IInv, NEW w \in Handlers, Reauthorize(w)
    PROVE  Sound
  <1>1. Grows /\ calls' = calls /\ DataOK' /\ inv' = inv
    BY Unmoved, DataKeeps DEF Reauthorize, IInv, db, DataOK
  <1>2. PICK answer \in {"allow", "authorization_revoked", "authorization_check_failed"} :
          Sets(w, IF answer = "allow" THEN "audit" ELSE "record", answer)
    BY DEF Reauthorize, Sets
  <1> DEFINE pc == IF answer = "allow" THEN "audit" ELSE "record"
  <1>3. /\ HandlersOK /\ pc \in Pcs /\ answer \in Answers \cup {"accepted", "allow"}
        /\ pc = "audit" \/ (pc = "record" /\ answer \in Outcomes)
    BY DEF IInv, Pcs, Committing, Answers, Outcomes
  <1> HIDE DEF pc
  <1>4. PICK row \in HandlerSet : /\ Turn(w, row) /\ row.pc = pc /\ row.response = answer
                                  /\ row.current = h[w].current
    BY <1>2, <1>3, SetTurn DEF pc
  <1>5. HandlerOK(row, plans', log') /\ row.pc # "execute"
    BY <1>3, <1>4 DEF HandlerOK
  <1>6. IsWorking(row) => IsWorking(h[w])
    BY <1>4 DEF IsWorking, Reauthorize
  <1> QED BY <1>1, <1>4, <1>5, <1>6, TurnSound

LEMMA AuditStartSound ==
    ASSUME IInv, NEW w \in Handlers, AuditStart(w)
    PROVE  Sound
  <1>1. HasKey(log', Reauthorized) /\ plans' = plans /\ calls' = calls /\ DataOK'
    BY InsertKeeps DEF AuditStart, IInv, DataOK
  <1>2. Grows
    BY <1>1 DEF Grows
  <1>3. CASE OtherEvidence(log)
    BY <1>1, <1>2, <1>3, RecoverableSound DEF AuditStart
  <1>4. CASE ~OtherEvidence(log)
    <2>1. /\ Steps(w, "execute") /\ inv' = inv /\ h[w].pc = "audit"
          /\ HandlersOK /\ h[w] \in HandlerSet /\ "execute" \in Pcs
          /\ h[w].response \in Answers \cup {"accepted", "allow"}
      BY <1>4 DEF AuditStart, IInv, HandlersOK, HandlerSet, Pcs, Committing, Steps
    <2>2. PICK row \in HandlerSet : /\ Turn(w, row) /\ row.pc = "execute"
                                    /\ row.current = h[w].current
      BY <2>1, StepTurn
    <2>3. HandlerOK(row, plans', log')
      BY <1>1, <2>2 DEF HandlerOK
    <2>4. HandlersOK'
      BY <1>2, <2>1, <2>2, <2>3, TurnHandlers
    <2>5. IsWorking(row) => IsWorking(h[w])
      BY <2>1, <2>2 DEF IsWorking
    <2>6. TokensOK'
      BY <2>1, <2>2, <2>5, TurnTokens DEF IInv
    (* Nobody has been here: there is no evidence yet. *)
    <2>7. \A v \in Handlers : h[v].pc # "execute"
      BY <1>4 DEF IInv, HandlersOK, HandlerOK, OtherEvidence
    <2>8. calls = 0
      BY <1>4 DEF IInv, ExecutionOK, OtherEvidence
    <2>9. ExecutionOK'
      BY <1>1, <2>2, <2>7, <2>8 DEF ExecutionOK, Turn
    <2>10. RowOK'
      BY <2>1 DEF IInv, RowOK
    <2> QED BY <1>1, <2>1, <2>4, <2>6, <2>9, <2>10 DEF Sound
  <1> QED BY <1>3, <1>4

LEMMA ExecuteSound ==
    ASSUME IInv, NEW w \in Handlers, Execute(w)
    PROVE  Sound
  <1>1. inv' = inv /\ plans' = plans /\ log' = log /\ calls' = calls + 1 /\ h[w].pc = "execute"
    BY DEF Execute
  <1>2. Grows /\ DataOK' /\ RowOK' /\ HandlersOK
    BY <1>1 DEF Execute, Grows, IInv, DataOK, RowOK
  <1>3. PICK retriable, atMostOnce \in BOOLEAN :
          \E outcome \in {"executed", "accepted", FailureStatus(retriable, atMostOnce)} :
            Sets(w, "record", outcome)
    BY DEF Execute, Sets
  <1>4. PICK outcome \in Outcomes \cup {"accepted"} : Sets(w, "record", outcome)
    BY <1>3 DEF FailureStatus, Outcomes, Failures
  <1>5. "record" \in Pcs /\ outcome \in Answers \cup {"accepted", "allow"}
    BY <1>4 DEF Pcs, Committing, Answers
  <1>6. PICK row \in HandlerSet : /\ Turn(w, row) /\ row.pc = "record" /\ row.response = outcome
                                  /\ row.current = h[w].current
    BY <1>2, <1>4, <1>5, SetTurn
  <1>7. HandlerOK(row, plans', log')
    BY <1>4, <1>6 DEF HandlerOK
  <1>8. HandlersOK'
    BY <1>2, <1>6, <1>7, TurnHandlers
  <1>9. IsWorking(row) => IsWorking(h[w])
    BY <1>1, <1>6 DEF IsWorking
  <1>10. TokensOK'
    BY <1>1, <1>6, <1>9, TurnTokens DEF IInv
  <1>11. calls = 0 /\ HasKey(log, Reauthorized)
    BY <1>1 DEF IInv, ExecutionOK, HandlersOK, HandlerOK
  <1>12. \A v \in Handlers : h'[v].pc # "execute"
    BY <1>1, <1>6 DEF Turn, IInv, ExecutionOK
  <1>13. ExecutionOK'
    BY <1>1, <1>11, <1>12 DEF ExecutionOK
  <1> QED BY <1>1, <1>2, <1>8, <1>10, <1>13 DEF Sound

LEMMA RecordResultSound ==
    ASSUME IInv, NEW w \in Handlers, RecordResult(w)
    PROVE  Sound
  <1> DEFINE outcome == h[w].response
  <1>1. /\ outcome \in Outcomes \cup {"accepted"} /\ HandlersOK /\ h[w].pc = "record"
        /\ inv' = inv /\ calls' = calls /\ plans' = plans
    BY DEF RecordResult, IInv, HandlersOK, HandlerOK
  <1>2. HasKey(log, Reauthorized) => HasKey(log', Reauthorized)
    BY InsertKeeps DEF RecordResult
  <1>3. Grows
    BY <1>1, <1>2 DEF Grows
  <1>4. DataOK'
    BY <1>1 DEF RecordResult, IInv, DataOK
  <1>5. /\ Sets(w, "finish", AnswerOf(outcome))
        /\ "finish" \in Pcs /\ AnswerOf(outcome) \in Answers
        /\ AnswerOf(outcome) \in Answers \cup {"accepted", "allow"}
    BY <1>1 DEF RecordResult, AnswerOf, Pcs, Committing, Answers, Sets
  <1>6. PICK row \in HandlerSet : /\ Turn(w, row) /\ row.pc = "finish"
                                  /\ row.response = AnswerOf(outcome)
                                  /\ row.current = h[w].current
    BY <1>1, <1>5, SetTurn
  <1>7. HandlerOK(row, plans', log')
    BY <1>5, <1>6 DEF HandlerOK
  <1>8. IsWorking(row) => IsWorking(h[w])
    BY <1>1, <1>6 DEF IsWorking
  <1> QED BY <1>1, <1>3, <1>4, <1>6, <1>7, <1>8, TurnSound

LEMMA CommitFailsSound ==
    ASSUME IInv, NEW w \in Handlers, CommitFails(w)
    PROVE  Sound
  <1>1. Grows /\ calls' = calls
    BY Unmoved DEF CommitFails
  <1>2. DataOK'
    BY FaultCounts, DataKeeps DEF CommitFails, db, IInv
  <1>3. h[w].pc \notin {"idle", "take"} /\ Recoverable(w)
    BY DEF CommitFails
  <1> QED BY <1>1, <1>2, <1>3, RecoverableSound

LEMMA CrashSound ==
    ASSUME IInv, NEW w \in Handlers, Crash(w)
    PROVE  Sound
  <1>1. Grows /\ calls' = calls
    BY Unmoved DEF Crash
  <1>2. DataOK'
    BY FaultCounts, DataKeeps DEF Crash, db, IInv
  <1>3. h' = [h EXCEPT ![w] = Idle] /\ inv' = inv
    BY DEF Crash
  <1> QED BY <1>1, <1>2, <1>3, StopSound

LEMMA LeaseExpiresSound ==
    ASSUME IInv, LeaseExpires
    PROVE  Sound
  <1>1. RowOK' /\ inv'.status = inv.status /\ (inv.status \in Final => inv' = inv)
    BY RowStays DEF LeaseExpires, IInv
  <1>2. HandlersOK' /\ ExecutionOK'
    BY DEF LeaseExpires, db, IInv, HandlersOK, ExecutionOK
  <1>3. faults' \in Troubles
    BY FaultsAssumption DEF LeaseExpires, IInv, DataOK, Troubles
  <1>4. DataOK'
    BY <1>3, DataKeeps DEF LeaseExpires, db, IInv
  <1>5. TokensOK'
    BY <1>1 DEF LeaseExpires, IInv, TokensOK
  <1> QED BY <1>1, <1>2, <1>4, <1>5 DEF Sound

LEMMA StutterSound ==
    ASSUME IInv, UNCHANGED vars
    PROVE  Sound
BY DEF vars, IInv, RowOK, HandlersOK, TokensOK, ExecutionOK, DataOK, Sound

-----------------------------------------------------------------------------
(* The specification.                                                       *)
LEMMA NextSound ==
    ASSUME IInv, [Next]_vars
    PROVE  Sound
  <1>1. CASE LeaseExpires
    BY <1>1, LeaseExpiresSound
  <1>2. CASE UNCHANGED vars
    BY <1>2, StutterSound
  <1>3. ASSUME NEW w \in Handlers,
               Call(w) \/ Poll(w) \/ CancelTask(w) \/ HandBack(w) \/ Work(w)
                 \/ CommitFails(w) \/ Crash(w)
        PROVE  Sound
    <2>1. CASE Call(w)
      BY <2>1, CallSound
    <2>2. CASE Poll(w) \/ CancelTask(w)
      BY <2>2, AskSound DEF Poll, CancelTask
    <2>3. CASE HandBack(w)
      BY <2>3, HandBackSound
    <2>4. CASE CommitFails(w)
      BY <2>4, CommitFailsSound
    <2>5. CASE Crash(w)
      BY <2>5, CrashSound
    <2>6. CASE Work(w)
      <3>1. CASE TakeOver(w)
        BY <3>1, TakeOverSound
      <3>2. CASE Withdraw(w)
        BY <3>2, WithdrawSound
      <3>3. CASE AdmitRefused(w)
        BY <3>3, AdmitRefusedSound
      <3>4. CASE AdmitDenied(w)
        BY <3>4, AdmitDeniedSound
      <3>5. CASE \E r \in Requests, kind \in {"immediate", "approval"} : AdmitPrepared(w, r, kind)
        BY <3>5, AdmitPreparedSound
      <3>6. CASE SavePlan(w)
        BY <3>6, SavePlanSound
      <3>7. CASE StartWorkflow(w)
        BY <3>7, StartWorkflowSound
      <3>8. CASE Reauthorize(w)
        BY <3>8, ReauthorizeSound
      <3>9. CASE AuditStart(w)
        BY <3>9, AuditStartSound
      <3>10. CASE Execute(w)
        BY <3>10, ExecuteSound
      <3>11. CASE RecordResult(w)
        BY <3>11, RecordResultSound
      <3>12. CASE Finish(w)
        BY <3>12, FinishSound
      <3> QED BY <2>6, <3>1, <3>2, <3>3, <3>4, <3>5, <3>6, <3>7, <3>8, <3>9, <3>10, <3>11, <3>12
              DEF Work
    <2> QED BY <1>3, <2>1, <2>2, <2>3, <2>4, <2>5, <2>6
  <1> QED BY <1>1, <1>2, <1>3 DEF Next

LEMMA InitInv == Init => IInv
  <1> SUFFICES ASSUME Init PROVE IInv
    OBVIOUS
  <1>1. NoRow \in Rows /\ NoRow.column = "absent" /\ NoRow.status = "absent"
    BY DEF NoRow, Rows, Statuses, Answers, Kinds
  <1>2. Idle \in HandlerSet /\ Idle.pc = "idle"
    BY <1>1 DEF Idle, HandlerSet, Pcs, Answers, Kinds
  <1>3. \A w \in Handlers : h[w] = Idle
    BY DEF Init
  <1>4. RowOK
    BY <1>1 DEF Init, RowOK, Placed, Unfinished, Final
  <1>5. HandlersOK
    BY <1>2 DEF Init, HandlersOK, HandlerOK
  <1>6. TokensOK /\ ExecutionOK
    BY <1>2, <1>3 DEF Init, TokensOK, ExecutionOK, IsWorking
  <1>7. DataOK
    BY FaultsAssumption DEF Init, DataOK, Troubles
  <1> QED BY <1>4, <1>5, <1>6, <1>7 DEF IInv

(* The invariant holds throughout every behaviour of the gateway: a row is  *)
(* finished by its token's holder, and evidence precedes the executor.      *)
THEOREM Invariance == Spec => []IInv
  <1>1. IInv /\ [Next]_vars => IInv'
    BY NextSound DEF Sound, IInv
  <1> QED BY InitInv, <1>1, PTL DEF Spec

(* The row, the handlers and the stores keep their types, whoever takes     *)
(* over from whom.                                                          *)
THEOREM TypeCorrect == Spec => []TypeOK
  <1>1. IInv => TypeOK
    <2> SUFFICES ASSUME IInv PROVE TypeOK
      OBVIOUS
    <2>1. inv \in [column: Statuses, status: Statuses, lease: {"held", "expired"},
                   request: Requests \cup {Nobody}, kind: {"none", "immediate", "approval"},
                   response: Answers]
      BY DEF IInv, RowOK, Rows, Kinds
    <2>2. \A w \in Handlers :
            /\ h[w].pc \in {"idle", "take", "withdraw", "admit"} \cup Committing
            /\ h[w].request \in Requests \cup {Nobody} /\ h[w].current \in BOOLEAN
      BY DEF IInv, HandlersOK, HandlerSet, Pcs
    <2>3. calls \in Nat /\ DataOK
      BY DEF IInv, ExecutionOK
    <2> QED BY <2>1, <2>2, <2>3 DEF TypeOK, DataOK, Troubles
  <1> QED BY <1>1, Invariance, PTL

(* An immediately executed request reaches the executor at most once,       *)
(* however often its commit fails, crashes and is resumed, and even when a  *)
(* lease expires under a working handler: the evidence of the first attempt *)
(* stops every other.                                                       *)
THEOREM ExecutesAtMostOnceHolds == Spec => []ExecutesAtMostOnce
  <1>1. IInv => ExecutesAtMostOnce
    BY DEF IInv, ExecutionOK, ExecutesAtMostOnce
  <1> QED BY <1>1, Invariance, PTL

(* A committed or completed row is never changed again: handlers that lost  *)
(* their lease cannot overwrite what the client was told.                   *)
THEOREM AnswerIsFinalHolds == Spec => AnswerIsFinal
  <1>1. IInv /\ [Next]_vars => [inv.status \in {"committed", "completed"} => inv' = inv]_vars
    BY NextSound DEF Sound, Final
  <1> QED BY <1>1, Invariance, PTL DEF Spec, AnswerIsFinal

(* One execution stands behind one answer, and both are for good.           *)
THEOREM OneLastingAnswerHolds == Spec => OneLastingAnswer
  BY ExecutesAtMostOnceHolds, AnswerIsFinalHolds, PTL DEF OneLastingAnswer

-----------------------------------------------------------------------------
(* What an answer rests on, however the row was written back: the executor  *)
(* was called, the Workflow was started.  "times" and "begun" are the       *)
(* executor's calls and the Workflows that run.                             *)
Vouched(x, times, begun) ==
    /\ x.pc = "take" => x.copy.response = "none"
    /\ x.pc \in {"take", "admit", "plan", "start"} => x.response = "none"
    /\ x.pc \in {"record", "finish"} /\ x.response = "executed" => times = 1
    /\ x.pc = "finish" /\ x.response = "none" => x.request \in begun

RowFounded == AnswerIsFounded /\ (inv.status \in Unfinished => inv.response = "none")

(* Whoever works under the row's token works for the row's request.         *)
Founded ==
    /\ RowFounded
    /\ \A w \in Handlers : /\ Vouched(h[w], calls, started)
                           /\ IsWorking(h[w]) => h[w].request = inv.request

(* Workflows are not stopped here, and the executor's call is not undone.   *)
Lasting == started \subseteq started' /\ (calls = 1 => calls' = 1)

LEMMA RowStaysFounded ==
    ASSUME RowFounded, Lasting, inv' = inv
    PROVE  RowFounded'
BY DEF RowFounded, AnswerIsFounded, Answered, Lasting

LEMMA UnfinishedIsFounded ==
    ASSUME inv'.status \notin Final, inv'.response = "none"
    PROVE  RowFounded'
BY DEF RowFounded, AnswerIsFounded, Answered, Final

LEMMA TurnFounded ==
    ASSUME IInv, Founded, Lasting, NEW w \in Handlers, NEW row, Turn(w, row) \/ Granting(w, row),
           Vouched(row, calls', started'), IsWorking(row) => row.request = inv'.request,
           inv'.request = inv.request \/ Granting(w, row) \/ IsWorking(h[w]), RowFounded'
    PROVE  Founded'
  <1> SUFFICES ASSUME NEW v \in Handlers
               PROVE  /\ Vouched(h'[v], calls', started')
                      /\ IsWorking(h'[v]) => h'[v].request = inv'.request
    BY DEF Founded
  <1>1. CASE v = w
    BY <1>1 DEF Turn, Granting
  <1>2. CASE v # w
    <2>1. /\ h[v] \in HandlerSet /\ Vouched(h[v], calls, started)
          /\ IsWorking(h[v]) => h[v].request = inv.request
      BY DEF IInv, HandlersOK, Founded
    <2>2. Vouched(h[v], calls', started')
      BY <2>1 DEF Vouched, Lasting
    <2>3. CASE Turn(w, row)
      <3>1. h'[v] = h[v]
        BY <1>2, <2>3 DEF Turn
      <3>2. inv'.request = inv.request \/ ~IsWorking(h[v])
        <4>1. CASE Granting(w, row)
          <5>1. h'[v] = [h[v] EXCEPT !.current = FALSE]
            BY <1>2, <4>1 DEF Granting
          <5>2. ~IsWorking(h[v])
            BY <2>1, <3>1, <5>1 DEF IsWorking, HandlerSet
          <5> QED BY <5>2
        <4>2. CASE IsWorking(h[w])
          BY <1>2, <4>2 DEF IInv, TokensOK
        <4> QED BY <4>1, <4>2
      <3> QED BY <2>1, <2>2, <3>1, <3>2
    <2>4. CASE Granting(w, row)
      <3>1. h'[v] = [h[v] EXCEPT !.current = FALSE]
        BY <1>2, <2>4 DEF Granting
      <3>2. /\ h'[v].pc = h[v].pc /\ h'[v].copy = h[v].copy /\ h'[v].response = h[v].response
            /\ h'[v].request = h[v].request /\ h'[v].current = FALSE
        BY <2>1, <3>1 DEF HandlerSet
      <3> QED BY <2>2, <3>2 DEF Vouched, IsWorking
    <2> QED BY <2>3, <2>4
  <1> QED BY <1>1, <1>2

LEMMA IdleVouched == Vouched(Idle, calls', started') /\ ~IsWorking(Idle)
BY DEF Vouched, Idle, IsWorking

(* The handler stops; only a working one has written the row.               *)
LEMMA StopFounded ==
    ASSUME IInv, Founded, Lasting, NEW w \in Handlers, h' = [h EXCEPT ![w] = Idle],
           inv' = inv \/ (IsWorking(h[w]) /\ RowFounded')
    PROVE  Founded'
  <1>1. Turn(w, Idle)
    BY IdleOK, TurnIntro DEF IInv
  <1>2. RowFounded'
    BY RowStaysFounded DEF Founded
  <1> QED BY <1>1, <1>2, IdleVouched, TurnFounded

(* A handler's next step, its answer with it or as it was.                  *)
LEMMA GoesFounded ==
    ASSUME IInv, Founded, Lasting, NEW w \in Handlers, inv' = inv, h[w].pc \notin {"idle", "take"},
           NEW pc \in Pcs \ {"take", "admit", "plan", "start"},
           NEW response \in Answers \cup {"accepted", "allow"},
           \/ Sets(w, pc, response)
           \/ Steps(w, pc) /\ response = h[w].response,
           pc \in {"record", "finish"} /\ response = "executed" => calls' = 1,
           pc = "finish" /\ response = "none" => h[w].request \in started'
    PROVE  Founded'
  <1>1. PICK row \in HandlerSet :
          /\ Turn(w, row) /\ row.pc = pc /\ row.response = response
          /\ row.request = h[w].request /\ row.current = h[w].current
    BY SetTurn, StepTurn DEF IInv
  <1>2. Vouched(row, calls', started')
    BY <1>1 DEF Vouched
  <1>3. IsWorking(row) => row.request = inv'.request
    BY <1>1 DEF IsWorking, Founded
  <1>4. RowFounded'
    BY RowStaysFounded DEF Founded
  <1> QED BY <1>1, <1>2, <1>3, <1>4, TurnFounded

LEMMA DbLasts == UNCHANGED db => Lasting
BY DEF db, Lasting

(* A finished row answers what its last writer vouched for.                 *)
LEMMA RecoverableFounded ==
    ASSUME IInv, Founded, Lasting, NEW w \in Handlers, h[w].pc \notin {"idle", "take"},
           Recoverable(w)
    PROVE  Founded'
  <1>1. inv' = inv \/ (inv' = [inv EXCEPT !.lease = "expired"] /\ IsWorking(h[w])
                       /\ inv.status \in Unfinished)
    BY PatchedBy DEF Recoverable
  <1>2. CASE inv' = inv
    BY <1>2, StopFounded DEF Recoverable
  <1>3. CASE inv' = [inv EXCEPT !.lease = "expired"] /\ IsWorking(h[w]) /\ inv.status \in Unfinished
    <2>1. inv'.status = inv.status /\ inv'.response = "none"
      BY <1>3 DEF IInv, RowOK, Rows, Founded, RowFounded
    <2>2. RowFounded'
      BY <1>3, <2>1, UnfinishedIsFounded DEF Final, Unfinished
    <2> QED BY <1>3, <2>2, StopFounded DEF Recoverable
  <1> QED BY <1>1, <1>2, <1>3

LEMMA AnsweringFounded ==
    ASSUME IInv, Founded, NEW w \in Handlers, Withdraw(w) \/ Finish(w)
    PROVE  Founded'
  <1>1. Lasting /\ h' = [h EXCEPT ![w] = Idle] /\ h[w].pc \in {"withdraw", "finish"}
    BY DbLasts DEF Withdraw, Finish
  <1>2. inv' = inv \/ (IsWorking(h[w]) /\ RowFounded')
    <2> DEFINE task == h[w].pc = "finish" /\ h[w].kind = "approval" /\ h[w].response = "none"
               answer == IF h[w].pc = "withdraw" THEN "cancelled" ELSE h[w].response
               patch == IF task THEN [WithStatus(inv, "committed") EXCEPT !.lease = "expired"]
                        ELSE [WithStatus(inv, "completed") EXCEPT !.lease = "expired",
                                                                  !.response = answer]
    <2>1. Patched(w, patch)
      BY <1>1 DEF Withdraw, Finish
    <2>2. inv' = inv \/ (inv' = patch /\ IsWorking(h[w]) /\ inv.status \in Unfinished)
      BY <1>1, <2>1, PatchedBy
    <2>3. inv \in Rows /\ Vouched(h[w], calls, started) /\ UNCHANGED <<calls, started>>
      BY DEF IInv, RowOK, Founded, Withdraw, Finish, db
    <2>4. ASSUME inv' = patch, IsWorking(h[w]), inv.status \in Unfinished
          PROVE  RowFounded'
      <3>1. h[w].request = inv.request /\ inv.response = "none"
        BY <2>4 DEF Founded, RowFounded
      <3>2. /\ inv'.status = (IF task THEN "committed" ELSE "completed")
            /\ inv'.response = (IF task THEN "none" ELSE answer)
            /\ inv'.request = inv.request
        BY <2>3, <2>4, <3>1 DEF Rows, WithStatus
      <3> HIDE DEF patch
      <3>3. inv'.status \notin Unfinished
        BY <3>2 DEF Unfinished
      <3>4. inv'.response = "executed" => calls' = 1
        BY <1>1, <2>3, <3>2 DEF Vouched
      <3>5. inv'.status = "committed" => inv'.request \in started'
        BY <2>3, <3>1, <3>2 DEF Vouched
      <3> QED BY <3>3, <3>4, <3>5 DEF RowFounded, AnswerIsFounded
    <2> QED BY <2>2, <2>4
  <1> QED BY <1>1, <1>2, StopFounded

(* Looking at a row: the copy of an unfinished one.                         *)
LEMMA LookFounded ==
    ASSUME IInv, Founded, NEW w \in Handlers, NEW intent \in {"call", "poll", "cancel"},
           UNCHANGED <<inv, db>>, Stealable(inv),
           h' = [h EXCEPT ![w] = [Idle EXCEPT !.pc = "take", !.intent = intent,
                                              !.copy = inv, !.current = TRUE]]
    PROVE  Founded'
  <1> DEFINE row == [Idle EXCEPT !.pc = "take", !.intent = intent, !.copy = inv, !.current = TRUE]
  <1>1. inv \in Rows /\ inv.response = "none"
    BY DEF IInv, RowOK, Stealable, Founded, RowFounded
  <1>2. row \in HandlerSet /\ row.pc = "take" /\ row.copy = inv /\ row.response = "none"
    BY <1>1, IdleOK DEF HandlerSet, Pcs, Idle
  <1> HIDE DEF row
  <1>3. Turn(w, row)
    BY <1>2, TurnIntro DEF IInv, row
  <1>4. Vouched(row, calls', started') /\ ~IsWorking(row)
    BY <1>1, <1>2 DEF Vouched, IsWorking
  <1>5. RowFounded' /\ Lasting
    BY DbLasts, RowStaysFounded DEF Founded
  <1> QED BY <1>3, <1>4, <1>5, TurnFounded

(* A handler that is given the token, with the row it then writes.          *)
LEMMA GrantFounded ==
    ASSUME IInv, Founded, Lasting, NEW w \in Handlers, NEW next \in HandlerSet, h' = Granted(w, next),
           next.pc \in {"withdraw", "admit", "plan"}, next.response = "none",
           next.request = inv'.request, inv'.status \in Unfinished, inv'.response = "none"
    PROVE  Founded'
  <1> DEFINE row == [next EXCEPT !.current = TRUE]
  <1>1. /\ row \in HandlerSet /\ row.pc = next.pc /\ row.request = next.request
        /\ row.response = next.response
    BY DEF HandlerSet
  <1>2. \A v \in Handlers : [h[v] EXCEPT !.current = FALSE] \in HandlerSet
    BY DEF IInv, HandlersOK, HandlerSet
  <1>3. h'[w] = row
    BY DEF Granted
  <1> HIDE DEF row
  <1>4. Granting(w, row)
    BY <1>1, <1>2, <1>3 DEF Granted, Granting, row
  <1>5. Vouched(row, calls', started')
    BY <1>1 DEF Vouched
  <1>6. RowFounded'
    BY UnfinishedIsFounded DEF Final, Unfinished
  <1> QED BY <1>1, <1>4, <1>5, <1>6, TurnFounded

LEMMA CallFounded ==
    ASSUME IInv, Founded, NEW w \in Handlers, Call(w)
    PROVE  Founded'
  <1>1. UNCHANGED db
    BY DEF Call
  <1>2. CASE inv.column = "absent"
    <2> DEFINE next == [Idle EXCEPT !.pc = "admit", !.intent = "call"]
    <2>1. /\ next \in HandlerSet /\ next.pc = "admit" /\ next.response = "none"
          /\ next.request = Nobody
      BY IdleOK DEF HandlerSet, Pcs, Idle
    <2>2. h' = Granted(w, next) /\ inv' = [WithStatus(NoRow, "reserved") EXCEPT !.lease = "held"]
      BY <1>2 DEF Call
    <2> HIDE DEF next
    <2>3. inv'.status \in Unfinished /\ inv'.request = Nobody /\ inv'.response = "none"
      BY <2>2 DEF WithStatus, NoRow, Unfinished
    <2> QED BY <1>1, <2>1, <2>2, <2>3, DbLasts, GrantFounded
  <1>3. CASE inv.column # "absent"
    BY <1>1, <1>3, LookFounded DEF Call
  <1> QED BY <1>2, <1>3

LEMMA AskFounded ==
    ASSUME IInv, Founded, NEW w \in Handlers, NEW intent \in {"poll", "cancel"}, Ask(w, intent)
    PROVE  Founded'
BY LookFounded DEF Ask

LEMMA TakeOverFounded ==
    ASSUME IInv, Founded, NEW w \in Handlers, TakeOver(w)
    PROVE  Founded'
  <1>1. /\ UNCHANGED db /\ h[w] \in HandlerSet /\ h[w].copy \in Rows
        /\ h[w].copy.status \in Unfinished /\ h[w].copy.response = "none" /\ h[w].response = "none"
        /\ h[w].pc = "take"
    BY DEF TakeOver, IInv, HandlersOK, HandlerOK, HandlerSet, Founded, Vouched
  <1>2. CASE TokenHolds(w) /\ inv.lease = "expired" /\ inv.column \in Unfinished
    <2> DEFINE copy == h[w].copy
               mine == [h[w] EXCEPT !.request = copy.request, !.kind = copy.kind, !.copy = NoRow]
               next == IF mine.intent = "cancel" THEN [mine EXCEPT !.pc = "withdraw"]
                       ELSE IF copy.status = "reserved" THEN [mine EXCEPT !.pc = "admit"]
                       ELSE [mine EXCEPT !.pc = "plan", !.resume = TRUE]
    <2>1. mine \in HandlerSet /\ mine.request = copy.request /\ mine.response = "none"
      <3>1. NoRow \in Rows
        BY DEF NoRow, Rows, Statuses, Answers, Kinds
      <3> QED BY <1>1, <3>1 DEF HandlerSet, Rows
    <2>2. h' = Granted(w, next) /\ inv' = [copy EXCEPT !.column = inv.column, !.lease = "held"]
      BY <1>2 DEF TakeOver
    <2>3. /\ inv'.status = copy.status /\ inv'.request = copy.request
          /\ inv'.response = copy.response
      BY <1>1, <2>2 DEF Rows
    <2> HIDE DEF mine
    <2>4. /\ next \in HandlerSet /\ next.pc \in {"withdraw", "admit", "plan"}
          /\ next.request = copy.request /\ next.response = "none"
      BY <2>1 DEF HandlerSet, Pcs, Committing
    <2> HIDE DEF next
    <2> QED BY <1>1, <2>2, <2>3, <2>4, DbLasts, GrantFounded
  <1>3. CASE ~(TokenHolds(w) /\ inv.lease = "expired" /\ inv.column \in Unfinished)
    <2>1. h' = [h EXCEPT ![w] = Idle] /\ inv' = inv
      BY <1>3 DEF TakeOver
    <2> QED BY <1>1, <2>1, DbLasts, StopFounded
  <1> QED BY <1>2, <1>3

LEMMA AdmitFounded ==
    ASSUME IInv, Founded, NEW w \in Handlers,
           \/ AdmitRefused(w) \/ AdmitDenied(w)
           \/ \E r \in Requests, kind \in {"immediate", "approval"} : AdmitPrepared(w, r, kind)
    PROVE  Founded'
  <1>1. Lasting /\ h[w].pc = "admit" /\ h[w] \in HandlerSet /\ inv \in Rows
        /\ Vouched(h[w], calls', started')
    BY DbLasts DEF AdmitRefused, AdmitDenied, AdmitPrepared, IInv, HandlersOK, RowOK,
                   Founded, db
  <1>2. CASE AdmitRefused(w)
    <2>1. h' = [h EXCEPT ![w] = Idle] /\ (inv' = inv \/ (TokenHolds(w) /\ inv' = NoRow))
      BY <1>2 DEF AdmitRefused, Release
    <2>2. inv' = NoRow => RowFounded'
      BY UnfinishedIsFounded DEF NoRow, Final
    <2>3. TokenHolds(w) => IsWorking(h[w])
      BY <1>1 DEF TokenHolds, IsWorking
    <2> QED BY <1>1, <2>1, <2>2, <2>3, StopFounded
  <1>3. CASE AdmitDenied(w)
    <2>1. /\ Sets(w, "finish", "authorization_denied") /\ inv' = inv
          /\ "finish" \in Pcs \ {"take", "admit", "plan", "start"}
          /\ "authorization_denied" \in Answers \cup {"accepted", "allow"}
      BY <1>3 DEF AdmitDenied, Sets, Pcs, Committing, Answers
    <2> QED BY <1>1, <2>1, GoesFounded
  <1>4. CASE \E r \in Requests, kind \in {"immediate", "approval"} : AdmitPrepared(w, r, kind)
    <2>1. PICK r \in Requests, kind \in {"immediate", "approval"} : AdmitPrepared(w, r, kind)
      BY <1>4
    <2>2. CASE TokenHolds(w)
      <3> DEFINE row == [h[w] EXCEPT !.pc = "plan", !.resume = FALSE, !.request = r, !.kind = kind]
      <3>1. /\ row \in HandlerSet /\ row.pc = "plan" /\ row.request = r
            /\ row.response = h[w].response
        BY <1>1 DEF HandlerSet, Pcs, Committing, Kinds
      <3>2. /\ h' = [h EXCEPT ![w] = row]
            /\ inv' = [WithStatus(inv, "prepared") EXCEPT !.request = r, !.kind = kind]
        BY <2>1, <2>2 DEF AdmitPrepared, Patched
      <3> HIDE DEF row
      <3>3. Turn(w, row) /\ IsWorking(h[w])
        BY <1>1, <2>2, <3>1, <3>2, TurnIntro DEF IInv, TokenHolds, IsWorking
      <3>4. inv.response = "none"
        BY <3>3 DEF IInv, TokensOK, Founded, RowFounded
      <3>5. inv'.status = "prepared" /\ inv'.request = r /\ inv'.response = "none"
        BY <1>1, <3>2, <3>4 DEF WithStatus, Rows
      <3>6. RowFounded'
        BY <3>5, UnfinishedIsFounded DEF Final
      <3>7. Vouched(row, calls', started')
        BY <1>1, <3>1 DEF Vouched
      <3> QED BY <1>1, <3>1, <3>3, <3>5, <3>6, <3>7, TurnFounded
    <2>3. CASE ~TokenHolds(w)
      <3>1. h' = [h EXCEPT ![w] = Idle] /\ inv' = inv
        BY <2>1, <2>3 DEF AdmitPrepared, Patched
      <3> QED BY <1>1, <3>1, StopFounded
    <2> QED BY <2>2, <2>3
  <1> QED BY <1>2, <1>3, <1>4

LEMMA CommitFounded ==
    ASSUME IInv, Founded, NEW w \in Handlers,
           SavePlan(w) \/ StartWorkflow(w) \/ Reauthorize(w) \/ AuditStart(w)
    PROVE  Founded'
  <1>1. /\ Lasting /\ h[w].pc \notin {"idle", "take"} /\ Vouched(h[w], calls, started)
        /\ h[w].response \in Answers \cup {"accepted", "allow"}
    <2>1. started \subseteq started' /\ calls' = calls
      BY DEF SavePlan, StartWorkflow, Reauthorize, AuditStart, db
    <2>2. h[w].pc \in {"plan", "start", "reauthorize", "audit"}
      BY DEF SavePlan, StartWorkflow, Reauthorize, AuditStart
    <2>3. h[w] \in HandlerSet /\ Vouched(h[w], calls, started)
      BY DEF IInv, HandlersOK, Founded
    <2> QED BY <2>1, <2>2, <2>3 DEF Lasting, HandlerSet
  <1>2. {"reauthorize", "audit", "record", "execute", "finish"} \subseteq Pcs \ {"take", "admit", "plan", "start"}
    BY DEF Pcs, Committing
  <1>3. CASE SavePlan(w)
    <2>1. \/ Steps(w, "start") \/ Steps(w, "reauthorize")
          \/ Sets(w, "finish", "error") /\ "error" \in Answers \cup {"accepted", "allow"}
      BY <1>3 DEF SavePlan, Steps, Sets, Answers
    <2>2. inv' = inv /\ h[w].pc = "plan"
      BY <1>3 DEF SavePlan
    <2>3. CASE Steps(w, "start")
      <3>1. "start" \in Pcs
        BY DEF Pcs, Committing
      <3>2. PICK row \in HandlerSet :
              /\ Turn(w, row) /\ row.pc = "start" /\ row.response = h[w].response
              /\ row.request = h[w].request /\ row.current = h[w].current
        BY <2>3, <3>1, StepTurn DEF IInv
      <3>3. Vouched(row, calls', started')
        BY <1>1, <2>2, <3>2 DEF Vouched
      <3>4. IsWorking(row) => row.request = inv'.request
        BY <2>2, <3>2 DEF IsWorking, Founded
      <3>5. RowFounded'
        BY <1>1, <2>2, RowStaysFounded DEF Founded
      <3> QED BY <1>1, <2>2, <3>2, <3>3, <3>4, <3>5, TurnFounded
    <2>4. CASE Steps(w, "reauthorize")
      BY <1>1, <1>2, <2>2, <2>4, GoesFounded
    <2>5. CASE Sets(w, "finish", "error") /\ "error" \in Answers \cup {"accepted", "allow"}
      BY <1>1, <1>2, <2>2, <2>5, GoesFounded
    <2> QED BY <2>1, <2>3, <2>4, <2>5
  <1>4. CASE StartWorkflow(w)
    <2>1. Steps(w, "finish") /\ inv' = inv /\ h[w].request \in started' /\ h[w].response = "none"
      BY <1>1, <1>4 DEF StartWorkflow, Steps, Vouched
    <2> QED BY <1>1, <1>2, <2>1, GoesFounded
  <1>5. CASE Reauthorize(w)
    <2>1. PICK answer \in {"allow", "authorization_revoked", "authorization_check_failed"} :
            Sets(w, IF answer = "allow" THEN "audit" ELSE "record", answer)
      BY <1>5 DEF Reauthorize, Sets
    <2>2. PICK pc \in {"audit", "record"} : Sets(w, pc, answer)
      BY <2>1
    <2>3. inv' = inv /\ answer \in Answers \cup {"accepted", "allow"}
      BY <1>5 DEF Reauthorize, Answers, Outcomes
    <2> QED BY <1>1, <1>2, <2>2, <2>3, GoesFounded
  <1>6. CASE AuditStart(w)
    <2>1. CASE OtherEvidence(log)
      BY <1>1, <1>6, <2>1, RecoverableFounded DEF AuditStart
    <2>2. CASE ~OtherEvidence(log)
      <3>1. Steps(w, "execute") /\ inv' = inv
        BY <1>6, <2>2 DEF AuditStart, Steps
      <3> QED BY <1>1, <1>2, <3>1, GoesFounded
    <2> QED BY <2>1, <2>2
  <1> QED BY <1>3, <1>4, <1>5, <1>6

LEMMA ExecutionFounded ==
    ASSUME IInv, Founded, NEW w \in Handlers, Execute(w) \/ RecordResult(w)
    PROVE  Founded'
  <1>1. /\ "record" \in Pcs \ {"take", "admit", "plan", "start"}
        /\ "finish" \in Pcs \ {"take", "admit", "plan", "start"}
    BY DEF Pcs, Committing
  <1>2. inv' = inv /\ h[w].pc \notin {"idle", "take"}
    BY DEF Execute, RecordResult
  <1>3. CASE Execute(w)
    <2>1. calls' = 1 /\ started' = started
      BY <1>3 DEF Execute, IInv, ExecutionOK
    <2>2. PICK retriable, atMostOnce \in BOOLEAN :
            \E outcome \in {"executed", "accepted", FailureStatus(retriable, atMostOnce)} :
              Sets(w, "record", outcome)
      BY <1>3 DEF Execute, Sets
    <2>3. PICK outcome \in Answers \cup {"accepted", "allow"} : Sets(w, "record", outcome)
      BY <2>2 DEF FailureStatus, Answers, Outcomes, Failures
    <2>4. Lasting
      BY <2>1 DEF Lasting
    <2> QED BY <1>1, <1>2, <2>1, <2>3, <2>4, GoesFounded
  <1>4. CASE RecordResult(w)
    <2> DEFINE answer == AnswerOf(h[w].response)
    <2>1. /\ h[w].response \in Outcomes \cup {"accepted"} /\ Vouched(h[w], calls, started)
          /\ h[w].pc = "record" /\ UNCHANGED <<calls, started>>
      BY <1>4 DEF RecordResult, IInv, HandlersOK, HandlerOK, Founded
    <2>2. /\ answer \in Answers \cup {"accepted", "allow"} /\ answer # "none"
          /\ answer = "executed" => h[w].response = "executed"
      BY <2>1 DEF AnswerOf, Answers, Outcomes, Failures
    <2>3. Sets(w, "finish", answer)
      BY <1>4 DEF RecordResult, Sets
    <2>4. answer = "executed" => calls' = 1
      BY <2>1, <2>2 DEF Vouched
    <2>5. Lasting
      BY <2>1 DEF Lasting
    <2> HIDE DEF answer
    <2> QED BY <1>1, <1>2, <2>2, <2>3, <2>4, <2>5, GoesFounded
  <1> QED BY <1>3, <1>4

LEMMA NextFounded ==
    ASSUME IInv, Founded, [Next]_vars
    PROVE  Founded'
  <1>1. CASE LeaseExpires
    <2>1. /\ inv' = [inv EXCEPT !.lease = "expired"] /\ inv \in Rows
          /\ h' = h /\ calls' = calls /\ started' = started
      BY <1>1 DEF LeaseExpires, db, IInv, RowOK
    <2>2. inv'.status = inv.status /\ inv'.response = inv.response /\ inv'.request = inv.request
      BY <2>1 DEF Rows
    <2> QED BY <2>1, <2>2 DEF Founded, RowFounded, AnswerIsFounded, Answered, Unfinished
  <1>2. CASE UNCHANGED vars
    BY <1>2 DEF vars, Founded, RowFounded, AnswerIsFounded, Answered
  <1>3. ASSUME NEW w \in Handlers,
               Call(w) \/ Poll(w) \/ CancelTask(w) \/ HandBack(w) \/ Work(w)
                 \/ CommitFails(w) \/ Crash(w)
        PROVE  Founded'
    <2>1. CASE Call(w)
      BY <2>1, CallFounded
    <2>2. CASE Poll(w) \/ CancelTask(w)
      BY <2>2, AskFounded DEF Poll, CancelTask
    <2>3. CASE HandBack(w) \/ CommitFails(w)
      <3>1. h[w].pc \notin {"idle", "take"} /\ Recoverable(w) /\ Lasting
        BY <2>3, DbLasts DEF HandBack, CommitFails, Recoverable
      <3> QED BY <3>1, RecoverableFounded
    <2>4. CASE Crash(w)
      BY <2>4, DbLasts, StopFounded DEF Crash
    <2>5. CASE Work(w)
      <3>1. CASE TakeOver(w)
        BY <3>1, TakeOverFounded
      <3>2. CASE Withdraw(w) \/ Finish(w)
        BY <3>2, AnsweringFounded
      <3>3. CASE \/ AdmitRefused(w) \/ AdmitDenied(w)
                 \/ \E r \in Requests, kind \in {"immediate", "approval"} : AdmitPrepared(w, r, kind)
        BY <3>3, AdmitFounded
      <3>4. CASE SavePlan(w) \/ StartWorkflow(w) \/ Reauthorize(w) \/ AuditStart(w)
        BY <3>4, CommitFounded
      <3>5. CASE Execute(w) \/ RecordResult(w)
        BY <3>5, ExecutionFounded
      <3> QED BY <2>5, <3>1, <3>2, <3>3, <3>4, <3>5 DEF Work
    <2> QED BY <1>3, <2>1, <2>2, <2>3, <2>4, <2>5
  <1> QED BY <1>1, <1>2, <1>3 DEF Next

LEMMA InitFounded == Init => Founded
BY DEF Init, NoRow, Idle, Founded, RowFounded, AnswerIsFounded, Answered, Vouched, IsWorking

-----------------------------------------------------------------------------
(* Until a lease runs out under its handler, one handler works at a time,   *)
(* and what it knows is what the row says.  A handler that is about to take *)
(* over acts on the row it has read, or not at all.  "stored" is the result *)
(* the handler's answer is about.  A Task is withdrawn, an immediate        *)
(* request executed, never one for the other.                               *)
Bystander(x) ==
    /\ x.pc \in {"idle", "take"}
    /\ x.pc = "take" => /\ x.response = "none" /\ ~x.current
                        /\ x.intent = "cancel" => x.copy.kind = "approval"

Honours(x, row, stored) ==
    /\ x.pc \notin {"idle", "take"} => /\ x.current /\ row.lease = "held"
                                      /\ x.request = row.request /\ x.kind = row.kind
    /\ x.pc = "take" => x.response = "none" /\ (x.current => x.copy = row /\ row.lease = "expired")
    /\ x.pc = "take" /\ x.intent = "cancel" => x.copy.kind = "approval"
    /\ x.pc = "withdraw" => x.kind = "approval"
    /\ x.pc = "admit" => row.status = "reserved"
    /\ x.pc = "plan" => x.kind # "none"
    /\ x.pc \in {"reauthorize", "audit", "execute"} => x.kind = "immediate"
    /\ x.pc \in {"withdraw", "admit", "plan", "start"} => x.response = "none"
    /\ x.pc = "finish" /\ x.response \in Outcomes => stored = x.response
    /\ x.pc = "finish" /\ x.response = "authorization_denied" => row.status = "reserved"
    /\ x.pc = "finish" => x.response # "cancelled"

(* The only plan is the row's, only an immediate request is executed, and   *)
(* an answered row is answered truly.                                       *)
RowHonoured ==
    /\ plans \subseteq {inv.request}
    /\ inv.kind # "immediate" => calls = 0
    /\ inv.status \in {"absent", "reserved"} => inv.request = Nobody /\ inv.kind = "none"
    /\ inv.status = "prepared" => inv.kind # "none"
    /\ inv.status \in Unfinished => inv.response = "none"
    /\ AnswerIsTrue

Honoured == RowHonoured /\ \A w \in Handlers : Honours(h[w], inv, result)

OthersWait(w) == \A v \in Handlers \ {w} : h'[v] = h[v]
Busy(w) == h[w].pc \notin {"idle", "take"}

LEMMA BystandersHonour ==
    ASSUME NEW x, Bystander(x), NEW row, NEW stored
    PROVE  Honours(x, row, stored)
BY DEF Bystander, Honours

(* Nobody else works or can take over while a handler works.                *)
LEMMA BusyIsAlone ==
    ASSUME IInv, Honoured, NEW w \in Handlers, Busy(w)
    PROVE  \A v \in Handlers \ {w} : Bystander(h[v])
  <1> SUFFICES ASSUME NEW v \in Handlers \ {w} PROVE Bystander(h[v])
    OBVIOUS
  <1>1. Honours(h[w], inv, result) /\ Honours(h[v], inv, result)
    BY DEF Honoured
  <1>2. IsWorking(h[w]) /\ inv.lease = "held"
    BY <1>1 DEF Busy, Honours, IsWorking
  <1>3. h[v].pc \in {"idle", "take"}
    BY <1>1, <1>2 DEF Honours, IsWorking, IInv, TokensOK
  <1> QED BY <1>1, <1>2, <1>3 DEF Honours, Bystander

LEMMA BusyKeeps ==
    ASSUME IInv, Honoured, NEW w \in Handlers, Busy(w), OthersWait(w), RowHonoured',
           Honours(h'[w], inv', result')
    PROVE  Honoured'
  <1>1. \A v \in Handlers \ {w} : Bystander(h'[v])
    BY BusyIsAlone DEF OthersWait
  <1>2. \A v \in Handlers : Honours(h'[v], inv', result')
    BY <1>1, BystandersHonour
  <1> QED BY <1>2 DEF Honoured

LEMMA IdleHonours ==
    ASSUME NEW row, NEW stored
    PROVE  Honours(Idle, row, stored)
BY DEF Idle, Honours

LEMMA StopWaits ==
    ASSUME HandlersOK, NEW w \in Handlers, h' = [h EXCEPT ![w] = Idle]
    PROVE  OthersWait(w) /\ h'[w] = Idle
BY DEF HandlersOK, OthersWait

LEMMA BusyStops ==
    ASSUME IInv, Honoured, NEW w \in Handlers, Busy(w), h' = [h EXCEPT ![w] = Idle], RowHonoured'
    PROVE  Honoured'
BY StopWaits, IdleHonours, BusyKeeps DEF IInv

(* A step of one handler that leaves the row and the stores alone.          *)
LEMMA InertKeeps ==
    ASSUME IInv, Honoured, NEW w \in Handlers, OthersWait(w),
           UNCHANGED <<inv, plans, started, result, calls>>,
           Honours(h'[w], inv, result)
    PROVE  Honoured'
  <1>1. RowHonoured'
    BY DEF Honoured, RowHonoured, AnswerIsTrue, Answered
  <1>2. \A v \in Handlers : Honours(h'[v], inv, result)
    BY DEF Honoured, OthersWait
  <1> QED BY <1>1, <1>2 DEF Honoured

(* A handler that is given the lease while nobody works.                    *)
LEMMA GrantKeeps ==
    ASSUME IInv, Honoured, NEW w \in Handlers, \A v \in Handlers : ~Busy(v),
           NEW next \in HandlerSet, h' = Granted(w, next), RowHonoured',
           Honours([next EXCEPT !.current = TRUE], inv', result')
    PROVE  Honoured'
  <1>1. h'[w] = [next EXCEPT !.current = TRUE]
    BY DEF Granted
  <1>2. ASSUME NEW v \in Handlers \ {w}
        PROVE  Bystander(h'[v])
    <2>1. h'[v] = [h[v] EXCEPT !.current = FALSE] /\ h[v] \in HandlerSet
      BY DEF Granted, IInv, HandlersOK
    <2>2. /\ h'[v].pc = h[v].pc /\ h'[v].response = h[v].response /\ h'[v].current = FALSE
          /\ h'[v].copy = h[v].copy /\ h'[v].intent = h[v].intent
      BY <2>1 DEF HandlerSet
    <2>3. Honours(h[v], inv, result) /\ h[v].pc \in {"idle", "take"}
      BY DEF Honoured, Busy
    <2> QED BY <2>2, <2>3 DEF Honours, Bystander
  <1>3. \A v \in Handlers : Honours(h'[v], inv', result')
    BY <1>1, <1>2, BystandersHonour
  <1> QED BY <1>3 DEF Honoured

(* Who works finds its token on the row.                                    *)
LEMMA BusyHolds ==
    ASSUME IInv, Honoured, NEW w \in Handlers, Busy(w)
    PROVE  /\ TokenHolds(w) /\ inv.status \in Unfinished /\ inv.response = "none"
           /\ h[w].request = inv.request /\ h[w].kind = inv.kind /\ inv \in Rows /\ h[w] \in HandlerSet
           /\ Honours(h[w], inv, result)
  <1>1. Honours(h[w], inv, result)
    BY DEF Honoured
  <1>2. IsWorking(h[w]) /\ h[w].request = inv.request /\ h[w].kind = inv.kind
    BY <1>1 DEF Honours, Busy, IsWorking
  <1>3. inv.status \in Unfinished
    BY <1>2 DEF IInv, TokensOK
  <1>4. inv.column # "absent"
    BY <1>3 DEF IInv, RowOK, Unfinished
  <1>5. inv \in Rows /\ h[w] \in HandlerSet
    BY DEF IInv, RowOK, HandlersOK
  <1> QED BY <1>1, <1>2, <1>3, <1>4, <1>5 DEF TokenHolds, IsWorking, Honoured, RowHonoured

LEMMA SetAlone ==
    ASSUME IInv, NEW w \in Handlers, NEW pc, NEW response, Sets(w, pc, response)
    PROVE  /\ OthersWait(w) /\ h'[w].pc = pc /\ h'[w].response = response
           /\ h'[w].request = h[w].request /\ h'[w].kind = h[w].kind
           /\ h'[w].current = h[w].current
  <1>1. h \in [Handlers -> HandlerSet] /\ h[w] \in HandlerSet
    BY DEF IInv, HandlersOK
  <1>2. h'[w] = [h[w] EXCEPT !.pc = pc, !.response = response] /\ OthersWait(w)
    BY <1>1 DEF Sets, OthersWait
  <1> QED BY <1>1, <1>2 DEF HandlerSet

LEMMA StepAlone ==
    ASSUME IInv, NEW w \in Handlers, NEW pc, Steps(w, pc)
    PROVE  /\ OthersWait(w) /\ h'[w].pc = pc /\ h'[w].response = h[w].response
           /\ h'[w].request = h[w].request /\ h'[w].kind = h[w].kind
           /\ h'[w].current = h[w].current
  <1>1. h \in [Handlers -> HandlerSet] /\ h[w] \in HandlerSet
    BY DEF IInv, HandlersOK
  <1>2. h'[w] = [h[w] EXCEPT !.pc = pc] /\ OthersWait(w)
    BY <1>1 DEF Steps, OthersWait
  <1> QED BY <1>1, <1>2 DEF HandlerSet

LEMMA CallHonoured ==
    ASSUME IInv, Honoured, NEW w \in Handlers, Call(w)
    PROVE  Honoured'
  <1>1. UNCHANGED <<plans, started, result, calls>> /\ HandlersOK /\ h[w].pc = "idle"
    BY DEF Call, db, IInv
  <1>2. CASE inv.column = "absent"
    <2> DEFINE next == [Idle EXCEPT !.pc = "admit", !.intent = "call"]
    <2>1. inv.status = "absent"
      BY <1>2 DEF IInv, RowOK
    <2>2. \A v \in Handlers : ~Busy(v)
      <3> SUFFICES ASSUME NEW v \in Handlers, Busy(v) PROVE FALSE
        OBVIOUS
      <3>1. inv.status \in Unfinished
        BY BusyHolds
      <3> QED BY <2>1, <3>1 DEF Unfinished
    <2>3. next \in HandlerSet /\ h' = Granted(w, next)
          /\ inv' = [WithStatus(NoRow, "reserved") EXCEPT !.lease = "held"]
      BY <1>2, IdleOK DEF Call, HandlerSet, Pcs, Idle
    <2>4. /\ inv'.status = "reserved" /\ inv'.request = Nobody /\ inv'.response = "none"
          /\ inv'.lease = "held" /\ inv'.kind = "none"
      BY <2>3 DEF WithStatus, NoRow
    <2>5. plans = {} /\ calls = 0
      BY <2>1, RequestsAssumption DEF Honoured, RowHonoured, IInv, DataOK
    <2>6. RowHonoured'
      BY <1>1, <2>4, <2>5 DEF RowHonoured, AnswerIsTrue, Answered, Unfinished, Outcomes, Failures
    <2>7. LET x == [next EXCEPT !.current = TRUE]
          IN  x.pc = "admit" /\ x.current /\ x.request = Nobody /\ x.response = "none"
              /\ x.kind = "none"
      BY DEF Idle
    <2>8. Honours([next EXCEPT !.current = TRUE], inv', result')
      BY <2>4, <2>7 DEF Honours
    <2> QED BY <2>2, <2>3, <2>6, <2>8, GrantKeeps
  <1>3. CASE inv.column # "absent"
    <2> DEFINE row == [Idle EXCEPT !.pc = "take", !.intent = "call", !.copy = inv, !.current = TRUE]
    <2>1. row.pc = "take" /\ row.copy = inv /\ row.response = "none" /\ row.intent # "cancel"
      BY DEF Idle
    <2>2. h' = [h EXCEPT ![w] = row] /\ inv' = inv /\ inv.lease = "expired"
      BY <1>3 DEF Call, Stealable
    <2> HIDE DEF row
    <2>3. OthersWait(w) /\ h'[w] = row
      BY <1>1, <2>2 DEF HandlersOK, OthersWait
    <2>4. Honours(h'[w], inv, result)
      BY <2>1, <2>2, <2>3 DEF Honours
    <2> QED BY <1>1, <2>2, <2>3, <2>4, InertKeeps
  <1> QED BY <1>2, <1>3

LEMMA AskHonoured ==
    ASSUME IInv, Honoured, NEW w \in Handlers, NEW intent, Ask(w, intent)
    PROVE  Honoured'
  <1> DEFINE row == [Idle EXCEPT !.pc = "take", !.intent = intent, !.copy = inv, !.current = TRUE]
  <1>1. UNCHANGED <<plans, started, result, calls>> /\ HandlersOK
    BY DEF Ask, db, IInv
  <1>2. row.pc = "take" /\ row.copy = inv /\ row.response = "none"
    BY DEF Idle
  <1>3. h' = [h EXCEPT ![w] = row] /\ inv' = inv /\ inv.lease = "expired" /\ inv.kind = "approval"
    BY DEF Ask, Stealable
  <1> HIDE DEF row
  <1>4. OthersWait(w) /\ h'[w] = row
    BY <1>1, <1>3 DEF HandlersOK, OthersWait
  <1>5. Honours(h'[w], inv, result)
    BY <1>2, <1>3, <1>4 DEF Honours
  <1> QED BY <1>1, <1>3, <1>4, <1>5, InertKeeps

LEMMA TakeOverHonoured ==
    ASSUME IInv, Honoured, NEW w \in Handlers, TakeOver(w)
    PROVE  Honoured'
  <1>1. /\ UNCHANGED <<plans, started, result, calls>> /\ HandlersOK /\ h[w] \in HandlerSet
        /\ Honours(h[w], inv, result) /\ h[w].pc = "take" /\ inv \in Rows
        /\ HandlerOK(h[w], plans, log)
    BY DEF TakeOver, db, IInv, HandlersOK, Honoured, RowOK
  <1>2. CASE TokenHolds(w) /\ inv.lease = "expired" /\ inv.column \in Unfinished
    <2> DEFINE mine == [h[w] EXCEPT !.request = inv.request, !.kind = inv.kind, !.copy = NoRow]
               next == IF mine.intent = "cancel" THEN [mine EXCEPT !.pc = "withdraw"]
                       ELSE IF inv.status = "reserved" THEN [mine EXCEPT !.pc = "admit"]
                       ELSE [mine EXCEPT !.pc = "plan", !.resume = TRUE]
               row == [next EXCEPT !.current = TRUE]
    <2>1. h[w].copy = inv /\ h[w].response = "none" /\ inv.status \in Unfinished
      BY <1>1, <1>2 DEF Honours, TokenHolds, HandlerOK
    <2>2. h' = Granted(w, next) /\ inv' = [inv EXCEPT !.lease = "held"]
      <3>1. inv' = [inv EXCEPT !.column = inv.column, !.lease = "held"]
        BY <1>2, <2>1 DEF TakeOver
      <3>2. [inv EXCEPT !.column = inv.column, !.lease = "held"] = [inv EXCEPT !.lease = "held"]
        BY <1>1 DEF Rows
      <3> QED BY <1>2, <2>1, <3>1, <3>2 DEF TakeOver
    <2>3. /\ inv'.request = inv.request /\ inv'.status = inv.status /\ inv'.lease = "held"
          /\ inv'.response = inv.response /\ inv'.kind = inv.kind
      BY <1>1, <2>2 DEF Rows
    <2>4. mine \in HandlerSet /\ mine.request = inv.request /\ mine.response = "none"
          /\ mine.kind = inv.kind /\ mine.intent = h[w].intent
      <3>1. NoRow \in Rows
        BY DEF NoRow, Rows, Statuses, Answers, Kinds
      <3> QED BY <1>1, <2>1, <3>1 DEF HandlerSet, Rows
    <2> HIDE DEF mine
    <2>5. /\ next \in HandlerSet /\ row.current /\ row.request = inv.request /\ row.response = "none"
          /\ row.pc \in {"withdraw", "admit", "plan"} /\ (row.pc = "admit" => inv.status = "reserved")
          /\ row.kind = inv.kind
          /\ (row.pc = "withdraw" => h[w].intent = "cancel")
          /\ (row.pc = "plan" => inv.status # "reserved")
      BY <2>4 DEF HandlerSet, Pcs, Committing
    <2> HIDE DEF next
    <2>6. Honours(row, inv', result')
      <3>1. row.pc = "withdraw" => inv.kind = "approval"
        BY <1>1, <2>1, <2>5 DEF Honours
      <3>2. row.pc = "plan" => inv.kind # "none"
        BY <2>1, <2>5 DEF Honoured, RowHonoured, Unfinished
      <3> QED BY <2>3, <2>5, <3>1, <3>2 DEF Honours
    <2>7. \A v \in Handlers : ~Busy(v)
      <3> SUFFICES ASSUME NEW v \in Handlers, Busy(v) PROVE FALSE
        OBVIOUS
      <3>1. Honours(h[v], inv, result)
        BY DEF Honoured
      <3> QED BY <1>2, <3>1 DEF Honours, Busy
    <2>8. RowHonoured'
      BY <1>1, <2>1, <2>3 DEF Honoured, RowHonoured, AnswerIsTrue, Answered, Unfinished
    <2> QED BY <2>2, <2>5, <2>6, <2>7, <2>8, GrantKeeps
  <1>3. CASE ~(TokenHolds(w) /\ inv.lease = "expired" /\ inv.column \in Unfinished)
    <2>1. h' = [h EXCEPT ![w] = Idle] /\ inv' = inv
      BY <1>3 DEF TakeOver
    <2>2. OthersWait(w) /\ h'[w] = Idle
      BY <1>1, <2>1, StopWaits
    <2>3. Honours(h'[w], inv, result)
      BY <2>2, IdleHonours
    <2> QED BY <1>1, <2>1, <2>2, <2>3, InertKeeps
  <1> QED BY <1>2, <1>3

(* The holder gives up the lease and stops.                                 *)
LEMMA RecoverableHonoured ==
    ASSUME IInv, Honoured, NEW w \in Handlers, Busy(w), Recoverable(w),
           UNCHANGED <<plans, started, result, calls>>
    PROVE  Honoured'
  <1>1. /\ TokenHolds(w) /\ inv \in Rows /\ inv.status \in Unfinished
    BY BusyHolds
  <1>2. inv' = [inv EXCEPT !.lease = "expired"] /\ h' = [h EXCEPT ![w] = Idle]
    BY <1>1 DEF Recoverable, Patched
  <1>3. /\ inv'.request = inv.request /\ inv'.status = inv.status
        /\ inv'.response = inv.response /\ inv'.kind = inv.kind
    BY <1>1, <1>2 DEF Rows
  <1>4. RowHonoured'
    BY <1>3 DEF Honoured, RowHonoured, AnswerIsTrue, Answered
  <1> QED BY <1>2, <1>4, BusyStops

LEMMA WithdrawHonoured ==
    ASSUME IInv, Honoured, NEW w \in Handlers, Withdraw(w)
    PROVE  Honoured'
  <1>1. TokenHolds(w) /\ inv \in Rows /\ Busy(w)
    BY BusyHolds DEF Withdraw, Busy
  <1>2. /\ inv' = [WithStatus(inv, "completed") EXCEPT !.lease = "expired",
                                                       !.response = "cancelled"]
        /\ h' = [h EXCEPT ![w] = Idle] /\ UNCHANGED <<plans, started, result, calls>>
    BY <1>1 DEF Withdraw, Patched, db
  <1>3. inv'.request = inv.request /\ inv'.status = "completed" /\ inv'.response = "cancelled"
        /\ inv'.kind = inv.kind
    BY <1>1, <1>2 DEF Rows, WithStatus
  <1>4. inv.kind = "approval"
    BY <1>1, BusyHolds DEF Withdraw, Honours
  <1>5. RowHonoured'
    BY <1>2, <1>3, <1>4 DEF Honoured, RowHonoured, AnswerIsTrue, Answered, Unfinished, Outcomes, Failures
  <1> QED BY <1>1, <1>2, <1>5, BusyStops

LEMMA AdmitRefusedHonoured ==
    ASSUME IInv, Honoured, NEW w \in Handlers, AdmitRefused(w)
    PROVE  Honoured'
  <1>1. /\ TokenHolds(w) /\ inv.status \in Unfinished /\ Busy(w)
        /\ Honours(h[w], inv, result)
    BY BusyHolds DEF AdmitRefused, Busy
  <1>2. inv' = NoRow /\ h' = [h EXCEPT ![w] = Idle] /\ UNCHANGED <<plans, started, result, calls>>
    BY <1>1 DEF AdmitRefused, Release, db, IInv, RowOK
  <1>3. plans = {} /\ calls = 0
    BY <1>1, RequestsAssumption DEF AdmitRefused, Honours, Honoured, RowHonoured, IInv, DataOK
  <1>4. RowHonoured'
    BY <1>2, <1>3 DEF RowHonoured, AnswerIsTrue, Answered, NoRow, Unfinished, Outcomes, Failures
  <1> QED BY <1>1, <1>2, <1>4, BusyStops

LEMMA AdmitDeniedHonoured ==
    ASSUME IInv, Honoured, NEW w \in Handlers, AdmitDenied(w)
    PROVE  Honoured'
  <1>1. /\ UNCHANGED <<inv, plans, started, result, calls>>
        /\ Sets(w, "finish", "authorization_denied") /\ Honours(h[w], inv, result)
    BY DEF AdmitDenied, db, Sets, Honoured
  <1>2. /\ OthersWait(w) /\ h'[w].pc = "finish" /\ h'[w].response = "authorization_denied"
        /\ h'[w].request = h[w].request /\ h'[w].current = h[w].current /\ h'[w].kind = h[w].kind
    BY <1>1, SetAlone
  <1>3. Honours(h'[w], inv, result)
    BY <1>1, <1>2 DEF Honours, AdmitDenied, Outcomes, Failures
  <1> QED BY <1>1, <1>2, <1>3, InertKeeps

LEMMA AdmitPreparedHonoured ==
    ASSUME IInv, Honoured, NEW w \in Handlers, NEW r \in Requests, NEW kind \in {"immediate", "approval"},
           AdmitPrepared(w, r, kind)
    PROVE  Honoured'
  <1>1. /\ TokenHolds(w) /\ inv \in Rows /\ Busy(w) /\ inv.response = "none" /\ h[w] \in HandlerSet
        /\ Honours(h[w], inv, result) /\ h[w].pc = "admit"
    BY BusyHolds DEF AdmitPrepared, Busy
  <1> DEFINE row == [h[w] EXCEPT !.pc = "plan", !.resume = FALSE, !.request = r, !.kind = kind]
  <1>2. /\ inv' = [WithStatus(inv, "prepared") EXCEPT !.request = r, !.kind = kind]
        /\ h' = [h EXCEPT ![w] = row] /\ UNCHANGED <<plans, started, result, calls>>
    BY <1>1 DEF AdmitPrepared, Patched, db
  <1>3. /\ inv'.request = r /\ inv'.status = "prepared" /\ inv'.response = "none"
        /\ inv'.lease = inv.lease /\ inv'.kind = kind
    BY <1>1, <1>2 DEF Rows, WithStatus
  <1>4. row.pc = "plan" /\ row.request = r /\ row.response = h[w].response
        /\ row.current = h[w].current /\ row.kind = kind
    BY <1>1 DEF HandlerSet
  <1> HIDE DEF row
  <1>5. OthersWait(w) /\ h'[w] = row
    BY <1>2 DEF IInv, HandlersOK, OthersWait
  <1>6. plans = {} /\ calls = 0
    BY <1>1, RequestsAssumption DEF Honours, Honoured, RowHonoured, IInv, DataOK
  <1>7. RowHonoured'
    BY <1>2, <1>3, <1>6 DEF RowHonoured, AnswerIsTrue, Answered, Unfinished, Outcomes, Failures
  <1>8. Honours(h'[w], inv', result')
    BY <1>1, <1>3, <1>4, <1>5 DEF Honours
  <1> QED BY <1>1, <1>5, <1>7, <1>8, BusyKeeps

LEMMA SavePlanHonoured ==
    ASSUME IInv, Honoured, NEW w \in Handlers, SavePlan(w)
    PROVE  Honoured'
  <1>1. /\ Busy(w) /\ Honours(h[w], inv, result) /\ h[w].pc = "plan"
        /\ h[w].request = inv.request /\ inv.status \in Unfinished /\ h[w] \in HandlerSet
    BY BusyHolds DEF SavePlan, Busy
  <1>2. UNCHANGED <<inv, started, result, calls>> /\ plans' \subseteq plans \cup {inv.request}
    BY <1>1 DEF SavePlan
  <1>4. RowHonoured'
    BY <1>1, <1>2 DEF Honoured, RowHonoured, AnswerIsTrue, Answered, Unfinished
  <1>5. \/ \E pc \in {"start", "reauthorize"} : Steps(w, pc) /\ (pc = "reauthorize" => h[w].kind # "approval")
        \/ Sets(w, "finish", "error")
    BY DEF SavePlan, Steps, Sets
  <1>6. CASE \E pc \in {"start", "reauthorize"} : Steps(w, pc) /\ (pc = "reauthorize" => h[w].kind # "approval")
    <2>1. PICK pc \in {"start", "reauthorize"} : Steps(w, pc) /\ (pc = "reauthorize" => h[w].kind # "approval")
      BY <1>6
    <2>2. /\ OthersWait(w) /\ h'[w].pc = pc /\ h'[w].response = h[w].response
          /\ h'[w].request = h[w].request /\ h'[w].current = h[w].current /\ h'[w].kind = h[w].kind
      BY <2>1, StepAlone
    <2>3. pc = "reauthorize" => h[w].kind = "immediate"
      BY <1>1, <2>1 DEF Honours, HandlerSet, Kinds
    <2>4. Honours(h'[w], inv', result')
      BY <1>1, <1>2, <2>2, <2>3 DEF Honours
    <2> QED BY <1>1, <1>4, <2>2, <2>4, BusyKeeps
  <1>7. CASE Sets(w, "finish", "error")
    <2>1. /\ OthersWait(w) /\ h'[w].pc = "finish" /\ h'[w].response = "error"
          /\ h'[w].request = h[w].request /\ h'[w].current = h[w].current /\ h'[w].kind = h[w].kind
      BY <1>7, SetAlone
    <2>2. Honours(h'[w], inv', result')
      BY <1>1, <1>2, <2>1 DEF Honours, Outcomes, Failures
    <2> QED BY <1>1, <1>4, <2>1, <2>2, BusyKeeps
  <1> QED BY <1>5, <1>6, <1>7

LEMMA StartWorkflowHonoured ==
    ASSUME IInv, Honoured, NEW w \in Handlers, StartWorkflow(w)
    PROVE  Honoured'
  <1>1. /\ Busy(w) /\ Honours(h[w], inv, result) /\ h[w].pc = "start"
        /\ inv.status \in Unfinished
    BY BusyHolds DEF StartWorkflow, Busy
  <1>2. UNCHANGED <<inv, plans, result, calls>> /\ Steps(w, "finish")
        /\ started' = started \cup {h[w].request}
    BY DEF StartWorkflow, Steps
  <1>3. /\ OthersWait(w) /\ h'[w].pc = "finish" /\ h'[w].response = h[w].response
        /\ h'[w].request = h[w].request /\ h'[w].kind = h[w].kind /\ h'[w].current = h[w].current
    BY <1>2, StepAlone
  <1>4. RowHonoured'
    BY <1>1, <1>2 DEF Honoured, RowHonoured, AnswerIsTrue, Answered, Unfinished
  <1>5. Honours(h'[w], inv', result')
    BY <1>1, <1>2, <1>3 DEF Honours, Outcomes, Failures
  <1> QED BY <1>1, <1>3, <1>4, <1>5, BusyKeeps

LEMMA ReauthorizeHonoured ==
    ASSUME IInv, Honoured, NEW w \in Handlers, Reauthorize(w)
    PROVE  Honoured'
  <1>1. /\ UNCHANGED <<inv, plans, started, result, calls>>
        /\ Honours(h[w], inv, result) /\ h[w].pc = "reauthorize"
    BY DEF Reauthorize, db, Honoured
  <1>2. PICK answer \in {"allow", "authorization_revoked", "authorization_check_failed"} :
          Sets(w, IF answer = "allow" THEN "audit" ELSE "record", answer)
    BY DEF Reauthorize, Sets
  <1>3. /\ OthersWait(w) /\ h'[w].pc \in {"audit", "record"} /\ h'[w].response = answer
        /\ h'[w].request = h[w].request /\ h'[w].kind = h[w].kind /\ h'[w].current = h[w].current
    BY <1>2, SetAlone
  <1>4. Honours(h'[w], inv, result)
    BY <1>1, <1>3 DEF Honours
  <1> QED BY <1>1, <1>3, <1>4, InertKeeps

LEMMA AuditStartHonoured ==
    ASSUME IInv, Honoured, NEW w \in Handlers, AuditStart(w)
    PROVE  Honoured'
  <1>1. /\ UNCHANGED <<plans, started, result, calls>> /\ Busy(w) /\ h[w].pc = "audit"
        /\ Honours(h[w], inv, result)
    BY DEF AuditStart, Honoured, Busy
  <1>2. CASE OtherEvidence(log)
    BY <1>1, <1>2, RecoverableHonoured DEF AuditStart
  <1>3. CASE ~OtherEvidence(log)
    <2>1. Steps(w, "execute") /\ inv' = inv
      BY <1>3 DEF AuditStart, Steps
    <2>2. /\ OthersWait(w) /\ h'[w].pc = "execute" /\ h'[w].response = h[w].response
          /\ h'[w].request = h[w].request /\ h'[w].kind = h[w].kind /\ h'[w].current = h[w].current
      BY <2>1, StepAlone
    <2>3. Honours(h'[w], inv, result)
      BY <1>1, <2>2 DEF Honours
    <2> QED BY <1>1, <2>1, <2>2, <2>3, InertKeeps
  <1> QED BY <1>2, <1>3

LEMMA ExecuteHonoured ==
    ASSUME IInv, Honoured, NEW w \in Handlers, Execute(w)
    PROVE  Honoured'
  <1>1. /\ UNCHANGED <<inv, plans, started, result>> /\ h[w].pc = "execute" /\ Busy(w)
        /\ Honours(h[w], inv, result) /\ inv.status \in Unfinished
        /\ inv.kind = "immediate"
    BY BusyHolds DEF Execute, Busy, Honours
  <1>2. calls' = 1
    BY <1>1 DEF Execute, IInv, ExecutionOK
  <1>3. PICK outcome : Sets(w, "record", outcome)
    BY DEF Execute, Sets
  <1>4. /\ OthersWait(w) /\ h'[w].pc = "record"
        /\ h'[w].request = h[w].request /\ h'[w].kind = h[w].kind /\ h'[w].current = h[w].current
    BY <1>3, SetAlone
  <1>5. RowHonoured'
    BY <1>1 DEF Honoured, RowHonoured, AnswerIsTrue, Answered, Unfinished
  <1>6. Honours(h'[w], inv', result')
    BY <1>1, <1>2, <1>4 DEF Honours
  <1> QED BY <1>1, <1>4, <1>5, <1>6, BusyKeeps

LEMMA RecordResultHonoured ==
    ASSUME IInv, Honoured, NEW w \in Handlers, RecordResult(w)
    PROVE  Honoured'
  <1> DEFINE outcome == h[w].response
  <1>1. /\ UNCHANGED <<inv, plans, started, calls>> /\ h[w].pc = "record" /\ Busy(w)
        /\ Honours(h[w], inv, result) /\ inv.status \in Unfinished
        /\ outcome \in Outcomes \cup {"accepted"}
    BY BusyHolds DEF RecordResult, Busy, IInv, HandlersOK, HandlerOK
  <1>2. /\ Sets(w, "finish", AnswerOf(outcome))
        /\ result' = IF outcome = "accepted" THEN result ELSE outcome
    BY DEF RecordResult, Sets
  <1>3. /\ OthersWait(w) /\ h'[w].pc = "finish" /\ h'[w].response = AnswerOf(outcome)
        /\ h'[w].request = h[w].request /\ h'[w].kind = h[w].kind /\ h'[w].current = h[w].current
    BY <1>2, SetAlone
  <1>4. RowHonoured'
    BY <1>1 DEF Honoured, RowHonoured, AnswerIsTrue, Answered, Unfinished
  <1>5. /\ AnswerOf(outcome) \in Outcomes => outcome = AnswerOf(outcome) /\ result' = outcome
        /\ AnswerOf(outcome) \notin {"none", "cancelled", "authorization_denied"}
    BY <1>1, <1>2 DEF AnswerOf, Outcomes, Failures
  <1>6. "executed" \in Outcomes
    BY DEF Outcomes
  <1>7. Honours(h'[w], inv', result')
    BY <1>1, <1>3, <1>5, <1>6 DEF Honours
  <1> QED BY <1>1, <1>3, <1>4, <1>7, BusyKeeps

LEMMA FinishHonoured ==
    ASSUME IInv, Honoured, NEW w \in Handlers, Finish(w)
    PROVE  Honoured'
  <1>1. /\ TokenHolds(w) /\ inv \in Rows /\ Busy(w) /\ inv.response = "none" /\ h[w].pc = "finish"
        /\ Honours(h[w], inv, result) /\ h[w].request = inv.request /\ h[w].kind = inv.kind
    BY BusyHolds DEF Finish, Busy
  <1>2. h' = [h EXCEPT ![w] = Idle] /\ UNCHANGED <<plans, started, result, calls>>
    BY DEF Finish, db
  <1>3. CASE h[w].kind = "approval" /\ h[w].response = "none"
    <2>1. inv' = [WithStatus(inv, "committed") EXCEPT !.lease = "expired"]
      BY <1>1, <1>3 DEF Finish, Patched
    <2>2. inv'.request = inv.request /\ inv'.kind = inv.kind /\ inv'.status = "committed" /\ inv'.response = "none"
      BY <1>1, <2>1 DEF Rows, WithStatus
    <2>3. RowHonoured'
      BY <1>2, <2>2 DEF Honoured, RowHonoured, AnswerIsTrue, Answered, Unfinished, Outcomes, Failures
    <2> QED BY <1>1, <1>2, <2>3, BusyStops
  <1>4. CASE ~(h[w].kind = "approval" /\ h[w].response = "none")
    <2>1. inv' = [WithStatus(inv, "completed") EXCEPT !.lease = "expired",
                                                      !.response = h[w].response]
      BY <1>1, <1>4 DEF Finish, Patched
    <2>2. inv'.request = inv.request /\ inv'.kind = inv.kind /\ inv'.status = "completed"
          /\ inv'.response = h[w].response
      BY <1>1, <2>1 DEF Rows, WithStatus
    <2>3. inv'.response = "authorization_denied" => plans = {}
      BY <1>1, <2>2, RequestsAssumption DEF Honours, Honoured, RowHonoured, IInv, DataOK
    <2>4. inv'.response \in Outcomes => result = inv'.response
      BY <1>1, <2>2 DEF Honours
    <2>5. inv'.response # "cancelled"
      BY <1>1, <2>2 DEF Honours
    <2>6. RowHonoured'
      BY <1>1, <1>2, <2>2, <2>3, <2>4, <2>5 DEF Honoured, RowHonoured, AnswerIsTrue, Answered, Unfinished
    <2> QED BY <1>1, <1>2, <2>6, BusyStops
  <1> QED BY <1>3, <1>4

LEMMA CrashHonoured ==
    ASSUME IInv, Honoured, NEW w \in Handlers, Crash(w)
    PROVE  Honoured'
  <1>1. UNCHANGED <<inv, plans, started, result, calls>> /\ h' = [h EXCEPT ![w] = Idle]
    BY DEF Crash, db
  <1> QED BY <1>1, StopWaits, IdleHonours, InertKeeps DEF IInv

(* This is where the lease has to outlast its holder: otherwise it is an    *)
(* overrun.                                                                 *)
LEMMA LeaseExpiresHonoured ==
    ASSUME IInv, Honoured, LeaseExpires, ~faults'.overrun
    PROVE  Honoured'
  <1>0. ~Working
    BY DEF LeaseExpires
  <1>1. UNCHANGED <<h, plans, started, result, calls>> /\ inv.lease = "held" /\ ~Working
        /\ inv' = [inv EXCEPT !.lease = "expired"] /\ inv \in Rows
    BY <1>0 DEF LeaseExpires, db, IInv, RowOK
  <1>2. inv'.request = inv.request /\ inv'.status = inv.status /\ inv'.response = inv.response
        /\ inv'.kind = inv.kind
    BY <1>1 DEF Rows
  <1>3. RowHonoured'
    BY <1>1, <1>2 DEF Honoured, RowHonoured, AnswerIsTrue, Answered
  <1>4. ASSUME NEW v \in Handlers
        PROVE  Bystander(h[v])
    <2>1. Honours(h[v], inv, result)
      BY DEF Honoured
    <2> QED BY <1>1, <2>1 DEF Honours, Working, Bystander
  <1>5. \A v \in Handlers : Honours(h'[v], inv', result')
    BY <1>1, <1>4, BystandersHonour
  <1> QED BY <1>3, <1>5 DEF Honoured

LEMMA NextHonoured ==
    ASSUME IInv, Honoured, [Next]_vars, ~faults'.overrun
    PROVE  Honoured'
  <1>1. CASE LeaseExpires
    BY <1>1, LeaseExpiresHonoured
  <1>2. CASE UNCHANGED vars
    BY <1>2 DEF vars, Honoured, RowHonoured, AnswerIsTrue, Answered
  <1>3. ASSUME NEW w \in Handlers,
               Call(w) \/ Poll(w) \/ CancelTask(w) \/ HandBack(w) \/ Work(w)
                 \/ CommitFails(w) \/ Crash(w)
        PROVE  Honoured'
    <2>1. CASE Call(w)
      BY <2>1, CallHonoured
    <2>2. CASE Poll(w) \/ CancelTask(w)
      BY <2>2, AskHonoured DEF Poll, CancelTask
    <2>3. CASE HandBack(w) \/ CommitFails(w)
      <3>1. Busy(w) /\ Recoverable(w) /\ UNCHANGED <<plans, started, result, calls>>
        BY <2>3 DEF HandBack, CommitFails, Busy, Recoverable, db
      <3> QED BY <3>1, RecoverableHonoured
    <2>4. CASE Crash(w)
      BY <2>4, CrashHonoured
    <2>5. CASE Work(w)
      <3>1. CASE TakeOver(w) \/ Withdraw(w) \/ Finish(w)
        BY <3>1, TakeOverHonoured, WithdrawHonoured, FinishHonoured
      <3>2. CASE AdmitRefused(w) \/ AdmitDenied(w)
        BY <3>2, AdmitRefusedHonoured, AdmitDeniedHonoured
      <3>3. CASE \E r \in Requests, kind \in {"immediate", "approval"} : AdmitPrepared(w, r, kind)
        BY <3>3, AdmitPreparedHonoured
      <3>4. CASE SavePlan(w) \/ StartWorkflow(w) \/ Reauthorize(w)
        BY <3>4, SavePlanHonoured, StartWorkflowHonoured, ReauthorizeHonoured
      <3>5. CASE AuditStart(w) \/ Execute(w) \/ RecordResult(w)
        BY <3>5, AuditStartHonoured, ExecuteHonoured, RecordResultHonoured
      <3> QED BY <2>5, <3>1, <3>2, <3>3, <3>4, <3>5 DEF Work
    <2> QED BY <1>3, <2>1, <2>2, <2>3, <2>4, <2>5
  <1> QED BY <1>1, <1>2, <1>3 DEF Next

LEMMA InitHonoured == Init => Honoured
  <1> SUFFICES ASSUME Init PROVE Honoured
    OBVIOUS
  <1>1. RowHonoured
    BY DEF Init, NoRow, RowHonoured, AnswerIsTrue, Answered, Unfinished, Outcomes, Failures
  <1>2. \A w \in Handlers : Honours(h[w], inv, result)
    BY IdleHonours DEF Init
  <1> QED BY <1>1, <1>2 DEF Honoured

(* An overrun is never forgotten.                                           *)
LEMMA OverrunStays ==
    ASSUME IInv, [Next]_vars, faults.overrun
    PROVE  faults'.overrun
  <1>1. CASE faults' = faults
    BY <1>1
  <1>2. CASE Fault
    BY <1>2, FaultCounts DEF IInv
  <1>3. CASE faults' = [count |-> faults.count + 1, overrun |-> TRUE]
    BY <1>3
  <1>4. faults' = faults \/ Fault \/ faults' = [count |-> faults.count + 1, overrun |-> TRUE]
    <2>1. CASE LeaseExpires \/ UNCHANGED vars
      BY <2>1 DEF LeaseExpires, vars
    <2>2. ASSUME NEW w \in Handlers, Call(w) \/ Poll(w) \/ CancelTask(w) \/ HandBack(w)
                                     \/ CommitFails(w) \/ Crash(w)
          PROVE  faults' = faults \/ Fault
      BY <2>2 DEF Call, Poll, CancelTask, Ask, HandBack, CommitFails, Crash
    <2>3. ASSUME NEW w \in Handlers, Work(w)
          PROVE  faults' = faults
      BY <2>3 DEF Work, TakeOver, Withdraw, AdmitRefused, AdmitDenied, AdmitPrepared, SavePlan,
                  StartWorkflow, Reauthorize, AuditStart, Execute, RecordResult, Finish
    <2> QED BY <2>1, <2>2, <2>3 DEF Next
  <1> QED BY <1>1, <1>2, <1>3, <1>4

LEMMA HonouredCall == Honoured => OneRequestPerCall /\ AnswerIsTrue
  <1> SUFFICES ASSUME Honoured PROVE OneRequestPerCall /\ AnswerIsTrue
    OBVIOUS
  <1>1. plans = {} \/ plans = {inv.request}
    BY DEF Honoured, RowHonoured
  <1>2. Cardinality(plans) <= 1
    <2>1. CASE plans = {}
      <3>1. Cardinality(plans) = 0
        BY <2>1, FS_EmptySet
      <3> QED BY <3>1
    <2>2. CASE plans = {inv.request}
      <3>1. Cardinality({inv.request}) = 1
        BY FS_Singleton, Zenon
      <3>2. Cardinality(plans) = 1
        BY <2>2, <3>1
      <3> QED BY <3>2
    <2> QED BY <1>1, <2>1, <2>2
  <1>3. OneRequestPerCall
    BY <1>2 DEF OneRequestPerCall
  <1>4. AnswerIsTrue
    BY DEF Honoured, RowHonoured
  <1> QED BY <1>3, <1>4

(* Whatever becomes of the leases, an answer "executed" has a call of the   *)
(* executor behind it and a Task a Workflow.  Until a lease runs out under  *)
(* its handler, a call stands for at most one ActionRequest, what it is     *)
(* told of an execution is the recorded result, a denied call made no       *)
(* request and a withdrawn one has not called the executor (a Workflow it   *)
(* had started may still run: gateway.ts:834).                              *)
THEOREM CallIsHonouredHolds == Spec => []CallIsHonoured
  <1> DEFINE Inv == Founded /\ (faults.overrun \/ Honoured)
  <1>1. IInv /\ Inv => CallIsHonoured
    <2> SUFFICES ASSUME IInv, Inv PROVE CallIsHonoured
      OBVIOUS
    <2>1. Honoured => OneRequestPerCall /\ AnswerIsTrue
      BY HonouredCall
    <2> QED BY <2>1 DEF CallIsHonoured, Founded, RowFounded
  <1>2. IInv /\ Inv /\ [Next]_vars => Inv'
    <2> SUFFICES ASSUME IInv, Inv, [Next]_vars PROVE Inv'
      OBVIOUS
    <2>1. Founded'
      BY NextFounded
    <2>2. faults'.overrun \/ Honoured'
      BY NextHonoured, OverrunStays
    <2> QED BY <2>1, <2>2
  <1>3. Init => Inv
    BY InitFounded, InitHonoured
  <1> HIDE DEF Inv
  <1> QED BY <1>1, <1>2, <1>3, Invariance, PTL DEF Spec

(***************************************************************************)
(* Knowledge.                                                              *)
(***************************************************************************)
(* Types of the store, of runs and of what calls hold.                      *)
Snaps == [revision : Nat, expected : Nat, by : People, wide : BOOLEAN]
EffectRows == [Effects -> [status : {"none", "pending", "failed", "succeeded"}, attempts : Nat]]
SnapOutcomes == {"none", "published", "conflict"}
RunKinds == {"publish", "archive", "maintain"} \cup Effects
Results == {"none", "waiting", "rejected", "cancelled", "failed", "succeeded"}
RunRows == [kind : RunKinds, by : People, snap : Nat,
            status : {"running", "waiting", "input", "rejected", "cancelled", "failed", "succeeded"},
            decision : {"none", "archive", "mark"}, children : [Children -> Results]]
TaskRows == {NoTask} \cup
    [status : {"pending", "approved", "rejected", "cancelled"}, by : People \cup {"nobody"},
     child : {"publish", "archive"}, candidates : SUBSET People]
Keys == (RunKinds \cup {"retry"}) \X Nat \X ({""} \cup People \cup Effects) \X Nat
RunningSteps == {"run", "child", "save", "analyze", "attach", "cancel"}
ExecSteps == {"execute", "commit", "reread", "conflict", "record"}
RunningCalls == [at : RunningSteps, run : Nat, copy : RunRows]
ExecCalls == [at : ExecSteps, run : Nat, copy : RunRows, child : Children \cup {"none"}]
CallSteps == {"idle", "insert", "request", "decided"} \cup RunningSteps \cup ExecSteps

StoreTyped ==
    /\ page \in [status : {"active", "archived"}, version : Nat, published : Nat]
    /\ draft \in [text : Texts, wide : BOOLEAN, version : Nat] /\ revisions \in Seq(Texts)
    /\ snapshots \in Seq(Snaps)
    /\ outcomes \in Seq(SnapOutcomes) /\ Len(outcomes) = Len(snapshots)
    /\ effects \in Seq(EffectRows) /\ Len(effects) = Len(snapshots)
    /\ found \in Nat

(* What is published is pinned at versions that have passed, the one shown  *)
(* at the latest of them; what conflicts can no more be committed.          *)
Shown(s) == page.published = s
Settled(s) == ~CasHolds(s)
StoreOK ==
    /\ page.published # 0 => page.published \in 1..Len(snapshots) /\ outcomes[page.published] = "published"
    /\ \A s \in 1..Len(snapshots) :
        /\ snapshots[s].expected <= page.version
        /\ outcomes[s] = "published" =>
             /\ snapshots[s].expected < page.version /\ page.published # 0
             /\ Shown(s) \/ snapshots[s].expected < snapshots[page.published].expected
        /\ outcomes[s] = "conflict" => Settled(s)
        /\ outcomes[s] # "published" => effects[s] = NoEffect
    /\ ~Active => found = 0
    /\ found # 0 => \E s \in 1..Len(snapshots) : outcomes[s] = "published" /\ snapshots[s].revision = found
    /\ Active /\ page.published # 0 /\ effects[page.published]["reindex"].status = "succeeded"
         => found = RevisionOf(page.published)

(* A run of a publication or of its effects has its snapshot.               *)
SnapOK(kind, s) ==
    /\ kind = "publish" => s \in 1..Len(snapshots)
    /\ kind \in Effects => s \in 1..Len(snapshots) /\ outcomes[s] = "published"
RunOK(run) ==
    /\ run \in RunRows /\ SnapOK(run.kind, run.snap)
    /\ run.children["publish"] # "none" => run.kind = "publish"
    /\ run.children["publish"] = "succeeded" => outcomes[run.snap] = "published"
ChildOK(run, child) ==
    /\ child = "publish" => run.kind = "publish"
    /\ child \in Effects => run.snap \in 1..Len(snapshots) /\ outcomes[run.snap] = "published"

(* Whose reindex is about to be recorded as done is found, if it is shown.  *)
FoundIfShown(s) == Active /\ Shown(s) => found = RevisionOf(s)

CallOK(x) ==
    /\ x.at \in CallSteps
    /\ x.at = "insert" => x.text \in Texts /\ x.snapshot \in Snaps /\ x.snapshot.expected <= page.version
    /\ x.at = "request" => x.kind \in RunKinds /\ x.who \in People /\ x.snap \in Nat /\ x.key \in Keys /\ SnapOK(x.kind, x.snap)
    /\ x.at = "decided" => x.run \in 1..Len(requests) /\ tasks[x.run] # NoTask
    /\ x.at \in RunningSteps => x \in RunningCalls /\ x.run \in 1..Len(requests) /\ RunOK(x.copy)
    /\ x.at \in ExecSteps =>
         x \in ExecCalls /\ x.run \in 1..Len(requests) /\ RunOK(x.copy) /\ ChildOK(x.copy, x.child)
    /\ x.at \in {"commit", "reread", "conflict"} => x.child = "publish"
    /\ x.at \in {"reread", "conflict"} => Settled(x.copy.snap)
    /\ x.at = "record" => x.child \in Effects /\ (x.child = "reindex" => FoundIfShown(x.copy.snap))

RunsOK ==
    /\ requests \in Seq(Keys) /\ Len(runs) = Len(requests) /\ Len(tasks) = Len(requests)
    /\ runs \in Seq({NoRun} \cup RunRows) /\ tasks \in Seq(TaskRows)
    /\ \A r \in 1..Len(runs) : runs[r] # NoRun => RunOK(runs[r])

KnowledgeInv ==
    /\ StoreTyped /\ StoreOK /\ RunsOK
    /\ DOMAIN proc = Calls /\ \A c \in Calls : CallOK(proc[c])

(* Reading.                                                                 *)
Items == Leaves \X {"published", "draft"} \X (LeafTexts \cup {0})
RoleMaps == [Spaces -> SpaceRoles]
Statements == {"tags", "published", "authoring"}
PageAsks == [at : {"load", "rest", "answered"}, view : PageViews, page : Leaves, row : LeafRows,
             roles : RoleMaps, seen : SUBSET Items]
ListAsks == [at : {"lists", "answered"}, view : ListingViews, word : LeafTexts, in : SUBSET Spaces,
             roles : RoleMaps, seen : SUBSET Items, hits : SUBSET Leaves, full : BOOLEAN,
             todo : SUBSET Statements]

FoundingSteps == {"idle", "taken", "grant", "schedule", "answered"}

FoundFor(v, ask, p, world) ==
    LET row == world[1][p]
    IN  /\ row.status = "active" /\ SpaceOf[p] \in ask.in
        /\ IF ReadsDrafts(ask.roles[SpaceOf[p]]) THEN row.draft = ask.word
           ELSE CanReadPublished(v, ask.roles, p, row) /\ world[2][p] = row.published /\ row.published = ask.word
StatementFor(ask, p) == IF ReadsDrafts(ask.roles[SpaceOf[p]]) THEN "authoring" ELSE "published"
Allowed(v, ask, item, world) ==
    /\ item \in MayRead(v, ask.roles, world[1])
    /\ ask.view \in ListingViews => world[1][item[1]].status = "active"

(* A request has shown what was readable in one of its worlds, and a search *)
(* will still answer what it has not found of what all of them match.       *)
AskOK(v, ask, worlds) ==
    /\ ask.at # "idle" => \A item \in ask.seen : \E world \in worlds : Allowed(v, ask, item, world)
    /\ ask.at = "rest" /\ ask.row.status # "absent" => leaves[ask.page].status # "absent"
    /\ ask \in ListAsks /\ ask.at = "answered" => ask.todo = {}
    /\ ask.at # "idle" /\ ask.view = "search" /\ ~ask.full =>
         \A p \in Leaves : (\A world \in worlds : FoundFor(v, ask, p, world)) => p \in ask.hits \/ StatementFor(ask, p) \in ask.todo

RowsTyped == leaves \in [Leaves -> LeafRows] /\ indexed \in [Leaves -> LeafTexts \cup {0}]
FoundingOK ==
    /\ members \in [Spaces \cup {NewSpace} -> [Everyone -> SpaceRoles]] /\ scheduled \in BOOLEAN
    /\ founding \in [Founders -> FoundingSteps] /\ SpacesHaveTheirFounder
    /\ \A f \in Founders : founding[f] \in {"grant", "schedule", "answered"} => founded.by = f
AsksOK ==
    /\ asks \in [Visitors -> {NoAsk} \cup PageAsks \cup ListAsks]
    /\ \A v \in Visitors : AskOK(v, asks[v], past[v])
ReadingInv == RowsTyped /\ FoundingOK /\ AsksOK

LEMMA PublicationInitial == PublicationInit => KnowledgeInv
  <1> SUFFICES ASSUME PublicationInit PROVE KnowledgeInv
    OBVIOUS
  <1>1. /\ page = [status |-> "active", version |-> 1, published |-> 0]
        /\ revisions = <<>> /\ snapshots = <<>> /\ outcomes = <<>> /\ effects = <<>> /\ found = 0
    BY DEF PublicationInit, StoreInit
  <1>6. draft \in [text : Texts, wide : BOOLEAN, version : Nat]
    <2>1. PICK t : t = CHOOSE u \in Texts : TRUE
      OBVIOUS
    <2>2. t \in Texts
      BY <2>1, SomethingIsWritten
    <2>3. \E wide \in BOOLEAN : draft = [text |-> t, wide |-> wide, version |-> 1]
      BY <2>1 DEF PublicationInit, StoreInit
    <2> QED BY <2>2, <2>3
  <1>2. StoreTyped
    BY <1>1, <1>6 DEF StoreTyped
  <1>3. StoreOK
    BY <1>1 DEF StoreOK
  <1>4. RunsOK
    BY DEF PublicationInit, RunsOK
  <1>5. DOMAIN proc = Calls /\ \A c \in Calls : CallOK(proc[c])
    BY DEF PublicationInit, NoCall, CallOK, CallSteps, RunningSteps, ExecSteps
  <1> QED BY <1>2, <1>3, <1>4, <1>5 DEF KnowledgeInv

(* What no step takes back: a snapshot and its publication, that it can no  *)
(* more be committed, that it is found while it is shown, and a task.       *)
Onward ==
    /\ page.version <= page'.version
    /\ Len(snapshots) <= Len(snapshots') /\ Len(requests) <= Len(requests')
    /\ \A s \in 1..Len(snapshots) :
        /\ snapshots'[s] = snapshots[s]
        /\ outcomes[s] = "published" => outcomes'[s] = "published"
        /\ Settled(s) => Settled(s)'
        /\ outcomes[s] = "published" /\ FoundIfShown(s) => FoundIfShown(s)'
    /\ \A r \in 1..Len(requests) : tasks[r] # NoTask => tasks'[r] # NoTask

LEMMA Lengths ==
  ASSUME KnowledgeInv
  PROVE  /\ Len(snapshots) \in Nat /\ Len(requests) \in Nat /\ Len(runs) = Len(requests) /\ Len(tasks) = Len(requests)
         /\ Len(outcomes) = Len(snapshots) /\ Len(effects) = Len(snapshots)
         /\ page.version \in Nat /\ page.published \in Nat /\ page.status \in {"active", "archived"}
         /\ snapshots \in Seq(Snaps) /\ outcomes \in Seq(SnapOutcomes) /\ effects \in Seq(EffectRows)
         /\ runs \in Seq({NoRun} \cup RunRows) /\ tasks \in Seq(TaskRows) /\ requests \in Seq(Keys)
         /\ DOMAIN proc = Calls
  BY DEF KnowledgeInv, StoreTyped, RunsOK

LEMMA SnapFields == \A y \in Snaps : y.expected \in Nat /\ y.revision \in Nat /\ y.by \in People
  BY DEF Snaps

LEMMA SnapKept ==
  ASSUME KnowledgeInv, Onward, NEW kind, NEW s, SnapOK(kind, s)
  PROVE  SnapOK(kind, s)'
  BY Lengths DEF Onward, SnapOK

LEMMA RunKept ==
  ASSUME KnowledgeInv, Onward, NEW run, RunOK(run)
  PROVE  RunOK(run)'
  <1>1. run.kind = "publish" => run.snap \in 1..Len(snapshots)
    BY DEF RunOK, SnapOK
  <1>2. SnapOK(run.kind, run.snap)'
    BY SnapKept DEF RunOK
  <1>3. run.children["publish"] = "succeeded" => outcomes'[run.snap] = "published"
    BY <1>1 DEF RunOK, Onward
  <1> QED BY <1>2, <1>3 DEF RunOK

LEMMA CallKept ==
  ASSUME KnowledgeInv, Onward, StoreTyped', Len(requests)' \in Nat, NEW x, CallOK(x)
  PROVE  CallOK(x)'
  <1>1. x.at = "insert" => x.snapshot.expected <= page'.version
    <2> SUFFICES ASSUME x.at = "insert" PROVE x.snapshot.expected <= page'.version
      OBVIOUS
    <2> PICK n : n = x.snapshot.expected
      OBVIOUS
    <2>1. x.snapshot \in Snaps /\ n <= page.version
      BY DEF CallOK
    <2>2. n \in Nat
      BY <2>1, SnapFields
    <2>3. page.version \in Nat /\ page'.version \in Nat /\ page.version <= page'.version
      <3>1. page.version \in Nat
        BY Lengths
      <3>2. page'.version \in Nat
        BY DEF StoreTyped
      <3>3. page.version <= page'.version
        BY DEF Onward
      <3> QED BY <3>1, <3>2, <3>3
    <2> QED BY <2>1, <2>2, <2>3
  <1>2. x.at = "request" => SnapOK(x.kind, x.snap)'
    BY SnapKept DEF CallOK
  <1>3. x.at = "decided" => x.run \in 1..Len(requests') /\ tasks'[x.run] # NoTask
    BY Lengths DEF CallOK, Onward
  <1>4. x.at \in RunningSteps \cup ExecSteps => x.run \in 1..Len(requests') /\ RunOK(x.copy)'
    <2> SUFFICES ASSUME x.at \in RunningSteps \cup ExecSteps PROVE x.run \in 1..Len(requests') /\ RunOK(x.copy)'
      OBVIOUS
    <2>1. x.run \in 1..Len(requests) /\ RunOK(x.copy)
      BY DEF CallOK
    <2>2. RunOK(x.copy)'
      BY <2>1, RunKept
    <2> QED BY <2>1, <2>2, Lengths DEF Onward
  <1>5. x.at \in ExecSteps => ChildOK(x.copy, x.child)'
    BY Lengths DEF CallOK, ChildOK, Onward
  <1>6. x.at \in {"reread", "conflict"} => Settled(x.copy.snap)'
    <2> SUFFICES ASSUME x.at \in {"reread", "conflict"} PROVE Settled(x.copy.snap)'
      OBVIOUS
    <2>1. x.copy.snap \in 1..Len(snapshots) /\ Settled(x.copy.snap)
      BY DEF CallOK, ExecSteps, RunOK, SnapOK, ChildOK
    <2> QED BY <2>1 DEF Onward
  <1>7. x.at = "record" => x.child \in Effects /\ (x.child = "reindex" => FoundIfShown(x.copy.snap)')
    <2> SUFFICES ASSUME x.at = "record" PROVE x.child \in Effects /\ (x.child = "reindex" => FoundIfShown(x.copy.snap)')
      OBVIOUS
    <2>1. x.child \in Effects /\ (x.child = "reindex" => FoundIfShown(x.copy.snap))
      BY DEF CallOK
    <2>2. x.copy.snap \in 1..Len(snapshots) /\ outcomes[x.copy.snap] = "published"
      BY <2>1 DEF CallOK, ExecSteps, ChildOK
    <2> QED BY <2>1, <2>2 DEF Onward
  <1> QED BY <1>1, <1>2, <1>3, <1>4, <1>5, <1>6, <1>7 DEF CallOK

(* A step of one call, whose own next state is in order.                    *)
LEMMA CallStep ==
  ASSUME KnowledgeInv, Onward, StoreTyped', StoreOK', RunsOK', Len(requests)' \in Nat,
         NEW c \in Calls, NEW x, proc' = [proc EXCEPT ![c] = x], CallOK(x)'
  PROVE  KnowledgeInv'
  <1>1. DOMAIN proc' = Calls /\ \A d \in Calls : proc'[d] = IF d = c THEN x ELSE proc[d]
    BY Lengths
  <1>2. ASSUME NEW d \in Calls PROVE CallOK(proc[d])'
    <2>1. CASE d = c
      BY <1>1, <2>1
    <2>2. CASE d # c
      <3> DEFINE y == proc[d]
      <3>1. CallOK(y)
        BY DEF KnowledgeInv
      <3>2. PICK z : z = y
        OBVIOUS
      <3>3. CallOK(z)'
        BY <3>1, <3>2, CallKept
      <3> QED BY <1>1, <2>2, <3>2, <3>3
    <2> QED BY <2>1, <2>2
  <1> QED BY <1>1, <1>2 DEF KnowledgeInv

(* A step of nobody's call.                                                 *)
LEMMA QuietStep ==
  ASSUME KnowledgeInv, Onward, StoreTyped', StoreOK', RunsOK', Len(requests)' \in Nat, UNCHANGED proc
  PROVE  KnowledgeInv'
  <1>1. ASSUME NEW d \in Calls PROVE CallOK(proc[d])'
    <2> DEFINE y == proc[d]
    <2>1. CallOK(y)
      BY DEF KnowledgeInv
    <2>2. PICK z : z = y
      OBVIOUS
    <2>3. CallOK(z)'
      BY <2>1, <2>2, CallKept
    <2> QED BY <2>2, <2>3
  <1> QED BY <1>1, Lengths DEF KnowledgeInv

(* A step that leaves the store alone.                                      *)
LEMMA StoreStays ==
  ASSUME KnowledgeInv, UNCHANGED storeVars, RunsOK', Len(requests) <= Len(requests'),
         \A r \in 1..Len(requests) : tasks[r] # NoTask => tasks'[r] # NoTask
  PROVE  Onward /\ StoreTyped' /\ StoreOK'
  <1>1. UNCHANGED <<page, draft, revisions, snapshots, outcomes, effects, found, delivered>>
    BY DEF storeVars
  <1>2. Onward
    BY <1>1, Lengths DEF Onward, Settled, CasHolds, Active, FoundIfShown, Shown, RevisionOf
  <1>3. StoreTyped'
    BY <1>1 DEF KnowledgeInv, StoreTyped
  <1>4. StoreOK'
    BY <1>1 DEF KnowledgeInv, StoreOK, Settled, CasHolds, Active, Shown, RevisionOf
  <1> QED BY <1>2, <1>3, <1>4

(* The child that is next is one of the run, which it may execute.          *)
LEMMA NextChildOK ==
  ASSUME NEW run, RunOK(run)
  PROVE  NextChild(run) \in Children \cup {"none"} /\ ChildOK(run, NextChild(run))
  <1> DEFINE plan == Plan(run)
             open == {i \in 1..Len(plan) : run.children[plan[i]] = "none"}
             next == CHOOSE i \in open : \A j \in open : i <= j
  <1>1. run \in RunRows /\ run.kind \in RunKinds /\ run.decision \in {"none", "archive", "mark"} /\ SnapOK(run.kind, run.snap)
    BY DEF RunOK, RunRows
  <1>2. CASE run.kind = "publish"
    <2>1. Len(plan) = 3 /\ plan[1] = "publish" /\ plan[2] = "reindex" /\ plan[3] = "notify"
      BY <1>2 DEF Plan
    <2>2. open \subseteq {1, 2, 3}
      BY <2>1
    <2>3. ASSUME open # {} PROVE next \in open /\ \A j \in open : next <= j
      <3>1. \E i \in open : \A j \in open : i <= j
        <4> HIDE DEF open
        <4>1. CASE 1 \in open
          <5>1. \A j \in open : 1 <= j
            BY <2>2
          <5> QED BY <4>1, <5>1
        <4>2. CASE 1 \notin open /\ 2 \in open
          <5>1. \A j \in open : 2 <= j
            BY <2>2, <4>2
          <5> QED BY <4>2, <5>1
        <4>3. CASE 1 \notin open /\ 2 \notin open
          <5>1. open = {3}
            BY <2>2, <2>3, <4>3
          <5> QED BY <5>1
        <4> QED BY <4>1, <4>2, <4>3
      <3> HIDE DEF open
      <3> QED BY <3>1
    <2>4. CASE run.children["publish"] \notin {"none", "succeeded"} \/ open = {}
      BY <2>1, <2>4 DEF NextChild, ChildOK, Effects
    <2>5. CASE run.children["publish"] = "none"
      <3>1. 1 \in open
        BY <2>1, <2>5
      <3>2. next = 1
        <4>1. next \in open /\ next <= 1
          BY <2>3, <3>1
        <4>2. next \in {1, 2, 3}
          BY <2>2, <4>1
        <4> HIDE DEF next
        <4> QED BY <4>1, <4>2
      <3> QED BY <1>2, <2>1, <2>5, <3>1, <3>2 DEF NextChild, ChildOK, Effects, Children
    <2>6. CASE run.children["publish"] = "succeeded" /\ open # {}
      <3>1. next \in {1, 2, 3}
        <4> HIDE DEF next, open
        <4> QED BY <2>2, <2>3, <2>6
      <3>2. NextChild(run) = plan[next]
        BY <2>1, <2>6 DEF NextChild
      <3>3. NextChild(run) \in {"publish", "reindex", "notify"}
        <4> HIDE DEF next, plan
        <4> QED BY <2>1, <3>1, <3>2
      <3>4. run.snap \in 1..Len(snapshots) /\ outcomes[run.snap] = "published"
        BY <1>1, <1>2, <2>6 DEF RunOK, SnapOK
      <3> QED BY <1>2, <3>3, <3>4 DEF ChildOK, Children
    <2> QED BY <2>4, <2>5, <2>6
  <1>3. ASSUME run.kind # "publish", NEW only, plan = <<only>>, only \in Children \cup {"none"},
               only # "publish", only \in Effects => only = run.kind
        PROVE  NextChild(run) \in Children \cup {"none"} /\ ChildOK(run, NextChild(run))
    <2>1. Len(plan) = 1 /\ plan[1] = only
      BY <1>3
    <2>2. open \subseteq {1}
      BY <2>1
    <2>3. ASSUME open # {} PROVE next = 1
      <3>1. open = {1}
        BY <2>2, <2>3
      <3>2. next = CHOOSE i \in {1} : \A j \in {1} : i <= j
        BY <3>1
      <3> HIDE DEF next, open
      <3> QED BY <3>2
    <2>4. NextChild(run) \in {only, "none"}
      BY <2>1, <2>3 DEF NextChild
    <2> HIDE DEF plan
    <2> QED BY <1>1, <1>3, <2>4 DEF ChildOK, SnapOK, Effects
  <1>4. CASE run.kind = "maintain"
    BY <1>1, <1>3, <1>4 DEF Plan, Children, Effects
  <1>5. CASE run.kind \in {"archive"} \cup Effects
    BY <1>1, <1>3, <1>5 DEF Plan, Children, Effects
  <1> QED BY <1>1, <1>2, <1>4, <1>5 DEF RunKinds

LEMMA StatusOfType ==
  ASSUME NEW run
  PROVE  StatusOf(run) \in {"running", "waiting", "input", "rejected", "cancelled", "failed", "succeeded"}
  BY DEF StatusOf

LEMMA AdvanceKeeps ==
  ASSUME NEW c \in Calls, NEW run, Advance(c, run), RunOK(run)', proc[c].run \in 1..Len(requests'), Len(requests') \in Nat
  PROVE  \E x : proc' = [proc EXCEPT ![c] = x] /\ CallOK(x)'
  <1> DEFINE r == proc[c].run
  <1>1. r \in Nat /\ r \in 1..Len(requests')
    OBVIOUS
  <1> HIDE DEF r
  <1>2. run \in RunRows
    BY DEF RunOK
  <1>3. CASE Holds(c, "child", run)
    <2> DEFINE x == [at |-> "child", run |-> r, copy |-> run]
    <2>1. proc' = [proc EXCEPT ![c] = x]
      BY <1>3 DEF Holds, r
    <2>2. x \in RunningCalls
      BY <1>1, <1>2 DEF RunningCalls, RunningSteps
    <2>3. PICK z : z = x
      OBVIOUS
    <2>4. z.at = "child" /\ z.run = r /\ z.copy = run /\ z \in RunningCalls
      BY <2>2, <2>3
    <2>5. CallOK(z)'
      BY <1>1, <2>4 DEF CallOK, CallSteps, RunningSteps, ExecSteps
    <2> QED BY <2>1, <2>3, <2>5
  <1>4. CASE Holds(c, "save", [run EXCEPT !.status = StatusOf(run)])
    <2> DEFINE x == [at |-> "save", run |-> r, copy |-> [run EXCEPT !.status = StatusOf(run)]]
    <2>1. proc' = [proc EXCEPT ![c] = x]
      BY <1>4 DEF Holds, r
    <2>2. [run EXCEPT !.status = StatusOf(run)] \in RunRows
      BY <1>2, StatusOfType DEF RunRows
    <2>3. x \in RunningCalls
      BY <1>1, <2>2 DEF RunningCalls, RunningSteps
    <2>4. PICK z : z = x
      OBVIOUS
    <2>5. PICK y : y = [run EXCEPT !.status = StatusOf(run)]
      OBVIOUS
    <2>6. y \in RunRows /\ y.kind = run.kind /\ y.snap = run.snap /\ y.children = run.children
      BY <1>2, <2>2, <2>5 DEF RunRows
    <2>7. RunOK(y)'
      BY <2>6 DEF RunOK
    <2>8. z.at = "save" /\ z.run = r /\ z.copy = y /\ z \in RunningCalls
      BY <2>3, <2>4, <2>5
    <2>9. CallOK(z)'
      BY <1>1, <2>7, <2>8 DEF CallOK, CallSteps, RunningSteps, ExecSteps
    <2> QED BY <2>1, <2>4, <2>9
  <1> QED BY <1>3, <1>4 DEF Advance

LEMMA FinishKeeps ==
  ASSUME NEW c \in Calls, NEW run, NEW child, NEW ending \in Results, FinishChild(c, child, ending, run), RunOK(run)',
         proc[c].run \in 1..Len(requests'), Len(requests') \in Nat,
         child = "publish" => run.kind = "publish" /\ (ending = "succeeded" => outcomes'[run.snap] = "published")
  PROVE  \E x : proc' = [proc EXCEPT ![c] = x] /\ CallOK(x)'
  <1>1. PICK y : y = [run EXCEPT !.children[child] = ending]
    OBVIOUS
  <1>2. run \in RunRows
    BY DEF RunOK
  <1>3. /\ y \in RunRows /\ y.kind = run.kind /\ y.snap = run.snap
        /\ y.children["publish"] = IF child = "publish" THEN ending ELSE run.children["publish"]
    BY <1>1, <1>2 DEF RunRows, Children
  <1>4. RunOK(y)'
    BY <1>3 DEF RunOK
  <1>5. Advance(c, y)
    BY <1>1 DEF FinishChild
  <1> QED BY <1>4, <1>5, AdvanceKeeps

LEMMA StoreFacts ==
  ASSUME KnowledgeInv
  PROVE  /\ \A s \in 1..Len(snapshots) :
              /\ snapshots[s] \in Snaps /\ outcomes[s] \in SnapOutcomes /\ effects[s] \in EffectRows
              /\ snapshots[s].expected \in Nat /\ snapshots[s].revision \in Nat
              /\ snapshots[s].expected <= page.version
              /\ outcomes[s] = "published" =>
                   /\ snapshots[s].expected < page.version /\ page.published # 0
                   /\ page.published = s \/ snapshots[s].expected < snapshots[page.published].expected
              /\ outcomes[s] = "conflict" => Settled(s)
              /\ outcomes[s] # "published" => effects[s] = NoEffect
         /\ page.published # 0 => page.published \in 1..Len(snapshots) /\ outcomes[page.published] = "published"
         /\ ~Active => found = 0
         /\ found # 0 => \E s \in 1..Len(snapshots) : outcomes[s] = "published" /\ snapshots[s].revision = found
         /\ Active /\ page.published # 0 /\ effects[page.published]["reindex"].status = "succeeded"
              => found = RevisionOf(page.published)
         /\ page \in [status : {"active", "archived"}, version : Nat, published : Nat]
         /\ draft \in [text : Texts, wide : BOOLEAN, version : Nat]
         /\ revisions \in Seq(Texts) /\ found \in Nat
  <1>1. StoreTyped /\ StoreOK
    BY DEF KnowledgeInv
  <1>2. \A s \in 1..Len(snapshots) : snapshots[s] \in Snaps /\ outcomes[s] \in SnapOutcomes /\ effects[s] \in EffectRows
    BY <1>1 DEF StoreTyped
  <1>3. \A s \in 1..Len(snapshots) : snapshots[s].expected \in Nat /\ snapshots[s].revision \in Nat
    BY <1>2, SnapFields
  <1> QED BY <1>1, <1>2, <1>3 DEF StoreTyped, StoreOK, Shown

LEMMA PublishedRevision ==
  ASSUME KnowledgeInv
  PROVE  /\ RevisionOf(page.published) \in Nat
         /\ RevisionOf(page.published) # 0 =>
              \E s \in 1..Len(snapshots) : outcomes[s] = "published" /\ snapshots[s].revision = RevisionOf(page.published)
  BY StoreFacts DEF RevisionOf

(* Each statement keeps the store in order and takes nothing back.          *)
StoreGoesOn == Onward /\ StoreTyped' /\ StoreOK'
PlatformStays == UNCHANGED <<requests, tasks>>

LEMMA DraftGoesOn ==
  ASSUME KnowledgeInv, PlatformStays, NEW t \in Texts, NEW wide \in BOOLEAN, SaveDraft(draft.version, t, wide),
         UNCHANGED <<page, revisions, snapshots, outcomes, effects, found>>
  PROVE  StoreGoesOn
  <1>1. draft' \in [text : Texts, wide : BOOLEAN, version : Nat]
    BY StoreFacts DEF SaveDraft
  <1>2. Onward
    BY Lengths DEF PlatformStays, Onward, Settled, CasHolds, Active, FoundIfShown, Shown, RevisionOf
  <1>3. StoreTyped'
    BY <1>1 DEF KnowledgeInv, StoreTyped
  <1>4. StoreOK'
    BY DEF KnowledgeInv, StoreOK, Settled, CasHolds, Active, Shown, RevisionOf
  <1> QED BY <1>2, <1>3, <1>4 DEF StoreGoesOn

LEMMA InsertGoesOn ==
  ASSUME KnowledgeInv, PlatformStays, NEW t \in Texts, NEW n, NEW y \in Snaps, y.expected <= page.version,
         InsertPublication(t, n, y), UNCHANGED <<page, draft, found>>
  PROVE  StoreGoesOn /\ Len(snapshots) + 1 \in 1..Len(snapshots')
  <1> DEFINE k == Len(snapshots) + 1
  <1>1. /\ snapshots' = Append(snapshots, y) /\ outcomes' = Append(outcomes, "none") /\ effects' = Append(effects, NoEffect)
        /\ revisions' = (IF NumberIsFree(n) THEN Append(revisions, t) ELSE revisions)
    BY DEF InsertPublication
  <1>2. NoEffect \in EffectRows
    BY DEF NoEffect, EffectRows
  <1>3. StoreTyped'
    BY <1>1, <1>2, Lengths, StoreFacts DEF StoreTyped, SnapOutcomes
  <1>4. /\ k \in Nat /\ Len(snapshots') = k /\ snapshots'[k] = y /\ outcomes'[k] = "none" /\ effects'[k] = NoEffect
        /\ \A s \in 1..Len(snapshots) : snapshots'[s] = snapshots[s] /\ outcomes'[s] = outcomes[s] /\ effects'[s] = effects[s]
    BY <1>1, Lengths
  <1>5. \A s \in 1..k : s \in 1..Len(snapshots) \/ s = k
    BY <1>4, Lengths
  <1>6. \A s \in 1..Len(snapshots) : s \in 1..k
    BY Lengths
  <1> HIDE DEF k
  <1>7. Onward
    BY <1>4, <1>6, Lengths DEF PlatformStays, Onward, Settled, CasHolds, Active, FoundIfShown, Shown, RevisionOf
  <1>8. \A s \in 1..Len(snapshots) : (Settled(s) => Settled(s)')
    BY <1>4 DEF Settled, CasHolds, Active
  <1>9. /\ page.published # 0 => page.published \in 1..k /\ outcomes'[page.published] = "published"
    BY <1>4, <1>6, StoreFacts
  <1>10. ASSUME NEW s \in 1..k
         PROVE  /\ snapshots'[s].expected <= page.version
                /\ outcomes'[s] = "published" =>
                      /\ snapshots'[s].expected < page.version /\ page.published # 0
                      /\ page.published = s \/ snapshots'[s].expected < snapshots'[page.published].expected
                /\ outcomes'[s] = "conflict" => Settled(s)'
                /\ outcomes'[s] # "published" => effects'[s] = NoEffect
    <2>1. CASE s = k
      BY <1>4, <2>1
    <2>2. CASE s \in 1..Len(snapshots)
      <3>1. page.published # 0 => snapshots'[page.published] = snapshots[page.published]
        BY <1>4, StoreFacts
      <3> QED BY <1>4, <1>8, <2>2, <3>1, StoreFacts
    <2> QED BY <1>5, <2>1, <2>2
  <1>11. /\ ~Active' => found = 0
         /\ found # 0 => \E s \in 1..k : outcomes'[s] = "published" /\ snapshots'[s].revision = found
         /\ Active' /\ page.published # 0 /\ effects'[page.published]["reindex"].status = "succeeded"
              => found = RevisionOf(page.published)'
    <2>1. ~Active' => found = 0
      BY StoreFacts DEF Active
    <2>2. found # 0 => \E s \in 1..k : outcomes'[s] = "published" /\ snapshots'[s].revision = found
      BY <1>4, <1>6, StoreFacts
    <2>3. page.published # 0 => effects'[page.published] = effects[page.published] /\ RevisionOf(page.published)' = RevisionOf(page.published)
      BY <1>4, StoreFacts DEF RevisionOf
    <2>4. Active' /\ page.published # 0 /\ effects'[page.published]["reindex"].status = "succeeded"
              => found = RevisionOf(page.published)'
      BY <2>3, StoreFacts DEF Active
    <2> QED BY <2>1, <2>2, <2>4
  <1>13. page' = page /\ found' = found /\ Len(snapshots)' = k
    BY <1>4
  <1>14. \A s \in 1..Len(snapshots)' :
            /\ snapshots'[s].expected <= page'.version
            /\ outcomes'[s] = "published" =>
                  /\ snapshots'[s].expected < page'.version /\ page'.published # 0
                  /\ Shown(s)' \/ snapshots'[s].expected < snapshots'[page'.published].expected
            /\ outcomes'[s] = "conflict" => Settled(s)'
            /\ outcomes'[s] # "published" => effects'[s] = NoEffect
    BY <1>10, <1>13 DEF Shown
  <1>15. page'.published # 0 => page'.published \in 1..Len(snapshots)' /\ outcomes'[page'.published] = "published"
    BY <1>9, <1>13
  <1>16. /\ ~Active' => found' = 0
         /\ found' # 0 => \E s \in 1..Len(snapshots)' : outcomes'[s] = "published" /\ snapshots'[s].revision = found'
         /\ Active' /\ page'.published # 0 /\ effects'[page'.published]["reindex"].status = "succeeded"
              => found' = RevisionOf(page.published)'
    BY <1>11, <1>13
  <1>12. StoreOK'
    BY <1>14, <1>15, <1>16 DEF StoreOK
  <1>17. k = Len(snapshots) + 1 /\ k \in 1..k
    BY Lengths DEF k
  <1> QED BY <1>3, <1>7, <1>12, <1>13, <1>17 DEF StoreGoesOn

LEMMA RestoreGoesOn ==
  ASSUME KnowledgeInv, PlatformStays, ~Active, Restore, UNCHANGED <<draft, revisions, snapshots, outcomes, effects>>
  PROVE  StoreGoesOn
  <1>1. page' = [page EXCEPT !.status = "active", !.version = @ + 1] /\ found' = RevisionOf(page.published)
    BY DEF Restore
  <1>2. page'.status = "active" /\ page'.version = page.version + 1 /\ page'.published = page.published
        /\ page' \in [status : {"active", "archived"}, version : Nat, published : Nat]
    <2>1. page \in [status : {"active", "archived"}, version : Nat, published : Nat]
      BY StoreFacts
    <2>2. page.version \in Nat /\ page.published \in Nat
      BY <2>1
    <2>3. page' = [status |-> "active", version |-> page.version + 1, published |-> page.published]
      BY <1>1, <2>1
    <2> QED BY <2>2, <2>3
  <1>3. StoreTyped'
    BY <1>1, <1>2, Lengths, StoreFacts, PublishedRevision DEF StoreTyped
  <1>4. \A s \in 1..Len(snapshots) : Settled(s)'
    <2> TAKE s \in 1..Len(snapshots)
    <2>1. snapshots[s].expected \in Nat /\ page.version \in Nat /\ snapshots[s].expected <= page.version
      BY StoreFacts, Lengths
    <2> QED BY <1>2, <2>1 DEF Settled, CasHolds
  <1>5. RevisionOf(page.published)' = RevisionOf(page.published)
    BY <1>2 DEF RevisionOf
  <1>6. Onward
    BY <1>1, <1>2, <1>4, Lengths DEF PlatformStays, Onward, FoundIfShown, Shown, RevisionOf
  <1>7. ASSUME NEW s \in 1..Len(snapshots)
        PROVE  /\ snapshots[s].expected <= page'.version
               /\ outcomes[s] = "published" => snapshots[s].expected < page'.version
    <2>1. snapshots[s].expected \in Nat /\ page.version \in Nat /\ snapshots[s].expected <= page.version
      BY StoreFacts, Lengths
    <2> QED BY <1>2, <2>1
  <1>8. StoreOK'
    <2>1. \A s \in 1..Len(snapshots) : outcomes[s] = "published" => page.published # 0 /\ (page.published = s \/ snapshots[s].expected < snapshots[page.published].expected)
      BY StoreFacts
    <2>2. found' # 0 => \E s \in 1..Len(snapshots) : outcomes[s] = "published" /\ snapshots[s].revision = found'
      BY <1>1, PublishedRevision
    <2>3. page.published # 0 => page.published \in 1..Len(snapshots) /\ outcomes[page.published] = "published"
      BY StoreFacts
    <2>4. \A s \in 1..Len(snapshots) : outcomes[s] # "published" => effects[s] = NoEffect
      BY StoreFacts
    <2> QED BY <1>1, <1>2, <1>4, <1>5, <1>7, <2>1, <2>2, <2>3, <2>4 DEF StoreOK, Shown, Active
  <1> QED BY <1>3, <1>6, <1>8 DEF StoreGoesOn

LEMMA ArchiveGoesOn ==
  ASSUME KnowledgeInv, PlatformStays, Archive, UNCHANGED <<draft, revisions, snapshots, outcomes, effects>>
  PROVE  StoreGoesOn
  <1>1. page \in [status : {"active", "archived"}, version : Nat, published : Nat] /\ found' = 0
    BY StoreFacts DEF Archive
  <1>2. /\ page' \in [status : {"active", "archived"}, version : Nat, published : Nat] /\ ~Active'
        /\ page.version <= page'.version /\ page'.published = page.published
    <2>1. page.version \in Nat /\ page.published \in Nat /\ page.status \in {"active", "archived"}
      BY <1>1
    <2>2. CASE Active
      <3>1. page' = [status |-> "archived", version |-> page.version + 1, published |-> page.published]
        BY <1>1, <2>2 DEF Archive
      <3> QED BY <2>1, <3>1 DEF Active
    <2>3. CASE ~Active
      BY <1>1, <2>1, <2>3 DEF Active, Archive
    <2> QED BY <2>2, <2>3
  <1>3. StoreTyped'
    BY <1>1, <1>2, Lengths, StoreFacts DEF StoreTyped
  <1>4. \A s \in 1..Len(snapshots) : Settled(s)'
    BY <1>2 DEF Settled, CasHolds, Active
  <1>6. Onward
    BY <1>2, <1>4, Lengths DEF PlatformStays, Onward, FoundIfShown
  <1>7. ASSUME NEW s \in 1..Len(snapshots)
        PROVE  /\ snapshots[s].expected <= page'.version
               /\ outcomes[s] = "published" => snapshots[s].expected < page'.version
    <2>1. snapshots[s].expected \in Nat /\ page.version \in Nat /\ page'.version \in Nat /\ snapshots[s].expected <= page.version
          /\ (outcomes[s] = "published" => snapshots[s].expected < page.version)
      BY <1>2, StoreFacts, Lengths
    <2> QED BY <1>2, <2>1
  <1>8. StoreOK'
    <2>1. \A s \in 1..Len(snapshots) : outcomes[s] = "published" => page.published # 0 /\ (page.published = s \/ snapshots[s].expected < snapshots[page.published].expected)
      BY StoreFacts
    <2>3. page.published # 0 => page.published \in 1..Len(snapshots) /\ outcomes[page.published] = "published"
      BY StoreFacts
    <2>4. \A s \in 1..Len(snapshots) : outcomes[s] # "published" => effects[s] = NoEffect
      BY StoreFacts
    <2> QED BY <1>1, <1>2, <1>4, <1>7, <2>1, <2>3, <2>4 DEF StoreOK, Shown
  <1> QED BY <1>3, <1>6, <1>8 DEF StoreGoesOn

(* A batch that commits was not decided before, and nothing it pins at is   *)
(* published yet.                                                           *)
LEMMA CasIsFresh ==
  ASSUME KnowledgeInv, NEW s \in 1..Len(snapshots), CasHolds(s)
  PROVE  outcomes[s] = "none" /\ effects[s] = NoEffect /\ page.version = snapshots[s].expected /\ Active
  <1>1. snapshots[s].expected \in Nat /\ page.version = snapshots[s].expected
    BY StoreFacts DEF CasHolds
  <1>2. outcomes[s] # "published"
    <2>1. outcomes[s] = "published" => snapshots[s].expected < page.version
      BY StoreFacts
    <2> QED BY <1>1, <2>1
  <1>3. outcomes[s] # "conflict"
    BY StoreFacts DEF Settled
  <1>4. outcomes[s] \in {"none", "published", "conflict"}
    BY StoreFacts DEF SnapOutcomes
  <1>5. effects[s] = NoEffect
    BY <1>2, StoreFacts
  <1> QED BY <1>1, <1>2, <1>3, <1>4, <1>5 DEF CasHolds

(* What a batch leaves of an effect row.                                    *)
Queued(row) == [e \in Effects |-> IF row[e].status = "none" THEN [row[e] EXCEPT !.status = "pending"] ELSE row[e]]

LEMMA QueuedOK ==
  ASSUME NEW row \in EffectRows
  PROVE  /\ Queued(row) \in EffectRows
         /\ Queued(row)["reindex"].status = "succeeded" => row["reindex"].status = "succeeded"
         /\ row = NoEffect => Queued(row)["reindex"].status # "succeeded"
  <1> DEFINE T == [status : {"none", "pending", "failed", "succeeded"}, attempts : Nat]
  <1>1. \A e \in Effects : row[e] \in T
    BY DEF EffectRows
  <1>2. \A e \in Effects : (IF row[e].status = "none" THEN [row[e] EXCEPT !.status = "pending"] ELSE row[e]) \in T
    BY <1>1
  <1>3. Queued(row) \in EffectRows
    BY <1>2 DEF Queued, EffectRows
  <1>4. "reindex" \in Effects
    BY DEF Effects
  <1>5. Queued(row)["reindex"] = IF row["reindex"].status = "none" THEN [row["reindex"] EXCEPT !.status = "pending"] ELSE row["reindex"]
    BY <1>4 DEF Queued
  <1>6. row["reindex"].status = "none" => [row["reindex"] EXCEPT !.status = "pending"].status = "pending"
    BY <1>1, <1>4
  <1>7. NoEffect["reindex"].status = "none"
    BY <1>4 DEF NoEffect
  <1> QED BY <1>3, <1>5, <1>6, <1>7

LEMMA CommitGoesOn ==
  ASSUME KnowledgeInv, PlatformStays, NEW s \in 1..Len(snapshots), CommitBatch(s), UNCHANGED <<draft, revisions, snapshots, found>>
  PROVE  StoreGoesOn /\ Settled(s)'
  <1>1. \A o \in 1..Len(snapshots) : effects[o] \in EffectRows
    BY StoreFacts
  <1>2. CASE CasHolds(s)
    <2>1. outcomes[s] = "none" /\ effects[s] = NoEffect /\ page.version = snapshots[s].expected /\ Active
      BY <1>2, CasIsFresh
    <2>2. page' = [page EXCEPT !.version = @ + 1, !.published = s]
      BY <1>2 DEF CommitBatch
    <2>3. outcomes' = [outcomes EXCEPT ![s] = "published"]
      BY <1>2, <2>1 DEF CommitBatch
    <2>4. effects' = [effects EXCEPT ![s] = Queued(effects[s])]
      BY <1>2 DEF CommitBatch, Queued
    <2>5. page \in [status : {"active", "archived"}, version : Nat, published : Nat] /\ s \in Nat
      BY StoreFacts, Lengths
    <2>6. page' = [status |-> page.status, version |-> page.version + 1, published |-> s]
      BY <2>2, <2>5
    <2>7. page' \in [status : {"active", "archived"}, version : Nat, published : Nat] /\ page.version < page'.version /\ page'.published = s /\ Active'
          /\ page.version \in Nat /\ page'.version \in Nat
      BY <2>1, <2>5, <2>6 DEF Active
    <2>8. Queued(effects[s]) \in EffectRows /\ Queued(effects[s])["reindex"].status # "succeeded"
      BY <1>1, <2>1, QueuedOK
    <2>9. /\ outcomes' \in Seq(SnapOutcomes) /\ Len(outcomes') = Len(outcomes) /\ effects' \in Seq(EffectRows) /\ Len(effects') = Len(effects)
          /\ \A o \in 1..Len(snapshots) : outcomes'[o] = (IF o = s THEN "published" ELSE outcomes[o])
                                          /\ effects'[o] = IF o = s THEN Queued(effects[s]) ELSE effects[o]
      BY <2>3, <2>4, <2>8, Lengths DEF SnapOutcomes
    <2>10. StoreTyped'
      BY <2>7, <2>9, Lengths, StoreFacts DEF StoreTyped
    <2>11. \A o \in 1..Len(snapshots) : Settled(o)'
      <3> TAKE o \in 1..Len(snapshots)
      <3>1. snapshots[o].expected \in Nat /\ snapshots[o].expected <= page.version
        BY StoreFacts
      <3> QED BY <2>7, <3>1 DEF Settled, CasHolds
    <2>12. Onward
      <3>1. page.version <= page'.version
        BY <2>7
      <3>2. \A o \in 1..Len(snapshots) : outcomes[o] = "published" => outcomes'[o] = "published" /\ ~Shown(o)'
        BY <2>1, <2>7, <2>9 DEF Shown
      <3> QED BY <2>11, <3>1, <3>2, Lengths DEF PlatformStays, Onward, FoundIfShown
    <2>13. ASSUME NEW o \in 1..Len(snapshots)
           PROVE  /\ snapshots[o].expected <= page'.version /\ snapshots[o].expected < page'.version
                  /\ outcomes'[o] = "published" => o = s \/ snapshots[o].expected < snapshots[s].expected
                  /\ outcomes'[o] # "published" => effects'[o] = NoEffect
      <3>1. snapshots[o].expected \in Nat /\ snapshots[o].expected <= page.version
            /\ (outcomes[o] = "published" => snapshots[o].expected < page.version)
            /\ (outcomes[o] # "published" => effects[o] = NoEffect)
        BY StoreFacts
      <3>2. snapshots[o].expected <= page'.version /\ snapshots[o].expected < page'.version
        BY <2>7, <3>1
      <3> QED BY <2>1, <2>9, <3>1, <3>2
    <2>14. ~(effects'[s]["reindex"].status = "succeeded") /\ outcomes'[s] = "published" /\ s # 0
      <3>1. effects'[s] = Queued(effects[s]) /\ outcomes'[s] = "published"
        BY <2>9
      <3>2. s # 0
        BY Lengths
      <3> QED BY <2>8, <3>1, <3>2
    <2>15. \A o \in 1..Len(snapshots) : outcomes[o] = "published" => outcomes'[o] = "published"
      BY <2>9
    <2>16. found # 0 => \E o \in 1..Len(snapshots) : outcomes[o] = "published" /\ snapshots[o].revision = found
      BY StoreFacts
    <2>17. StoreOK'
      BY <2>7, <2>11, <2>13, <2>14, <2>15, <2>16 DEF StoreOK, Shown
    <2> QED BY <2>10, <2>11, <2>12, <2>17 DEF StoreGoesOn
  <1>3. CASE ~CasHolds(s) /\ page.published = s
    <2>1. outcomes[s] = "published"
      BY <1>3, StoreFacts, Lengths
    <2>2. page' = page /\ outcomes' = outcomes /\ effects' = [effects EXCEPT ![s] = Queued(effects[s])]
      BY <1>3, <2>1 DEF CommitBatch, Queued
    <2>3. Queued(effects[s]) \in EffectRows /\ (Queued(effects[s])["reindex"].status = "succeeded" => effects[s]["reindex"].status = "succeeded")
      BY <1>1, QueuedOK
    <2>4. /\ effects' \in Seq(EffectRows) /\ Len(effects') = Len(effects)
          /\ \A o \in 1..Len(snapshots) : effects'[o] = IF o = s THEN Queued(effects[s]) ELSE effects[o]
      BY <2>2, <2>3, Lengths
    <2>5. StoreTyped'
      BY <2>2, <2>4, Lengths, StoreFacts DEF StoreTyped
    <2>6. Onward
      BY <2>2, Lengths DEF PlatformStays, Onward, Settled, CasHolds, Active, FoundIfShown, Shown, RevisionOf
    <2>7. StoreOK /\ s # 0 /\ Len(snapshots)' = Len(snapshots)
      BY Lengths DEF KnowledgeInv
    <2>8. \A o \in 1..Len(snapshots) : outcomes'[o] # "published" => effects'[o] = NoEffect
      BY <2>1, <2>2, <2>4, <2>7 DEF StoreOK
    <2>9. effects'[s]["reindex"].status = "succeeded" => effects[s]["reindex"].status = "succeeded"
      BY <2>3, <2>4
    <2>10. StoreOK'
      BY <1>3, <2>2, <2>7, <2>8, <2>9 DEF StoreOK, Settled, CasHolds, Active, Shown, RevisionOf
    <2> QED BY <1>3, <2>2, <2>5, <2>6, <2>10 DEF StoreGoesOn, Settled, CasHolds, Active
  <1>4. CASE ~CasHolds(s) /\ page.published # s
    <2>1. page' = page /\ outcomes' = outcomes /\ effects' = effects
      BY <1>4 DEF CommitBatch
    <2>2. Onward
      BY <2>1, Lengths DEF PlatformStays, Onward, Settled, CasHolds, Active, FoundIfShown, Shown, RevisionOf
    <2>3. StoreTyped'
      BY <2>1 DEF KnowledgeInv, StoreTyped
    <2>4. StoreOK'
      BY <2>1 DEF KnowledgeInv, StoreOK, Settled, CasHolds, Active, Shown, RevisionOf
    <2> QED BY <1>4, <2>1, <2>2, <2>3, <2>4 DEF StoreGoesOn, Settled, CasHolds, Active
  <1> QED BY <1>2, <1>3, <1>4

LEMMA ConflictGoesOn ==
  ASSUME KnowledgeInv, PlatformStays, NEW s \in 1..Len(snapshots), Settled(s), RecordConflict(s),
         UNCHANGED <<page, draft, revisions, snapshots, effects, found>>
  PROVE  StoreGoesOn
  <1> PICK v : v = IF outcomes[s] = "none" THEN "conflict" ELSE outcomes[s]
    OBVIOUS
  <1>1. outcomes' = [outcomes EXCEPT ![s] = v]
    BY DEF RecordConflict
  <1>2. outcomes[s] \in SnapOutcomes
    BY StoreFacts
  <1>3. v \in SnapOutcomes /\ (v = "published" <=> outcomes[s] = "published")
    BY <1>2 DEF SnapOutcomes
  <1>4. /\ outcomes' \in Seq(SnapOutcomes) /\ Len(outcomes') = Len(outcomes)
        /\ \A o \in 1..Len(snapshots) : outcomes'[o] = IF o = s THEN v ELSE outcomes[o]
    BY <1>1, <1>3, Lengths
  <1>5. \A o \in 1..Len(snapshots) : (outcomes'[o] = "published" <=> outcomes[o] = "published") /\ (outcomes'[o] = "conflict" => Settled(o))
    <2>1. \A o \in 1..Len(snapshots) : outcomes[o] = "conflict" => Settled(o)
      BY StoreFacts
    <2> QED BY <1>3, <1>4, <2>1
  <1>6. StoreTyped'
    BY <1>4, Lengths, StoreFacts DEF StoreTyped
  <1>7. Onward
    BY <1>5, Lengths DEF PlatformStays, Onward, Settled, CasHolds, Active, FoundIfShown, Shown, RevisionOf
  <1>8. StoreOK'
    BY <1>5 DEF KnowledgeInv, StoreOK, Settled, CasHolds, Active, Shown, RevisionOf
  <1> QED BY <1>6, <1>7, <1>8 DEF StoreGoesOn

LEMMA EffectGoesOn ==
  ASSUME KnowledgeInv, PlatformStays, NEW s \in 1..Len(snapshots), outcomes[s] = "published", NEW e \in Effects,
         NEW status \in {"failed", "succeeded"}, RecordEffect(s, e, status),
         e = "reindex" /\ status = "succeeded" => FoundIfShown(s),
         UNCHANGED <<page, draft, revisions, snapshots, outcomes, found>>
  PROVE  StoreGoesOn
  <1> PICK a : a = [status |-> status, attempts |-> effects[s][e].attempts + 1]
    OBVIOUS
  <1>1. effects' = [effects EXCEPT ![s][e] = a]
    BY DEF RecordEffect
  <1>2. effects[s] \in EffectRows
    BY StoreFacts
  <1>3. effects[s][e].attempts \in Nat
    BY <1>2 DEF EffectRows
  <1>4. a \in [status : {"none", "pending", "failed", "succeeded"}, attempts : Nat] /\ a.status = status
    BY <1>3
  <1> PICK row : row = [effects[s] EXCEPT ![e] = a]
    OBVIOUS
  <1>5. row \in EffectRows /\ (row["reindex"].status = "succeeded" => effects[s]["reindex"].status = "succeeded" \/ FoundIfShown(s))
    BY <1>2, <1>4 DEF EffectRows, Effects
  <1>6. effects' = [effects EXCEPT ![s] = row]
    BY <1>1
  <1>7. /\ effects' \in Seq(EffectRows) /\ Len(effects') = Len(effects)
        /\ \A o \in 1..Len(snapshots) : effects'[o] = IF o = s THEN row ELSE effects[o]
    BY <1>5, <1>6, Lengths
  <1>8. StoreTyped'
    BY <1>7, Lengths, StoreFacts DEF StoreTyped
  <1>9. Onward
    BY Lengths DEF PlatformStays, Onward, Settled, CasHolds, Active, FoundIfShown, Shown, RevisionOf
  <1>10. StoreOK /\ Len(snapshots)' = Len(snapshots)
    BY DEF KnowledgeInv
  <1>11. \A o \in 1..Len(snapshots) : outcomes[o] # "published" => effects'[o] = NoEffect
    BY <1>7, <1>10 DEF StoreOK
  <1>12. Active /\ page.published # 0 /\ effects'[page.published]["reindex"].status = "succeeded" => found = RevisionOf(page.published)
    <2>1. page.published # 0 => page.published \in 1..Len(snapshots)
      BY <1>10 DEF StoreOK
    <2>2. CASE page.published = s
      BY <1>5, <1>7, <1>10, <2>2 DEF StoreOK, FoundIfShown, Shown
    <2>3. CASE page.published # s
      BY <1>7, <1>10, <2>1, <2>3 DEF StoreOK
    <2> QED BY <2>2, <2>3
  <1>13. StoreOK'
    BY <1>10, <1>11, <1>12 DEF StoreOK, Settled, CasHolds, Active, Shown, RevisionOf
  <1> QED BY <1>8, <1>9, <1>13 DEF StoreGoesOn

LEMMA ReindexGoesOn ==
  ASSUME KnowledgeInv, PlatformStays, NEW s, ReindexPublished(s),
         UNCHANGED <<page, draft, revisions, snapshots, outcomes, effects>>
  PROVE  StoreGoesOn /\ \A o \in 1..Len(snapshots) : FoundIfShown(o)'
  <1>1. found' = (IF Active THEN RevisionOf(page.published) ELSE 0) /\ found' \in Nat
    BY PublishedRevision DEF ReindexPublished
  <1>2. StoreTyped'
    BY <1>1 DEF KnowledgeInv, StoreTyped
  <1>3. \A o \in 1..Len(snapshots) : FoundIfShown(o)'
    BY <1>1 DEF FoundIfShown, Active, Shown, RevisionOf
  <1>4. Onward
    BY <1>3, Lengths DEF PlatformStays, Onward, Settled, CasHolds, Active
  <1>5. found' # 0 => \E o \in 1..Len(snapshots) : outcomes[o] = "published" /\ snapshots[o].revision = found'
    BY <1>1, PublishedRevision
  <1>6. StoreOK'
    BY <1>1, <1>5 DEF KnowledgeInv, StoreOK, Settled, CasHolds, Active, Shown, RevisionOf
  <1> QED BY <1>2, <1>3, <1>4, <1>6 DEF StoreGoesOn

LEMMA UnseenGoesOn ==
  ASSUME KnowledgeInv, PlatformStays, UNCHANGED <<page, draft, revisions, snapshots, outcomes, effects, found>>
  PROVE  StoreGoesOn
  <1>1. Onward
    BY Lengths DEF PlatformStays, Onward, Settled, CasHolds, Active, FoundIfShown, Shown, RevisionOf
  <1>2. StoreTyped'
    BY DEF KnowledgeInv, StoreTyped
  <1>3. StoreOK'
    BY DEF KnowledgeInv, StoreOK, Settled, CasHolds, Active, Shown, RevisionOf
  <1> QED BY <1>1, <1>2, <1>3 DEF StoreGoesOn

LEMMA HeldRun ==
  ASSUME KnowledgeInv, NEW c \in Calls, proc[c].at \in RunningSteps \cup ExecSteps
  PROVE  /\ proc[c].run \in 1..Len(requests) /\ proc[c].run \in Nat
         /\ RunOK(proc[c].copy) /\ proc[c].copy \in RunRows
  <1>1. CallOK(proc[c])
    BY DEF KnowledgeInv
  <1> QED BY <1>1, Lengths DEF CallOK, RunOK

LEMMA HeldChild ==
  ASSUME KnowledgeInv, NEW c \in Calls, proc[c].at \in ExecSteps
  PROVE  /\ ChildOK(proc[c].copy, proc[c].child) /\ proc[c] \in ExecCalls
         /\ proc[c].child = "publish" => proc[c].copy.kind = "publish" /\ proc[c].copy.snap \in 1..Len(snapshots)
         /\ proc[c].child \in Effects => proc[c].copy.snap \in 1..Len(snapshots) /\ outcomes[proc[c].copy.snap] = "published"
         /\ proc[c].at \in {"commit", "reread", "conflict"} => proc[c].child = "publish"
         /\ proc[c].at \in {"reread", "conflict"} => Settled(proc[c].copy.snap)
         /\ proc[c].at = "record" => proc[c].child \in Effects /\ (proc[c].child = "reindex" => FoundIfShown(proc[c].copy.snap))
  <1>1. CallOK(proc[c])
    BY DEF KnowledgeInv
  <1> QED BY <1>1 DEF CallOK, RunOK, SnapOK, ChildOK

LEMMA RunsStay ==
  ASSUME KnowledgeInv, Onward, UNCHANGED <<requests, runs>>, tasks' \in Seq(TaskRows), Len(tasks') = Len(tasks)
  PROVE  RunsOK' /\ Len(requests)' \in Nat
  <1>1. ASSUME NEW r \in 1..Len(runs), runs[r] # NoRun PROVE RunOK(runs[r])'
    <2>1. PICK run : run = runs[r]
      OBVIOUS
    <2>2. RunOK(run)
      BY <1>1, <2>1 DEF KnowledgeInv, RunsOK
    <2>3. RunOK(run)'
      BY <2>2, RunKept
    <2> QED BY <2>1, <2>3
  <1> QED BY <1>1, Lengths DEF RunsOK

LEMMA NoCallOK == CallOK(NoCall)'
  BY DEF CallOK, NoCall, CallSteps, RunningSteps, ExecSteps

(* One call's step.                                                         *)
LEMMA StepKeeps ==
  ASSUME KnowledgeInv, StoreGoesOn, RunsOK', Len(requests)' \in Nat, NEW c \in Calls,
         \E x : proc' = [proc EXCEPT ![c] = x] /\ CallOK(x)'
  PROVE  KnowledgeInv'
  <1> PICK x : proc' = [proc EXCEPT ![c] = x] /\ CallOK(x)'
    OBVIOUS
  <1> QED BY CallStep DEF StoreGoesOn

LEMMA EndsKeeps == ASSUME NEW c \in Calls, Ends(c) PROVE \E x : proc' = [proc EXCEPT ![c] = x] /\ CallOK(x)'
  BY NoCallOK DEF Ends

LEMMA RanKeeps ==
  ASSUME KnowledgeInv, StoreGoesOn, Len(requests)' \in Nat, NEW c \in Calls, proc[c].at \in ExecSteps,
         NEW ending \in Results, Ran(c, ending),
         ending = "succeeded" /\ proc[c].child = "publish" => outcomes'[proc[c].copy.snap] = "published"
  PROVE  \E x : proc' = [proc EXCEPT ![c] = x] /\ CallOK(x)'
  <1> PICK run : run = proc[c].copy
    OBVIOUS
  <1> PICK child : child = proc[c].child
    OBVIOUS
  <1>1. RunOK(run) /\ proc[c].run \in 1..Len(requests)
    BY HeldRun
  <1>2. RunOK(run)'
    BY <1>1, RunKept DEF StoreGoesOn
  <1>3. proc[c].run \in 1..Len(requests')
    BY <1>1, Lengths DEF StoreGoesOn, Onward
  <1>4. child = "publish" => run.kind = "publish"
    BY HeldChild
  <1>5. FinishChild(c, child, ending, run)
    BY DEF Ran
  <1> QED BY <1>2, <1>3, <1>4, <1>5, FinishKeeps

LEMMA GoKeeps ==
  ASSUME KnowledgeInv, StoreGoesOn, Len(requests)' \in Nat, NEW c \in Calls, proc[c].at \in ExecSteps,
         NEW step \in ExecSteps, Go(c, step),
         step \in {"commit", "reread", "conflict"} => proc[c].child = "publish",
         NEW s, s = proc[c].copy.snap,
         step \in {"reread", "conflict"} => Settled(s)',
         step = "record" => proc[c].child \in Effects /\ (proc[c].child = "reindex" => FoundIfShown(s)')
  PROVE  \E x : proc' = [proc EXCEPT ![c] = x] /\ CallOK(x)'
  <1> PICK run : run = proc[c].copy
    OBVIOUS
  <1> PICK child : child = proc[c].child
    OBVIOUS
  <1>1. RunOK(run) /\ proc[c].run \in 1..Len(requests)
    BY HeldRun
  <1>2. RunOK(run)'
    BY <1>1, RunKept DEF StoreGoesOn
  <1>3. proc[c].run \in 1..Len(requests')
    BY <1>1, Lengths DEF StoreGoesOn, Onward
  <1>4. proc[c] \in ExecCalls /\ ChildOK(run, child)
    BY HeldChild
  <1>5. ChildOK(run, child)'
    BY <1>4, Lengths DEF ChildOK, StoreGoesOn, Onward
  <1> PICK x : x = [proc[c] EXCEPT !.at = step]
    OBVIOUS
  <1>6. x \in ExecCalls /\ x.at = step /\ x.run = proc[c].run /\ x.copy = run /\ x.child = child
    BY <1>4 DEF ExecCalls
  <1>7. proc' = [proc EXCEPT ![c] = x]
    BY DEF Go
  <1>8. /\ step \notin RunningSteps /\ step \in CallSteps /\ step \notin {"insert", "request", "decided"}
    BY DEF ExecSteps, RunningSteps, CallSteps
  <1>10. x.copy.snap = s
    BY <1>6
  <1>9. CallOK(x)'
    BY <1>2, <1>3, <1>5, <1>6, <1>8, <1>10 DEF CallOK
  <1> QED BY <1>7, <1>9

LEMMA GoOnKeeps ==
  ASSUME KnowledgeInv, StoreGoesOn, Len(requests)' \in Nat, NEW c \in Calls, proc[c].at \in RunningSteps,
         NEW step \in RunningSteps, Go(c, step)
  PROVE  \E x : proc' = [proc EXCEPT ![c] = x] /\ CallOK(x)'
  <1> PICK run : run = proc[c].copy
    OBVIOUS
  <1>1. RunOK(run) /\ proc[c].run \in 1..Len(requests)
    BY HeldRun
  <1>2. RunOK(run)'
    BY <1>1, RunKept DEF StoreGoesOn
  <1>3. proc[c].run \in 1..Len(requests')
    BY <1>1, Lengths DEF StoreGoesOn, Onward
  <1>4. proc[c] \in RunningCalls
    BY DEF KnowledgeInv, CallOK
  <1> PICK x : x = [proc[c] EXCEPT !.at = step]
    OBVIOUS
  <1>5. x \in RunningCalls /\ x.at = step /\ x.run = proc[c].run /\ x.copy = run
    BY <1>4 DEF RunningCalls
  <1>6. proc' = [proc EXCEPT ![c] = x]
    BY DEF Go
  <1>7. step \notin ExecSteps /\ step \in CallSteps /\ step \notin {"insert", "request", "decided", "commit", "reread", "conflict", "record"}
    BY DEF ExecSteps, RunningSteps, CallSteps
  <1>8. CallOK(x)'
    BY <1>2, <1>3, <1>5, <1>7 DEF CallOK
  <1> QED BY <1>6, <1>8

(* A call that holds a run in order goes on with it.                        *)
LEMMA HoldsKeeps ==
  ASSUME NEW c \in Calls, NEW step \in RunningSteps, NEW run, Holds(c, step, run), RunOK(run)',
         proc[c].run \in 1..Len(requests'), Len(requests') \in Nat
  PROVE  \E x : proc' = [proc EXCEPT ![c] = x] /\ CallOK(x)'
  <1> PICK r : r = proc[c].run
    OBVIOUS
  <1> PICK x : x = [at |-> step, run |-> r, copy |-> run]
    OBVIOUS
  <1>1. proc' = [proc EXCEPT ![c] = x]
    BY DEF Holds
  <1>2. r \in Nat /\ run \in RunRows
    BY DEF RunOK
  <1>3. x \in RunningCalls /\ x.at = step /\ x.run = r /\ x.copy = run
    BY <1>2 DEF RunningCalls
  <1>4. step \notin ExecSteps /\ step \in CallSteps /\ step \notin {"insert", "request", "decided", "commit", "reread", "conflict", "record"}
    BY DEF ExecSteps, RunningSteps, CallSteps
  <1>5. CallOK(x)'
    BY <1>3, <1>4 DEF CallOK
  <1> QED BY <1>1, <1>5

RestStays == UNCHANGED storeVars /\ UNCHANGED <<requests, tasks>>

LEMMA RestGoesOn == ASSUME KnowledgeInv, RestStays PROVE StoreGoesOn
  BY UnseenGoesOn DEF RestStays, PlatformStays, storeVars

LEMMA RunsGoOn ==
  ASSUME KnowledgeInv, StoreGoesOn, UNCHANGED <<requests, runs, tasks>>
  PROVE  RunsOK' /\ Len(requests)' \in Nat
  BY RunsStay, Lengths DEF StoreGoesOn

LEMMA QuietKeeps ==
  ASSUME KnowledgeInv, StoreGoesOn, UNCHANGED <<requests, runs, tasks, proc>>
  PROVE  KnowledgeInv'
  BY RunsGoOn, QuietStep DEF StoreGoesOn

LEMMA EditDraftKeeps == ASSUME KnowledgeInv, NEW p \in People, EditDraft(p) PROVE KnowledgeInv'
  <1>1. PlatformStays /\ UNCHANGED <<requests, runs, tasks, proc>> /\ UNCHANGED <<page, revisions, snapshots, outcomes, effects, found>>
    BY DEF EditDraft, platformVars, PlatformStays
  <1> PICK t \in Texts \ {draft.text}, wide \in BOOLEAN : SaveDraft(draft.version, t, wide)
    BY DEF EditDraft
  <1> QED BY <1>1, DraftGoesOn, QuietKeeps

LEMMA RestorePageKeeps == ASSUME KnowledgeInv, NEW p \in People, RestorePage(p) PROVE KnowledgeInv'
  BY RestoreGoesOn, QuietKeeps DEF RestorePage, platformVars, PlatformStays

LEMMA RevokeKeeps == ASSUME KnowledgeInv, NEW p \in People, Revoke(p) PROVE KnowledgeInv'
  BY RestGoesOn, QuietKeeps DEF Revoke, RestStays

LEMMA PreparePublicationKeeps == ASSUME KnowledgeInv, NEW c \in Calls, PreparePublication(c) PROVE KnowledgeInv'
  <1>1. StoreGoesOn /\ RunsOK' /\ Len(requests)' \in Nat
    BY RestGoesOn, RunsGoOn DEF PreparePublication, RestStays
  <1> PICK latest : latest = Len(revisions)
    OBVIOUS
  <1> PICK reuse : reuse = (latest > 0 /\ revisions[latest] = draft.text)
    OBVIOUS
  <1> PICK p \in People : proc' = [proc EXCEPT ![c] =
                  [at |-> "insert", reuse |-> reuse, text |-> draft.text,
                   snapshot |-> [revision |-> IF reuse THEN latest ELSE latest + 1,
                                 expected |-> page.version, by |-> p, wide |-> draft.wide]]]
    BY Zenon DEF PreparePublication
  <1> PICK n : n = IF reuse THEN latest ELSE latest + 1
    OBVIOUS
  <1> PICK y : y = [revision |-> n, expected |-> page.version, by |-> p, wide |-> draft.wide]
    OBVIOUS
  <1> PICK x : x = [at |-> "insert", reuse |-> reuse, text |-> draft.text, snapshot |-> y]
    OBVIOUS
  <1>2. n \in Nat /\ page.version \in Nat /\ draft.text \in Texts /\ draft.wide \in BOOLEAN
    <2>1. draft \in [text : Texts, wide : BOOLEAN, version : Nat] /\ revisions \in Seq(Texts)
      BY StoreFacts
    <2> QED BY <2>1, Lengths
  <1>3. y \in Snaps /\ y.expected = page.version
    BY <1>2 DEF Snaps
  <1>4. page'.version = page.version
    BY DEF PreparePublication, storeVars
  <1>5. x.at = "insert" /\ x.text \in Texts /\ x.snapshot = y
    BY <1>2
  <1>6. CallOK(x)'
    <2>1. y.expected <= page'.version
      BY <1>2, <1>3, <1>4
    <2> QED BY <1>3, <1>5, <2>1 DEF CallOK, CallSteps, RunningSteps, ExecSteps
  <1>7. proc' = [proc EXCEPT ![c] = x]
    OBVIOUS
  <1> QED BY <1>1, <1>6, <1>7, StepKeeps

(* A call that asks for an action of a kind, with a snapshot if it needs    *)
(* one.                                                                     *)
LEMMA StartsKeeps ==
  ASSUME NEW c \in Calls, NEW kind \in RunKinds, NEW who \in People, NEW s \in Nat, NEW key \in Keys,
         Starts(c, kind, who, s, key), SnapOK(kind, s)'
  PROVE  \E x : proc' = [proc EXCEPT ![c] = x] /\ CallOK(x)'
  <1> PICK x : x = [at |-> "request", kind |-> kind, who |-> who, snap |-> s, key |-> key]
    OBVIOUS
  <1>1. x.at = "request" /\ x.kind = kind /\ x.who = who /\ x.snap = s /\ x.key = key
    OBVIOUS
  <1>2. CallOK(x)'
    BY <1>1 DEF CallOK, CallSteps, RunningSteps, ExecSteps
  <1> QED BY <1>2 DEF Starts

LEMMA WritePublicationKeeps == ASSUME KnowledgeInv, NEW c \in Calls, WritePublication(c) PROVE KnowledgeInv'
  <1>1. PlatformStays /\ UNCHANGED <<page, draft, found>> /\ UNCHANGED <<requests, runs, tasks>>
    BY DEF WritePublication, PlatformStays
  <1>2. CallOK(proc[c]) /\ proc[c].at = "insert"
    BY DEF KnowledgeInv, WritePublication
  <1> PICK y : y = proc[c].snapshot
    OBVIOUS
  <1> PICK t : t = proc[c].text
    OBVIOUS
  <1>3. t \in Texts /\ y \in Snaps /\ y.expected <= page.version /\ y.by \in People
    BY <1>2, SnapFields DEF CallOK
  <1>4. CASE Ends(c) /\ UNCHANGED <<revisions, snapshots, outcomes, effects>>
    <2>1. StoreGoesOn
      BY <1>1, <1>4, UnseenGoesOn
    <2> QED BY <1>1, <1>4, <2>1, RunsGoOn, EndsKeeps, StepKeeps
  <1> PICK s \in Nat : s = Len(snapshots) + 1
    BY Lengths
  <1> PICK key : key = <<"publish", s, "", 0>>
    OBVIOUS
  <1>5. CASE InsertPublication(t, y.revision, y) /\ Starts(c, "publish", y.by, s, key)
    <2>1. StoreGoesOn /\ s \in 1..Len(snapshots') /\ s \in Nat
      <3>1. StoreGoesOn /\ Len(snapshots) + 1 \in 1..Len(snapshots')
        BY <1>1, <1>3, <1>5, InsertGoesOn
      <3> QED BY <3>1
    <2>2. SnapOK("publish", s)'
      BY <2>1 DEF SnapOK, Effects
    <2>3. key \in Keys /\ "publish" \in RunKinds
      BY <2>1 DEF Keys, RunKinds
    <2> QED BY <1>1, <1>3, <1>5, <2>1, <2>2, <2>3, StartsKeeps, RunsGoOn, StepKeeps
  <1> QED BY <1>4, <1>5 DEF WritePublication

LEMMA AskArchiveKeeps == ASSUME KnowledgeInv, NEW c \in Calls, AskArchive(c) PROVE KnowledgeInv'
  <1>1. StoreGoesOn /\ RunsOK' /\ Len(requests)' \in Nat
    BY RestGoesOn, RunsGoOn DEF AskArchive, RestStays
  <1> PICK p \in People : Starts(c, "archive", p, 0, <<"archive", page.version, p, 0>>)
    BY DEF AskArchive
  <1> PICK key : key = <<"archive", page.version, p, 0>>
    OBVIOUS
  <1>2. key \in Keys /\ "archive" \in RunKinds
    BY Lengths DEF Keys, RunKinds
  <1>3. SnapOK("archive", 0)'
    BY DEF SnapOK, Effects
  <1> QED BY <1>1, <1>2, <1>3, StartsKeeps, StepKeeps

LEMMA RetryEffectKeeps == ASSUME KnowledgeInv, NEW c \in Calls, RetryEffect(c) PROVE KnowledgeInv'
  <1>1. StoreGoesOn /\ RunsOK' /\ Len(requests)' \in Nat /\ UNCHANGED <<snapshots, outcomes>>
    BY RestGoesOn, RunsGoOn DEF RetryEffect, RestStays, storeVars
  <1> PICK p \in People, s \in 1..Len(snapshots), e \in Effects :
         outcomes[s] = "published" /\ Starts(c, e, p, s, <<"retry", s, e, effects[s][e].attempts>>)
    BY DEF RetryEffect
  <1> PICK a : a = effects[s][e].attempts
    OBVIOUS
  <1>2. a \in Nat /\ s \in Nat
    BY StoreFacts, Lengths DEF EffectRows
  <1> PICK key : key = <<"retry", s, e, a>>
    OBVIOUS
  <1>3. key \in Keys /\ e \in RunKinds
    BY <1>2 DEF Keys, RunKinds
  <1>4. SnapOK(e, s)'
    BY <1>1 DEF SnapOK, Effects
  <1> QED BY <1>1, <1>2, <1>3, <1>4, StartsKeeps, StepKeeps

LEMMA RunMaintenanceKeeps == ASSUME KnowledgeInv, NEW c \in Calls, RunMaintenance(c) PROVE KnowledgeInv'
  <1>1. StoreGoesOn /\ RunsOK' /\ Len(requests)' \in Nat
    BY RestGoesOn, RunsGoOn DEF RunMaintenance, RestStays
  <1> PICK p \in People : Starts(c, "maintain", p, 0, <<"maintain", Len(requests), p, 0>>)
    BY DEF RunMaintenance
  <1> PICK key : key = <<"maintain", Len(requests), p, 0>>
    OBVIOUS
  <1>2. key \in Keys /\ "maintain" \in RunKinds
    BY Lengths DEF Keys, RunKinds
  <1>3. SnapOK("maintain", 0)'
    BY DEF SnapOK, Effects
  <1> QED BY <1>1, <1>2, <1>3, StartsKeeps, StepKeeps

(* The platform's calls.                                                    *)
LEMMA FindOrInsertKeeps == ASSUME KnowledgeInv, NEW c \in Calls, FindOrInsert(c) PROVE KnowledgeInv'
  <1>1. UNCHANGED <<page, draft, revisions, snapshots, outcomes, effects, found>>
    BY DEF FindOrInsert, storeVars
  <1>2. CallOK(proc[c]) /\ proc[c].at = "request"
    BY DEF KnowledgeInv, FindOrInsert
  <1>3. CASE Ends(c) /\ UNCHANGED <<requests, runs, tasks>>
    <2>1. StoreGoesOn
      BY <1>1, <1>3, UnseenGoesOn DEF PlatformStays
    <2> QED BY <1>3, <2>1, RunsGoOn, EndsKeeps, StepKeeps
  <1> PICK kind : kind = proc[c].kind
    OBVIOUS
  <1> PICK who : who = proc[c].who
    OBVIOUS
  <1> PICK s : s = proc[c].snap
    OBVIOUS
  <1> PICK key : key = proc[c].key
    OBVIOUS
  <1>4. kind \in RunKinds /\ who \in People /\ s \in Nat /\ key \in Keys /\ SnapOK(kind, s)
    BY <1>2 DEF CallOK
  <1> PICK none : none = [k \in Children |-> "none"]
    OBVIOUS
  <1> PICK run : run = [kind |-> kind, by |-> who, snap |-> s, status |-> "running", decision |-> "none", children |-> none]
    OBVIOUS
  <1> PICK x : x = [at |-> "run", run |-> Len(requests) + 1, copy |-> run]
    OBVIOUS
  <1>5. CASE /\ requests' = Append(requests, key) /\ runs' = Append(runs, NoRun) /\ tasks' = Append(tasks, NoTask)
             /\ proc' = [proc EXCEPT ![c] = x]
    <2>1. /\ Len(requests') = Len(requests) + 1 /\ Len(runs') = Len(requests) + 1 /\ Len(tasks') = Len(requests) + 1
          /\ requests' \in Seq(Keys) /\ runs' \in Seq({NoRun} \cup RunRows) /\ tasks' \in Seq(TaskRows)
          /\ \A r \in 1..Len(requests) : runs'[r] = runs[r] /\ tasks'[r] = tasks[r]
          /\ runs'[Len(requests) + 1] = NoRun
      <3>1. NoTask \in TaskRows
        BY DEF TaskRows
      <3> QED BY <1>4, <1>5, <3>1, Lengths
    <2>2. Len(requests) \in Nat
      BY Lengths
    <2>3. Onward
      BY <1>1, <2>1, <2>2, Lengths DEF Onward, Settled, CasHolds, Active, FoundIfShown, Shown, RevisionOf
    <2>4. StoreTyped'
      BY <1>1 DEF KnowledgeInv, StoreTyped
    <2>5. StoreOK'
      BY <1>1 DEF KnowledgeInv, StoreOK, Settled, CasHolds, Active, Shown, RevisionOf
    <2>6. ASSUME NEW r \in 1..Len(runs'), runs'[r] # NoRun PROVE RunOK(runs[r])'
      <3>1. r \in 1..Len(requests) /\ runs'[r] = runs[r]
        BY <2>1, <2>2, <2>6
      <3>2. PICK old : old = runs[r]
        OBVIOUS
      <3>3. RunOK(old)
        BY <2>6, <3>1, <3>2, Lengths DEF KnowledgeInv, RunsOK
      <3>4. RunOK(old)'
        BY <2>3, <3>3, RunKept
      <3> QED BY <3>1, <3>2, <3>4
    <2>7. RunsOK'
      BY <2>1, <2>6 DEF RunsOK
    <2>8. none \in [Children -> Results] /\ none["publish"] = "none"
      BY DEF Results, Children
    <2>9. /\ run \in RunRows /\ run.kind = kind /\ run.snap = s /\ run.children = none
      BY <1>4, <2>8 DEF RunRows
    <2>10. RunOK(run)'
      <3>1. SnapOK(kind, s)'
        BY <1>4, <2>3, SnapKept
      <3> QED BY <2>8, <2>9, <3>1 DEF RunOK
    <2>11. x \in RunningCalls /\ x.at = "run" /\ x.run = Len(requests) + 1 /\ x.copy = run
      BY <2>2, <2>9 DEF RunningCalls, RunningSteps
    <2>12. x.run \in 1..Len(requests')
      BY <2>1, <2>2, <2>11
    <2>13. CallOK(x)'
      BY <2>10, <2>11, <2>12 DEF CallOK, CallSteps, RunningSteps, ExecSteps
    <2>14. Len(requests)' \in Nat /\ proc' = [proc EXCEPT ![c] = x]
      BY <1>5, <2>1, <2>2
    <2> QED BY <2>3, <2>4, <2>5, <2>7, <2>13, <2>14, CallStep
  <1> QED BY <1>3, <1>5 DEF FindOrInsert, KeyOf

(* Storing a run in order keeps the runs in order.                          *)
LEMMA StoreRunKeeps ==
  ASSUME KnowledgeInv, Onward, UNCHANGED <<requests, tasks>>, NEW r \in 1..Len(requests), NEW run, RunOK(run),
         runs' = [runs EXCEPT ![r] = run]
  PROVE  RunsOK' /\ Len(requests)' \in Nat
  <1>1. run \in RunRows
    BY DEF RunOK
  <1>2. /\ Len(runs') = Len(runs) /\ runs' \in Seq({NoRun} \cup RunRows)
        /\ \A q \in 1..Len(runs) : runs'[q] = IF q = r THEN run ELSE runs[q]
    BY <1>1, Lengths
  <1>3. ASSUME NEW q \in 1..Len(runs'), runs'[q] # NoRun PROVE RunOK(runs[q])'
    <2>1. PICK any : any = IF q = r THEN run ELSE runs[q]
      OBVIOUS
    <2>2. RunOK(any)
      BY <1>2, <1>3, <2>1 DEF KnowledgeInv, RunsOK
    <2>3. RunOK(any)'
      BY <2>2, RunKept
    <2>4. runs'[q] = any
      BY <1>2, <2>1
    <2> QED BY <2>3, <2>4
  <1> QED BY <1>2, <1>3, Lengths DEF RunsOK

LEMMA InsertRunKeeps == ASSUME KnowledgeInv, NEW c \in Calls, InsertRun(c) PROVE KnowledgeInv'
  <1>1. StoreGoesOn
    BY RestGoesOn DEF InsertRun, RestStays
  <1> PICK run : run = proc[c].copy
    OBVIOUS
  <1>2. RunOK(run) /\ proc[c].run \in 1..Len(requests) /\ "run" \in RunningSteps /\ "analyze" \in RunningSteps
    BY HeldRun DEF InsertRun, RunningSteps
  <1>3. RunsOK' /\ Len(requests)' \in Nat
    BY <1>1, <1>2, StoreRunKeeps DEF InsertRun, StoreGoesOn
  <1>4. CASE Go(c, "analyze")
    BY <1>1, <1>2, <1>3, <1>4, GoOnKeeps, StepKeeps DEF InsertRun
  <1>5. CASE Advance(c, run)
    <2>1. RunOK(run)' /\ proc[c].run \in 1..Len(requests')
      BY <1>1, <1>2, RunKept DEF StoreGoesOn, InsertRun
    <2> QED BY <1>1, <1>3, <1>5, <2>1, AdvanceKeeps, StepKeeps
  <1> QED BY <1>4, <1>5 DEF InsertRun

(* A run of which only the status and the decision change stays in order.   *)
LEMMA RunRelabelled ==
  ASSUME NEW run, RunOK(run), NEW y \in RunRows, y.kind = run.kind, y.snap = run.snap, y.children = run.children
  PROVE  RunOK(y)
  BY DEF RunOK

LEMMA AnalyzeKeeps == ASSUME KnowledgeInv, NEW c \in Calls, Analyze(c) PROVE KnowledgeInv'
  <1>1. StoreGoesOn /\ RunsOK' /\ Len(requests)' \in Nat /\ requests' = requests
    BY RestGoesOn, RunsGoOn DEF Analyze, RestStays
  <1> PICK run : run = proc[c].copy
    OBVIOUS
  <1>2. RunOK(run) /\ run \in RunRows /\ proc[c].run \in 1..Len(requests') /\ "save" \in RunningSteps
    BY <1>1, HeldRun DEF Analyze, RunningSteps
  <1>3. ASSUME NEW status \in {"succeeded", "input"}, Holds(c, "save", [run EXCEPT !.status = status]) PROVE KnowledgeInv'
    <2> PICK y : y = [run EXCEPT !.status = status]
      OBVIOUS
    <2>1. y \in RunRows /\ y.kind = run.kind /\ y.snap = run.snap /\ y.children = run.children
      BY <1>2 DEF RunRows
    <2>2. RunOK(y)'
      BY <1>1, <1>2, <2>1, RunRelabelled, RunKept DEF StoreGoesOn
    <2> QED BY <1>1, <1>2, <1>3, <2>2, HoldsKeeps, StepKeeps
  <1>4. ASSUME NEW d \in {"archive", "mark"}, Advance(c, [run EXCEPT !.decision = d]) PROVE KnowledgeInv'
    <2> PICK y : y = [run EXCEPT !.decision = d]
      OBVIOUS
    <2>1. y \in RunRows /\ y.kind = run.kind /\ y.snap = run.snap /\ y.children = run.children
      BY <1>2 DEF RunRows
    <2>2. RunOK(y)'
      BY <1>1, <1>2, <2>1, RunRelabelled, RunKept DEF StoreGoesOn
    <2> QED BY <1>1, <1>2, <1>4, <2>2, AdvanceKeeps, StepKeeps
  <1> QED BY <1>3, <1>4 DEF Analyze

LEMMA AnswerKeeps == ASSUME KnowledgeInv, NEW c \in Calls, Answer(c) PROVE KnowledgeInv'
  <1>1. StoreGoesOn /\ RunsOK' /\ Len(requests)' \in Nat /\ requests' = requests
    BY RestGoesOn, RunsGoOn DEF Answer, RestStays
  <1> PICK r \in 1..Len(runs), d \in {"archive", "mark"} :
         runs[r].status = "input" /\ proc' = [proc EXCEPT ![c] = [at |-> "child", run |-> r, copy |-> [runs[r] EXCEPT !.decision = d]]]
    BY DEF Answer
  <1> PICK run : run = runs[r]
    OBVIOUS
  <1>2. RunOK(run) /\ run \in RunRows /\ r \in 1..Len(requests') /\ r \in Nat
    BY <1>1, Lengths DEF KnowledgeInv, RunsOK, RunOK, NoRun
  <1> PICK y : y = [run EXCEPT !.decision = d]
    OBVIOUS
  <1>3. y \in RunRows /\ y.kind = run.kind /\ y.snap = run.snap /\ y.children = run.children
    BY <1>2 DEF RunRows
  <1>4. RunOK(y)'
    BY <1>1, <1>2, <1>3, RunRelabelled, RunKept DEF StoreGoesOn
  <1> PICK x : x = [at |-> "child", run |-> r, copy |-> y]
    OBVIOUS
  <1>5. x.at = "child" /\ x.run = r /\ x.copy = y /\ x \in RunningCalls
    BY <1>2, <1>3 DEF RunningCalls, RunningSteps
  <1>6. CallOK(x)'
    BY <1>2, <1>4, <1>5 DEF CallOK, CallSteps, RunningSteps, ExecSteps
  <1>7. proc' = [proc EXCEPT ![c] = x]
    OBVIOUS
  <1> QED BY <1>1, <1>6, <1>7, StepKeeps

(* A task stored for a run of which there is one.                           *)
LEMMA TaskGoesOn ==
  ASSUME KnowledgeInv, UNCHANGED storeVars, UNCHANGED <<requests, runs>>, NEW r \in 1..Len(requests), NEW task \in TaskRows, task # NoTask,
         tasks' = [tasks EXCEPT ![r] = task]
  PROVE  StoreGoesOn /\ RunsOK' /\ Len(requests)' \in Nat
  <1>1. /\ Len(tasks') = Len(tasks) /\ tasks' \in Seq(TaskRows)
        /\ \A q \in 1..Len(tasks) : tasks'[q] = IF q = r THEN task ELSE tasks[q]
    BY Lengths
  <1>2. UNCHANGED <<page, draft, revisions, snapshots, outcomes, effects, found>>
    BY DEF storeVars
  <1>3. Onward
    BY <1>1, <1>2, Lengths DEF Onward, Settled, CasHolds, Active, FoundIfShown, Shown, RevisionOf
  <1>4. StoreTyped'
    BY <1>2 DEF KnowledgeInv, StoreTyped
  <1>5. StoreOK'
    BY <1>2 DEF KnowledgeInv, StoreOK, Settled, CasHolds, Active, Shown, RevisionOf
  <1>6. RunsOK' /\ Len(requests)' \in Nat
    BY <1>1, <1>3, RunsStay
  <1> QED BY <1>3, <1>4, <1>5, <1>6 DEF StoreGoesOn

LEMMA CandidatesArePeople == \A run, child : Candidates(run, child) \in SUBSET People
  BY PageOwnerIsSomeone DEF Candidates

LEMMA StartChildKeeps == ASSUME KnowledgeInv, NEW c \in Calls, StartChild(c) PROVE KnowledgeInv'
  <1> PICK run : run = proc[c].copy
    OBVIOUS
  <1> PICK r : r = proc[c].run
    OBVIOUS
  <1> PICK child : child = NextChild(run)
    OBVIOUS
  <1>1. RunOK(run) /\ run \in RunRows /\ r \in 1..Len(requests) /\ r \in Nat
    BY HeldRun DEF StartChild, RunningSteps
  <1>2. child \in Children \cup {"none"} /\ ChildOK(run, child) /\ (child = "publish" => run.kind = "publish")
    BY <1>1, NextChildOK DEF ChildOK
  <1>3. UNCHANGED storeVars /\ UNCHANGED <<requests, runs>>
    BY DEF StartChild
  <1>4. ASSUME FinishChild(c, child, "failed", run), UNCHANGED tasks PROVE KnowledgeInv'
    <2>1. StoreGoesOn /\ RunsOK' /\ Len(requests)' \in Nat
      BY <1>3, <1>4, RestGoesOn, RunsGoOn DEF RestStays
    <2>2. RunOK(run)' /\ proc[c].run \in 1..Len(requests')
      BY <1>1, <1>3, <2>1, RunKept DEF StoreGoesOn
    <2>3. "failed" \in Results
      BY DEF Results
    <2> QED BY <1>2, <1>4, <2>1, <2>2, <2>3, FinishKeeps, StepKeeps
  <1> PICK x : x = [at |-> "execute", run |-> r, copy |-> run, child |-> child]
    OBVIOUS
  <1>5. ASSUME proc' = [proc EXCEPT ![c] = x], UNCHANGED tasks PROVE KnowledgeInv'
    <2>1. StoreGoesOn /\ RunsOK' /\ Len(requests)' \in Nat
      BY <1>3, <1>5, RestGoesOn, RunsGoOn DEF RestStays
    <2>2. RunOK(run)' /\ r \in 1..Len(requests')
      BY <1>1, <1>3, <2>1, RunKept DEF StoreGoesOn
    <2>3. ChildOK(run, child)'
      BY <1>2, Lengths, <2>1 DEF ChildOK, StoreGoesOn, Onward
    <2>4. x.at = "execute" /\ x.run = r /\ x.copy = run /\ x.child = child /\ x \in ExecCalls
      BY <1>1, <1>2 DEF ExecCalls, ExecSteps
    <2>5. CallOK(x)'
      BY <2>2, <2>3, <2>4 DEF CallOK, CallSteps, RunningSteps, ExecSteps
    <2> QED BY <1>5, <2>1, <2>5, StepKeeps
  <1> PICK task : task = [status |-> "pending", by |-> "nobody", child |-> child, candidates |-> Candidates(run, child)]
    OBVIOUS
  <1>6. ASSUME NeedsApproval(run, child), tasks' = [tasks EXCEPT ![r] = task], FinishChild(c, child, "waiting", run) PROVE KnowledgeInv'
    <2>1. child \in {"publish", "archive"}
      BY <1>6 DEF NeedsApproval
    <2>2. task \in TaskRows /\ task # NoTask
      BY <2>1, CandidatesArePeople DEF TaskRows, NoTask
    <2>3. StoreGoesOn /\ RunsOK' /\ Len(requests)' \in Nat
      BY <1>1, <1>3, <1>6, <2>2, TaskGoesOn
    <2>4. RunOK(run)' /\ proc[c].run \in 1..Len(requests')
      BY <1>1, <1>3, <2>3, RunKept DEF StoreGoesOn
    <2>5. "waiting" \in Results
      BY DEF Results
    <2> QED BY <1>2, <1>6, <2>3, <2>4, <2>5, FinishKeeps, StepKeeps
  <1>7. \/ FinishChild(c, child, "failed", run) /\ UNCHANGED tasks
        \/ proc' = [proc EXCEPT ![c] = x] /\ UNCHANGED tasks
        \/ NeedsApproval(run, child) /\ tasks' = [tasks EXCEPT ![r] = task] /\ FinishChild(c, child, "waiting", run)
    BY DEF StartChild
  <1> QED BY <1>4, <1>5, <1>6, <1>7

(***************************************************************************)
(* The tools.                                                              *)
(***************************************************************************)
LEMMA ExecStepsAre == /\ {"execute", "commit", "reread", "conflict", "record"} \subseteq ExecSteps
                      /\ "failed" \in Results /\ "succeeded" \in Results
  BY DEF ExecSteps, Results

LEMMA DecideIsSettled == ASSUME NEW s, DecidePublishCommit(s) = "conflict" PROVE Settled(s)
  BY DEF DecidePublishCommit, Settled, CasHolds

LEMMA FindPublicationKeeps == ASSUME KnowledgeInv, NEW c \in Calls, FindPublication(c) PROVE KnowledgeInv'
  <1>1. StoreGoesOn /\ RunsOK' /\ Len(requests)' \in Nat /\ UNCHANGED <<page, snapshots, outcomes>>
    BY RestGoesOn, RunsGoOn DEF FindPublication, RestStays, storeVars
  <1> PICK s : s = proc[c].copy.snap
    OBVIOUS
  <1>2. proc[c].at \in ExecSteps /\ proc[c].child = "publish" /\ s \in 1..Len(snapshots)
    BY ExecStepsAre, HeldChild DEF FindPublication, Executes, Current
  <1> PICK ending : ending = IF outcomes[s] = "published" THEN "succeeded" ELSE "failed"
    OBVIOUS
  <1>3. CASE Ran(c, ending)
    <2>1. ending \in Results /\ (ending = "succeeded" => outcomes'[proc[c].copy.snap] = "published")
      BY <1>1, ExecStepsAre
    <2> QED BY <1>1, <1>2, <1>3, <2>1, RanKeeps, StepKeeps
  <1> PICK step : step = IF DecidePublishCommit(s) = "conflict" THEN "conflict" ELSE "commit"
    OBVIOUS
  <1>4. CASE Go(c, step)
    <2>1. step \in {"commit", "conflict"} /\ (step = "conflict" => Settled(s)')
      BY <1>1, DecideIsSettled DEF Settled, CasHolds, Active
    <2>2. step \in ExecSteps /\ step # "record" /\ step # "reread"
      BY <2>1, ExecStepsAre
    <2> QED BY <1>1, <1>2, <1>4, <2>1, <2>2, GoKeeps, StepKeeps
  <1> QED BY <1>3, <1>4 DEF FindPublication, Snap

LEMMA CommitKeeps == ASSUME KnowledgeInv, NEW c \in Calls, Commit(c) PROVE KnowledgeInv'
  <1> PICK s : s = proc[c].copy.snap
    OBVIOUS
  <1>1. proc[c].at \in ExecSteps /\ proc[c].child = "publish" /\ s \in 1..Len(snapshots)
    BY ExecStepsAre, HeldChild DEF Commit
  <1>2. StoreGoesOn /\ Settled(s)'
    BY <1>1, CommitGoesOn DEF Commit, Snap, PlatformStays
  <1>3. RunsOK' /\ Len(requests)' \in Nat
    BY <1>2, RunsGoOn DEF Commit
  <1>4. "reread" \in ExecSteps /\ Go(c, "reread")
    BY ExecStepsAre DEF Commit
  <1> QED BY <1>1, <1>2, <1>3, <1>4, GoKeeps, StepKeeps

LEMMA RereadKeeps == ASSUME KnowledgeInv, NEW c \in Calls, Reread(c) PROVE KnowledgeInv'
  <1>1. StoreGoesOn /\ RunsOK' /\ Len(requests)' \in Nat /\ UNCHANGED <<page, snapshots, outcomes>>
    BY RestGoesOn, RunsGoOn DEF Reread, RestStays, storeVars
  <1> PICK s : s = proc[c].copy.snap
    OBVIOUS
  <1>2. proc[c].at \in ExecSteps /\ proc[c].child = "publish" /\ s \in 1..Len(snapshots) /\ Settled(s)
    BY ExecStepsAre, HeldChild DEF Reread
  <1>3. CASE page.published = s /\ Ran(c, "succeeded")
    <2>1. s # 0
      BY <1>2, Lengths
    <2>2. outcomes'[proc[c].copy.snap] = "published"
      BY <1>1, <1>3, <2>1, StoreFacts
    <2> QED BY <1>1, <1>2, <1>3, <2>2, ExecStepsAre, RanKeeps, StepKeeps
  <1>4. CASE Go(c, "conflict")
    <2>1. Settled(s)' /\ "conflict" \in ExecSteps
      BY <1>1, <1>2, ExecStepsAre DEF Settled, CasHolds, Active
    <2> QED BY <1>1, <1>2, <1>4, <2>1, GoKeeps, StepKeeps
  <1> QED BY <1>3, <1>4 DEF Reread, Snap

LEMMA ConflictKeeps == ASSUME KnowledgeInv, NEW c \in Calls, Conflict(c) PROVE KnowledgeInv'
  <1> PICK s : s = proc[c].copy.snap
    OBVIOUS
  <1>1. proc[c].at \in ExecSteps /\ proc[c].child = "publish" /\ s \in 1..Len(snapshots) /\ Settled(s)
    BY ExecStepsAre, HeldChild DEF Conflict
  <1>2. StoreGoesOn
    BY <1>1, ConflictGoesOn DEF Conflict, Snap, PlatformStays
  <1>3. RunsOK' /\ Len(requests)' \in Nat
    BY <1>2, RunsGoOn DEF Conflict
  <1> PICK ending : ending = IF outcomes'[s] = "published" THEN "succeeded" ELSE "failed"
    OBVIOUS
  <1>4. ending \in Results /\ (ending = "succeeded" => outcomes'[proc[c].copy.snap] = "published") /\ Ran(c, ending)
    BY ExecStepsAre DEF Conflict, Snap
  <1> QED BY <1>1, <1>2, <1>3, <1>4, RanKeeps, StepKeeps

LEMMA ArchiveToolKeeps == ASSUME KnowledgeInv, NEW c \in Calls, ArchiveTool(c) PROVE KnowledgeInv'
  <1>1. proc[c].at \in ExecSteps /\ proc[c].child # "publish"
    BY ExecStepsAre DEF ArchiveTool, Executes, Current
  <1>2. StoreGoesOn
    BY ArchiveGoesOn DEF ArchiveTool, PlatformStays
  <1>3. RunsOK' /\ Len(requests)' \in Nat
    BY <1>2, RunsGoOn DEF ArchiveTool
  <1>4. Ran(c, "succeeded") /\ "succeeded" \in Results
    BY ExecStepsAre DEF ArchiveTool
  <1> QED BY <1>1, <1>2, <1>3, <1>4, RanKeeps, StepKeeps

LEMMA MarkReviewedKeeps == ASSUME KnowledgeInv, NEW c \in Calls, MarkReviewed(c) PROVE KnowledgeInv'
  <1>1. StoreGoesOn /\ RunsOK' /\ Len(requests)' \in Nat
    BY RestGoesOn, RunsGoOn DEF MarkReviewed, RestStays
  <1>2. proc[c].at \in ExecSteps /\ proc[c].child # "publish"
    BY ExecStepsAre DEF MarkReviewed, Executes, Current
  <1> PICK ending : ending = IF Active THEN "succeeded" ELSE "failed"
    OBVIOUS
  <1>3. Ran(c, ending) /\ ending \in Results
    BY ExecStepsAre DEF MarkReviewed
  <1> QED BY <1>1, <1>2, <1>3, RanKeeps, StepKeeps

LEMMA PutTask ==
  ASSUME tasks \in Seq(TaskRows), NEW r \in 1..Len(tasks), NEW task \in TaskRows, tasks' = [tasks EXCEPT ![r] = task]
  PROVE  /\ Len(tasks') = Len(tasks) /\ tasks' \in Seq(TaskRows)
         /\ \A q \in 1..Len(tasks) : tasks'[q] = IF q = r THEN task ELSE tasks[q]
  OBVIOUS

LEMMA EffectFailsKeeps == ASSUME KnowledgeInv, NEW c \in Calls, EffectFails(c) PROVE KnowledgeInv'
  <1> PICK s : s = proc[c].copy.snap
    OBVIOUS
  <1> PICK e \in Effects : Executes(c, e) /\ RecordEffect(s, e, "failed") /\ Ran(c, "failed")
    BY DEF EffectFails, Snap
  <1>1. proc[c].at \in ExecSteps /\ s \in 1..Len(snapshots) /\ outcomes[s] = "published"
    BY ExecStepsAre, HeldChild DEF Executes, Current
  <1>2. StoreGoesOn
    BY <1>1, EffectGoesOn DEF EffectFails, PlatformStays
  <1>3. RunsOK' /\ Len(requests)' \in Nat
    BY <1>2, RunsGoOn DEF EffectFails
  <1> QED BY <1>1, <1>2, <1>3, ExecStepsAre, RanKeeps, StepKeeps

LEMMA ReindexKeeps == ASSUME KnowledgeInv, NEW c \in Calls, Reindex(c) PROVE KnowledgeInv'
  <1> PICK s : s = proc[c].copy.snap
    OBVIOUS
  <1>1. proc[c].at \in ExecSteps /\ proc[c].child = "reindex" /\ proc[c].child \in Effects /\ s \in 1..Len(snapshots)
    BY ExecStepsAre, HeldChild DEF Reindex, Executes, Current, Effects
  <1>2. StoreGoesOn /\ \A o \in 1..Len(snapshots) : FoundIfShown(o)'
    BY ReindexGoesOn DEF Reindex, PlatformStays
  <1>3. RunsOK' /\ Len(requests)' \in Nat
    BY <1>2, RunsGoOn DEF Reindex
  <1>4. FoundIfShown(s)' /\ Go(c, "record") /\ "record" \in ExecSteps
    BY <1>1, <1>2, ExecStepsAre DEF Reindex
  <1> QED BY <1>1, <1>2, <1>3, <1>4, GoKeeps, StepKeeps

LEMMA NotifyKeeps == ASSUME KnowledgeInv, NEW c \in Calls, Notify(c) PROVE KnowledgeInv'
  <1> PICK s : s = proc[c].copy.snap
    OBVIOUS
  <1>1. proc[c].at \in ExecSteps /\ proc[c].child = "notify" /\ proc[c].child \in Effects
    BY ExecStepsAre DEF Notify, Executes, Current, Effects
  <1>2. StoreGoesOn
    BY UnseenGoesOn DEF Notify, PlatformStays
  <1>3. RunsOK' /\ Len(requests)' \in Nat
    BY <1>2, RunsGoOn DEF Notify
  <1>4. Go(c, "record") /\ "record" \in ExecSteps
    BY ExecStepsAre DEF Notify
  <1> QED BY <1>1, <1>2, <1>3, <1>4, GoKeeps, StepKeeps

LEMMA RecordDoneKeeps == ASSUME KnowledgeInv, NEW c \in Calls, RecordDone(c) PROVE KnowledgeInv'
  <1> PICK s : s = proc[c].copy.snap
    OBVIOUS
  <1> PICK e : e = proc[c].child
    OBVIOUS
  <1>1. /\ proc[c].at \in ExecSteps /\ e \in Effects /\ s \in 1..Len(snapshots) /\ outcomes[s] = "published"
        /\ (e = "reindex" => FoundIfShown(s))
    BY ExecStepsAre, HeldChild DEF RecordDone
  <1>2. RecordEffect(s, e, "succeeded") /\ Ran(c, "succeeded")
    BY DEF RecordDone, Snap, Current
  <1>3. StoreGoesOn
    BY <1>1, <1>2, EffectGoesOn DEF RecordDone, PlatformStays
  <1>4. RunsOK' /\ Len(requests)' \in Nat
    BY <1>3, RunsGoOn DEF RecordDone
  <1>5. proc[c].child # "publish"
    BY <1>1 DEF Effects
  <1> QED BY <1>1, <1>2, <1>3, <1>4, <1>5, ExecStepsAre, RanKeeps, StepKeeps

(***************************************************************************)
(* Saving, deciding and cancelling.                                        *)
(***************************************************************************)
LEMMA SaveRunKeeps == ASSUME KnowledgeInv, NEW c \in Calls, SaveRun(c) PROVE KnowledgeInv'
  <1>1. StoreGoesOn
    BY RestGoesOn DEF SaveRun, RestStays
  <1> PICK run : run = proc[c].copy
    OBVIOUS
  <1>2. RunOK(run) /\ proc[c].run \in 1..Len(requests) /\ proc[c].at \in RunningSteps /\ "attach" \in RunningSteps
    BY HeldRun DEF SaveRun, RunningSteps
  <1>3. RunsOK' /\ Len(requests)' \in Nat
    BY <1>1, <1>2, StoreRunKeeps DEF SaveRun, StoreGoesOn
  <1>4. Go(c, "attach") \/ Ends(c)
    BY DEF SaveRun
  <1> QED BY <1>1, <1>2, <1>3, <1>4, GoOnKeeps, EndsKeeps, StepKeeps

LEMMA AttachRequestKeeps == ASSUME KnowledgeInv, NEW c \in Calls, AttachRequest(c) PROVE KnowledgeInv'
  BY RestGoesOn, RunsGoOn, EndsKeeps, StepKeeps DEF AttachRequest, RestStays

LEMMA CallEndsKeeps == ASSUME KnowledgeInv, NEW c \in Calls, CallEnds(c) PROVE KnowledgeInv'
  BY RestGoesOn, RunsGoOn, EndsKeeps, StepKeeps DEF CallEnds, RestStays

LEMMA ToolFailsKeeps == ASSUME KnowledgeInv, NEW c \in Calls, ToolFails(c) PROVE KnowledgeInv'
  <1>1. StoreGoesOn /\ RunsOK' /\ Len(requests)' \in Nat
    BY RestGoesOn, RunsGoOn DEF ToolFails, RestStays
  <1>2. proc[c].at \in ExecSteps /\ Ran(c, "failed") /\ "failed" \in Results
    BY ExecStepsAre DEF ToolFails
  <1> QED BY <1>1, <1>2, RanKeeps, StepKeeps

LEMMA DecideKeeps == ASSUME KnowledgeInv, NEW c \in Calls, Decide(c) PROVE KnowledgeInv'
  <1> PICK r \in 1..Len(tasks), p \in People, verdict \in {"approved", "rejected"} :
        /\ tasks[r].status = "pending"
        /\ tasks' = [tasks EXCEPT ![r].status = verdict, ![r].by = p]
        /\ proc' = [proc EXCEPT ![c] = [at |-> "decided", run |-> r]]
    BY DEF Decide
  <1> PICK task : task = [tasks[r] EXCEPT !.status = verdict, !.by = p]
    OBVIOUS
  <1>1. r \in 1..Len(requests) /\ tasks[r] \in TaskRows /\ tasks[r] # NoTask
    BY Lengths DEF NoTask
  <1>2. task \in TaskRows /\ task # NoTask
    <2>1. task.status = verdict
      BY <1>1 DEF TaskRows
    <2> QED BY <1>1, <2>1 DEF TaskRows, NoTask
  <1>3. tasks' = [tasks EXCEPT ![r] = task]
    BY <1>1, Lengths
  <1>4. StoreGoesOn /\ RunsOK' /\ Len(requests)' \in Nat
    BY <1>1, <1>2, <1>3, TaskGoesOn DEF Decide
  <1> PICK x : x = [at |-> "decided", run |-> r]
    OBVIOUS
  <1>5. r \in 1..Len(requests') /\ tasks'[r] # NoTask
    <2>1. requests' = requests
      BY DEF Decide
    <2>2. tasks \in Seq(TaskRows) /\ r \in 1..Len(tasks)
      BY Lengths
    <2>3. tasks'[r] = task
      BY <1>2, <1>3, <2>2, PutTask
    <2> QED BY <1>1, <1>2, <2>1, <2>3
  <1>6. x.at = "decided" /\ x.run = r
    OBVIOUS
  <1>7. CallOK(x)'
    BY <1>5, <1>6 DEF CallOK, CallSteps, RunningSteps, ExecSteps
  <1> QED BY <1>4, <1>7, StepKeeps

LEMMA ApplyDecisionKeeps == ASSUME KnowledgeInv, NEW c \in Calls, ApplyDecision(c) PROVE KnowledgeInv'
  <1>1. StoreGoesOn /\ RunsOK' /\ Len(requests)' \in Nat /\ UNCHANGED <<requests, snapshots, outcomes>>
    BY RestGoesOn, RunsGoOn DEF ApplyDecision, RestStays, storeVars
  <1> PICK r : r = proc[c].run
    OBVIOUS
  <1> PICK run : run = runs[r]
    OBVIOUS
  <1> PICK child : child = tasks[r].child
    OBVIOUS
  <1>2. r \in 1..Len(requests) /\ tasks[r] # NoTask
    BY DEF KnowledgeInv, CallOK, ApplyDecision
  <1>3. child \in {"publish", "archive"}
    BY <1>2, Lengths DEF TaskRows
  <1>4. CASE Ends(c)
    BY <1>1, <1>4, EndsKeeps, StepKeeps
  <1>5. CASE run # NoRun /\ run.children[child] # "none"
    <2>1. RunOK(run) /\ r \in Nat
      BY <1>2, <1>5, Lengths DEF KnowledgeInv, RunsOK
    <2>2. RunOK(run)' /\ proc[c].run \in 1..Len(requests')
      BY <1>1, <1>2, <2>1, RunKept DEF StoreGoesOn
    <2>3. child = "publish" => run.kind = "publish"
      BY <1>5, <2>1 DEF RunOK
    <2>4. ASSUME NEW ending \in {"rejected", "failed"}, FinishChild(c, child, ending, run) PROVE KnowledgeInv'
      <3>1. ending \in Results /\ ending # "succeeded"
        BY DEF Results
      <3> QED BY <1>1, <2>2, <2>3, <2>4, <3>1, FinishKeeps, StepKeeps
    <2> PICK x : x = [at |-> "execute", run |-> r, child |-> child, copy |-> run]
      OBVIOUS
    <2>5. ASSUME proc' = [proc EXCEPT ![c] = x] PROVE KnowledgeInv'
      <3>1. x.at = "execute" /\ x.run = r /\ x.copy = run /\ x.child = child /\ x \in ExecCalls
        <4>1. run \in RunRows /\ child \in Children
          BY <1>3, <2>1 DEF RunOK, Children
        <4> QED BY <2>1, <4>1 DEF ExecCalls, ExecSteps
      <3>2. ChildOK(run, child)'
        BY <1>3, <2>3 DEF ChildOK, Effects
      <3>3. CallOK(x)'
        BY <2>2, <3>1, <3>2 DEF CallOK, CallSteps, RunningSteps, ExecSteps
      <3> QED BY <1>1, <2>5, <3>3, StepKeeps
    <2>6. \/ Ends(c) \/ FinishChild(c, child, "rejected", run) \/ FinishChild(c, child, "failed", run)
          \/ proc' = [proc EXCEPT ![c] = x]
      BY DEF ApplyDecision
    <2> QED BY <1>4, <2>4, <2>5, <2>6
  <1>6. (run = NoRun \/ run.children[child] = "none") => Ends(c)
    BY DEF ApplyDecision
  <1> QED BY <1>4, <1>5, <1>6

LEMMA LoadToCancelKeeps == ASSUME KnowledgeInv, NEW c \in Calls, LoadToCancel(c) PROVE KnowledgeInv'
  <1>1. StoreGoesOn /\ RunsOK' /\ Len(requests)' \in Nat /\ requests' = requests
    BY RestGoesOn, RunsGoOn DEF LoadToCancel, RestStays
  <1> PICK p \in People, r \in 1..Len(runs) :
        /\ MayCancel(p, r)
        /\ proc' = [proc EXCEPT ![c] = [at |-> "cancel", run |-> r, copy |->
                [runs[r] EXCEPT !.children = [k \in Children |->
                                    IF @[k] = "waiting" THEN "cancelled" ELSE @[k]],
                                !.status = "cancelled"]]]
    BY DEF LoadToCancel
  <1> PICK run : run = runs[r]
    OBVIOUS
  <1>2. RunOK(run) /\ run \in RunRows /\ r \in 1..Len(requests') /\ r \in Nat
    BY <1>1, Lengths DEF KnowledgeInv, RunsOK, RunOK, NoRun, MayCancel
  <1> PICK kids : kids = [k \in Children |-> IF run.children[k] = "waiting" THEN "cancelled" ELSE run.children[k]]
    OBVIOUS
  <1> PICK y : y = [run EXCEPT !.children = kids, !.status = "cancelled"]
    OBVIOUS
  <1>3. run.children \in [Children -> Results]
    BY <1>2 DEF RunRows
  <1>4. kids \in [Children -> Results] /\ (kids["publish"] # "none" => run.children["publish"] # "none")
        /\ (kids["publish"] = "succeeded" => run.children["publish"] = "succeeded")
    <2>1. \A k \in Children : kids[k] \in Results
      BY <1>3 DEF Results
    <2>2. "publish" \in Children
      BY DEF Children
    <2>3. kids["publish"] = IF run.children["publish"] = "waiting" THEN "cancelled" ELSE run.children["publish"]
      BY <2>2
    <2> QED BY <2>1, <2>3
  <1>5. y \in RunRows /\ y.kind = run.kind /\ y.snap = run.snap /\ y.children = kids
    BY <1>2, <1>4 DEF RunRows
  <1>6. RunOK(y)
    BY <1>2, <1>4, <1>5 DEF RunOK
  <1>7. RunOK(y)'
    BY <1>1, <1>6, RunKept DEF StoreGoesOn
  <1> PICK x : x = [at |-> "cancel", run |-> r, copy |-> y]
    OBVIOUS
  <1>8. x.at = "cancel" /\ x.run = r /\ x.copy = y /\ x \in RunningCalls
    BY <1>2, <1>5 DEF RunningCalls, RunningSteps
  <1>9. CallOK(x)'
    BY <1>2, <1>7, <1>8 DEF CallOK, CallSteps, RunningSteps, ExecSteps
  <1>10. proc' = [proc EXCEPT ![c] = x]
    OBVIOUS
  <1> QED BY <1>1, <1>9, <1>10, StepKeeps

LEMMA CancelItsTaskKeeps == ASSUME KnowledgeInv, NEW c \in Calls, CancelItsTask(c) PROVE KnowledgeInv'
  <1> PICK r : r = proc[c].run
    OBVIOUS
  <1>1. r \in 1..Len(requests) /\ proc[c].at \in RunningSteps /\ "save" \in RunningSteps
    BY HeldRun DEF CancelItsTask, RunningSteps
  <1> PICK task : task = [tasks[r] EXCEPT !.status = IF @ = "pending" THEN "cancelled" ELSE @]
    OBVIOUS
  <1>2. tasks[r] \in TaskRows
    BY <1>1, Lengths
  <1>3. task \in TaskRows /\ (tasks[r] # NoTask => task # NoTask) /\ (tasks[r] = NoTask => task = NoTask)
    <2>1. CASE tasks[r] = NoTask
      <3>1. task = NoTask
        BY <2>1 DEF NoTask
      <3> QED BY <2>1, <3>1 DEF TaskRows
    <2>2. CASE tasks[r] # NoTask
      <3>1. task \in [status : {"pending", "approved", "rejected", "cancelled"}, by : People \cup {"nobody"},
                      child : {"publish", "archive"}, candidates : SUBSET People]
        BY <1>2, <2>2 DEF TaskRows
      <3>2. task.status # "none"
        BY <3>1
      <3> QED BY <2>2, <3>1, <3>2 DEF TaskRows, NoTask
    <2> QED BY <2>1, <2>2
  <1>4. tasks' = [tasks EXCEPT ![r] = task]
    BY <1>1, Lengths DEF CancelItsTask
  <1>5. /\ Len(tasks') = Len(tasks) /\ tasks' \in Seq(TaskRows)
        /\ \A q \in 1..Len(tasks) : tasks'[q] = IF q = r THEN task ELSE tasks[q]
    <2>1. tasks \in Seq(TaskRows) /\ r \in 1..Len(tasks)
      BY <1>1, Lengths
    <2> QED BY <1>3, <1>4, <2>1, PutTask
  <1>6. UNCHANGED storeVars /\ UNCHANGED <<requests, runs>>
    BY DEF CancelItsTask
  <1>7. \A q \in 1..Len(requests) : tasks[q] # NoTask => tasks'[q] # NoTask
    BY <1>3, <1>5, Lengths
  <1>8. UNCHANGED <<page, draft, revisions, snapshots, outcomes, effects, found>>
    BY <1>6 DEF storeVars
  <1>9. Onward
    BY <1>6, <1>7, <1>8, Lengths DEF Onward, Settled, CasHolds, Active, FoundIfShown, Shown, RevisionOf
  <1>10. StoreTyped'
    BY <1>8 DEF KnowledgeInv, StoreTyped
  <1>11. StoreOK'
    BY <1>8 DEF KnowledgeInv, StoreOK, Settled, CasHolds, Active, Shown, RevisionOf
  <1>12. RunsOK' /\ Len(requests)' \in Nat
    BY <1>5, <1>6, <1>9, RunsStay
  <1>13. StoreGoesOn /\ Go(c, "save")
    BY <1>9, <1>10, <1>11 DEF StoreGoesOn, CancelItsTask
  <1> QED BY <1>1, <1>12, <1>13, GoOnKeeps, StepKeeps

LEMMA PublicationKeeps == ASSUME KnowledgeInv, [PublicationNext]_knowledgeVars PROVE KnowledgeInv'
  <1>1. CASE UNCHANGED knowledgeVars
    BY <1>1, QuietKeeps, UnseenGoesOn DEF knowledgeVars, platformVars, storeVars, PlatformStays
  <1>2. ASSUME NEW p \in People, EditDraft(p) \/ RestorePage(p) \/ Revoke(p) PROVE KnowledgeInv'
    BY <1>2, EditDraftKeeps, RestorePageKeeps, RevokeKeeps
  <1>3. ASSUME NEW c \in Calls,
               PreparePublication(c) \/ AskArchive(c) \/ RetryEffect(c) \/ RunMaintenance(c) \/ LoadToCancel(c) \/ Decide(c) \/ Answer(c)
        PROVE  KnowledgeInv'
    BY <1>3, PreparePublicationKeeps, AskArchiveKeeps, RetryEffectKeeps, RunMaintenanceKeeps, LoadToCancelKeeps, DecideKeeps, AnswerKeeps
  <1>4. ASSUME NEW c \in Calls, Step(c) PROVE KnowledgeInv'
    BY <1>4, WritePublicationKeeps, FindOrInsertKeeps, InsertRunKeeps, AnalyzeKeeps, StartChildKeeps, FindPublicationKeeps, CommitKeeps,
       RereadKeeps, ConflictKeeps, ArchiveToolKeeps, MarkReviewedKeeps, EffectFailsKeeps, ReindexKeeps, NotifyKeeps, RecordDoneKeeps,
       SaveRunKeeps, AttachRequestKeeps, ApplyDecisionKeeps, CancelItsTaskKeeps DEF Step
  <1>5. ASSUME NEW c \in Calls, CallEnds(c) \/ ToolFails(c) PROVE KnowledgeInv'
    BY <1>5, CallEndsKeeps, ToolFailsKeeps
  <1> QED BY <1>1, <1>2, <1>3, <1>4, <1>5 DEF PublicationNext, Calls

LEMMA KnowledgeInvShowsTheLatest == KnowledgeInv => ReadersSeeTheLatest
  <1> SUFFICES ASSUME KnowledgeInv PROVE ReadersSeeTheLatest
    OBVIOUS
  <1> PICK published : published = {s \in 1..Len(snapshots) : outcomes[s] = "published"}
    OBVIOUS
  <1>1. page.published = 0 <=> published = {}
    BY StoreFacts
  <1>2. page.published # 0 => /\ page.published \in published
                              /\ \A s \in published \ {page.published} : snapshots[s].expected < snapshots[page.published].expected
    BY StoreFacts
  <1>3. \A s \in 1..Len(snapshots) : outcomes[s] = "conflict" => effects[s] = NoEffect
    BY StoreFacts
  <1>4. LatestPublicationIsShown
    BY <1>1, <1>2, <1>3 DEF LatestPublicationIsShown
  <1>5. SearchShowsThePage
    BY StoreFacts DEF SearchShowsThePage
  <1> QED BY <1>4, <1>5 DEF ReadersSeeTheLatest

LEMMA ReadingInitial == ReadingInit => ReadingInv
  <1> SUFFICES ASSUME ReadingInit PROVE ReadingInv
    OBVIOUS
  <1>1. FoundingOK
    <2> PICK given \in [Spaces -> [Visitors -> SpaceRoles]] :
           members = [s \in Spaces \cup {NewSpace} |->
                        [e \in Everyone |-> IF s # NewSpace /\ e \in Visitors THEN given[s][e] ELSE "none"]]
      BY DEF ReadingInit
    <2>1. \A s \in Spaces \cup {NewSpace}, e \in Everyone :
             (IF s # NewSpace /\ e \in Visitors THEN given[s][e] ELSE "none") \in SpaceRoles
      BY DEF SpaceRoles
    <2>2. members \in [Spaces \cup {NewSpace} -> [Everyone -> SpaceRoles]]
      BY <2>1
    <2>3. \A f \in Founders : members[NewSpace][f] = "none"
      BY DEF Everyone
    <2>4. /\ scheduled \in BOOLEAN /\ founding = [f \in Founders |-> "idle"]
      BY DEF ReadingInit
    <2>5. founding \in [Founders -> FoundingSteps]
      BY <2>4 DEF FoundingSteps
    <2> QED BY <2>2, <2>3, <2>4, <2>5 DEF FoundingOK, SpacesHaveTheirFounder
  <1>2. RowsTyped
    <2>1. (CHOOSE t \in LeafTexts : TRUE) \in LeafTexts
      BY ReadingBounds
    <2>2. FirstLeaves \subseteq LeafRows
      BY <2>1 DEF FirstLeaves, LeafRows, ShownLeaf, NoLeaf, Visibilities
    <2>3. leaves \in [Leaves -> LeafRows]
      BY <2>2 DEF ReadingInit
    <2>4. \A p \in Leaves : leaves[p].published \in LeafTexts \cup {0}
      BY <2>3 DEF LeafRows
    <2> QED BY <2>3, <2>4 DEF ReadingInit, RowsTyped
  <1>3. AsksOK
    <2>1. asks = [v \in Visitors |-> NoAsk]
      BY DEF ReadingInit
    <2>2. NoAsk \notin ListAsks /\ NoAsk.at = "idle"
      BY DEF NoAsk, ListAsks
    <2> QED BY <2>1, <2>2 DEF AsksOK, AskOK
  <1> QED BY <1>1, <1>2, <1>3 DEF ReadingInv

(***************************************************************************)
(* The database's conditions are authorization.ts's.                       *)
(***************************************************************************)
LEMMA ScopeIsAuthorization ==
  ASSUME NEW v, NEW rolesOf \in RoleMaps, NEW p \in Leaves, NEW row
  PROVE  /\ ReadablePublished(ReadScope(v, rolesOf), p, row) <=> row.status = "active" /\ CanReadPublished(v, rolesOf, p, row)
         /\ ReadableAuthoring(ReadScope(v, rolesOf), p, row) <=> row.status = "active" /\ CanReadDraft(rolesOf, p, row)
         /\ SpaceOf[p] \in ReadScope(v, rolesOf).authoring <=> ReadsDrafts(rolesOf[SpaceOf[p]])
  <1> PICK s : s = SpaceOf[p]
    OBVIOUS
  <1>1. s \in Spaces
    BY ReadingBounds
  <1> PICK scope : scope = ReadScope(v, rolesOf)
    OBVIOUS
  <1>2. /\ scope.principal = v
        /\ s \in scope.member <=> rolesOf[s] # "none"
        /\ s \in scope.owner <=> rolesOf[s] = "owner"
        /\ s \in scope.authoring <=> ReadsDrafts(rolesOf[s])
    BY <1>1 DEF ReadScope
  <1>3. ReadablePublished(scope, p, row) <=> row.status = "active" /\ CanReadPublished(v, rolesOf, p, row)
    <2>1. CASE row.visibility = "organization"
      BY <2>1 DEF ReadablePublished, CanReadPublished
    <2>2. CASE row.visibility = "space"
      BY <1>2, <2>2 DEF ReadablePublished, CanReadPublished
    <2>3. CASE row.visibility = "private"
      BY <1>2, <2>3 DEF ReadablePublished, CanReadPublished
    <2>4. CASE row.visibility \notin {"organization", "space", "private"}
      BY <2>4 DEF ReadablePublished, CanReadPublished
    <2> QED BY <2>1, <2>2, <2>3, <2>4
  <1>4. ReadableAuthoring(scope, p, row) <=> row.status = "active" /\ CanReadDraft(rolesOf, p, row)
    BY <1>2 DEF ReadableAuthoring, CanReadDraft
  <1> QED BY <1>2, <1>3, <1>4

(* What a listing's statement shows of the present rows may be read.        *)
LEMMA ListedIsAllowed ==
  ASSUME NEW v, NEW ask, ask.roles \in RoleMaps, NEW in, NEW world, world = <<leaves, indexed>>, NEW p \in Leaves
  PROVE  /\ p \in ListPublished(ReadScope(v, ask.roles), in) => Allowed(v, ask, <<p, "published", leaves[p].published>>, world)
         /\ p \in ListAuthoring(ReadScope(v, ask.roles), in) => Allowed(v, ask, <<p, "draft", leaves[p].draft>>, world)
  <1> PICK rolesOf \in RoleMaps : rolesOf = ask.roles
    OBVIOUS
  <1> PICK rows : rows = leaves
    OBVIOUS
  <1>1. world[1] = rows
    OBVIOUS
  <1>2. ASSUME p \in ListPublished(ReadScope(v, rolesOf), in) PROVE Allowed(v, ask, <<p, "published", leaves[p].published>>, world)
    <2>1. rows[p].status = "active" /\ CanReadPublished(v, rolesOf, p, rows[p])
      BY <1>2, ScopeIsAuthorization DEF ListPublished
    <2> PICK item : item = <<p, "published", rows[p].published>>
      OBVIOUS
    <2>2. item \in MayRead(v, rolesOf, rows) /\ item[1] = p
      BY <2>1 DEF MayRead
    <2> QED BY <1>1, <2>1, <2>2 DEF Allowed
  <1>3. ASSUME p \in ListAuthoring(ReadScope(v, rolesOf), in) PROVE Allowed(v, ask, <<p, "draft", leaves[p].draft>>, world)
    <2>1. rows[p].status = "active" /\ CanReadDraft(rolesOf, p, rows[p])
      BY <1>3, ScopeIsAuthorization DEF ListAuthoring
    <2> PICK item : item = <<p, "draft", rows[p].draft>>
      OBVIOUS
    <2>2. item \in MayRead(v, rolesOf, rows) /\ item[1] = p
      BY <2>1 DEF MayRead
    <2> QED BY <1>1, <2>1, <2>2 DEF Allowed
  <1> QED BY <1>2, <1>3

Asks == {NoAsk} \cup PageAsks \cup ListAsks
LeavesStay == \A p \in Leaves : leaves[p].status # "absent" => leaves'[p].status # "absent"
Now == <<leaves, indexed>>
WorldsGrow == past' = [v \in Visitors |-> IF asks'[v].at = "idle" THEN {} ELSE past[v] \cup {<<leaves', indexed'>>}]

LEMMA AskParts ==
  /\ NoAsk.at = "idle" /\ NoAsk \notin ListAsks
  /\ \A ask \in PageAsks : /\ ask.at \in {"load", "rest", "answered"} /\ ask.page \in Leaves /\ ask.roles \in RoleMaps
                           /\ ask.seen \subseteq Items /\ ask.row \in LeafRows /\ ask.view \in PageViews /\ ask \notin ListAsks
  /\ \A ask \in ListAsks : /\ ask.at \in {"lists", "answered"} /\ ask.roles \in RoleMaps /\ ask.seen \subseteq Items
                           /\ ask.hits \subseteq Leaves /\ ask.in \subseteq Spaces /\ ask.word \in LeafTexts /\ ask.full \in BOOLEAN
                           /\ ask.todo \subseteq Statements /\ ask.view \in ListingViews
  <1>1. NoAsk.at = "idle" /\ NoAsk \notin ListAsks
    BY DEF NoAsk, ListAsks
  <1>2. \A ask \in PageAsks : /\ ask.at \in {"load", "rest", "answered"} /\ ask.page \in Leaves /\ ask.roles \in RoleMaps
                              /\ ask.seen \subseteq Items /\ ask.row \in LeafRows /\ ask.view \in PageViews
    BY DEF PageAsks
  <1>3. \A ask \in ListAsks : /\ ask.at \in {"lists", "answered"} /\ ask.roles \in RoleMaps /\ ask.seen \subseteq Items
                              /\ ask.hits \subseteq Leaves /\ ask.in \subseteq Spaces /\ ask.word \in LeafTexts /\ ask.full \in BOOLEAN
                              /\ ask.todo \subseteq Statements /\ ask.view \in ListingViews
    BY DEF ListAsks
  <1> QED BY <1>1, <1>2, <1>3 DEF PageViews, ListingViews

LEMMA AskGoesOn ==
  ASSUME LeavesStay, NEW v, NEW ask \in Asks, NEW worlds, NEW world, AskOK(v, ask, worlds)
  PROVE  AskOK(v, ask, worlds \cup {world})'
  <1>1. ask.at = "rest" => ask.page \in Leaves
    BY AskParts DEF Asks
  <1>2. ask.at = "rest" /\ ask.row.status # "absent" => leaves'[ask.page].status # "absent"
    BY <1>1 DEF AskOK, LeavesStay
  <1> PICK more : more = worlds \cup {world}
    OBVIOUS
  <1>3. \A w \in worlds : w \in more
    OBVIOUS
  <1>4. ask.at # "idle" => \A item \in ask.seen : \E w \in more : Allowed(v, ask, item, w)
    BY <1>3 DEF AskOK
  <1>5. ask.at # "idle" /\ ask.view = "search" /\ ~ask.full =>
         \A p \in Leaves : (\A w \in more : FoundFor(v, ask, p, w)) => p \in ask.hits \/ StatementFor(ask, p) \in ask.todo
    BY <1>3 DEF AskOK
  <1>6. ask \in ListAsks /\ ask.at = "answered" => ask.todo = {}
    BY DEF AskOK
  <1>7. AskOK(v, ask, more)'
    BY <1>2, <1>4, <1>5, <1>6 DEF AskOK
  <1> QED BY <1>7

(* The requests that a step leaves alone go on.                             *)
LEMMA OthersGoOn ==
  ASSUME AsksOK, LeavesStay, WorldsGrow, NEW u \in Visitors, asks'[u] = asks[u]
  PROVE  AskOK(u, asks[u], past[u])'
  <1> PICK ask : ask = asks[u]
    OBVIOUS
  <1> PICK worlds : worlds = past[u]
    OBVIOUS
  <1> PICK world : world = <<leaves', indexed'>>
    OBVIOUS
  <1>1. ask \in Asks /\ AskOK(u, ask, worlds)
    BY DEF AsksOK, Asks
  <1>2. AskOK(u, ask, worlds \cup {world})'
    BY <1>1, AskGoesOn
  <1>3. CASE ask.at = "idle"
    <2>1. ask = NoAsk
      BY <1>1, <1>3, AskParts DEF Asks
    <2>2. AskOK(u, ask, {})'
      BY <2>1, AskParts DEF AskOK
    <2>3. past'[u] = {}
      BY <1>3 DEF WorldsGrow
    <2> QED BY <2>2, <2>3
  <1>4. CASE ask.at # "idle"
    <2>1. past'[u] = worlds \cup {world}
      BY <1>4 DEF WorldsGrow
    <2> QED BY <1>2, <2>1
  <1> QED BY <1>3, <1>4

LEMMA ReadStep ==
  ASSUME ReadingInv, ReadOnly, WorldsGrow, NEW v \in Visitors, NEW a \in PageAsks \cup ListAsks, asks' = [asks EXCEPT ![v] = a],
         NEW worlds, worlds = past[v] \cup {Now}, AskOK(v, a, worlds)
  PROVE  ReadingInv'
  <1>1. RowsTyped' /\ FoundingOK'
    BY DEF ReadingInv, ReadOnly, RowsTyped, FoundingOK, SpacesHaveTheirFounder
  <1>2. LeavesStay /\ leaves' = leaves /\ indexed' = indexed
    BY DEF ReadOnly, LeavesStay
  <1>3. asks \in [Visitors -> Asks] /\ a \in Asks /\ a.at # "idle"
    BY AskParts DEF ReadingInv, AsksOK, Asks
  <1>4. asks' \in [Visitors -> Asks] /\ \A u \in Visitors : asks'[u] = IF u = v THEN a ELSE asks[u]
    BY <1>3
  <1>5. ASSUME NEW u \in Visitors PROVE AskOK(u, asks[u], past[u])'
    <2>1. CASE u = v
      <3>1. past'[u] = worlds /\ asks'[u] = a
        BY <1>2, <1>3, <1>4, <2>1 DEF WorldsGrow, Now
      <3>2. AskOK(v, a, worlds)'
        BY <1>2 DEF AskOK
      <3> QED BY <2>1, <3>1, <3>2
    <2>2. CASE u # v
      BY <1>2, <1>4, <2>2, OthersGoOn DEF ReadingInv
    <2> QED BY <2>1, <2>2
  <1>6. AsksOK'
    BY <1>4, <1>5 DEF AsksOK, Asks
  <1> QED BY <1>1, <1>6 DEF ReadingInv

LEMMA RolesAreTyped == ASSUME ReadingInv, NEW v \in Visitors PROVE Roles(v) \in RoleMaps
  BY DEF ReadingInv, FoundingOK, Roles, RoleMaps, Everyone

LEMMA AskPageKeeps == ASSUME ReadingInv, WorldsGrow, NEW v \in Visitors, AskPage(v) PROVE ReadingInv'
  <1> PICK given \in RoleMaps : given = Roles(v)
    BY RolesAreTyped
  <1> PICK view \in PageViews, p \in Leaves :
        asks' = [asks EXCEPT ![v] = [at |-> "load", view |-> view, page |-> p, row |-> NoLeaf, roles |-> given, seen |-> {}]]
    BY DEF AskPage
  <1> PICK a : a = [at |-> "load", view |-> view, page |-> p, row |-> NoLeaf, roles |-> given, seen |-> {}]
    OBVIOUS
  <1>1. a \in PageAsks
    BY DEF PageAsks, LeafRows, NoLeaf
  <1>2. a.at = "load" /\ a.seen = {} /\ a.view \in PageViews
    OBVIOUS
  <1>3. a.view # "search"
    BY <1>2 DEF PageViews
  <1> PICK worlds : worlds = past[v] \cup {Now}
    OBVIOUS
  <1>4. AskOK(v, a, worlds)
    BY <1>2, <1>3 DEF AskOK
  <1> QED BY <1>1, <1>4, ReadStep DEF AskPage

(* A page's row, as it is loaded.                                           *)
LEMMA PageRow == ASSUME ReadingInv, NEW p \in Leaves
  PROVE leaves[p] \in LeafRows /\ leaves[p].published \in LeafTexts \cup {0} /\ leaves[p].draft \in LeafTexts \cup {0}
  BY DEF ReadingInv, RowsTyped, LeafRows

LEMMA CurrentAsk ==
  ASSUME ReadingInv, NEW v \in Visitors
  PROVE  /\ asks[v] \in Asks /\ AskOK(v, asks[v], past[v])
         /\ asks[v].at \in {"load", "rest"} => asks[v] \in PageAsks
         /\ asks[v].at = "lists" => asks[v] \in ListAsks
  BY AskParts DEF ReadingInv, AsksOK, Asks

(* What a page view adds to what it has shown.                              *)
LEMMA PageGoesOn ==
  ASSUME ReadingInv, ReadOnly, WorldsGrow, NEW v \in Visitors, NEW ask \in PageAsks, ask = asks[v], NEW a \in PageAsks, asks' = [asks EXCEPT ![v] = a],
         a.roles = ask.roles, a.view = ask.view, NEW items, a.seen \subseteq ask.seen \cup items,
         \A item \in items : Allowed(v, ask, item, Now),
         a.at = "rest" /\ a.row.status # "absent" => leaves[a.page].status # "absent"
  PROVE  ReadingInv'
  <1> PICK worlds : worlds = past[v] \cup {Now}
    OBVIOUS
  <1>1. ask.at # "idle" /\ a.view # "search" /\ a \notin ListAsks
    BY AskParts DEF PageViews
  <1>2. \A item \in ask.seen : \E world \in past[v] : Allowed(v, ask, item, world)
    BY <1>1, CurrentAsk DEF AskOK
  <1>3. \A item, world : Allowed(v, ask, item, world) => Allowed(v, a, item, world)
    BY DEF Allowed
  <1>4. \A item \in a.seen : \E world \in worlds : Allowed(v, a, item, world)
    BY <1>2, <1>3
  <1>5. AskOK(v, a, worlds)
    BY <1>1, <1>4 DEF AskOK
  <1> QED BY <1>5, ReadStep

LEMMA LoadKeeps == ASSUME ReadingInv, WorldsGrow, NEW v \in Visitors, Load(v) PROVE ReadingInv'
  <1> PICK ask \in PageAsks : ask = asks[v]
    BY CurrentAsk DEF Load, At
  <1> PICK p \in Leaves : p = ask.page
    BY AskParts
  <1> PICK row : row = leaves[p]
    OBVIOUS
  <1>1. row \in LeafRows /\ row.published \in LeafTexts \cup {0} /\ ReadOnly /\ ask.seen \subseteq Items
    BY PageRow, AskParts DEF Load
  <1>2. CASE Showing(v, "answered", {})
    <2> PICK a : a = [ask EXCEPT !.at = "answered"]
      OBVIOUS
    <2>1. a \in PageAsks /\ a.at = "answered" /\ a.roles = ask.roles /\ a.view = ask.view /\ a.seen = ask.seen
      BY DEF PageAsks
    <2>2. asks' = [asks EXCEPT ![v] = a]
      BY <1>2 DEF Showing, PageAsks
    <2> PICK items : items = {}
      OBVIOUS
    <2>3. a.seen \subseteq ask.seen \cup items /\ \A item \in items : Allowed(v, ask, item, Now)
      BY <2>1
    <2>4. ~(a.at = "rest") 
      BY <2>1
    <2> HIDE DEF Now
    <2> QED BY <1>1, <2>1, <2>2, <2>3, <2>4, PageGoesOn
  <1>3. CASE asks' = [asks EXCEPT ![v].at = "rest", ![v].row = row,
                 ![v].seen = IF CanReadPublished(v, ask.roles, p, row) THEN {<<p, "published", row.published>>} ELSE {}]
    <2> DEFINE items == IF CanReadPublished(v, ask.roles, p, row) THEN {<<p, "published", row.published>>} ELSE {}
               a == [ask EXCEPT !.at = "rest", !.row = row, !.seen = items]
    <2>1. items \subseteq Items
      BY <1>1 DEF Items
    <2>2. \A item \in items : Allowed(v, ask, item, Now)
      <3>1. Now[1] = leaves /\ ask.view \notin ListingViews
        BY AskParts DEF Now, PageViews, ListingViews
      <3>2. \A item \in items : item \in MayRead(v, ask.roles, leaves)
        BY DEF MayRead
      <3> QED BY <3>1, <3>2 DEF Allowed
    <2>3. asks' = [asks EXCEPT ![v] = a]
      BY <1>3
    <2> HIDE DEF items
    <2>4. /\ a \in PageAsks /\ a.roles = ask.roles /\ a.view = ask.view /\ a.seen \subseteq ask.seen \cup items
          /\ a.row = row /\ a.page = p
      BY <1>1, <2>1 DEF PageAsks
    <2> HIDE DEF a
    <2>5. a.row.status # "absent" => leaves[a.page].status # "absent"
      BY <2>4
    <2> QED BY <1>1, <2>2, <2>3, <2>4, <2>5, PageGoesOn
  <1> QED BY <1>2, <1>3 DEF Load, LoadPage

LEMMA PageShows ==
  ASSUME ReadingInv, ReadOnly, WorldsGrow, NEW v \in Visitors, At(v, "rest"), NEW items, items \subseteq Items,
         \A item \in items : Allowed(v, asks[v], item, Now), Showing(v, "answered", items)
  PROVE  ReadingInv'
  <1> PICK ask \in PageAsks : ask = asks[v]
    BY CurrentAsk DEF At
  <1>1. ask.seen \subseteq Items
    BY AskParts
  <1> PICK seen : seen = ask.seen \cup items
    OBVIOUS
  <1> PICK a : a = [ask EXCEPT !.at = "answered", !.seen = seen]
    OBVIOUS
  <1>2. a \in PageAsks /\ a.at = "answered" /\ a.roles = ask.roles /\ a.view = ask.view /\ a.seen = seen
    BY <1>1 DEF PageAsks
  <1>3. asks' = [asks EXCEPT ![v] = a]
    BY DEF Showing
  <1>4. a.seen \subseteq ask.seen \cup items /\ ~(a.at = "rest") /\ \A item \in items : Allowed(v, ask, item, Now)
    BY <1>2
  <1> QED BY ZenonT(60), <1>2, <1>3, <1>4, PageGoesOn

(* Rows of the present that a statement shows.                              *)
LEMMA RowsShown ==
  ASSUME ReadingInv, NEW v \in Visitors, asks[v] \in PageAsks \cup ListAsks, NEW in, NEW rows
  PROVE  /\ rows \subseteq ListPublished(Scope(v), in) =>
              PublishedRows(rows) \subseteq Items /\ \A item \in PublishedRows(rows) : Allowed(v, asks[v], item, Now)
         /\ rows \subseteq ListAuthoring(Scope(v), in) =>
              DraftRows(rows) \subseteq Items /\ \A item \in DraftRows(rows) : Allowed(v, asks[v], item, Now)
  <1> PICK ask \in PageAsks \cup ListAsks : ask = asks[v]
    OBVIOUS
  <1>1. ask.roles \in RoleMaps
    BY AskParts
  <1>2. Scope(v) = ReadScope(v, ask.roles)
    BY DEF Scope
  <1>3. ListPublished(Scope(v), in) \subseteq Leaves /\ ListAuthoring(Scope(v), in) \subseteq Leaves
    BY DEF ListPublished, ListAuthoring
  <1>4. \A p \in Leaves : <<p, "published", leaves[p].published>> \in Items /\ <<p, "draft", leaves[p].draft>> \in Items
    BY PageRow DEF Items
  <1>5. ASSUME rows \subseteq ListPublished(Scope(v), in), NEW item \in PublishedRows(rows)
        PROVE  item \in Items /\ Allowed(v, ask, item, Now)
    <2> PICK p \in rows : item = <<p, "published", leaves[p].published>>
      BY <1>5 DEF PublishedRows
    <2>1. p \in Leaves /\ p \in ListPublished(ReadScope(v, ask.roles), in)
      BY <1>2, <1>3, <1>5
    <2>2. Allowed(v, ask, <<p, "published", leaves[p].published>>, Now)
      BY <1>1, <2>1, ListedIsAllowed DEF Now
    <2> QED BY <1>4, <2>1, <2>2
  <1>6. ASSUME rows \subseteq ListAuthoring(Scope(v), in), NEW item \in DraftRows(rows)
        PROVE  item \in Items /\ Allowed(v, ask, item, Now)
    <2> PICK p \in rows : item = <<p, "draft", leaves[p].draft>>
      BY <1>6 DEF DraftRows
    <2>1. p \in Leaves /\ p \in ListAuthoring(ReadScope(v, ask.roles), in)
      BY <1>2, <1>3, <1>6
    <2>2. Allowed(v, ask, <<p, "draft", leaves[p].draft>>, Now)
      BY <1>1, <2>1, ListedIsAllowed DEF Now
    <2> QED BY <1>4, <2>1, <2>2
  <1> QED BY <1>5, <1>6

LEMMA DraftShown ==
  ASSUME ReadingInv, NEW v \in Visitors, At(v, "rest")
  PROVE  DraftToo(v) \subseteq Items /\ \A item \in DraftToo(v) : Allowed(v, asks[v], item, Now)
  <1> PICK ask \in PageAsks : ask = asks[v]
    BY CurrentAsk DEF At
  <1> PICK p \in Leaves : p = ask.page
    BY AskParts
  <1>1. CASE ~CanReadDraft(ask.roles, p, ask.row)
    BY <1>1 DEF DraftToo
  <1>2. CASE CanReadDraft(ask.roles, p, ask.row)
    <2>1. leaves[p].status # "absent"
      BY <1>2, CurrentAsk DEF AskOK, At, CanReadDraft
    <2>2. CanReadDraft(ask.roles, p, leaves[p])
      BY <1>2, <2>1 DEF CanReadDraft
    <2> PICK item : item = <<p, "draft", leaves[p].draft>>
      OBVIOUS
    <2>3. DraftToo(v) = {item}
      BY <1>2 DEF DraftToo, DraftRows
    <2>4. item \in Items
      BY PageRow DEF Items
    <2>5. item \in MayRead(v, ask.roles, leaves)
      BY <2>2 DEF MayRead
    <2>6. Now[1] = leaves /\ ask.view \notin ListingViews
      BY AskParts DEF Now, PageViews, ListingViews
    <2>7. Allowed(v, ask, item, Now)
      BY <2>5, <2>6 DEF Allowed
    <2> QED BY <2>3, <2>4, <2>7
  <1> QED BY <1>1, <1>2

LEMMA ViewKeeps ==
  ASSUME ReadingInv, WorldsGrow, NEW v \in Visitors, ViewPage(v) \/ ViewEdit(v) \/ ViewHistory(v)
  PROVE  ReadingInv'
  <1>1. ASSUME ViewPage(v) PROVE ReadingInv'
    <2> PICK rows : rows = Related(Scope(v), asks[v].page)
      OBVIOUS
    <2> PICK items : items = DraftToo(v) \cup PublishedRows(rows)
      OBVIOUS
    <2>1. asks[v] \in PageAsks /\ At(v, "rest") /\ ReadOnly /\ Showing(v, "answered", items)
      BY <1>1, CurrentAsk DEF ViewPage, At
    <2>2. rows \subseteq ListPublished(Scope(v), Spaces)
      BY DEF Related
    <2>3. items \subseteq Items /\ \A item \in items : Allowed(v, asks[v], item, Now)
      BY <2>1, <2>2, RowsShown, DraftShown
    <2> QED BY <2>1, <2>3, PageShows
  <1>2. ASSUME ViewEdit(v) PROVE ReadingInv'
    BY <1>2, DraftShown, PageShows DEF ViewEdit
  <1>3. ASSUME ViewHistory(v) PROVE ReadingInv'
    <2> PICK items : items = {}
      OBVIOUS
    <2>1. items \subseteq Items /\ \A item \in items : Allowed(v, asks[v], item, Now)
      OBVIOUS
    <2> QED BY <1>3, <2>1, PageShows DEF ViewHistory
  <1> QED BY <1>1, <1>2, <1>3

(***************************************************************************)
(* Listings.                                                               *)
(***************************************************************************)
LEMMA AskListingKeeps ==
  ASSUME ReadingInv, WorldsGrow, NEW v \in Visitors, NEW view \in ListingViews, NEW in \in SUBSET Spaces, NEW word \in LeafTexts,
         NEW todo \in SUBSET Statements, view = "search" => {"published", "authoring"} \subseteq todo,
         AskListing(v, view, in, word, todo)
  PROVE  ReadingInv'
  <1> PICK given \in RoleMaps : given = Roles(v)
    BY RolesAreTyped
  <1> PICK a : a = [at |-> "lists", view |-> view, word |-> word, in |-> in, roles |-> given,
                    seen |-> {}, hits |-> {}, full |-> FALSE, todo |-> todo]
    OBVIOUS
  <1>1. a \in ListAsks /\ a.at = "lists" /\ a.view = view /\ a.seen = {} /\ a.todo = todo
    BY DEF ListAsks
  <1>2. asks' = [asks EXCEPT ![v] = a] /\ ReadOnly
    BY DEF AskListing
  <1> PICK worlds : worlds = past[v] \cup {Now}
    OBVIOUS
  <1>3. a.view = "search" => \A p \in Leaves : StatementFor(a, p) \in a.todo
    BY <1>1 DEF StatementFor
  <1>4. AskOK(v, a, worlds)
    BY <1>1, <1>3 DEF AskOK
  <1> QED BY <1>1, <1>2, <1>4, ReadStep

LEMMA AskKeeps ==
  ASSUME ReadingInv, WorldsGrow, NEW v \in Visitors, AskHome(v) \/ AskSpace(v) \/ AskSearch(v)
  PROVE  ReadingInv'
  <1>1. AnyWord \in LeafTexts
    BY ReadingBounds DEF AnyWord
  <1>2. "home" \in ListingViews /\ "space" \in ListingViews /\ "search" \in ListingViews
    BY DEF ListingViews
  <1>3. /\ {"published", "authoring"} \in SUBSET Statements /\ {"tags", "published", "authoring"} \in SUBSET Statements
        /\ {"published", "tags"} \in SUBSET Statements /\ {"authoring", "tags"} \in SUBSET Statements
    BY DEF Statements
  <1>4. ASSUME AskHome(v) PROVE ReadingInv'
    BY <1>1, <1>2, <1>3, <1>4, AskListingKeeps DEF AskHome
  <1>5. ASSUME AskSpace(v) PROVE ReadingInv'
    <2> PICK s \in Spaces : AskListing(v, "space", {s}, AnyWord, {IF ReadsDrafts(Roles(v)[s]) THEN "authoring" ELSE "published", "tags"})
      BY <1>5 DEF AskSpace
    <2> PICK todo : todo = {IF ReadsDrafts(Roles(v)[s]) THEN "authoring" ELSE "published", "tags"}
      OBVIOUS
    <2>1. todo \in SUBSET Statements
      BY DEF Statements
    <2> QED BY <1>1, <1>2, <2>1, AskListingKeeps
  <1>6. ASSUME AskSearch(v) PROVE ReadingInv'
    <2> PICK word \in LeafTexts, in \in {Spaces} \cup {{s} : s \in {t \in Spaces : Roles(v)[t] # "none"}} :
           AskListing(v, "search", in, word, {"tags", "published", "authoring"})
      BY <1>6 DEF AskSearch
    <2>1. in \in SUBSET Spaces
      OBVIOUS
    <2> QED BY <1>2, <1>3, <2>1, AskListingKeeps
  <1> QED BY <1>4, <1>5, <1>6

(* One statement of a listing.                                              *)
LEMMA ListedKeeps ==
  ASSUME ReadingInv, WorldsGrow, NEW v \in Visitors, At(v, "lists"), NEW statement, statement \in asks[v].todo, NEW hits \in SUBSET Leaves,
         NEW items \in SUBSET Items, \A item \in items : Allowed(v, asks[v], item, Now), NEW cut \in BOOLEAN,
         asks[v].view = "search" /\ ~cut =>
             \A p \in Leaves : FoundFor(v, asks[v], p, Now) /\ StatementFor(asks[v], p) = statement => p \in hits,
         Listed(v, statement, hits, items, cut)
  PROVE  ReadingInv'
  <1> PICK ask \in ListAsks : ask = asks[v]
    BY CurrentAsk DEF At
  <1>1. ask.seen \subseteq Items /\ ask.hits \subseteq Leaves /\ ask.full \in BOOLEAN /\ ask.todo \subseteq Statements /\ AskOK(v, ask, past[v]) /\ ask.at = "lists"
    BY AskParts, CurrentAsk DEF At
  <1> PICK at : at = IF ask.todo = {statement} THEN "answered" ELSE ask.at
    OBVIOUS
  <1> PICK todo : todo = ask.todo \ {statement}
    OBVIOUS
  <1> PICK full \in BOOLEAN : full = (ask.full \/ cut)
    BY <1>1
  <1> PICK every : every = ask.hits \cup hits
    OBVIOUS
  <1> PICK seen : seen = ask.seen \cup items
    OBVIOUS
  <1> PICK a : a = [ask EXCEPT !.at = at, !.todo = todo, !.full = full, !.hits = every, !.seen = seen]
    OBVIOUS
  <1>2. at \in {"lists", "answered"} /\ (at = "answered" => todo = {})
    BY <1>1
  <1>3. /\ a \in ListAsks /\ a.at = at /\ a.todo = todo /\ a.full = full /\ a.hits = every /\ a.seen = seen
        /\ a.roles = ask.roles /\ a.view = ask.view /\ a.in = ask.in /\ a.word = ask.word
    BY ZenonT(60), <1>1, <1>2 DEF ListAsks
  <1>4. asks' = [asks EXCEPT ![v] = a] /\ ReadOnly
    BY Zenon DEF Listed
  <1> PICK worlds : worlds = past[v] \cup {Now}
    OBVIOUS
  <1>5. \A item, world : Allowed(v, ask, item, world) => Allowed(v, a, item, world)
    BY <1>3 DEF Allowed
  <1>6. \A item \in ask.seen : \E world \in past[v] : Allowed(v, ask, item, world)
    BY <1>1 DEF AskOK
  <1>7. \A item \in a.seen : \E world \in worlds : Allowed(v, a, item, world)
    BY <1>3, <1>5, <1>6
  <1>8. ASSUME a.view = "search", ~a.full, NEW p \in Leaves, \A world \in worlds : FoundFor(v, a, p, world)
        PROVE  p \in a.hits \/ StatementFor(a, p) \in a.todo
    <2>1. \A world : FoundFor(v, a, p, world) => FoundFor(v, ask, p, world)
      BY <1>3 DEF FoundFor
    <2>2. StatementFor(a, p) = StatementFor(ask, p)
      BY <1>3 DEF StatementFor
    <2>3. ~ask.full /\ ~cut /\ ask.view = "search" /\ ask.at # "idle"
      BY <1>1, <1>3, <1>8
    <2>4. p \in ask.hits \/ StatementFor(ask, p) \in ask.todo
      BY <1>1, <1>8, <2>1, <2>3 DEF AskOK
    <2>5. FoundFor(v, ask, p, Now)
      BY <1>8, <2>1
    <2>6. StatementFor(ask, p) = statement => p \in hits
      BY <2>3, <2>5
    <2> QED BY <1>3, <2>2, <2>4, <2>6
  <1>9. AskOK(v, a, worlds)
    BY <1>2, <1>3, <1>7, <1>8 DEF AskOK
  <1> QED BY <1>3, <1>4, <1>9, ReadStep

LEMMA LimitedRows == \A rows : Limited(rows) \subseteq SUBSET rows
  BY DEF Limited

(* The rows of a statement, of which a search wants all that it is asked.   *)
LEMMA ListedRowsKeeps ==
  ASSUME ReadingInv, WorldsGrow, NEW v \in Visitors, At(v, "lists"), NEW statement \in {"published", "authoring"}, statement \in asks[v].todo,
         NEW in, NEW rows, NEW hidden,
         rows \subseteq IF statement = "published" THEN ListPublished(Scope(v), in) ELSE ListAuthoring(Scope(v), in),
         asks[v].view = "search" =>
             \A p \in Leaves : FoundFor(v, asks[v], p, Now) /\ StatementFor(asks[v], p) = statement => p \in rows /\ SpaceOf[p] \notin hidden,
         ListedRows(v, statement, rows, hidden)
  PROVE  ReadingInv'
  <1>1. rows \subseteq Leaves
    BY DEF ListPublished, ListAuthoring
  <1> PICK first \in Limited(rows) :
        LET shown == {p \in first : SpaceOf[p] \notin hidden}
        IN  Listed(v, statement, shown, IF statement = "published" THEN PublishedRows(shown) ELSE DraftRows(shown), first # rows)
    BY Zenon DEF ListedRows
  <1>2. first \subseteq rows
    BY LimitedRows
  <1> PICK shown : shown = {p \in first : SpaceOf[p] \notin hidden}
    OBVIOUS
  <1> PICK items : items = IF statement = "published" THEN PublishedRows(shown) ELSE DraftRows(shown)
    OBVIOUS
  <1> PICK cut \in BOOLEAN : cut = (first # rows)
    OBVIOUS
  <1>3. Listed(v, statement, shown, items, cut)
    OBVIOUS
  <1>4. asks[v] \in ListAsks
    BY CurrentAsk DEF At
  <1>5. items \in SUBSET Items /\ \A item \in items : Allowed(v, asks[v], item, Now)
    <2>1. CASE statement = "published"
      <3>1. shown \subseteq ListPublished(Scope(v), in)
        BY <1>2, <2>1
      <3> QED BY <1>4, <2>1, <3>1, RowsShown
    <2>2. CASE statement # "published"
      <3>1. shown \subseteq ListAuthoring(Scope(v), in)
        BY <1>2, <2>2
      <3> QED BY <1>4, <2>2, <3>1, RowsShown
    <2> QED BY <2>1, <2>2
  <1>6. asks[v].view = "search" /\ ~cut =>
             \A p \in Leaves : FoundFor(v, asks[v], p, Now) /\ StatementFor(asks[v], p) = statement => p \in shown
    OBVIOUS
  <1>7. shown \in SUBSET Leaves
    BY <1>1, <1>2
  <1> QED BY <1>3, <1>5, <1>6, <1>7, ListedKeeps

LEMMA ListedTagsKeeps ==
  ASSUME ReadingInv, WorldsGrow, NEW v \in Visitors, At(v, "lists"), "tags" \in asks[v].todo, NEW in, ListedTags(v, in)
  PROVE  ReadingInv'
  <1>1. asks[v] \in ListAsks
    BY CurrentAsk DEF At
  <1> PICK published : published = ListPublished(Scope(v), in)
    OBVIOUS
  <1> PICK drafted : drafted = ListAuthoring(Scope(v), in)
    OBVIOUS
  <1> PICK items : items = TagsOf(Scope(v), in)
    OBVIOUS
  <1>2. items = PublishedRows(published) \cup DraftRows(drafted)
    BY DEF TagsOf, PublishedRows, DraftRows
  <1>3. items \in SUBSET Items /\ \A item \in items : Allowed(v, asks[v], item, Now)
    BY <1>1, <1>2, RowsShown
  <1> PICK hits \in SUBSET Leaves : hits = {}
    OBVIOUS
  <1>4. \A p \in Leaves : StatementFor(asks[v], p) # "tags"
    BY DEF StatementFor
  <1>5. Listed(v, "tags", hits, items, FALSE)
    BY DEF ListedTags
  <1>6. asks[v].view = "search" => \A p \in Leaves : FoundFor(v, asks[v], p, Now) /\ StatementFor(asks[v], p) = "tags" => p \in hits
    BY <1>4
  <1> QED BY <1>3, <1>5, <1>6, ListedKeeps

LEMMA HomeKeeps == ASSUME ReadingInv, WorldsGrow, NEW v \in Visitors, Home(v) \/ SpaceDetail(v) PROVE ReadingInv'
  <1> PICK none : none = {}
    OBVIOUS
  <1>1. ASSUME NEW view \in {"home", "space"}, NEW in, Lists(v, view, "published"),
               ListedRows(v, "published", ListPublished(Scope(v), in), none)
        PROVE  ReadingInv'
    <2>1. At(v, "lists") /\ "published" \in asks[v].todo /\ asks[v].view # "search"
      BY <1>1 DEF Lists
    <2> QED BY <1>1, <2>1, ListedRowsKeeps
  <1>2. ASSUME NEW view \in {"home", "space"}, NEW in, Lists(v, view, "authoring"),
               ListedRows(v, "authoring", ListAuthoring(Scope(v), in), none)
        PROVE  ReadingInv'
    <2>1. At(v, "lists") /\ "authoring" \in asks[v].todo /\ asks[v].view # "search"
      BY <1>2 DEF Lists
    <2> QED BY <1>2, <2>1, ListedRowsKeeps
  <1>3. ASSUME NEW in, Lists(v, "space", "tags"), ListedTags(v, in) PROVE ReadingInv'
    BY <1>3, ListedTagsKeeps DEF Lists
  <1>4. ASSUME Home(v) PROVE ReadingInv'
    BY <1>1, <1>2, <1>4 DEF Home
  <1>5. ASSUME SpaceDetail(v) PROVE ReadingInv'
    BY <1>1, <1>2, <1>3, <1>5 DEF SpaceDetail
  <1> QED BY <1>4, <1>5

(* A page that is to be found now is among the rows of its statement.       *)
LEMMA FoundIsListed ==
  ASSUME ReadingInv, NEW v \in Visitors, asks[v] \in ListAsks, NEW p \in Leaves, FoundFor(v, asks[v], p, Now)
  PROVE  /\ StatementFor(asks[v], p) = "published" =>
               /\ p \in SearchPublished(Scope(v), asks[v].in, asks[v].word) /\ SpaceOf[p] \notin Scope(v).authoring
         /\ StatementFor(asks[v], p) = "authoring" => p \in SearchAuthoring(Scope(v), asks[v].in, asks[v].word)
  <1> PICK ask \in ListAsks : ask = asks[v]
    OBVIOUS
  <1>1. ask.roles \in RoleMaps /\ Scope(v) = ReadScope(v, ask.roles) /\ Now[1] = leaves /\ Now[2] = indexed
    BY AskParts DEF Scope, Now
  <1>2. /\ leaves[p].status = "active" /\ SpaceOf[p] \in ask.in
        /\ ReadsDrafts(ask.roles[SpaceOf[p]]) => leaves[p].draft = ask.word
        /\ ~ReadsDrafts(ask.roles[SpaceOf[p]]) =>
             CanReadPublished(v, ask.roles, p, leaves[p]) /\ indexed[p] = leaves[p].published /\ leaves[p].published = ask.word
    BY <1>1 DEF FoundFor
  <1>3. CASE ReadsDrafts(ask.roles[SpaceOf[p]])
    <2>1. CanReadDraft(ask.roles, p, leaves[p])
      BY <1>2, <1>3 DEF CanReadDraft
    <2>2. p \in ListAuthoring(Scope(v), ask.in)
      BY <1>1, <1>2, <2>1, ScopeIsAuthorization DEF ListAuthoring
    <2> QED BY <1>2, <1>3, <2>2 DEF SearchAuthoring, StatementFor
  <1>4. CASE ~ReadsDrafts(ask.roles[SpaceOf[p]])
    <2>1. p \in ListPublished(Scope(v), ask.in) /\ SpaceOf[p] \notin Scope(v).authoring
      BY <1>1, <1>2, <1>4, ScopeIsAuthorization DEF ListPublished
    <2> QED BY <1>2, <1>4, <2>1 DEF SearchPublished, StatementFor
  <1> QED BY <1>3, <1>4

LEMMA SearchKeeps == ASSUME ReadingInv, WorldsGrow, NEW v \in Visitors, Search(v) PROVE ReadingInv'
  <1> PICK none : none = {}
    OBVIOUS
  <1> PICK scope : scope = Scope(v)
    OBVIOUS
  <1> PICK in : in = asks[v].in
    OBVIOUS
  <1> PICK word : word = asks[v].word
    OBVIOUS
  <1> PICK hidden : hidden = scope.authoring
    OBVIOUS
  <1> PICK published : published = SearchPublished(scope, in, word)
    OBVIOUS
  <1> PICK drafted : drafted = SearchAuthoring(scope, in, word)
    OBVIOUS
  <1>1. ASSUME NEW statement, Lists(v, "search", statement) PROVE At(v, "lists") /\ statement \in asks[v].todo /\ asks[v] \in ListAsks
    BY <1>1, CurrentAsk DEF Lists, At
  <1>2. ASSUME Lists(v, "search", "tags"), ListedTags(v, Spaces) PROVE ReadingInv'
    BY <1>1, <1>2, ListedTagsKeeps
  <1>3. ASSUME Lists(v, "search", "published"), ListedRows(v, "published", published, hidden) PROVE ReadingInv'
    <2>1. At(v, "lists") /\ "published" \in asks[v].todo /\ asks[v] \in ListAsks
      BY <1>1, <1>3
    <2>2. published \subseteq ListPublished(scope, in)
      BY DEF SearchPublished
    <2>3. \A p \in Leaves : FoundFor(v, asks[v], p, Now) /\ StatementFor(asks[v], p) = "published" => p \in published /\ SpaceOf[p] \notin hidden
      BY <2>1, FoundIsListed
    <2> QED BY <1>3, <2>1, <2>2, <2>3, ListedRowsKeeps
  <1>4. ASSUME Lists(v, "search", "authoring"), ListedRows(v, "authoring", drafted, none) PROVE ReadingInv'
    <2>1. At(v, "lists") /\ "authoring" \in asks[v].todo /\ asks[v] \in ListAsks
      BY <1>1, <1>4
    <2>2. drafted \subseteq ListAuthoring(scope, in)
      BY DEF SearchAuthoring
    <2>3. \A p \in Leaves : FoundFor(v, asks[v], p, Now) /\ StatementFor(asks[v], p) = "authoring" => p \in drafted /\ SpaceOf[p] \notin none
      BY <2>1, FoundIsListed
    <2> QED BY <1>4, <2>1, <2>2, <2>3, ListedRowsKeeps
  <1> QED BY <1>2, <1>3, <1>4 DEF Search

(* A change of a page that does not unwrite it.                             *)
LEMMA ChangeKeeps ==
  ASSUME ReadingInv, WorldsGrow, NEW p \in Leaves, NEW row \in LeafRows, NEW index \in LeafTexts \cup {0},
         leaves[p].status # "absent" => row.status # "absent", ChangePage(p, row, index)
  PROVE  ReadingInv'
  <1>1. leaves' = [leaves EXCEPT ![p] = row] /\ indexed' = [indexed EXCEPT ![p] = index]
        /\ UNCHANGED <<members, founded, scheduled, founding, asks>>
    BY DEF ChangePage
  <1>2. RowsTyped'
    BY <1>1 DEF ReadingInv, RowsTyped
  <1>3. LeavesStay
    BY <1>1 DEF ReadingInv, RowsTyped, LeavesStay
  <1>4. FoundingOK'
    BY <1>1 DEF ReadingInv, FoundingOK, SpacesHaveTheirFounder
  <1>5. \A u \in Visitors : AskOK(u, asks[u], past[u])'
    BY <1>1, <1>3, OthersGoOn DEF ReadingInv
  <1>6. AsksOK'
    BY <1>1, <1>5 DEF ReadingInv, AsksOK
  <1> QED BY <1>2, <1>4, <1>6 DEF ReadingInv

LEMMA ChangingKeeps == ASSUME ReadingInv, WorldsGrow, NEW p \in Leaves, Changing(p) PROVE ReadingInv'
  <1> PICK old : old = leaves[p]
    OBVIOUS
  <1>1. old \in LeafRows /\ old.published \in LeafTexts \cup {0} /\ old.draft \in LeafTexts \cup {0} /\ indexed[p] \in LeafTexts \cup {0}
        /\ old.wants \in Visibilities \cup {"none"}
    BY PageRow DEF ReadingInv, RowsTyped, LeafRows
  <1>2. ASSUME CreatePage(p) PROVE ReadingInv'
    <2> PICK t \in LeafTexts : ChangePage(p, [NoLeaf EXCEPT !.status = "active", !.draft = t, !.wants = "space"], 0)
      BY <1>2 DEF CreatePage
    <2> PICK row : row = [NoLeaf EXCEPT !.status = "active", !.draft = t, !.wants = "space"]
      OBVIOUS
    <2>1. row \in LeafRows /\ row.status = "active"
      BY DEF NoLeaf, LeafRows, Visibilities
    <2> QED BY <2>1, ChangeKeeps
  <1>3. ASSUME EditPage(p) PROVE ReadingInv'
    <2> PICK t \in LeafTexts, w \in Visibilities : ChangePage(p, [old EXCEPT !.draft = t, !.wants = w], indexed[p])
      BY <1>3 DEF EditPage
    <2> PICK row : row = [old EXCEPT !.draft = t, !.wants = w]
      OBVIOUS
    <2>1. row \in LeafRows /\ row.status = old.status
      BY <1>1 DEF LeafRows
    <2> QED BY <1>1, <2>1, ChangeKeeps
  <1>4. ASSUME PublishPage(p) PROVE ReadingInv'
    <2> PICK row : row = [old EXCEPT !.published = old.draft, !.visibility = old.wants]
      OBVIOUS
    <2>1. row \in LeafRows /\ row.status = old.status
      BY <1>1 DEF LeafRows
    <2> QED BY <1>1, <1>4, <2>1, ChangeKeeps DEF PublishPage
  <1>5. ASSUME IndexPage(p) PROVE ReadingInv'
    BY <1>1, <1>5, ChangeKeeps DEF IndexPage
  <1>6. ASSUME ArchivePage(p) PROVE ReadingInv'
    <2> PICK row : row = [old EXCEPT !.status = "archived"]
      OBVIOUS
    <2>1. row \in LeafRows /\ row.status = "archived"
      BY <1>1 DEF LeafRows
    <2> QED BY <1>6, <2>1, ChangeKeeps DEF ArchivePage
  <1>7. ASSUME ReturnPage(p) PROVE ReadingInv'
    <2> PICK row : row = [old EXCEPT !.status = "active"]
      OBVIOUS
    <2>1. row \in LeafRows /\ row.status = "active"
      BY <1>1 DEF LeafRows
    <2> QED BY <1>1, <1>7, <2>1, ChangeKeeps DEF ReturnPage
  <1> QED BY <1>2, <1>3, <1>4, <1>5, <1>6, <1>7 DEF Changing

(* A step of a founder, who leaves what there is to read alone.             *)
LEMMA FoundingStays ==
  ASSUME ReadingInv, WorldsGrow, UNCHANGED <<leaves, indexed, asks>>, FoundingOK'
  PROVE  ReadingInv'
  <1>1. RowsTyped'
    BY DEF ReadingInv, RowsTyped
  <1>2. LeavesStay
    BY DEF LeavesStay
  <1>3. \A u \in Visitors : AskOK(u, asks[u], past[u])'
    BY <1>2, OthersGoOn DEF ReadingInv
  <1>4. AsksOK'
    BY <1>3 DEF ReadingInv, AsksOK
  <1> QED BY <1>1, <1>4 DEF ReadingInv

LEMMA FoundingKeeps == ASSUME ReadingInv, WorldsGrow, NEW f \in Founders, Founding(f) PROVE ReadingInv'
  <1>1. /\ members \in [Spaces \cup {NewSpace} -> [Everyone -> SpaceRoles]] /\ scheduled \in BOOLEAN
        /\ founding \in [Founders -> FoundingSteps]
        /\ \A g \in Founders : /\ members[NewSpace][g] = "owner" => founded.by = g
                               /\ founding[g] = "answered" => scheduled /\ members[NewSpace][g] = "owner"
                               /\ founding[g] \in {"grant", "schedule", "answered"} => founded.by = g
    BY DEF ReadingInv, FoundingOK, SpacesHaveTheirFounder
  <1>2. ASSUME NEW name, CreateSpace(f, name) PROVE ReadingInv'
    <2>1. CASE founded.by = "nobody"
      <3>1. founded' = [by |-> f, name |-> name] /\ founding' = [founding EXCEPT ![f] = "grant"] /\ UNCHANGED <<members, scheduled>>
        BY <1>2, <2>1 DEF CreateSpace, NextStep
      <3>2. founded'.by = f
        BY <3>1
      <3>3. founding' \in [Founders -> FoundingSteps] /\ \A g \in Founders : founding'[g] = IF g = f THEN "grant" ELSE founding[g]
        BY <1>1, <3>1 DEF FoundingSteps
      <3>4. \A g \in Founders : members[NewSpace][g] # "owner" /\ founding[g] \notin {"grant", "schedule", "answered"}
        BY <1>1, <2>1, ReadingBounds
      <3>5. FoundingOK'
        BY <1>1, <3>1, <3>2, <3>3, <3>4 DEF FoundingOK, SpacesHaveTheirFounder
      <3> QED BY <1>2, <3>5, FoundingStays DEF CreateSpace
    <2>2. CASE founded.by # "nobody"
      <3> PICK step : step = IF OwnRepeat(f, name) THEN "grant" ELSE "taken"
        OBVIOUS
      <3>1. founded' = founded /\ founding' = [founding EXCEPT ![f] = step] /\ UNCHANGED <<members, scheduled>>
        BY <1>2, <2>2 DEF CreateSpace, NextStep
      <3>2. step \in {"grant", "taken"} /\ (step = "grant" => founded.by = f)
        BY DEF OwnRepeat
      <3>3. founding' \in [Founders -> FoundingSteps] /\ \A g \in Founders : founding'[g] = IF g = f THEN step ELSE founding[g]
        BY <1>1, <3>1, <3>2 DEF FoundingSteps
      <3>4. FoundingOK'
        BY <1>1, <3>1, <3>2, <3>3 DEF FoundingOK, SpacesHaveTheirFounder
      <3> QED BY <1>2, <3>4, FoundingStays DEF CreateSpace
    <2> QED BY <2>1, <2>2
  <1>3. ASSUME GrantOwner(f) PROVE ReadingInv'
    <2>1. members' = [members EXCEPT ![NewSpace][f] = "owner"] /\ founding' = [founding EXCEPT ![f] = "schedule"] /\ UNCHANGED <<founded, scheduled>>
          /\ founding[f] = "grant"
      BY <1>3 DEF GrantOwner, NextStep
    <2>2. founding' \in [Founders -> FoundingSteps] /\ \A g \in Founders : founding'[g] = IF g = f THEN "schedule" ELSE founding[g]
      BY <1>1, <2>1 DEF FoundingSteps
    <2> PICK role : role = [members[NewSpace] EXCEPT ![f] = "owner"]
      OBVIOUS
    <2>3. role \in [Everyone -> SpaceRoles] /\ \A g \in Founders : role[g] = IF g = f THEN "owner" ELSE members[NewSpace][g]
      BY <1>1 DEF SpaceRoles, Everyone
    <2>4. members' = [members EXCEPT ![NewSpace] = role]
      BY <2>1
    <2>5. members' \in [Spaces \cup {NewSpace} -> [Everyone -> SpaceRoles]] /\ members'[NewSpace] = role
      BY <1>1, <2>3, <2>4
    <2>6. founded.by = f
      BY <1>1, <2>1
    <2>7. FoundingOK'
      BY <1>1, <2>1, <2>2, <2>3, <2>5, <2>6 DEF FoundingOK, SpacesHaveTheirFounder
    <2> QED BY <1>3, <2>7, FoundingStays DEF GrantOwner
  <1>4. ASSUME RegisterMaintenance(f) PROVE ReadingInv'
    <2>1. founding' = [founding EXCEPT ![f] = "answered"] /\ scheduled' = TRUE /\ UNCHANGED <<members, founded>> /\ members[NewSpace][f] = "owner"
      BY <1>4 DEF RegisterMaintenance, NextStep
    <2>2. founding' \in [Founders -> FoundingSteps] /\ \A g \in Founders : founding'[g] = IF g = f THEN "answered" ELSE founding[g]
      BY <1>1, <2>1 DEF FoundingSteps
    <2>3. FoundingOK'
      BY <1>1, <2>1, <2>2 DEF FoundingOK, SpacesHaveTheirFounder
    <2> QED BY <1>4, <2>3, FoundingStays DEF RegisterMaintenance
  <1>5. ASSUME FoundingEnds(f) PROVE ReadingInv'
    <2>1. founding' = [founding EXCEPT ![f] = "idle"] /\ UNCHANGED <<members, founded, scheduled>>
      BY <1>5 DEF FoundingEnds, NextStep
    <2>2. founding' \in [Founders -> FoundingSteps] /\ \A g \in Founders : founding'[g] = IF g = f THEN "idle" ELSE founding[g]
      BY <1>1, <2>1 DEF FoundingSteps
    <2>3. FoundingOK'
      BY <1>1, <2>1, <2>2 DEF FoundingOK, SpacesHaveTheirFounder
    <2> QED BY <1>5, <2>3, FoundingStays DEF FoundingEnds
  <1> QED BY <1>2, <1>3, <1>4, <1>5 DEF Founding

LEMMA ReadingKeeps == ASSUME ReadingInv, [ReadingNext]_readingVars PROVE ReadingInv'
  <1>1. CASE UNCHANGED readingVars
    BY <1>1 DEF readingVars, ReadingInv, RowsTyped, FoundingOK, SpacesHaveTheirFounder, AsksOK, AskOK
  <1>2. CASE ReadingNext
    <2>1. WorldsGrow
      BY <1>2 DEF ReadingNext, WorldsGrow
    <2>2. ASSUME NEW v \in Visitors, Visiting(v) PROVE ReadingInv'
      BY <2>1, <2>2, AskPageKeeps, LoadKeeps, ViewKeeps, AskKeeps, HomeKeeps, SearchKeeps DEF Visiting
    <2> QED BY <1>2, <2>1, <2>2, ChangingKeeps, FoundingKeeps DEF ReadingNext
  <1> QED BY <1>1, <1>2

(* What the invariant says of requests, as the properties say it.           *)
LEMMA ReadingInvServes == ReadingInv => ReadingTypeOK /\ OnlyReadableIsShown /\ NothingReadableIsMissed /\ SpacesHaveTheirFounder
  <1> SUFFICES ASSUME ReadingInv PROVE ReadingTypeOK /\ OnlyReadableIsShown /\ NothingReadableIsMissed /\ SpacesHaveTheirFounder
    OBVIOUS
  <1>1. \A v \in Visitors : asks[v].at \in {"idle", "load", "rest", "lists", "answered"}
    BY CurrentAsk, AskParts DEF Asks
  <1>2. ReadingTypeOK
    BY <1>1 DEF ReadingTypeOK, ReadingInv, RowsTyped, FoundingOK, FoundingSteps
  <1>3. OnlyReadableIsShown
    BY CurrentAsk DEF OnlyReadableIsShown, AskOK, Allowed, At
  <1>4. ASSUME NEW v \in Visitors, At(v, "answered"), asks[v].view = "search", ~asks[v].full,
               NEW p \in Leaves, \A world \in past[v] : Found(v, p, world)
        PROVE  p \in asks[v].hits
    <2> PICK ask \in Asks : ask = asks[v]
      BY CurrentAsk
    <2>1. ask \in ListAsks
      BY <1>4, AskParts DEF Asks, At, PageViews
    <2>2. \A world \in past[v] : FoundFor(v, ask, p, world)
      BY <1>4 DEF Found, FoundFor
    <2>3. ask.at # "idle"
      BY <1>4 DEF At
    <2>4. AskOK(v, ask, past[v])
      BY CurrentAsk
    <2>5. ask.todo = {}
      BY <1>4, <2>1, <2>4 DEF AskOK, At
    <2> QED BY <1>4, <2>2, <2>3, <2>4, <2>5 DEF AskOK
  <1>5. NothingReadableIsMissed
    BY <1>4 DEF NothingReadableIsMissed
  <1> QED BY <1>2, <1>3, <1>5 DEF ReadingInv, FoundingOK

(***************************************************************************)
(* The page and the search always show the latest committed publication,   *)
(* whatever calls, retries and cancellations overlap (platform.ts,         *)
(* service.ts); page views, listings and search show what a reader may     *)
(* read, and search all of it up to its limit (authorization.ts and the    *)
(* SQL of search-repository.ts); a founded space has its founder as owner.  *)
(***************************************************************************)
THEOREM ReadersStayServed == MCSpec => []ReadersAreServed
  <1>1. MCInit => KnowledgeInv /\ ReadingInv
    BY PublicationInitial, ReadingInitial DEF MCInit
  <1>2. KnowledgeInv /\ ReadingInv /\ [MCNext]_mcVars => KnowledgeInv' /\ ReadingInv'
    <2> SUFFICES ASSUME KnowledgeInv, ReadingInv, [MCNext]_mcVars PROVE KnowledgeInv' /\ ReadingInv'
      OBVIOUS
    <2>1. [PublicationNext]_knowledgeVars /\ [ReadingNext]_readingVars
      BY DEF MCNext, PublishBehaviours, ReadBehaviours, PublishPart, mcVars
    <2> QED BY <2>1, PublicationKeeps, ReadingKeeps
  <1>3. KnowledgeInv /\ ReadingInv => ReadersAreServed
    BY KnowledgeInvShowsTheLatest, ReadingInvServes DEF ReadersAreServed
  <1> QED BY <1>1, <1>2, <1>3, PTL DEF MCSpec

(***************************************************************************)
(* What is said of publications, on top of KnowledgeInv.  A call works on  *)
(* its own copy of a run and saves it over whatever is stored, so ViewInv  *)
(* says of every copy, stored or held, what its task and its snapshot's    *)
(* outcome allow (CopyTrue, LabelTrue), of a call how far it is with the   *)
(* publication (StepTrue), and that until the publication is first tried   *)
(* its call is the only one at the run (Alone).                            *)
(***************************************************************************)
(* A publication's request and what it is about; who is at a run, and what  *)
(* has become of the publication itself in a copy of its run.               *)
Publishes(r) == requests[r][1] = "publish"
Pinned(r) == requests[r][2]
Author(r) == snapshots[Pinned(r)].by
Holding(x) == x.at \in RunningSteps \cup ExecSteps
About(c, r) == Holding(proc[c]) /\ proc[c].run = r
First(run) == run.children["publish"]
Untried(c) == Holding(proc[c]) /\ proc[c].copy.kind = "publish" /\ First(proc[c].copy) = "none"

(* What is true of every copy of run r, and of the status of a copy that is *)
(* stored or about to be.                                                   *)
KeyKind(kind) == IF kind \in Effects THEN "retry" ELSE kind
CopyTrue(r, run) ==
    /\ requests[r][1] = KeyKind(run.kind)
    /\ run.kind \in {"archive", "maintain"} => run.snap = 0
    /\ run.kind \in Effects => \A k \in Children : run.children[k] # "rejected"
    /\ run.kind = "publish" =>
        /\ Pinned(r) = run.snap /\ run.by = Author(r)
        /\ First(run) = "rejected" => tasks[r].status = "rejected"
        /\ First(run) = "succeeded" => tasks[r].status \in {"none", "approved"}

Labelled == {"run", "save", "cancel", "attach"}
LabelTrue(r, run) ==
    /\ run.kind \in Effects => run.status # "rejected"
    /\ run.kind = "publish" =>
        /\ run.status # "input"
        /\ First(run) = "none" => run.status = "running"
        /\ run.status = "rejected" => tasks[r].status = "rejected"
        /\ run.status = "succeeded" => First(run) = "succeeded"

(* Who has not tried to publish yet is alone with its run.                  *)
Alone(c) ==
    LET r == proc[c].run IN
    /\ tasks[r] = NoTask
    /\ runs[r] # NoRun => First(runs[r]) = "none"
    /\ proc[c].at \in {"run", "child"} => outcomes[proc[c].copy.snap] = "none"
    /\ \A d \in Calls \ {c} : ~About(d, r)

(* What a call asks for, and where a call is with a publication.            *)
AskTrue(x) ==
    /\ x.key[1] = KeyKind(x.kind)
    /\ x.kind \in {"archive", "maintain"} => x.snap = 0
    /\ x.kind = "publish" => x.key = <<"publish", x.snap, "", 0>> /\ x.who = snapshots[x.snap].by

StepTrue(x) ==
    LET r == x.run IN
    /\ x.at # "analyze"
    /\ x.at \in {"save", "attach", "cancel"} => First(x.copy) # "none" /\ x.copy.status # "running"
    /\ x.at = "run" => First(x.copy) = "none" /\ runs[r] = NoRun
    /\ x.at = "child" => First(x.copy) \in {"none", "succeeded"}
    /\ x.at = "save" /\ tasks[r].status = "pending" => x.copy.status = "waiting"
    /\ x.at = "attach" => runs[r] # NoRun /\ runs[r].status # "running"
    /\ x.at \in ExecSteps =>
         /\ x.child # "publish" => First(x.copy) = "succeeded"
         /\ x.child = "publish" => First(x.copy) = "none" \/ tasks[r].status = "approved"

CallTrue(c) ==
    LET x == proc[c] IN
    /\ x.at \in {"insert", "request"} => c \in AuthorCalls
    /\ x.at = "request" => AskTrue(x)
    /\ x.at = "decided" /\ Publishes(x.run) => tasks[x.run].status \in {"approved", "rejected"}
    /\ Holding(x) => CopyTrue(x.run, x.copy)
    /\ x.at \in Labelled => LabelTrue(x.run, x.copy)
    /\ x.at = "attach" => x.copy.kind = "publish"
    /\ Holding(x) /\ x.copy.kind = "publish" => StepTrue(x)
    /\ Untried(c) => Alone(c)

KeysTrue ==
    /\ \A i, j \in 1..Len(requests) : requests[i] = requests[j] => i = j
    /\ \A r \in 1..Len(requests) : Publishes(r) => requests[r] = <<"publish", Pinned(r), "", 0>> /\ Pinned(r) \in 1..Len(snapshots)
    /\ \A s \in 1..Len(snapshots) : outcomes[s] # "none" => \E r \in 1..Len(requests) : Publishes(r) /\ Pinned(r) = s

TaskTrue(r) ==
    /\ tasks[r] # NoTask => requests[r][1] # "retry"
    /\ Publishes(r) =>
        /\ outcomes[Pinned(r)] # "none" => tasks[r].status \in {"none", "approved"}
        /\ tasks[r] # NoTask =>
            /\ tasks[r].child = "publish" /\ Author(r) \notin tasks[r].candidates
            /\ tasks[r].status = "approved" => tasks[r].by # Author(r)
        /\ tasks[r].status = "pending" /\ runs[r] # NoRun => runs[r].status \in {"running", "waiting"}

StoredTrue == \A r \in 1..Len(requests) : runs[r] # NoRun => CopyTrue(r, runs[r]) /\ LabelTrue(r, runs[r])
AttachedTrue ==
    \A r \in attached : r \in 1..Len(requests) /\ Publishes(r) /\ runs[r] # NoRun /\ runs[r].status # "running"

(* Until something goes wrong: no effect has failed, and who started a      *)
(* publication is at it until its request is attached.                      *)
Untroubled ==
    troubles = 0 =>
        /\ \A s \in 1..Len(snapshots), e \in Effects : effects[s][e].status # "failed"
        /\ \A r \in 1..Len(requests) : Publishes(r) /\ r \notin attached => \E c \in AuthorCalls : About(c, r)

ViewInv ==
    /\ KeysTrue /\ StoredTrue /\ AttachedTrue
    /\ \A r \in 1..Len(requests) : TaskTrue(r)
    /\ \A c \in Calls : CallTrue(c)
    /\ troubles \in Nat /\ Untroubled

(* What a call may do to what the others rely on: end a publication it is   *)
(* at, have a task asked for or moved, and store its copy.                  *)
Publishing(c, s) == proc[c].at \in {"commit", "conflict"} /\ proc[c].copy.snap = s
TaskAsked(c, r) ==
    LET run == proc[c].copy
        child == NextChild(run)
    IN  /\ proc[c].at = "child" /\ proc[c].run = r /\ run.kind \notin Effects
        /\ run.kind = "publish" => First(run) = "none" /\ child = "publish"
        /\ tasks'[r] = [status |-> "pending", by |-> "nobody", child |-> child, candidates |-> Candidates(run, child)]
TaskClosed(r) ==
    \E verdict \in {"approved", "rejected", "cancelled"}, p \in tasks[r].candidates \cup {tasks[r].by} :
       /\ tasks[r].status = "pending" /\ tasks'[r] = [tasks[r] EXCEPT !.status = verdict, !.by = p]
       /\ verdict = "approved" => p \in tasks[r].candidates
RunStored(c, r) == proc[c].at \in {"run", "save"} /\ proc[c].run = r /\ runs'[r] = proc[c].copy
Takes(r) == r \notin 1..Len(requests) \/ tasks[r] # NoTask \/ (runs[r] # NoRun /\ runs[r].status # "running")

StoreGrows ==
    /\ Len(snapshots) <= Len(snapshots')
    /\ \A s \in 1..Len(snapshots) : snapshots'[s] = snapshots[s]
    /\ \A s \in 1..Len(snapshots') : s \notin 1..Len(snapshots) => outcomes'[s] = "none"
Continues(c) ==
    /\ StoreGrows
    /\ \A s \in 1..Len(snapshots) : outcomes'[s] = outcomes[s] \/ Publishing(c, s)
    /\ Len(requests) <= Len(requests')
    /\ \A r \in 1..Len(requests) : requests'[r] = requests[r]
    /\ \A r \in 1..Len(requests') : r \notin 1..Len(requests) => runs'[r] = NoRun /\ tasks'[r] = NoTask
    /\ \A r \in 1..Len(requests) : tasks'[r] = tasks[r] \/ TaskClosed(r) \/ TaskAsked(c, r)
    /\ \A r \in 1..Len(requests) : runs'[r] = runs[r] \/ RunStored(c, r)
    /\ \A d \in Calls \ {c} : proc'[d] = proc[d]
    /\ \A r : About(c, r)' => About(c, r) \/ Takes(r)

LEMMA KeyKinds == \A kind \in RunKinds : /\ KeyKind(kind) = "publish" <=> kind = "publish"
                                         /\ KeyKind(kind) = "retry" <=> kind \in Effects
                                         /\ kind \in Effects \cup {"archive", "maintain", "publish"}
  BY DEF RunKinds, KeyKind, Effects

LEMMA CopyKinds ==
  ASSUME NEW r, NEW run \in RunRows, CopyTrue(r, run)
  PROVE  /\ Publishes(r) <=> run.kind = "publish"
         /\ run.kind \in RunKinds /\ First(run) \in Results
  <1>1. run.kind \in RunKinds /\ First(run) \in Results
    BY DEF RunRows, First, Children
  <1>2. requests[r][1] = KeyKind(run.kind)
    BY DEF CopyTrue
  <1> QED BY <1>1, <1>2, KeyKinds DEF Publishes

LEMMA OnePerPin ==
  ASSUME KeysTrue, NEW r \in 1..Len(requests), NEW q \in 1..Len(requests), Publishes(r), Publishes(q), Pinned(r) = Pinned(q)
  PROVE  r = q
  <1>1. requests[r] = <<"publish", Pinned(r), "", 0>> /\ requests[q] = <<"publish", Pinned(q), "", 0>>
    BY DEF KeysTrue
  <1>2. requests[r] = requests[q]
    BY <1>1
  <1> QED BY <1>2 DEF KeysTrue

LEMMA HeldFacts ==
  ASSUME KnowledgeInv, ViewInv, NEW c \in Calls, Holding(proc[c])
  PROVE  /\ proc[c].run \in 1..Len(requests) /\ proc[c].copy \in RunRows /\ RunOK(proc[c].copy)
         /\ CopyTrue(proc[c].run, proc[c].copy)
         /\ Publishes(proc[c].run) <=> proc[c].copy.kind = "publish"
         /\ proc[c].at \in Labelled => LabelTrue(proc[c].run, proc[c].copy)
         /\ proc[c].copy.kind = "publish" =>
              /\ Pinned(proc[c].run) = proc[c].copy.snap /\ proc[c].copy.snap \in 1..Len(snapshots)
              /\ StepTrue(proc[c]) /\ First(proc[c].copy) \in Results
              /\ First(proc[c].copy) = "none" => Alone(c)
  <1>1. proc[c].run \in 1..Len(requests) /\ proc[c].copy \in RunRows /\ RunOK(proc[c].copy)
    BY HeldRun DEF Holding
  <1>2. CallTrue(c)
    BY DEF ViewInv
  <1>3. CopyTrue(proc[c].run, proc[c].copy)
    BY <1>2 DEF CallTrue
  <1>4. (Publishes(proc[c].run) <=> proc[c].copy.kind = "publish") /\ First(proc[c].copy) \in Results
    BY <1>1, <1>3, CopyKinds
  <1>5. ASSUME proc[c].copy.kind = "publish"
        PROVE  /\ Pinned(proc[c].run) = proc[c].copy.snap /\ proc[c].copy.snap \in 1..Len(snapshots)
               /\ StepTrue(proc[c])
               /\ First(proc[c].copy) = "none" => Alone(c)
    <2>1. Pinned(proc[c].run) = proc[c].copy.snap
      BY <1>3, <1>5 DEF CopyTrue
    <2>2. proc[c].copy.snap \in 1..Len(snapshots)
      BY <1>1, <1>5 DEF RunOK, SnapOK
    <2>3. StepTrue(proc[c]) /\ (First(proc[c].copy) = "none" => Alone(c))
      BY <1>2, <1>5 DEF CallTrue, Untried
    <2> QED BY <2>1, <2>2, <2>3
  <1> QED BY <1>1, <1>2, <1>3, <1>4, <1>5 DEF CallTrue

(* Whoever is asked for an approval of a publication is alone with it.      *)
LEMMA AskedAlone ==
  ASSUME KnowledgeInv, ViewInv, NEW c \in Calls, NEW r \in 1..Len(requests), TaskAsked(c, r), Publishes(r)
  PROVE  /\ Alone(c) /\ About(c, r) /\ proc[c].copy.kind = "publish"
         /\ tasks'[r].status = "pending" /\ tasks'[r].child = "publish" /\ Author(r) \notin tasks'[r].candidates
  <1>1. Holding(proc[c]) /\ proc[c].run = r /\ proc[c].at = "child"
    BY DEF TaskAsked, Holding, RunningSteps
  <1>2. proc[c].copy.kind = "publish" /\ CopyTrue(r, proc[c].copy)
    BY <1>1, HeldFacts
  <1>3. First(proc[c].copy) = "none" /\ NextChild(proc[c].copy) = "publish"
    BY <1>2 DEF TaskAsked
  <1>4. tasks'[r] = [status |-> "pending", by |-> "nobody", child |-> "publish", candidates |-> Candidates(proc[c].copy, "publish")]
    BY <1>3 DEF TaskAsked
  <1>5. Author(r) = proc[c].copy.by
    BY <1>2 DEF CopyTrue
  <1>6. Author(r) \notin Candidates(proc[c].copy, "publish")
    BY <1>2, <1>5 DEF Candidates, Actor
  <1> QED BY <1>1, <1>2, <1>3, <1>4, <1>6, HeldFacts DEF About

(* Whoever publishes a snapshot is at its request, before there was a task  *)
(* or after its approval.                                                   *)
LEMMA PublishingIs ==
  ASSUME KnowledgeInv, ViewInv, NEW c \in Calls, NEW r \in 1..Len(requests), Publishes(r), Publishing(c, Pinned(r))
  PROVE  /\ About(c, r) /\ proc[c].copy.kind = "publish"
         /\ (First(proc[c].copy) = "none" /\ Alone(c)) \/ tasks[r].status = "approved"
  <1>1. Holding(proc[c]) /\ proc[c].at \in ExecSteps /\ proc[c].at \in {"commit", "conflict"}
    BY DEF Publishing, Holding, ExecSteps
  <1>2. proc[c].child = "publish" /\ proc[c].copy.kind = "publish"
    BY <1>1, HeldChild
  <1>3. proc[c].run \in 1..Len(requests) /\ Publishes(proc[c].run) /\ Pinned(proc[c].run) = Pinned(r)
    BY <1>1, <1>2, HeldFacts DEF Publishing
  <1>4. proc[c].run = r
    BY <1>3, OnePerPin DEF ViewInv
  <1> QED BY <1>1, <1>2, <1>4, HeldFacts DEF StepTrue, About

(* The task of a publication others are at, or whose copy is not the first. *)
LEMMA TaskGoes ==
  ASSUME KnowledgeInv, ViewInv, NEW c \in Calls, Continues(c), NEW r \in 1..Len(requests), Publishes(r), ~TaskAsked(c, r)
  PROVE  /\ tasks[r].status # "pending" => tasks'[r] = tasks[r]
         /\ tasks'[r].status = "pending" => tasks[r].status = "pending"
         /\ tasks'[r] = tasks[r] \/ TaskClosed(r)
         /\ tasks[r] = NoTask => tasks'[r] = NoTask
  <1>1. tasks'[r] = tasks[r] \/ TaskClosed(r)
    BY DEF Continues
  <1>2. CASE tasks'[r] = tasks[r]
    BY <1>2
  <1>3. ASSUME TaskClosed(r) PROVE tasks[r].status = "pending" /\ tasks'[r].status # "pending"
    <2> PICK verdict \in {"approved", "rejected", "cancelled"}, p \in tasks[r].candidates \cup {tasks[r].by} :
          tasks[r].status = "pending" /\ tasks'[r] = [tasks[r] EXCEPT !.status = verdict, !.by = p]
      BY <1>3 DEF TaskClosed
    <2>1. tasks[r] \in TaskRows /\ tasks[r] # NoTask
      BY Lengths DEF NoTask
    <2>2. tasks'[r].status = verdict
      BY <2>1 DEF TaskRows
    <2> QED BY <2>2
  <1>4. CASE TaskClosed(r)
    BY <1>3, <1>4 DEF NoTask
  <1> QED BY <1>1, <1>2, <1>4

LEMMA CopyStays ==
  ASSUME KnowledgeInv, ViewInv, NEW c \in Calls, Continues(c), NEW r \in 1..Len(requests), NEW run \in RunRows,
         CopyTrue(r, run), run.kind = "publish" => run.snap \in 1..Len(snapshots),
         TaskAsked(c, r) => First(run) = "none"
  PROVE  CopyTrue(r, run)' /\ (LabelTrue(r, run) => LabelTrue(r, run)')
  <1>1. requests'[r] = requests[r] /\ (run.kind = "publish" => snapshots'[run.snap] = snapshots[run.snap])
    BY DEF Continues, StoreGrows
  <1>2. ASSUME run.kind = "publish", ~TaskAsked(c, r)
        PROVE  tasks[r].status # "pending" => tasks'[r] = tasks[r]
    BY <1>2, CopyKinds, TaskGoes
  <1>3. CopyTrue(r, run)'
    BY <1>1, <1>2 DEF CopyTrue, Pinned, Author
  <1>4. LabelTrue(r, run) => LabelTrue(r, run)'
    BY <1>1, <1>2 DEF LabelTrue
  <1> QED BY <1>3, <1>4

(* What the others rely on stays so.                                        *)
LEMMA AloneStays ==
  ASSUME KnowledgeInv, ViewInv, NEW c \in Calls, Continues(c), NEW d \in Calls \ {c}, Untried(d)
  PROVE  Alone(d)'
  <1> PICK r : r = proc[d].run
    OBVIOUS
  <1> PICK s : s = proc[d].copy.snap
    OBVIOUS
  <1> PICK step : step = proc[d].at
    OBVIOUS
  <1>1. proc'[d] = proc[d]
    BY DEF Continues
  <1>2. /\ r \in 1..Len(requests) /\ Alone(d) /\ Publishes(r) /\ About(d, r)
        /\ s \in 1..Len(snapshots) /\ Pinned(r) = s
    BY HeldFacts DEF Untried, About
  <1>3. ~About(c, r)
    BY <1>2 DEF Alone
  <1>4. ~TaskAsked(c, r)
    BY <1>2, <1>3, AskedAlone
  <1>5. tasks'[r] = NoTask
    BY <1>2, <1>4, TaskGoes DEF Alone
  <1>6. runs'[r] = runs[r]
    <2>1. ~RunStored(c, r)
      BY <1>3 DEF RunStored, About, Holding, RunningSteps
    <2> QED BY <1>2, <2>1 DEF Continues
  <1>7. outcomes'[s] = outcomes[s]
    <2>1. ~Publishing(c, s)
      BY <1>2, <1>3, PublishingIs
    <2> QED BY <1>2, <2>1 DEF Continues
  <1>8. ~About(c, r)'
    <2>1. tasks[r] = NoTask /\ (runs[r] # NoRun => First(runs[r]) = "none")
      BY <1>2 DEF Alone
    <2>2. ASSUME runs[r] # NoRun PROVE runs[r].status = "running"
      <3>1. CopyTrue(r, runs[r]) /\ LabelTrue(r, runs[r])
        BY <1>2, <2>2 DEF ViewInv, StoredTrue
      <3>2. runs[r] \in RunRows
        BY <1>2, <2>2, Lengths
      <3>3. runs[r].kind = "publish"
        BY <1>2, <3>1, <3>2, CopyKinds
      <3> QED BY <2>1, <2>2, <3>1, <3>3 DEF LabelTrue
    <2>3. ~Takes(r)
      BY <1>2, <2>1, <2>2 DEF Takes
    <2> QED BY <1>3, <2>3 DEF Continues
  <1>9. ASSUME NEW e \in Calls \ {d} PROVE ~About(e, r)'
    <2>1. CASE e = c
      BY <1>8, <2>1
    <2>2. CASE e # c
      <3>1. proc'[e] = proc[e]
        BY <2>2 DEF Continues
      <3> QED BY <1>2, <3>1 DEF Alone, About
    <2> QED BY <2>1, <2>2
  <1>10. proc'[d].run = r /\ proc'[d].copy.snap = s /\ proc'[d].at = step
    BY <1>1
  <1>11. runs'[r] # NoRun => First(runs'[r]) = "none"
    BY <1>2, <1>6 DEF Alone
  <1>12. step \in {"run", "child"} => outcomes'[s] = "none"
    BY <1>2, <1>7 DEF Alone
  <1> QED BY <1>5, <1>9, <1>10, <1>11, <1>12 DEF Alone, First

LEMMA StepStays ==
  ASSUME KnowledgeInv, ViewInv, NEW c \in Calls, Continues(c), NEW d \in Calls \ {c}, Holding(proc[d]), proc[d].copy.kind = "publish"
  PROVE  StepTrue(proc[d])'
  <1> PICK x : x = proc[d]
    OBVIOUS
  <1> PICK r : r = x.run
    OBVIOUS
  <1>1. proc'[d] = x
    BY DEF Continues
  <1>2. /\ r \in 1..Len(requests) /\ Publishes(r) /\ About(d, r) /\ StepTrue(x)
        /\ First(x.copy) = "none" => Alone(d)
    BY HeldFacts DEF About
  <1>3. ~TaskAsked(c, r)
    BY <1>2, AskedAlone DEF Alone, About
  <1>4. /\ tasks[r].status # "pending" => tasks'[r] = tasks[r]
        /\ tasks'[r].status = "pending" => tasks[r].status = "pending"
    BY <1>2, <1>3, TaskGoes
  <1>5. x.at = "run" => runs'[r] = NoRun
    <2> SUFFICES ASSUME x.at = "run" PROVE runs'[r] = NoRun
      OBVIOUS
    <2>1. Alone(d) /\ runs[r] = NoRun
      BY <1>2 DEF StepTrue
    <2>2. ~RunStored(c, r)
      BY <2>1 DEF Alone, RunStored, About, Holding, RunningSteps
    <2> QED BY <1>2, <2>1, <2>2 DEF Continues
  <1>6. x.at = "attach" => runs'[r] # NoRun /\ runs'[r].status # "running"
    <2> SUFFICES ASSUME x.at = "attach" PROVE runs'[r] # NoRun /\ runs'[r].status # "running"
      OBVIOUS
    <2>1. runs[r] # NoRun /\ runs[r].status # "running"
      BY <1>2 DEF StepTrue
    <2>2. ASSUME RunStored(c, r) PROVE runs'[r] # NoRun /\ runs'[r].status # "running"
      <3>1. Holding(proc[c]) /\ proc[c].run = r /\ About(c, r) /\ proc[c].at \in {"run", "save"}
        BY <2>2 DEF RunStored, Holding, RunningSteps, About
      <3>2. proc[c].copy.kind = "publish" /\ StepTrue(proc[c]) /\ proc[c].copy \in RunRows
        BY <1>2, <3>1, HeldFacts
      <3>3. proc[c].at = "run" => Alone(c)
        BY <3>1, <3>2, HeldFacts DEF StepTrue
      <3>4. proc[c].at = "save"
        BY <1>2, <3>1, <3>3 DEF Alone
      <3>5. runs'[r] = proc[c].copy /\ proc[c].copy.status # "running"
        BY <2>2, <3>2, <3>4 DEF RunStored, StepTrue
      <3> QED BY <3>2, <3>5 DEF RunRows, NoRun
    <2> QED BY <1>2, <2>1, <2>2 DEF Continues
  <1>7. x.at \in ExecSteps /\ x.child = "publish" => First(x.copy) = "none" \/ tasks'[r].status = "approved"
    BY <1>2, <1>4 DEF StepTrue
  <1>8. x.at = "save" /\ tasks'[r].status = "pending" => x.copy.status = "waiting"
    BY <1>2, <1>4 DEF StepTrue
  <1>9. StepTrue(x)'
    BY <1>2, <1>5, <1>6, <1>7, <1>8 DEF StepTrue, First
  <1> QED BY <1>1, <1>9

LEMMA OthersStay ==
  ASSUME KnowledgeInv, ViewInv, NEW c \in Calls, Continues(c), NEW d \in Calls \ {c}
  PROVE  CallTrue(d)'
  <1> PICK x : x = proc[d]
    OBVIOUS
  <1>1. proc'[d] = x
    BY DEF Continues
  <1>2. CallTrue(d) /\ CallOK(x)
    BY DEF ViewInv, KnowledgeInv
  <1>3. x.at = "request" => AskTrue(x)'
    <2> SUFFICES ASSUME x.at = "request" PROVE AskTrue(x)'
      OBVIOUS
    <2>1. AskTrue(x) /\ (x.kind = "publish" => x.snap \in 1..Len(snapshots))
      BY <1>2 DEF CallTrue, CallOK, SnapOK
    <2> QED BY <2>1 DEF AskTrue, Continues, StoreGrows
  <1>4. x.at = "decided" /\ Publishes(x.run)' => tasks'[x.run].status \in {"approved", "rejected"}
    <2> SUFFICES ASSUME x.at = "decided", Publishes(x.run)' PROVE tasks'[x.run].status \in {"approved", "rejected"}
      OBVIOUS
    <2> PICK r : r = x.run
      OBVIOUS
    <2>1. r \in 1..Len(requests)
      BY <1>2 DEF CallOK
    <2>2. Publishes(r)
      BY <2>1 DEF Continues, Publishes
    <2>3. tasks[r].status \in {"approved", "rejected"}
      BY <1>2, <2>2 DEF CallTrue
    <2>4. ~TaskAsked(c, r)
      BY <2>1, <2>2, <2>3, AskedAlone DEF Alone, About, NoTask
    <2> QED BY <2>1, <2>2, <2>3, <2>4, TaskGoes
  <1>5. ASSUME Holding(x) PROVE CopyTrue(x.run, x.copy)' /\ (x.at \in Labelled => LabelTrue(x.run, x.copy)')
    <2> PICK r : r = x.run
      OBVIOUS
    <2> PICK run : run = x.copy
      OBVIOUS
    <2>1. /\ r \in 1..Len(requests) /\ run \in RunRows /\ CopyTrue(r, run) /\ About(d, r)
          /\ x.at \in Labelled => LabelTrue(r, run)
          /\ run.kind = "publish" => run.snap \in 1..Len(snapshots)
      BY <1>5, HeldFacts DEF About
    <2>2. CASE Publishes(r)
      <3>1. ~TaskAsked(c, r)
        BY <2>1, <2>2, AskedAlone DEF Alone, About
      <3> QED BY <2>1, <3>1, CopyStays
    <2>3. CASE ~Publishes(r)
      <3>1. run.kind # "publish"
        BY <2>1, <2>3, CopyKinds
      <3>2. CopyTrue(r, run)'
        BY <2>1, <3>1 DEF CopyTrue, Continues
      <3> QED BY <2>1, <3>1, <3>2 DEF LabelTrue
    <2> QED BY <2>2, <2>3
  <1>6. Holding(x) /\ x.copy.kind = "publish" => StepTrue(x)'
    BY <1>1, StepStays
  <1>7. Untried(d)' => Alone(d)'
    BY <1>1, AloneStays DEF Untried
  <1>8. x.at \in {"insert", "request"} => d \in AuthorCalls
    BY <1>2 DEF CallTrue
  <1>9. Holding(x) => CopyTrue(x.run, x.copy)'
    BY <1>5
  <1>10. x.at \in Labelled => LabelTrue(x.run, x.copy)'
    BY <1>5 DEF Holding, Labelled, RunningSteps
  <1>11. x.at = "attach" => x.copy.kind = "publish"
    BY <1>2 DEF CallTrue
  <1> QED BY <1>1, <1>3, <1>4, <1>6, <1>7, <1>8, <1>9, <1>10, <1>11 DEF CallTrue

LEMMA KeysStay ==
  ASSUME KnowledgeInv, ViewInv, NEW c \in Calls, Continues(c), requests' = requests,
         Len(snapshots') \in Nat
  PROVE  KeysTrue'
  <1>1. KeysTrue /\ Len(snapshots) \in Nat
    BY Lengths DEF ViewInv
  <1>2. \A r \in 1..Len(requests') : Publishes(r)' => requests'[r] = <<"publish", Pinned(r)', "", 0>> /\ Pinned(r)' \in 1..Len(snapshots')
    <2> SUFFICES ASSUME NEW r \in 1..Len(requests), Publishes(r)
                 PROVE  requests[r] = <<"publish", Pinned(r), "", 0>> /\ Pinned(r) \in 1..Len(snapshots')
      BY DEF Publishes, Pinned
    <2>1. requests[r] = <<"publish", Pinned(r), "", 0>> /\ Pinned(r) \in 1..Len(snapshots)
      BY <1>1 DEF KeysTrue
    <2>2. Len(snapshots) <= Len(snapshots')
      BY DEF Continues, StoreGrows
    <2> PICK m : m = Len(snapshots')
      OBVIOUS
    <2> PICK s : s = Pinned(r)
      OBVIOUS
    <2> PICK n : n = Len(snapshots)
      OBVIOUS
    <2>4. s \in 1..n
      BY <2>1
    <2>5. n \in Nat /\ m \in Nat /\ n <= m
      BY <1>1, <2>2
    <2>3. s \in 1..m
      BY <2>4, <2>5
    <2> QED BY <2>1, <2>3
  <1>3. ASSUME NEW s \in 1..Len(snapshots'), outcomes'[s] # "none"
        PROVE  \E r \in 1..Len(requests) : Publishes(r) /\ Pinned(r) = s
    <2>1. s \in 1..Len(snapshots)
      BY <1>3 DEF Continues, StoreGrows
    <2>2. CASE outcomes'[s] = outcomes[s]
      BY <1>1, <1>3, <2>1, <2>2 DEF KeysTrue
    <2>3. CASE Publishing(c, s)
      <3>1. Holding(proc[c]) /\ proc[c].at \in ExecSteps /\ proc[c].at \in {"commit", "conflict"} /\ proc[c].copy.snap = s
        BY <2>3 DEF Publishing, Holding, ExecSteps
      <3>2. proc[c].copy.kind = "publish"
        BY <3>1, HeldChild
      <3> QED BY <3>1, <3>2, HeldFacts
    <2> QED BY <2>1, <2>2, <2>3 DEF Continues
  <1>4. \A s \in 1..Len(snapshots') : outcomes'[s] # "none" => \E r \in 1..Len(requests') : Publishes(r)' /\ Pinned(r)' = s
    BY <1>3 DEF Publishes, Pinned
  <1>5. \A i, j \in 1..Len(requests') : requests'[i] = requests'[j] => i = j
    BY <1>1 DEF KeysTrue
  <1> QED BY <1>2, <1>4, <1>5 DEF KeysTrue

LEMMA StoredStays ==
  ASSUME KnowledgeInv, KnowledgeInv', ViewInv, NEW c \in Calls, Continues(c)
  PROVE  StoredTrue'
  <1> SUFFICES ASSUME NEW r \in 1..Len(requests'), runs'[r] # NoRun PROVE CopyTrue(r, runs[r])' /\ LabelTrue(r, runs[r])'
    BY DEF StoredTrue
  <1>1. r \in 1..Len(requests)
    BY DEF Continues
  <1> PICK run : run = runs'[r]
    OBVIOUS
  <1>2. CASE runs'[r] = runs[r]
    <2>1. run = runs[r] /\ run # NoRun
      BY <1>2
    <2>2. run \in RunRows /\ RunOK(run) /\ CopyTrue(r, run) /\ LabelTrue(r, run)
      BY <1>1, <2>1, Lengths DEF ViewInv, StoredTrue, KnowledgeInv, RunsOK
    <2>3. TaskAsked(c, r) => First(run) = "none" \/ run.kind # "publish"
      <3> SUFFICES ASSUME TaskAsked(c, r), run.kind = "publish" PROVE First(run) = "none"
        OBVIOUS
      <3>1. Alone(c) /\ About(c, r)
        BY <1>1, <2>2, CopyKinds, AskedAlone
      <3> QED BY <2>1, <3>1 DEF Alone, About
    <2>4. run.kind = "publish" => run.snap \in 1..Len(snapshots)
      BY <2>2 DEF RunOK, SnapOK
    <2>5. CASE run.kind = "publish"
      <3>1. CopyTrue(r, run)' /\ LabelTrue(r, run)'
        BY <1>1, <2>2, <2>3, <2>4, <2>5, CopyStays
      <3> QED BY <3>1
    <2>6. CASE run.kind # "publish"
      <3>1. CopyTrue(r, run)' /\ LabelTrue(r, run)'
        BY <1>1, <2>2, <2>6 DEF CopyTrue, LabelTrue, Continues
      <3> QED BY <3>1
    <2> QED BY <2>5, <2>6
  <1>3. CASE RunStored(c, r)
    <2>1. Holding(proc[c]) /\ proc[c].run = r /\ proc[c].at \in Labelled /\ proc[c].copy = run /\ ~TaskAsked(c, r)
      BY <1>3 DEF RunStored, Holding, RunningSteps, Labelled, TaskAsked
    <2>2. run \in RunRows /\ RunOK(run) /\ CopyTrue(r, run) /\ LabelTrue(r, run)
      BY <2>1, HeldFacts
    <2>3. run.kind = "publish" => run.snap \in 1..Len(snapshots)
      BY <2>2 DEF RunOK, SnapOK
    <2>4. CopyTrue(r, run)' /\ LabelTrue(r, run)'
      BY <1>1, <2>1, <2>2, <2>3, CopyStays
    <2> QED BY <2>4
  <1> QED BY <1>1, <1>2, <1>3 DEF Continues

LEMMA TasksStay ==
  ASSUME KnowledgeInv, KnowledgeInv', ViewInv, NEW c \in Calls, Continues(c), NEW r \in 1..Len(requests')
  PROVE  TaskTrue(r)'
  <1>1. CASE r \notin 1..Len(requests)
    <2>1. tasks'[r] = NoTask
      BY <1>1 DEF Continues
    <2> QED BY <2>1 DEF TaskTrue, NoTask
  <1>2. CASE r \in 1..Len(requests)
    <2>1. requests'[r] = requests[r] /\ TaskTrue(r)
      BY <1>2 DEF Continues, ViewInv
    <2>2. tasks'[r] # NoTask => requests'[r][1] # "retry"
      <3>1. CASE TaskAsked(c, r)
        <4>1. Holding(proc[c]) /\ proc[c].run = r
          BY <3>1 DEF TaskAsked, Holding, RunningSteps
        <4>2. CopyTrue(r, proc[c].copy) /\ proc[c].copy \in RunRows /\ proc[c].copy.kind \in RunKinds /\ proc[c].copy.kind \notin Effects
          BY <3>1, <4>1, HeldFacts, CopyKinds DEF TaskAsked
        <4> QED BY <2>1, <4>2, KeyKinds DEF CopyTrue
      <3>2. CASE TaskClosed(r)
        BY <2>1, <3>2 DEF TaskTrue, TaskClosed, NoTask
      <3>3. CASE tasks'[r] = tasks[r]
        BY <2>1, <3>3 DEF TaskTrue
      <3> QED BY <1>2, <3>1, <3>2, <3>3 DEF Continues
    <2>3. ASSUME Publishes(r)
          PROVE  /\ outcomes'[Pinned(r)] # "none" => tasks'[r].status \in {"none", "approved"}
                 /\ tasks'[r] # NoTask =>
                     /\ tasks'[r].child = "publish" /\ Author(r) \notin tasks'[r].candidates
                     /\ tasks'[r].status = "approved" => tasks'[r].by # Author(r)
                 /\ tasks'[r].status = "pending" /\ runs'[r] # NoRun => runs'[r].status \in {"running", "waiting"}
      <3>1. Pinned(r) \in 1..Len(snapshots)
        BY <1>2, <2>3 DEF ViewInv, KeysTrue
      <3>2. tasks[r] \in TaskRows
        BY <1>2, Lengths
      <3>3. CASE TaskAsked(c, r)
        <4>1. /\ Alone(c) /\ About(c, r) /\ proc[c].copy.kind = "publish"
              /\ tasks'[r].status = "pending" /\ tasks'[r].child = "publish" /\ Author(r) \notin tasks'[r].candidates
          BY <1>2, <2>3, <3>3, AskedAlone
        <4>2. proc[c].at = "child" /\ proc[c].copy.snap = Pinned(r) /\ proc[c].run = r
          BY <3>3, <4>1, HeldFacts DEF TaskAsked, About
        <4>3. outcomes'[Pinned(r)] = "none"
          <5>1. outcomes[Pinned(r)] = "none"
            BY <4>1, <4>2 DEF Alone
          <5>2. ~Publishing(c, Pinned(r))
            BY <4>2 DEF Publishing
          <5> QED BY <3>1, <5>1, <5>2 DEF Continues
        <4>4. runs'[r] = runs[r]
          <5>1. ~RunStored(c, r)
            BY <4>2 DEF RunStored
          <5> QED BY <1>2, <5>1 DEF Continues
        <4>5. runs[r] # NoRun => runs[r].status = "running"
          <5> SUFFICES ASSUME runs[r] # NoRun PROVE runs[r].status = "running"
            OBVIOUS
          <5>1. CopyTrue(r, runs[r]) /\ LabelTrue(r, runs[r]) /\ runs[r] \in RunRows /\ First(runs[r]) = "none"
            BY <1>2, <4>1, <4>2, Lengths DEF ViewInv, StoredTrue, Alone
          <5>2. runs[r].kind = "publish"
            BY <2>3, <5>1, CopyKinds
          <5> QED BY <5>1, <5>2 DEF LabelTrue
        <4> QED BY <4>1, <4>3, <4>4, <4>5
      <3>4. CASE ~TaskAsked(c, r)
        <4>1. /\ tasks[r].status # "pending" => tasks'[r] = tasks[r]
              /\ tasks'[r].status = "pending" => tasks[r].status = "pending"
              /\ tasks'[r] = tasks[r] \/ TaskClosed(r)
          BY <1>2, <2>3, <3>4, TaskGoes
        <4>2. outcomes'[Pinned(r)] # "none" => tasks'[r].status \in {"none", "approved"}
          <5> SUFFICES ASSUME outcomes'[Pinned(r)] # "none" PROVE tasks[r].status \in {"none", "approved"}
            BY <4>1
          <5>1. CASE outcomes'[Pinned(r)] = outcomes[Pinned(r)]
            BY <2>1, <2>3, <5>1 DEF TaskTrue
          <5>2. CASE Publishing(c, Pinned(r))
            BY <1>2, <2>3, <5>2, PublishingIs DEF Alone, About, NoTask
          <5> QED BY <3>1, <5>1, <5>2 DEF Continues
        <4>3. tasks'[r] # NoTask =>
                /\ tasks'[r].child = "publish" /\ Author(r) \notin tasks'[r].candidates
                /\ tasks'[r].status = "approved" => tasks'[r].by # Author(r)
          <5>1. CASE tasks'[r] = tasks[r]
            BY <2>1, <2>3, <5>1 DEF TaskTrue
          <5>2. CASE TaskClosed(r)
            <6> PICK verdict \in {"approved", "rejected", "cancelled"}, p \in tasks[r].candidates \cup {tasks[r].by} :
                  /\ tasks[r].status = "pending" /\ tasks'[r] = [tasks[r] EXCEPT !.status = verdict, !.by = p]
                  /\ verdict = "approved" => p \in tasks[r].candidates
              BY <5>2 DEF TaskClosed
            <6>1. tasks[r] # NoTask
              BY DEF NoTask
            <6>2. /\ tasks'[r].child = tasks[r].child /\ tasks'[r].candidates = tasks[r].candidates
                  /\ tasks'[r].status = verdict /\ tasks'[r].by = p
              BY <3>2, <6>1 DEF TaskRows
            <6>3. tasks[r].child = "publish" /\ Author(r) \notin tasks[r].candidates
              BY <2>1, <2>3, <6>1 DEF TaskTrue
            <6> QED BY <6>2, <6>3
          <5> QED BY <4>1, <5>1, <5>2
        <4>4. tasks'[r].status = "pending" /\ runs'[r] # NoRun => runs'[r].status \in {"running", "waiting"}
          <5> SUFFICES ASSUME tasks'[r].status = "pending", runs'[r] # NoRun PROVE runs'[r].status \in {"running", "waiting"}
            OBVIOUS
          <5>1. tasks[r].status = "pending"
            BY <4>1
          <5>2. CASE runs'[r] = runs[r]
            BY <2>1, <2>3, <5>1, <5>2 DEF TaskTrue
          <5>3. CASE RunStored(c, r)
            <6>1. Holding(proc[c]) /\ proc[c].run = r /\ proc[c].at \in {"run", "save"} /\ runs'[r] = proc[c].copy
              BY <5>3 DEF RunStored, Holding, RunningSteps
            <6>2. proc[c].copy.kind = "publish" /\ StepTrue(proc[c])
                  /\ (First(proc[c].copy) = "none" => Alone(c))
              BY <2>3, <6>1, HeldFacts
            <6>3. proc[c].at = "save"
              BY <5>1, <6>1, <6>2 DEF StepTrue, Alone, NoTask
            <6> QED BY <5>1, <6>1, <6>2, <6>3 DEF StepTrue
          <5> QED BY <1>2, <5>2, <5>3 DEF Continues
        <4> QED BY <4>2, <4>3, <4>4
      <3> QED BY <3>3, <3>4
    <2>4. Publishes(r)' = Publishes(r) /\ Pinned(r)' = Pinned(r)
      BY <2>1 DEF Publishes, Pinned
    <2>5. Publishes(r) => Author(r)' = Author(r)
      <3> SUFFICES ASSUME Publishes(r) PROVE Author(r)' = Author(r)
        OBVIOUS
      <3>1. Pinned(r) \in 1..Len(snapshots)
        BY <1>2 DEF ViewInv, KeysTrue
      <3> QED BY <2>4, <3>1 DEF Author, Continues, StoreGrows
    <2> QED BY <2>2, <2>3, <2>4, <2>5 DEF TaskTrue
  <1> QED BY <1>1, <1>2

(* Attaching a request, and what stays while nothing goes wrong.            *)
Attaches(c) == attached' = attached \/ (proc[c].at = "attach" /\ attached' = attached \cup {proc[c].run})

LEMMA AttachedStays ==
  ASSUME KnowledgeInv, KnowledgeInv', ViewInv, NEW c \in Calls, Continues(c), Attaches(c)
  PROVE  AttachedTrue'
  <1> SUFFICES ASSUME NEW r \in attached'
               PROVE  r \in 1..Len(requests') /\ Publishes(r)' /\ runs'[r] # NoRun /\ runs'[r].status # "running"
    BY DEF AttachedTrue
  <1>1. r \in 1..Len(requests) /\ Publishes(r) /\ runs[r] # NoRun /\ runs[r].status # "running"
    <2>1. CASE r \in attached
      BY <2>1 DEF ViewInv, AttachedTrue
    <2>2. CASE proc[c].at = "attach" /\ r = proc[c].run
      <3>1. Holding(proc[c]) /\ proc[c].copy.kind = "publish"
        BY <2>2 DEF Holding, RunningSteps, ViewInv, CallTrue
      <3> QED BY <2>2, <3>1, HeldFacts DEF StepTrue
    <2> QED BY <2>1, <2>2 DEF Attaches
  <1>2. r \in 1..Len(requests') /\ Publishes(r)'
    <2>1. Len(requests) \in Nat /\ Len(requests') \in Nat /\ Len(requests) <= Len(requests')
      <3>1. Len(requests)' \in Nat
        BY Lengths
      <3> QED BY <3>1, Lengths DEF Continues
    <2> QED BY <1>1, <2>1 DEF Continues, Publishes
  <1>3. CASE runs'[r] = runs[r]
    BY <1>1, <1>2, <1>3
  <1>4. CASE RunStored(c, r)
    <2>1. Holding(proc[c]) /\ proc[c].run = r /\ proc[c].at \in {"run", "save"} /\ runs'[r] = proc[c].copy
      BY <1>4 DEF RunStored, Holding, RunningSteps
    <2>2. proc[c].copy.kind = "publish" /\ StepTrue(proc[c]) /\ proc[c].copy \in RunRows
      BY <1>1, <2>1, HeldFacts
    <2>3. proc[c].at = "save"
      BY <1>1, <2>1, <2>2 DEF StepTrue
    <2>4. proc[c].copy.status # "running"
      BY <2>2, <2>3 DEF StepTrue
    <2>5. proc[c].copy # NoRun
      BY <2>2 DEF RunRows, NoRun
    <2> QED BY <1>2, <2>1, <2>4, <2>5
  <1> QED BY <1>1, <1>3, <1>4 DEF Continues

(* Who is at a publication that is not attached yet stays at it, or trouble *)
(* is counted; and a failed effect is trouble.                              *)
Tends(c) ==
    /\ troubles' \in Nat /\ troubles <= troubles'
    /\ troubles' = 0 =>
        /\ c \in AuthorCalls => \A r \in 1..Len(requests) : Publishes(r) /\ About(c, r) => About(c, r)' \/ r \in attached'
        /\ \A r \in 1..Len(requests') : r \notin 1..Len(requests) => c \in AuthorCalls /\ About(c, r)'
        /\ \A s \in 1..Len(snapshots'), e \in Effects :
             effects'[s][e].status = "failed" => s \in 1..Len(snapshots) /\ effects[s][e].status = "failed"

LEMMA UntroubledStays ==
  ASSUME KnowledgeInv, ViewInv, NEW c \in Calls, Continues(c), Attaches(c), Tends(c)
  PROVE  troubles' \in Nat /\ Untroubled'
  <1>1. troubles' \in Nat
    BY DEF Tends
  <1> SUFFICES ASSUME troubles' = 0
               PROVE  /\ \A s \in 1..Len(snapshots'), e \in Effects : effects'[s][e].status # "failed"
                      /\ \A r \in 1..Len(requests') : Publishes(r)' /\ r \notin attached' => \E d \in AuthorCalls : About(d, r)'
    BY <1>1 DEF Untroubled
  <1>2. troubles = 0
    BY DEF Tends, ViewInv
  <1>3. /\ \A s \in 1..Len(snapshots), e \in Effects : effects[s][e].status # "failed"
        /\ \A r \in 1..Len(requests) : Publishes(r) /\ r \notin attached => \E d \in AuthorCalls : About(d, r)
    BY <1>2 DEF ViewInv, Untroubled
  <1>4. \A s \in 1..Len(snapshots'), e \in Effects : effects'[s][e].status # "failed"
    BY <1>3 DEF Tends
  <1>5. ASSUME NEW r \in 1..Len(requests'), Publishes(r)', r \notin attached' PROVE \E d \in AuthorCalls : About(d, r)'
    <2>1. CASE r \notin 1..Len(requests)
      BY <2>1 DEF Tends
    <2>2. CASE r \in 1..Len(requests)
      <3>1. Publishes(r)
        BY <1>5, <2>2 DEF Continues, Publishes
      <3>2. r \notin attached
        BY <1>5 DEF Attaches
      <3> PICK d \in AuthorCalls : About(d, r)
        BY <1>3, <2>2, <3>1, <3>2
      <3>3. CASE d = c
        BY <1>5, <2>2, <3>1, <3>3 DEF Tends
      <3>4. CASE d # c
        <4>1. proc'[d] = proc[d]
          BY <3>4 DEF Continues, Calls
        <4> QED BY <4>1 DEF About
      <3> QED BY <3>3, <3>4
    <2> QED BY <2>1, <2>2
  <1> QED BY <1>4, <1>5

(* A step of call c.                                                        *)
LEMMA StepSees ==
  ASSUME KnowledgeInv, KnowledgeInv', ViewInv, NEW c \in Calls, Continues(c), Attaches(c), Tends(c), KeysTrue', CallTrue(c)'
  PROVE  ViewInv'
  <1>1. StoredTrue' /\ AttachedTrue' /\ troubles' \in Nat /\ Untroubled'
    BY StoredStays, AttachedStays, UntroubledStays
  <1>2. \A r \in 1..Len(requests') : TaskTrue(r)'
    BY TasksStay
  <1>3. \A d \in Calls : CallTrue(d)'
    BY OthersStay
  <1> QED BY <1>1, <1>2, <1>3 DEF ViewInv

(* What comes next in a run, and what it is said to be at its end.          *)
LEMMA NextOfPublish ==
  ASSUME NEW run \in RunRows, run.kind = "publish"
  PROVE  /\ NextChild(run) # "none" => First(run) \in {"none", "succeeded"}
         /\ First(run) = "none" <=> NextChild(run) = "publish"
         /\ NextChild(run) \in {"publish", "reindex", "notify", "none"}
  <1> DEFINE plan == Plan(run)
             open == {i \in 1..Len(plan) : run.children[plan[i]] = "none"}
             next == CHOOSE i \in open : \A j \in open : i <= j
  <1>1. Len(plan) = 3 /\ plan[1] = "publish" /\ plan[2] = "reindex" /\ plan[3] = "notify"
    BY DEF Plan
  <1>2. open \subseteq {1, 2, 3}
    BY <1>1
  <1>3. ASSUME open # {} PROVE next \in open /\ \A j \in open : next <= j
    <2>1. \E i \in open : \A j \in open : i <= j
      <3> HIDE DEF open
      <3>1. CASE 1 \in open
        <4>1. \A j \in open : 1 <= j
          BY <1>2
        <4> QED BY <3>1, <4>1
      <3>2. CASE 1 \notin open /\ 2 \in open
        <4>1. \A j \in open : 2 <= j
          BY <1>2, <3>2
        <4> QED BY <3>2, <4>1
      <3>3. CASE 1 \notin open /\ 2 \notin open
        <4>1. open = {3}
          BY <1>2, <1>3, <3>3
        <4> QED BY <4>1
      <3> QED BY <3>1, <3>2, <3>3
    <2> HIDE DEF open
    <2> QED BY <2>1
  <1>4. NextChild(run) = IF First(run) \notin {"none", "succeeded"} \/ open = {} THEN "none" ELSE plan[next]
    BY <1>1 DEF NextChild, First
  <1>5. 1 \in open <=> First(run) = "none"
    BY <1>1 DEF First
  <1> HIDE DEF open, next, plan
  <1>6. ASSUME open # {} PROVE next \in {1, 2, 3} /\ plan[next] \in {"publish", "reindex", "notify"} /\ (plan[next] = "publish" <=> next = 1)
    BY <1>1, <1>2, <1>3, <1>6
  <1>7. First(run) = "none" => open # {} /\ next = 1
    <2> SUFFICES ASSUME First(run) = "none" PROVE open # {} /\ next = 1
      OBVIOUS
    <2>1. 1 \in open /\ open # {}
      BY <1>5
    <2>2. next \in {1, 2, 3} /\ next <= 1
      BY <1>3, <1>6, <2>1
    <2> QED BY <2>1, <2>2
  <1>8. open # {} /\ next = 1 => First(run) = "none"
    BY <1>3, <1>5
  <1> QED BY <1>1, <1>4, <1>6, <1>7, <1>8

LEMMA NextOfEffect ==
  ASSUME NEW run \in RunRows, run.kind \in Effects
  PROVE  NextChild(run) \in {run.kind, "none"}
  <1> DEFINE plan == Plan(run)
             open == {i \in 1..Len(plan) : run.children[plan[i]] = "none"}
             next == CHOOSE i \in open : \A j \in open : i <= j
  <1>1. Len(plan) = 1 /\ plan[1] = run.kind
    BY DEF Plan, Effects
  <1>2. open \subseteq {1}
    BY <1>1
  <1>3. ASSUME open # {} PROVE next = 1
    <2>1. open = {1}
      BY <1>2, <1>3
    <2> HIDE DEF open
    <2>2. next = CHOOSE i \in {1} : \A j \in {1} : i <= j
      BY <2>1
    <2>3. \E i \in {1} : \A j \in {1} : i <= j
      OBVIOUS
    <2> QED BY <2>2, <2>3
  <1>4. NextChild(run) = "none" \/ (open # {} /\ NextChild(run) = plan[next])
    BY DEF NextChild
  <1> QED BY <1>1, <1>3, <1>4

LEMMA EndOfRun ==
  ASSUME NEW run \in RunRows
  PROVE  /\ StatusOf(run) \notin {"running", "input"}
         /\ run.kind = "publish" => /\ StatusOf(run) = "rejected" => First(run) = "rejected"
                                    /\ First(run) = "waiting" => StatusOf(run) = "waiting"
                                    /\ StatusOf(run) = "succeeded" => First(run) \in {"none", "succeeded"}
         /\ run.kind \in Effects /\ (\A k \in Children : run.children[k] # "rejected") => StatusOf(run) # "rejected"
  <1>1. StatusOf(run) \notin {"running", "input"}
    BY DEF StatusOf
  <1>2. ASSUME run.kind = "publish"
        PROVE  /\ StatusOf(run) = "rejected" => First(run) = "rejected"
               /\ First(run) = "waiting" => StatusOf(run) = "waiting"
               /\ StatusOf(run) = "succeeded" => First(run) \in {"none", "succeeded"}
    <2>1. Len(Plan(run)) = 3 /\ Plan(run)[1] = "publish"
      BY <1>2 DEF Plan
    <2>2. First(run) \in Results
      BY DEF RunRows, First, Children
    <2>3. First(run) = "failed" => \E i \in 1..Len(Plan(run)) : run.children[Plan(run)[i]] = "failed"
      BY <2>1 DEF First
    <2>4. run.children[Plan(run)[1]] = First(run) /\ run.kind # "maintain"
      BY <1>2, <2>1 DEF First
    <2>5. First(run) \in {"waiting", "rejected", "cancelled"} => StatusOf(run) = First(run)
      BY <2>4 DEF StatusOf
    <2>6. First(run) \notin {"waiting", "rejected", "cancelled"} => StatusOf(run) \in {"failed", "succeeded"}
      BY <2>4 DEF StatusOf
    <2>7. First(run) = "failed" => StatusOf(run) = "failed"
      BY <2>3, <2>4 DEF StatusOf
    <2> QED BY <2>2, <2>5, <2>6, <2>7 DEF Results
  <1>3. ASSUME run.kind \in Effects, \A k \in Children : run.children[k] # "rejected" PROVE StatusOf(run) # "rejected"
    <2>1. Plan(run)[1] = run.kind /\ run.kind \in Children
      BY <1>3 DEF Plan, Effects, Children
    <2>2. run.children[Plan(run)[1]] # "rejected"
      BY <1>3, <2>1
    <2> QED BY <2>2 DEF StatusOf
  <1> QED BY <1>1, <1>2, <1>3

(* What a call is at, in the copy it holds, has to be true.                 *)
AloneAt(c, r, s) ==
    /\ tasks[r] = NoTask /\ (runs[r] # NoRun => First(runs[r]) = "none") /\ outcomes[s] = "none"
    /\ \A d \in Calls \ {c} : ~About(d, r)

LEMMA NewCall ==
  ASSUME NEW c \in Calls, DOMAIN proc = Calls, NEW x, proc' = [proc EXCEPT ![c] = x]
  PROVE  /\ proc'[c] = x /\ \A d \in Calls \ {c} : proc'[d] = proc[d]
         /\ \A r : About(c, r)' <=> Holding(x) /\ x.run = r
  BY DEF About, Holding

LEMMA NotHolding ==
  ASSUME NEW c \in Calls, proc'[c].at \notin {"insert", "request", "decided"}, ~Holding(proc'[c])
  PROVE  CallTrue(c)'
  <1>1. proc'[c].at \notin Labelled /\ proc'[c].at # "attach"
    BY DEF Labelled, Holding, RunningSteps
  <1> QED BY <1>1 DEF CallTrue, Untried, Holding

LEMMA IsHolding ==
  ASSUME NEW c \in Calls, NEW x, proc'[c] = x, Holding(x), CopyTrue(x.run, x.copy)',
         x.at \in Labelled => LabelTrue(x.run, x.copy)',
         x.at = "attach" => x.copy.kind = "publish",
         x.copy.kind = "publish" => StepTrue(x)',
         x.copy.kind = "publish" /\ First(x.copy) = "none" => Alone(c)'
  PROVE  CallTrue(c)'
  <1>1. x.at \notin {"insert", "request", "decided"}
    BY DEF Holding, RunningSteps, ExecSteps
  <1>2. Holding(x)' /\ (Untried(c)' => x.copy.kind = "publish" /\ First(x.copy) = "none")
    BY DEF Untried, Holding, First
  <1> QED BY <1>1, <1>2 DEF CallTrue

(* A step of call c that changes what no other call relies on.              *)
Steady == UNCHANGED <<requests, runs, tasks, attached, snapshots>>
OutcomesTend(c) ==
    /\ Len(outcomes') = Len(outcomes)
    /\ \A s \in 1..Len(snapshots) : outcomes'[s] = outcomes[s] \/ Publishing(c, s)
EffectsTend ==
    /\ troubles' \in {troubles, troubles + 1}
    /\ troubles' = 0 => \A s \in 1..Len(snapshots), e \in Effects :
                           effects'[s][e].status = "failed" => effects[s][e].status = "failed"
StaysAt(c, x) ==
    troubles' = 0 /\ c \in AuthorCalls /\ Holding(proc[c]) /\ Publishes(proc[c].run)
        => (Holding(x) /\ x.run = proc[c].run) \/ proc[c].run \in attached

LEMMA SteadyContinues ==
  ASSUME KnowledgeInv, ViewInv, NEW c \in Calls, NEW x, proc' = [proc EXCEPT ![c] = x], Steady, OutcomesTend(c),
         Holding(x) => About(c, x.run) \/ Takes(x.run)
  PROVE  Continues(c)
  <1>1. StoreGrows /\ \A s \in 1..Len(snapshots) : outcomes'[s] = outcomes[s] \/ Publishing(c, s)
    BY Lengths DEF StoreGrows, Steady, OutcomesTend
  <1>2. /\ requests' = requests /\ runs' = runs /\ tasks' = tasks /\ Len(requests) \in Nat
    BY Lengths DEF Steady
  <1>3. (\A d \in Calls \ {c} : proc'[d] = proc[d]) /\ \A r : About(c, r)' <=> Holding(x) /\ x.run = r
    BY NewCall, Lengths
  <1>4. \A r : About(c, r)' => About(c, r) \/ Takes(r)
    BY <1>3
  <1> QED BY <1>1, <1>2, <1>3, <1>4 DEF Continues

LEMMA Moves ==
  ASSUME KnowledgeInv, KnowledgeInv', ViewInv, NEW c \in Calls, NEW x, proc' = [proc EXCEPT ![c] = x],
         Steady, OutcomesTend(c), EffectsTend, StaysAt(c, x),
         Holding(x) => About(c, x.run) \/ Takes(x.run), CallTrue(c)'
  PROVE  ViewInv'
  <1>1. Continues(c)
    BY SteadyContinues
  <1>2. Attaches(c) /\ requests' = requests /\ Len(snapshots') \in Nat
    BY Lengths DEF Attaches, Steady
  <1>3. KeysTrue'
    BY <1>1, <1>2, KeysStay
  <1>4. Tends(c)
    <2>1. troubles' \in Nat /\ troubles <= troubles'
      BY DEF EffectsTend, ViewInv
    <2>2. ASSUME troubles' = 0, NEW s \in 1..Len(snapshots'), NEW e \in Effects, effects'[s][e].status = "failed"
          PROVE  s \in 1..Len(snapshots) /\ effects[s][e].status = "failed"
      BY <2>2 DEF EffectsTend, Steady
    <2>3. ASSUME troubles' = 0, c \in AuthorCalls, NEW r \in 1..Len(requests), Publishes(r), About(c, r)
          PROVE  About(c, r)' \/ r \in attached'
      <3>1. (Holding(x) /\ x.run = r) \/ r \in attached
        BY <2>3 DEF StaysAt, About
      <3> QED BY <3>1, NewCall, Lengths DEF Steady
    <2> QED BY <1>2, <2>1, <2>2, <2>3 DEF Tends
  <1> QED BY <1>1, <1>2, <1>3, <1>4, StepSees

(* A step that no call takes.                                               *)
LEMMA QuietSees ==
  ASSUME KnowledgeInv, ViewInv, Steady, UNCHANGED <<outcomes, effects, proc>>, troubles' \in {troubles, troubles + 1}
  PROVE  ViewInv'
  <1>1. KeysTrue'
    BY DEF ViewInv, KeysTrue, Steady, Publishes, Pinned
  <1>2. StoredTrue' /\ AttachedTrue' /\ \A r \in 1..Len(requests') : TaskTrue(r)'
    BY DEF ViewInv, StoredTrue, AttachedTrue, TaskTrue, CopyTrue, LabelTrue, Steady, Publishes, Pinned, Author
  <1>3. ASSUME NEW c \in Calls PROVE CallTrue(c)'
    <2>1. CallTrue(c)
      BY DEF ViewInv
    <2> PICK x : x = proc[c]
      OBVIOUS
    <2> PICK y : y = x.copy
      OBVIOUS
    <2> PICK r : r = x.run
      OBVIOUS
    <2>2. proc'[c] = x /\ proc'[c].copy = y /\ proc'[c].run = r
      OBVIOUS
    <2>3. (AskTrue(x) => AskTrue(x)') /\ (StepTrue(x) => StepTrue(x)')
      BY DEF AskTrue, StepTrue, Steady
    <2>4. (CopyTrue(r, y) => CopyTrue(r, y)') /\ (LabelTrue(r, y) => LabelTrue(r, y)') /\ Publishes(r)' = Publishes(r)
      BY DEF CopyTrue, LabelTrue, Publishes, Pinned, Author, Steady
    <2>5. Alone(c) => Alone(c)'
      BY DEF Alone, About, Steady
    <2> QED BY <2>1, <2>2, <2>3, <2>4, <2>5 DEF CallTrue, Untried, Steady
  <1>4. troubles' \in Nat /\ Untroubled'
    BY DEF ViewInv, Untroubled, About, Publishes, Steady
  <1> QED BY <1>1, <1>2, <1>3, <1>4 DEF ViewInv

(* A call goes on with its run: to the next child, or to saving it.         *)
LEMMA AdvanceSees ==
  ASSUME KnowledgeInv, NEW c \in Calls, NEW run \in RunRows, NEW r, r = proc[c].run, Advance(c, run), CopyTrue(r, run)',
         run.kind = "publish" /\ tasks'[r].status = "pending" => First(run) = "waiting",
         run.kind = "publish" /\ First(run) = "none" => AloneAt(c, r, run.snap)'
  PROVE  \E x : proc' = [proc EXCEPT ![c] = x] /\ Holding(x) /\ x.run = r /\ CallTrue(c)'
  <1>1. DOMAIN proc = Calls
    BY Lengths
  <1>2. ASSUME Holds(c, "child", run), NextChild(run) # "none"
        PROVE  \E x : proc' = [proc EXCEPT ![c] = x] /\ Holding(x) /\ x.run = r /\ CallTrue(c)'
    <2> PICK x : x = [at |-> "child", run |-> r, copy |-> run]
      OBVIOUS
    <2>1. x.at = "child" /\ x.run = r /\ x.copy = run /\ Holding(x)
      BY DEF Holding, RunningSteps
    <2>2. proc' = [proc EXCEPT ![c] = x]
      BY <1>2 DEF Holds
    <2>3. proc'[c] = x
      BY <1>1, <2>2
    <2>4. run.kind = "publish" => StepTrue(x)'
      BY <1>2, <2>1, NextOfPublish DEF StepTrue, ExecSteps
    <2>5. run.kind = "publish" /\ First(run) = "none" => Alone(c)'
      BY <2>1, <2>3 DEF Alone, AloneAt
    <2>6. CallTrue(c)'
      BY <2>1, <2>3, <2>4, <2>5, IsHolding DEF Labelled
    <2> QED BY <2>1, <2>2, <2>6
  <1>3. ASSUME NEW over, over = [run EXCEPT !.status = StatusOf(run)], Holds(c, "save", over), NextChild(run) = "none"
        PROVE  \E x : proc' = [proc EXCEPT ![c] = x] /\ Holding(x) /\ x.run = r /\ CallTrue(c)'
    <2> PICK x : x = [at |-> "save", run |-> r, copy |-> over]
      OBVIOUS
    <2>1. x.at = "save" /\ x.run = r /\ x.copy = over /\ Holding(x)
      BY DEF Holding, RunningSteps
    <2>2. proc' = [proc EXCEPT ![c] = x]
      BY <1>3 DEF Holds
    <2>3. proc'[c] = x
      BY <1>1, <2>2
    <2>4. /\ over.kind = run.kind /\ over.snap = run.snap /\ over.by = run.by /\ over.children = run.children
          /\ over.status = StatusOf(run) /\ First(over) = First(run)
      BY <1>3 DEF RunRows, First
    <2>5. CopyTrue(r, over)'
      BY <2>4 DEF CopyTrue, First
    <2>6. run.kind = "publish" => First(run) # "none" /\ First(run) \in Results
      BY <1>3, NextOfPublish DEF RunRows, First, Children
    <2>7. LabelTrue(r, over)'
      <3>1. run.kind \in Effects => \A k \in Children : run.children[k] # "rejected"
        BY DEF CopyTrue
      <3>2. run.kind = "publish" /\ First(run) = "rejected" => tasks'[r].status = "rejected"
        BY DEF CopyTrue
      <3> QED BY <2>4, <2>6, <3>1, <3>2, EndOfRun DEF LabelTrue
    <2>8. run.kind = "publish" => StepTrue(x)'
      BY <2>1, <2>4, <2>6, EndOfRun DEF StepTrue, ExecSteps
    <2>9. CallTrue(c)'
      BY <2>1, <2>3, <2>4, <2>5, <2>6, <2>7, <2>8, IsHolding
    <2> QED BY <2>1, <2>2, <2>9
  <1> QED BY <1>2, <1>3 DEF Advance

LEMMA FinishSees ==
  ASSUME KnowledgeInv, NEW c \in Calls, NEW run \in RunRows, NEW r, r = proc[c].run, NEW child, NEW ending \in Results \ {"none"},
         FinishChild(c, child, ending, run), CopyTrue(r, run)',
         run.kind \in Effects => ending # "rejected",
         run.kind = "publish" /\ child = "publish" =>
            /\ ending = "rejected" => tasks'[r].status = "rejected"
            /\ ending = "succeeded" => tasks'[r].status \in {"none", "approved"}
            /\ tasks'[r].status = "pending" => ending = "waiting",
         run.kind = "publish" /\ child # "publish" => First(run) = "succeeded"
  PROVE  \E x : proc' = [proc EXCEPT ![c] = x] /\ Holding(x) /\ x.run = r /\ CallTrue(c)'
  <1>1. PICK y : y = [run EXCEPT !.children[child] = ending]
    OBVIOUS
  <1>2. /\ y \in RunRows /\ y.kind = run.kind /\ y.snap = run.snap /\ y.by = run.by
        /\ First(y) = IF child = "publish" THEN ending ELSE First(run)
        /\ \A k \in Children : y.children[k] = IF k = child THEN ending ELSE run.children[k]
    BY <1>1 DEF RunRows, Children, First
  <1>3. run.kind = "publish" => First(y) # "none"
    BY <1>2
  <1>4. CopyTrue(r, y)'
    BY <1>2 DEF CopyTrue, First
  <1>5. run.kind = "publish" /\ tasks'[r].status = "pending" => First(y) = "waiting"
    <2>1. run.kind = "publish" /\ First(run) = "succeeded" => tasks'[r].status \in {"none", "approved"}
      BY DEF CopyTrue
    <2> QED BY <1>2, <2>1
  <1>6. Advance(c, y)
    BY <1>1 DEF FinishChild
  <1> QED BY <1>2, <1>3, <1>4, <1>5, <1>6, AdvanceSees

(* A tool of the call answers, or the call goes on within it.               *)
LEMMA RanSees ==
  ASSUME KnowledgeInv, KnowledgeInv', ViewInv, NEW c \in Calls, proc[c].at \in ExecSteps, NEW ending \in {"succeeded", "failed"},
         Ran(c, ending), Steady, OutcomesTend(c), EffectsTend
  PROVE  ViewInv'
  <1> PICK run : run = proc[c].copy
    OBVIOUS
  <1> PICK r : r = proc[c].run
    OBVIOUS
  <1> PICK child : child = proc[c].child
    OBVIOUS
  <1>1. Holding(proc[c]) /\ About(c, r)
    BY DEF Holding, About
  <1>2. run \in RunRows /\ CopyTrue(r, run) /\ r \in 1..Len(requests)
    BY <1>1, HeldFacts
  <1>3. CopyTrue(r, run)'
    BY <1>2 DEF CopyTrue, Pinned, Author, Steady
  <1>4. run.kind = "publish" => StepTrue(proc[c]) /\ (First(run) = "none" => tasks[r] = NoTask)
    BY <1>1, HeldFacts DEF Alone
  <1>5. run.kind = "publish" => (child # "publish" => First(run) = "succeeded") /\ (child = "publish" => tasks[r].status \in {"none", "approved"})
    BY <1>4 DEF StepTrue, NoTask
  <1>6. FinishChild(c, child, ending, run)
    BY DEF Ran
  <1>7. tasks' = tasks /\ ending \in Results \ {"none"}
    BY DEF Steady, Results
  <1>8. \E x : proc' = [proc EXCEPT ![c] = x] /\ Holding(x) /\ x.run = r /\ CallTrue(c)'
    BY <1>2, <1>3, <1>5, <1>6, <1>7, FinishSees
  <1> PICK x : proc' = [proc EXCEPT ![c] = x] /\ Holding(x) /\ x.run = r /\ CallTrue(c)'
    BY <1>8
  <1>9. StaysAt(c, x)
    BY DEF StaysAt
  <1> QED BY <1>1, <1>9, Moves

LEMMA GoSees ==
  ASSUME KnowledgeInv, KnowledgeInv', ViewInv, NEW c \in Calls, proc[c].at \in ExecSteps, NEW step \in ExecSteps,
         Go(c, step), Steady, OutcomesTend(c), EffectsTend
  PROVE  ViewInv'
  <1> PICK run : run = proc[c].copy
    OBVIOUS
  <1> PICK r : r = proc[c].run
    OBVIOUS
  <1> PICK child : child = proc[c].child
    OBVIOUS
  <1> PICK x : x = [proc[c] EXCEPT !.at = step]
    OBVIOUS
  <1>1. Holding(proc[c]) /\ About(c, r)
    BY DEF Holding, About
  <1>2. x.at = step /\ x.run = r /\ x.copy = run /\ x.child = child
    <2>1. proc[c] \in ExecCalls
      BY HeldChild
    <2> QED BY <2>1 DEF ExecCalls
  <1>3. proc' = [proc EXCEPT ![c] = x] /\ proc'[c] = x
    BY Lengths DEF Go
  <1>4. Holding(x) /\ step \notin Labelled /\ step \notin {"analyze", "run", "child", "save", "attach", "cancel"}
    BY <1>2 DEF Holding, Labelled, ExecSteps
  <1>5. CopyTrue(r, run)'
    <2>1. CopyTrue(r, run)
      BY <1>1, HeldFacts
    <2> QED BY <2>1 DEF CopyTrue, Pinned, Author, Steady
  <1>6. run.kind = "publish" => StepTrue(x)'
    <2>1. run.kind = "publish" => StepTrue(proc[c])
      BY <1>1, HeldFacts
    <2>2. run.kind = "publish" => (child # "publish" => First(run) = "succeeded") /\ (child = "publish" => First(run) = "none" \/ tasks[r].status = "approved")
      BY <2>1 DEF StepTrue
    <2> QED BY <1>2, <1>4, <2>2 DEF StepTrue, Steady
  <1>7. run.kind = "publish" /\ First(run) = "none" => Alone(c)'
    <2> SUFFICES ASSUME run.kind = "publish", First(run) = "none" PROVE Alone(c)'
      OBVIOUS
    <2>1. Alone(c)
      BY <1>1, HeldFacts
    <2>2. \A d \in Calls \ {c} : ~About(d, r)'
      <3>1. \A d \in Calls \ {c} : proc'[d] = proc[d]
        BY <1>3, NewCall, Lengths
      <3> QED BY <2>1, <3>1 DEF Alone, About
    <2> QED BY <1>2, <1>3, <1>4, <2>1, <2>2 DEF Alone, Steady
  <1>8. CallTrue(c)'
    BY <1>2, <1>3, <1>4, <1>5, <1>6, <1>7, IsHolding
  <1>9. StaysAt(c, x)
    BY <1>2, <1>4 DEF StaysAt
  <1> QED BY <1>1, <1>2, <1>3, <1>8, <1>9, Moves

LEMMA EndsSees ==
  ASSUME KnowledgeInv, KnowledgeInv', ViewInv, NEW c \in Calls, Ends(c), Steady, OutcomesTend(c), EffectsTend,
         ~Holding(proc[c]) \/ troubles' # 0
  PROVE  ViewInv'
  <1>1. proc' = [proc EXCEPT ![c] = NoCall] /\ proc'[c] = NoCall
    BY Lengths DEF Ends
  <1>2. ~Holding(NoCall) /\ NoCall.at = "idle"
    BY DEF NoCall, Holding, RunningSteps, ExecSteps
  <1>3. CallTrue(c)'
    BY <1>1, <1>2, NotHolding
  <1>4. StaysAt(c, NoCall)
    BY DEF StaysAt
  <1> QED BY <1>1, <1>2, <1>3, <1>4, Moves

(* Steps that touch nothing but the call.                                   *)
LEMMA RestIsSteady ==
  ASSUME KnowledgeInv, ViewInv, UNCHANGED storeVars, UNCHANGED <<requests, runs, tasks, attached>>, NEW c \in Calls
  PROVE  /\ Steady /\ OutcomesTend(c)
         /\ troubles' \in {troubles, troubles + 1} => EffectsTend
  BY DEF storeVars, Steady, OutcomesTend, EffectsTend

LEMMA EditDraftSees == ASSUME KnowledgeInv, ViewInv, NEW p \in People, EditDraft(p) PROVE ViewInv'
  BY QuietSees DEF EditDraft, Steady, platformVars

LEMMA RestorePageSees == ASSUME KnowledgeInv, ViewInv, NEW p \in People, RestorePage(p) PROVE ViewInv'
  BY QuietSees DEF RestorePage, Steady, platformVars

LEMMA RevokeSees == ASSUME KnowledgeInv, ViewInv, NEW p \in People, Revoke(p) PROVE ViewInv'
  BY QuietSees DEF Revoke, Steady, storeVars

LEMMA PreparePublicationSees ==
  ASSUME KnowledgeInv, KnowledgeInv', ViewInv, NEW c \in AuthorCalls, PreparePublication(c)
  PROVE  ViewInv'
  <1>1. c \in Calls /\ ~Holding(proc[c])
    BY DEF Calls, PreparePublication, Holding, RunningSteps, ExecSteps
  <1>2. Steady /\ OutcomesTend(c) /\ EffectsTend
    BY <1>1, RestIsSteady DEF PreparePublication
  <1> PICK x : proc' = [proc EXCEPT ![c] = x] /\ x.at = "insert"
    <2> DEFINE latest == Len(revisions)
               reuse == latest > 0 /\ revisions[latest] = draft.text
               y(p) == [revision |-> IF reuse THEN latest ELSE latest + 1,
                        expected |-> page.version, by |-> p, wide |-> draft.wide]
               asked(p) == [at |-> "insert", reuse |-> reuse, text |-> draft.text, snapshot |-> y(p)]
    <2>1. PICK p \in People : proc' = [proc EXCEPT ![c] = asked(p)]
      BY Zenon DEF PreparePublication
    <2>2. asked(p).at = "insert"
      OBVIOUS
    <2> HIDE DEF asked
    <2> QED BY <2>1, <2>2
  <1>3. ~Holding(x) /\ proc'[c] = x
    BY <1>1, Lengths DEF Holding, RunningSteps, ExecSteps
  <1>4. CallTrue(c)'
    <2>1. "insert" \notin Labelled /\ ~Untried(c)' /\ ~Holding(x)'
      BY <1>3 DEF Labelled, Untried, Holding
    <2> QED BY <1>3, <2>1 DEF CallTrue
  <1>5. StaysAt(c, x)
    BY <1>1 DEF StaysAt
  <1> QED BY <1>1, <1>2, <1>3, <1>4, <1>5, Moves

(* A call that asks for what it may ask for.                                *)
LEMMA AsksTrue ==
  ASSUME KnowledgeInv, NEW c \in AuthorCalls, NEW kind, NEW who, NEW s, NEW key, Starts(c, kind, who, s, key),
         key[1] = KeyKind(kind), kind \in {"archive", "maintain"} => s = 0,
         kind = "publish" => key = <<"publish", s, "", 0>> /\ who = snapshots'[s].by
  PROVE  \E x : proc' = [proc EXCEPT ![c] = x] /\ ~Holding(x) /\ CallTrue(c)'
  <1> PICK x : x = [at |-> "request", kind |-> kind, who |-> who, snap |-> s, key |-> key]
    OBVIOUS
  <1>1. x.at = "request" /\ x.kind = kind /\ x.who = who /\ x.snap = s /\ x.key = key
    OBVIOUS
  <1>2. proc' = [proc EXCEPT ![c] = x] /\ proc'[c] = x
    BY Lengths DEF Starts, Calls
  <1>3. AskTrue(x)'
    BY <1>1 DEF AskTrue
  <1>4. ~Holding(x) /\ ~Holding(x)' /\ "request" \notin Labelled
    BY <1>1 DEF Holding, Labelled, RunningSteps, ExecSteps
  <1>5. CallTrue(c)'
    BY <1>1, <1>2, <1>3, <1>4 DEF CallTrue, Untried
  <1> QED BY <1>2, <1>4, <1>5

LEMMA StartsSees ==
  ASSUME KnowledgeInv, KnowledgeInv', ViewInv, NEW c \in AuthorCalls, proc[c].at = "idle", NEW kind, NEW who, NEW s, NEW key,
         Starts(c, kind, who, s, key), key[1] = KeyKind(kind), kind \in {"archive", "maintain"} => s = 0, kind # "publish",
         UNCHANGED storeVars, UNCHANGED <<requests, runs, tasks, attached, troubles>>
  PROVE  ViewInv'
  <1>1. c \in Calls /\ ~Holding(proc[c])
    BY DEF Calls, Holding, RunningSteps, ExecSteps
  <1>2. Steady /\ OutcomesTend(c) /\ EffectsTend
    BY <1>1, RestIsSteady
  <1> PICK x : proc' = [proc EXCEPT ![c] = x] /\ ~Holding(x) /\ CallTrue(c)'
    BY AsksTrue
  <1>3. StaysAt(c, x)
    BY <1>1 DEF StaysAt
  <1> QED BY <1>1, <1>2, <1>3, Moves

LEMMA AskArchiveSees ==
  ASSUME KnowledgeInv, KnowledgeInv', ViewInv, NEW c \in AuthorCalls, AskArchive(c)
  PROVE  ViewInv'
  <1> PICK p \in People : Starts(c, "archive", p, 0, <<"archive", page.version, p, 0>>)
    BY DEF AskArchive
  <1> PICK key : key = <<"archive", page.version, p, 0>>
    OBVIOUS
  <1>1. key[1] = KeyKind("archive")
    BY DEF KeyKind, Effects
  <1> QED BY <1>1, StartsSees DEF AskArchive

LEMMA RetryEffectSees ==
  ASSUME KnowledgeInv, KnowledgeInv', ViewInv, NEW c \in AuthorCalls, RetryEffect(c)
  PROVE  ViewInv'
  <1> PICK p \in People, s \in 1..Len(snapshots), e \in Effects : Starts(c, e, p, s, <<"retry", s, e, effects[s][e].attempts>>)
    BY DEF RetryEffect
  <1> PICK key : key = <<"retry", s, e, effects[s][e].attempts>>
    OBVIOUS
  <1>1. key[1] = KeyKind(e) /\ e \notin {"archive", "maintain", "publish"}
    BY DEF KeyKind, Effects
  <1> QED BY <1>1, StartsSees DEF RetryEffect

LEMMA RunMaintenanceSees ==
  ASSUME KnowledgeInv, KnowledgeInv', ViewInv, NEW c \in AuthorCalls, RunMaintenance(c)
  PROVE  ViewInv'
  <1> PICK p \in People : Starts(c, "maintain", p, 0, <<"maintain", Len(requests), p, 0>>)
    BY DEF RunMaintenance
  <1> PICK key : key = <<"maintain", Len(requests), p, 0>>
    OBVIOUS
  <1>1. key[1] = KeyKind("maintain")
    BY DEF KeyKind, Effects
  <1> QED BY <1>1, StartsSees DEF RunMaintenance

LEMMA Appended ==
  ASSUME NEW S, NEW q \in Seq(S), NEW e \in S, NEW n \in Nat, Len(q) = n
  PROVE  /\ Len(Append(q, e)) = n + 1 /\ Append(q, e)[n + 1] = e
         /\ \A i \in 1..n : Append(q, e)[i] = q[i]
  OBVIOUS

LEMMA WritePublicationSees ==
  ASSUME KnowledgeInv, KnowledgeInv', ViewInv, NEW c \in Calls, WritePublication(c)
  PROVE  ViewInv'
  <1>1. proc[c].at = "insert" /\ ~Holding(proc[c]) /\ UNCHANGED <<requests, runs, tasks, attached, troubles>>
    BY DEF WritePublication, Holding, RunningSteps, ExecSteps
  <1>2. c \in AuthorCalls
    BY <1>1 DEF ViewInv, CallTrue
  <1> PICK y : y = proc[c].snapshot
    OBVIOUS
  <1> PICK t : t = proc[c].text
    OBVIOUS
  <1>3. CASE Ends(c) /\ UNCHANGED <<revisions, snapshots, outcomes, effects>>
    <2>1. Steady /\ OutcomesTend(c) /\ EffectsTend
      BY <1>1, <1>3 DEF Steady, OutcomesTend, EffectsTend
    <2> QED BY <1>1, <1>3, <2>1, EndsSees
  <1> PICK s \in Nat : s = Len(snapshots) + 1
    BY Lengths
  <1>4. CASE InsertPublication(t, y.revision, y) /\ Starts(c, "publish", y.by, s, <<"publish", s, "", 0>>)
    <2>1. snapshots \in Seq(Snaps) /\ y \in Snaps /\ outcomes \in Seq(SnapOutcomes) /\ Len(outcomes) = Len(snapshots)
          /\ effects \in Seq(EffectRows) /\ Len(effects) = Len(snapshots) /\ Len(snapshots) \in Nat
      <3>1. CallOK(proc[c])
        BY DEF KnowledgeInv
      <3> QED BY <1>1, <3>1, Lengths DEF CallOK
    <2> PICK n \in Nat : n = Len(snapshots)
      BY <2>1
    <2>0. snapshots' = Append(snapshots, y) /\ outcomes' = Append(outcomes, "none") /\ effects' = Append(effects, NoEffect)
      BY <1>4 DEF InsertPublication
    <2>2. /\ Len(snapshots') = n + 1 /\ \A o \in 1..n : snapshots'[o] = snapshots[o]
          /\ snapshots'[s] = y
      BY <2>0, <2>1, Appended
    <2>3. /\ Len(outcomes') = n + 1 /\ \A o \in 1..n : outcomes'[o] = outcomes[o]
          /\ outcomes'[s] = "none"
      <3>1. "none" \in SnapOutcomes
        BY DEF SnapOutcomes
      <3> QED BY <2>0, <2>1, <3>1, Appended
    <2>4. /\ \A o \in 1..n : effects'[o] = effects[o]
          /\ effects'[s] = NoEffect
      <3>1. NoEffect \in EffectRows
        BY DEF NoEffect, EffectRows
      <3> QED BY <2>0, <2>1, <3>1, Appended
    <2>5. \A o \in 1..Len(snapshots') : o \in 1..n \/ o = s
      BY <2>2
    <2>6. StoreGrows
      BY <2>1, <2>2, <2>3, <2>5 DEF StoreGrows
    <2>7. \E x : proc' = [proc EXCEPT ![c] = x] /\ ~Holding(x) /\ CallTrue(c)'
      <3> PICK key : key = <<"publish", s, "", 0>>
        OBVIOUS
      <3>1. key[1] = KeyKind("publish")
        BY DEF KeyKind, Effects
      <3> QED BY <1>2, <1>4, <2>2, <3>1, AsksTrue
    <2> PICK x : proc' = [proc EXCEPT ![c] = x] /\ ~Holding(x) /\ CallTrue(c)'
      BY <2>7
    <2>8. (\A d \in Calls \ {c} : proc'[d] = proc[d]) /\ \A r : ~About(c, r)'
      BY NewCall, Lengths
    <2>9. Len(requests) \in Nat /\ Len(snapshots') \in Nat
      BY <2>1, <2>2, Lengths
    <2>10. Continues(c)
      BY <1>1, <2>3, <2>6, <2>8, <2>9 DEF Continues
    <2>11. KeysTrue'
      BY <1>1, <2>9, <2>10, KeysStay
    <2>12. Attaches(c)
      BY <1>1 DEF Attaches
    <2>13. Tends(c)
      <3>1. ASSUME NEW o \in 1..Len(snapshots'), NEW e \in Effects, effects'[o][e].status = "failed"
            PROVE  o \in 1..Len(snapshots) /\ effects[o][e].status = "failed"
        BY <2>4, <2>5, <3>1 DEF NoEffect
      <3>2. \A r : ~About(c, r)
        BY <1>1 DEF About
      <3>3. troubles' \in Nat /\ troubles <= troubles'
        BY <1>1 DEF ViewInv
      <3> QED BY <1>1, <3>1, <3>2, <3>3 DEF Tends
    <2> QED BY <2>7, <2>10, <2>11, <2>12, <2>13, StepSees
  <1> QED BY <1>3, <1>4 DEF WritePublication

LEMMA KeyParts == \A s : <<"publish", s, "", 0>>[1] = "publish" /\ <<"publish", s, "", 0>>[2] = s
  OBVIOUS

LEMMA FindOrInsertSees ==
  ASSUME KnowledgeInv, KnowledgeInv', ViewInv, NEW c \in Calls, FindOrInsert(c)
  PROVE  ViewInv'
  <1> PICK kind : kind = proc[c].kind
    OBVIOUS
  <1> PICK who : who = proc[c].who
    OBVIOUS
  <1> PICK s : s = proc[c].snap
    OBVIOUS
  <1> PICK key : key = proc[c].key
    OBVIOUS
  <1>1. proc[c].at = "request" /\ ~Holding(proc[c]) /\ (\A r : ~About(c, r)) /\ UNCHANGED storeVars /\ UNCHANGED <<attached, troubles>>
    BY DEF FindOrInsert, Holding, About, RunningSteps, ExecSteps
  <1>2. c \in AuthorCalls /\ AskTrue(proc[c])
    BY <1>1 DEF ViewInv, CallTrue
  <1>3. kind \in RunKinds /\ key \in Keys /\ SnapOK(kind, s)
    BY <1>1 DEF KnowledgeInv, CallOK
  <1>4. /\ key[1] = KeyKind(kind) /\ (kind \in {"archive", "maintain"} => s = 0)
        /\ kind = "publish" => key = <<"publish", s, "", 0>> /\ who = snapshots[s].by /\ s \in 1..Len(snapshots)
    BY <1>2, <1>3 DEF AskTrue, SnapOK
  <1>8. kind = "publish" => key = <<"publish", key[2], "", 0>> /\ key[2] = s /\ s \in 1..Len(snapshots) /\ who = snapshots[s].by
    <2> SUFFICES ASSUME kind = "publish" PROVE key = <<"publish", key[2], "", 0>> /\ key[2] = s /\ s \in 1..Len(snapshots) /\ who = snapshots[s].by
      OBVIOUS
    <2>1. key = <<"publish", s, "", 0>>
      BY <1>4
    <2>2. key[2] = s
      BY <2>1, KeyParts
    <2> QED BY <1>4, <2>1, <2>2
  <1>5. CASE Ends(c) /\ UNCHANGED <<requests, runs, tasks>>
    BY <1>1, <1>5, RestIsSteady, EndsSees
  <1> PICK n \in Nat : n = Len(requests)
    BY Lengths
  <1> DEFINE none == [k \in Children |-> "none"]
             run == [kind |-> kind, by |-> who, snap |-> s, status |-> "running", decision |-> "none", children |-> none]
             x == [at |-> "run", run |-> n + 1, copy |-> run]
  <1>6. ASSUME Existing(key) = {}, requests' = Append(requests, key), runs' = Append(runs, NoRun), tasks' = Append(tasks, NoTask),
               proc' = [proc EXCEPT ![c] = x]
        PROVE  ViewInv'
    <2>1. /\ Len(requests') = n + 1 /\ requests'[n + 1] = key /\ \A r \in 1..n : requests'[r] = requests[r]
      BY <1>3, <1>6, Lengths, Appended
    <2>2. /\ runs'[n + 1] = NoRun /\ \A r \in 1..n : runs'[r] = runs[r]
      <3>1. Len(runs) = n /\ runs \in Seq({NoRun} \cup RunRows) /\ NoRun \in {NoRun} \cup RunRows
        BY Lengths
      <3> QED BY <1>6, <3>1, Appended
    <2>3. /\ tasks'[n + 1] = NoTask /\ \A r \in 1..n : tasks'[r] = tasks[r]
      <3>1. Len(tasks) = n /\ tasks \in Seq(TaskRows) /\ NoTask \in TaskRows
        BY Lengths DEF TaskRows
      <3> QED BY <1>6, <3>1, Appended
    <2>4. /\ run.kind = kind /\ run.by = who /\ run.snap = s /\ run.status = "running"
          /\ First(run) = "none" /\ \A k \in Children : run.children[k] # "rejected"
      BY DEF First, Children
    <2>5. x.at = "run" /\ x.run = n + 1 /\ x.copy = run /\ Holding(x)
      BY DEF Holding, RunningSteps
    <2> HIDE DEF none, run, x
    <2>6. /\ proc'[c] = x /\ \A d \in Calls \ {c} : proc'[d] = proc[d]
          /\ \A r : About(c, r)' <=> r = n + 1
      <3>1. proc' = [proc EXCEPT ![c] = x] /\ DOMAIN proc = Calls
        BY <1>6, Lengths
      <3>2. proc'[c] = x /\ \A d \in Calls \ {c} : proc'[d] = proc[d]
        BY <3>1
      <3>3. \A r : About(c, r)' <=> Holding(proc'[c]) /\ proc'[c].run = r
        BY DEF About, Holding
      <3>4. Holding(x) /\ x.run = n + 1
        BY <2>5
      <3> QED BY <3>2, <3>3, <3>4
    <2>7. \A r \in 1..Len(requests') : r \in 1..n \/ r = n + 1
      BY <2>1
    <2>8. n + 1 \notin 1..n /\ n <= n + 1 /\ n + 1 \in Nat
      OBVIOUS
    <2>9. StoreGrows /\ UNCHANGED <<snapshots, outcomes, effects>>
      BY <1>1, Lengths DEF StoreGrows, storeVars
    <2>10. Continues(c)
      <3>1. \A r : About(c, r)' => About(c, r) \/ Takes(r)
        BY <2>6, <2>8 DEF Takes
      <3> QED BY <2>1, <2>2, <2>3, <2>6, <2>7, <2>8, <2>9, <3>1 DEF Continues
    <2>11. kind = "publish" => outcomes[s] = "none" /\ \A r \in 1..n : requests[r] # key
      <3>1. \A r \in 1..n : requests[r] # key
        BY <1>6 DEF Existing
      <3>2. ASSUME kind = "publish", outcomes[s] # "none" PROVE FALSE
        <4> PICK r \in 1..Len(requests) : Publishes(r) /\ Pinned(r) = s
          BY <1>4, <3>2 DEF ViewInv, KeysTrue
        <4>1. requests[r] = <<"publish", s, "", 0>>
          BY DEF ViewInv, KeysTrue
        <4> QED BY <1>4, <3>1, <3>2, <4>1
      <3> QED BY <3>1, <3>2
    <2>12. key[1] = "publish" => kind = "publish"
      BY <1>3, <1>4, KeyKinds
    <2>13. KeysTrue'
      <3>1. KeysTrue
        BY DEF ViewInv
      <3>2. \A i, j \in 1..Len(requests') : requests'[i] = requests'[j] => i = j
        <4>1. \A i, j \in 1..n : requests[i] = requests[j] => i = j
          BY <3>1 DEF KeysTrue
        <4>2. \A i \in 1..n : requests[i] # key
          BY <1>6 DEF Existing
        <4> QED BY <2>1, <2>7, <4>1, <4>2
      <3>3. \A r \in 1..Len(requests') : Publishes(r)' => requests'[r] = <<"publish", Pinned(r)', "", 0>> /\ Pinned(r)' \in 1..Len(snapshots')
        <4> SUFFICES ASSUME NEW r \in 1..Len(requests'), requests'[r][1] = "publish"
                     PROVE  requests'[r] = <<"publish", requests'[r][2], "", 0>> /\ requests'[r][2] \in 1..Len(snapshots)
          BY <2>9 DEF Publishes, Pinned
        <4>1. CASE r \in 1..n
          BY <2>1, <3>1, <4>1 DEF KeysTrue, Publishes, Pinned
        <4>2. CASE r = n + 1
          <5>1. requests'[r] = key /\ kind = "publish"
            BY <2>1, <2>12, <4>2
          <5> QED BY <1>8, <5>1
        <4> QED BY <2>7, <4>1, <4>2
      <3>4. \A o \in 1..Len(snapshots') : outcomes'[o] # "none" => \E r \in 1..Len(requests') : Publishes(r)' /\ Pinned(r)' = o
        <4> SUFFICES ASSUME NEW o \in 1..Len(snapshots), outcomes[o] # "none"
                     PROVE  \E r \in 1..Len(requests') : requests'[r][1] = "publish" /\ requests'[r][2] = o
          BY <2>9 DEF Publishes, Pinned
        <4> PICK r \in 1..n : Publishes(r) /\ Pinned(r) = o
          BY <3>1 DEF KeysTrue
        <4>1. r \in 1..Len(requests')
          BY <2>1
        <4> QED BY <2>1, <4>1 DEF Publishes, Pinned
      <3> QED BY <3>2, <3>3, <3>4 DEF KeysTrue
    <2>14. CopyTrue(n + 1, run)'
      <3>1. requests'[n + 1] = key /\ snapshots' = snapshots
        BY <2>1, <2>9
      <3>2. kind = "publish" => Pinned(n + 1)' = s /\ Author(n + 1)' = who
        BY <1>8, <3>1 DEF Pinned, Author
      <3>3. requests'[n + 1][1] = KeyKind(kind) /\ (kind \in {"archive", "maintain"} => s = 0)
        BY <1>4, <3>1
      <3> QED BY <2>4, <3>2, <3>3 DEF CopyTrue
    <2>15. LabelTrue(n + 1, run)'
      BY <2>4 DEF LabelTrue
    <2>16. StepTrue(x)'
      BY <2>2, <2>4, <2>5 DEF StepTrue, ExecSteps
    <2>17. kind = "publish" => Alone(c)'
      <3> SUFFICES ASSUME kind = "publish" PROVE Alone(c)'
        OBVIOUS
      <3>1. outcomes'[s] = "none"
        BY <2>9, <2>11
      <3>2. \A d \in Calls \ {c} : ~About(d, n + 1)'
        <4>1. \A d \in Calls : About(d, n + 1) => n + 1 \in 1..n
          BY HeldFacts DEF About
        <4> QED BY <2>6, <2>8, <4>1 DEF About
      <3> QED BY <2>2, <2>3, <2>4, <2>5, <2>6, <3>1, <3>2 DEF Alone
    <2>18. CallTrue(c)'
      BY <2>4, <2>5, <2>6, <2>14, <2>15, <2>16, <2>17, IsHolding
    <2>19. Attaches(c)
      BY <1>1 DEF Attaches
    <2>20. Tends(c)
      <3>1. troubles' \in Nat /\ troubles <= troubles'
        BY <1>1 DEF ViewInv
      <3>2. \A r \in 1..Len(requests') : r \notin 1..Len(requests) => About(c, r)'
        BY <2>6, <2>7
      <3> QED BY <1>1, <1>2, <2>9, <3>1, <3>2 DEF Tends
    <2> QED BY <2>10, <2>13, <2>18, <2>19, <2>20, StepSees
  <1>7. CASE /\ Existing(key) = {} /\ requests' = Append(requests, key) /\ runs' = Append(runs, NoRun) /\ tasks' = Append(tasks, NoTask)
             /\ proc' = [proc EXCEPT ![c] = x]
    BY <1>6, <1>7
  <1> QED BY <1>5, <1>7 DEF FindOrInsert, KeyOf

(* A step of a call that asks for nothing new and holds on to its run.      *)
LEMMA ActsSees ==
  ASSUME KnowledgeInv, KnowledgeInv', ViewInv, NEW c \in Calls, Continues(c), Attaches(c), CallTrue(c)',
         UNCHANGED storeVars, UNCHANGED <<requests, troubles>>,
         \A r \in 1..Len(requests) : c \in AuthorCalls /\ Publishes(r) /\ About(c, r) => About(c, r)' \/ r \in attached'
  PROVE  ViewInv'
  <1>1. UNCHANGED <<snapshots, outcomes, effects>> /\ Len(snapshots') \in Nat
    BY Lengths DEF storeVars
  <1>2. KeysTrue'
    BY <1>1, KeysStay
  <1>3. Tends(c)
    BY <1>1 DEF Tends, ViewInv
  <1> QED BY <1>2, <1>3, StepSees

LEMMA InsertRunSees ==
  ASSUME KnowledgeInv, KnowledgeInv', ViewInv, NEW c \in Calls, InsertRun(c)
  PROVE  ViewInv'
  <1> PICK run : run = proc[c].copy
    OBVIOUS
  <1> PICK r : r = proc[c].run
    OBVIOUS
  <1>1. /\ proc[c].at = "run" /\ Holding(proc[c]) /\ About(c, r)
        /\ UNCHANGED storeVars /\ UNCHANGED <<requests, tasks, attached, troubles, snapshots, outcomes>>
    BY DEF InsertRun, Holding, RunningSteps, storeVars, About
  <1>2. /\ r \in 1..Len(requests) /\ run \in RunRows /\ CopyTrue(r, run) /\ LabelTrue(r, run)
        /\ run.kind = "publish" => StepTrue(proc[c]) /\ (First(run) = "none" => Alone(c))
    BY <1>1, HeldFacts DEF Labelled
  <1>3. run.kind = "publish" => First(run) = "none" /\ Alone(c)
    BY <1>1, <1>2 DEF StepTrue
  <1>4. runs'[r] = run /\ \A q \in 1..Len(requests) : q # r => runs'[q] = runs[q]
    BY <1>2, Lengths DEF InsertRun
  <1>5. CopyTrue(r, run)'
    BY <1>1, <1>2 DEF CopyTrue, Pinned, Author
  <1>6. \E x : proc' = [proc EXCEPT ![c] = x]
    BY DEF InsertRun, Go, Advance, Holds
  <1>7. \A d \in Calls \ {c} : proc'[d] = proc[d]
    BY <1>6
  <1>8. \E x : proc' = [proc EXCEPT ![c] = x] /\ Holding(x) /\ x.run = r /\ CallTrue(c)'
    <2>1. CASE Go(c, "analyze") /\ run.kind = "maintain"
      <3> PICK x : x = [proc[c] EXCEPT !.at = "analyze"]
        OBVIOUS
      <3>1. x.at = "analyze" /\ x.run = r /\ x.copy = run
        <4>1. proc[c] \in RunningCalls
          BY <1>1 DEF KnowledgeInv, CallOK, RunningSteps
        <4> QED BY <4>1 DEF RunningCalls
      <3>2. proc' = [proc EXCEPT ![c] = x] /\ proc'[c] = x
        BY <2>1, Lengths DEF Go
      <3>3. Holding(x) /\ x.at \notin Labelled /\ run.kind # "publish"
        BY <2>1, <3>1 DEF Holding, RunningSteps, Labelled
      <3>4. CallTrue(c)'
        BY <1>5, <3>1, <3>2, <3>3, IsHolding
      <3> QED BY <3>1, <3>2, <3>3, <3>4
    <2>2. CASE Advance(c, run)
      <3>1. run.kind = "publish" => AloneAt(c, r, run.snap)' /\ tasks'[r].status # "pending"
        <4> SUFFICES ASSUME run.kind = "publish" PROVE AloneAt(c, r, run.snap)' /\ tasks'[r].status # "pending"
          OBVIOUS
        <4>1. Alone(c) /\ First(run) = "none"
          BY <1>3
        <4>2. tasks'[r] = NoTask /\ outcomes'[run.snap] = "none"
          BY <1>1, <4>1 DEF Alone
        <4>3. \A d \in Calls \ {c} : ~About(d, r)'
          BY <1>7, <4>1 DEF Alone, About
        <4>4. First(runs'[r]) = "none"
          BY <1>4, <4>1
        <4> QED BY <4>2, <4>3, <4>4 DEF AloneAt, NoTask, First
      <3> QED BY <1>2, <1>5, <2>2, <3>1, AdvanceSees
    <2> QED BY <2>1, <2>2 DEF InsertRun
  <1> PICK x : proc' = [proc EXCEPT ![c] = x] /\ Holding(x) /\ x.run = r /\ CallTrue(c)'
    BY <1>8
  <1>9. \A q : About(c, q)' <=> q = r
    BY NewCall, Lengths
  <1>10. Continues(c)
    <2>1. RunStored(c, r)
      BY <1>1, <1>4 DEF RunStored
    <2>2. StoreGrows
      BY <1>1, Lengths DEF StoreGrows
    <2>3. UNCHANGED <<requests, tasks, outcomes>>
      BY <1>1
    <2>4. /\ Len(requests) <= Len(requests')
          /\ \A q \in 1..Len(requests) : requests'[q] = requests[q]
          /\ \A q \in 1..Len(requests') : q \notin 1..Len(requests) => runs'[q] = NoRun /\ tasks'[q] = NoTask
      BY <2>3, Lengths
    <2>5. \A q \in 1..Len(requests) : runs'[q] = runs[q] \/ RunStored(c, q)
      BY <1>4, <2>1
    <2>6. \A q : About(c, q)' => About(c, q)
      BY <1>1, <1>9
    <2> QED BY <1>7, <2>2, <2>3, <2>4, <2>5, <2>6 DEF Continues
  <1>11. Attaches(c)
    BY <1>1 DEF Attaches
  <1>12. \A q \in 1..Len(requests) : c \in AuthorCalls /\ Publishes(q) /\ About(c, q) => About(c, q)' \/ q \in attached'
    BY <1>9 DEF About
  <1> QED BY <1>1, <1>8, <1>10, <1>11, <1>12, ActsSees

LEMMA AnalyzeSees ==
  ASSUME KnowledgeInv, KnowledgeInv', ViewInv, NEW c \in Calls, Analyze(c)
  PROVE  ViewInv'
  <1> PICK run : run = proc[c].copy
    OBVIOUS
  <1> PICK r : r = proc[c].run
    OBVIOUS
  <1>1. proc[c].at = "analyze" /\ Holding(proc[c]) /\ About(c, r)
    BY DEF Analyze, Holding, RunningSteps, About
  <1>2. r \in 1..Len(requests) /\ run \in RunRows /\ CopyTrue(r, run) /\ run.kind # "publish"
    BY <1>1, HeldFacts DEF StepTrue
  <1>3. Steady /\ OutcomesTend(c) /\ EffectsTend
    BY RestIsSteady DEF Analyze
  <1>4. ASSUME NEW y \in RunRows, y.kind = run.kind, y.snap = run.snap, y.children = run.children
        PROVE  CopyTrue(r, y)'
    BY <1>2, <1>3, <1>4 DEF CopyTrue, Steady
  <1>5. \E x : proc' = [proc EXCEPT ![c] = x] /\ Holding(x) /\ x.run = r /\ CallTrue(c)'
    <2>1. ASSUME NEW status \in {"succeeded", "input"}, Holds(c, "save", [run EXCEPT !.status = status])
          PROVE  \E x : proc' = [proc EXCEPT ![c] = x] /\ Holding(x) /\ x.run = r /\ CallTrue(c)'
      <3> PICK y : y = [run EXCEPT !.status = status]
        OBVIOUS
      <3> PICK x : x = [at |-> "save", run |-> r, copy |-> y]
        OBVIOUS
      <3>1. x.at = "save" /\ x.run = r /\ x.copy = y /\ Holding(x)
        BY DEF Holding, RunningSteps
      <3>2. y \in RunRows /\ y.kind = run.kind /\ y.snap = run.snap /\ y.children = run.children /\ y.status = status
        BY <1>2 DEF RunRows
      <3>3. proc' = [proc EXCEPT ![c] = x] /\ proc'[c] = x
        BY <2>1, Lengths DEF Holds
      <3>4. CopyTrue(r, y)' /\ LabelTrue(r, y)'
        BY <1>2, <1>4, <3>2 DEF LabelTrue
      <3>5. CallTrue(c)'
        BY <1>2, <3>1, <3>2, <3>3, <3>4, IsHolding
      <3> QED BY <3>1, <3>3, <3>5
    <2>3. ASSUME NEW y \in RunRows, CopyTrue(r, y)', Advance(c, y), y.kind # "publish"
          PROVE  \E x : proc' = [proc EXCEPT ![c] = x] /\ Holding(x) /\ x.run = r /\ CallTrue(c)'
      BY <2>3, AdvanceSees
    <2>2. ASSUME NEW d \in {"archive", "mark"}, Advance(c, [run EXCEPT !.decision = d])
          PROVE  \E x : proc' = [proc EXCEPT ![c] = x] /\ Holding(x) /\ x.run = r /\ CallTrue(c)'
      <3> PICK y : y = [run EXCEPT !.decision = d]
        OBVIOUS
      <3>1. y \in RunRows /\ y.kind = run.kind /\ y.snap = run.snap /\ y.children = run.children
        BY <1>2 DEF RunRows
      <3>2. CopyTrue(r, y)' /\ Advance(c, y)
        BY <1>4, <2>2, <3>1
      <3>3. y \in RunRows /\ y.kind # "publish"
        BY <1>2, <3>1
      <3> QED BY <2>3, <3>2, <3>3
    <2> QED BY <2>1, <2>2 DEF Analyze
  <1> PICK x : proc' = [proc EXCEPT ![c] = x] /\ Holding(x) /\ x.run = r /\ CallTrue(c)'
    BY <1>5
  <1>6. StaysAt(c, x)
    BY DEF StaysAt
  <1> QED BY <1>1, <1>3, <1>6, Moves

LEMMA AnswerSees ==
  ASSUME KnowledgeInv, KnowledgeInv', ViewInv, NEW c \in Calls, Answer(c)
  PROVE  ViewInv'
  <1>1. Steady /\ OutcomesTend(c) /\ EffectsTend
    BY RestIsSteady DEF Answer
  <1>2. ~Holding(proc[c])
    BY DEF Answer, Holding, RunningSteps, ExecSteps
  <1> PICK r \in 1..Len(runs), d \in {"archive", "mark"} :
        /\ runs[r].status = "input"
        /\ proc' = [proc EXCEPT ![c] = [at |-> "child", run |-> r, copy |-> [runs[r] EXCEPT !.decision = d]]]
    BY DEF Answer
  <1> PICK run : run = runs[r]
    OBVIOUS
  <1> PICK y : y = [run EXCEPT !.decision = d]
    OBVIOUS
  <1> PICK x : x = [at |-> "child", run |-> r, copy |-> y]
    OBVIOUS
  <1>3. r \in 1..Len(requests) /\ runs[r] # NoRun /\ Takes(r)
    BY Lengths DEF NoRun, Takes
  <1>4. run \in RunRows /\ CopyTrue(r, run) /\ run.kind # "publish"
    <2>1. run \in RunRows /\ CopyTrue(r, run) /\ LabelTrue(r, run)
      BY <1>3, Lengths DEF ViewInv, StoredTrue
    <2> QED BY <2>1 DEF LabelTrue
  <1>5. y \in RunRows /\ y.kind = run.kind /\ y.snap = run.snap /\ y.children = run.children
    BY <1>4 DEF RunRows
  <1>6. CopyTrue(r, y)'
    BY <1>1, <1>4, <1>5 DEF CopyTrue, Steady
  <1>7. x.at = "child" /\ x.run = r /\ x.copy = y /\ Holding(x) /\ x.at \notin Labelled
    BY DEF Holding, RunningSteps, Labelled
  <1>8. proc' = [proc EXCEPT ![c] = x] /\ proc'[c] = x
    BY Lengths
  <1>9. CallTrue(c)'
    BY <1>4, <1>5, <1>6, <1>7, <1>8, IsHolding
  <1>10. StaysAt(c, x)
    BY <1>2 DEF StaysAt
  <1> QED BY <1>1, <1>3, <1>7, <1>8, <1>9, <1>10, Moves

LEMMA StartChildSees ==
  ASSUME KnowledgeInv, KnowledgeInv', ViewInv, NEW c \in Calls, StartChild(c)
  PROVE  ViewInv'
  <1> PICK run : run = proc[c].copy
    OBVIOUS
  <1> PICK r : r = proc[c].run
    OBVIOUS
  <1> PICK child : child = NextChild(run)
    OBVIOUS
  <1>1. /\ proc[c].at = "child" /\ Holding(proc[c]) /\ About(c, r)
        /\ UNCHANGED storeVars /\ UNCHANGED <<requests, runs, attached, troubles, snapshots, outcomes>>
    BY DEF StartChild, Holding, RunningSteps, About, storeVars
  <1>2. /\ r \in 1..Len(requests) /\ run \in RunRows /\ CopyTrue(r, run)
        /\ run.kind = "publish" => StepTrue(proc[c]) /\ (First(run) = "none" => Alone(c))
    BY <1>1, HeldFacts
  <1>3. run.kind = "publish" => (child # "publish" => First(run) = "succeeded") /\ (child = "publish" => First(run) = "none" /\ Alone(c) /\ tasks[r] = NoTask)
    BY <1>1, <1>2, NextOfPublish DEF StepTrue, Alone
  <1>4. CASE UNCHANGED tasks
    <2>1. Steady /\ OutcomesTend(c) /\ EffectsTend
      BY <1>1, <1>4, RestIsSteady
    <2>2. CopyTrue(r, run)'
      BY <1>2, <2>1 DEF CopyTrue, Pinned, Author, Steady
    <2>3. \E x : proc' = [proc EXCEPT ![c] = x] /\ Holding(x) /\ x.run = r /\ CallTrue(c)'
      <3>1. CASE FinishChild(c, child, "failed", run)
        <4>1. "failed" \in Results \ {"none"}
          BY DEF Results
        <4>2. run.kind = "publish" /\ child = "publish" => tasks'[r].status # "pending"
          BY <1>3, <1>4 DEF NoTask
        <4> QED BY <1>2, <1>3, <2>2, <3>1, <4>1, <4>2, FinishSees
      <3>2. CASE proc' = [proc EXCEPT ![c] = [at |-> "execute", run |-> r, copy |-> run, child |-> child]]
        <4> PICK x : x = [at |-> "execute", run |-> r, copy |-> run, child |-> child]
          OBVIOUS
        <4>1. x.at = "execute" /\ x.run = r /\ x.copy = run /\ x.child = child /\ Holding(x) /\ x.at \notin Labelled
          BY DEF Holding, ExecSteps, Labelled
        <4>2. proc' = [proc EXCEPT ![c] = x] /\ proc'[c] = x /\ \A d \in Calls \ {c} : proc'[d] = proc[d]
          BY <3>2, Lengths
        <4>3. run.kind = "publish" => StepTrue(x)'
          BY <1>3, <4>1 DEF StepTrue
        <4>4. run.kind = "publish" /\ First(run) = "none" => Alone(c)'
          <5> SUFFICES ASSUME run.kind = "publish", First(run) = "none" PROVE Alone(c)'
            OBVIOUS
          <5>1. Alone(c)
            BY <1>2
          <5>2. \A d \in Calls \ {c} : ~About(d, r)'
            BY <4>2, <5>1 DEF Alone, About
          <5> QED BY <4>1, <4>2, <5>1, <5>2, <1>1, <1>4 DEF Alone
        <4>5. CallTrue(c)'
          BY <2>2, <4>1, <4>2, <4>3, <4>4, IsHolding
        <4> QED BY <4>1, <4>2, <4>5
      <3>3. CASE /\ tasks' = [tasks EXCEPT ![r] = [status |-> "pending", by |-> "nobody", child |-> child, candidates |-> Candidates(run, child)]]
                 /\ FinishChild(c, child, "waiting", run)
        <4>1. "waiting" \in Results \ {"none"}
          BY DEF Results
        <4> QED BY <1>2, <1>3, <2>2, <3>3, <4>1, FinishSees
      <3> QED BY <3>1, <3>2, <3>3 DEF StartChild
    <2> PICK x : proc' = [proc EXCEPT ![c] = x] /\ Holding(x) /\ x.run = r /\ CallTrue(c)'
      BY <2>3
    <2>4. StaysAt(c, x)
      BY DEF StaysAt
    <2> QED BY <1>1, <2>1, <2>4, Moves
  <1> DEFINE task == [status |-> "pending", by |-> "nobody", child |-> child, candidates |-> Candidates(run, child)]
  <1>5. CASE NeedsApproval(run, child) /\ tasks' = [tasks EXCEPT ![r] = task] /\ FinishChild(c, child, "waiting", run)
    <2>1. tasks'[r] = task /\ \A q \in 1..Len(requests) : q # r => tasks'[q] = tasks[q]
      BY <1>2, <1>5, Lengths
    <2>2. child \in {"publish", "archive"}
      BY <1>5 DEF NeedsApproval
    <2>3. run.kind \notin Effects
      BY <1>2, <2>2, NextOfEffect DEF Effects
    <2>4. run.kind = "publish" => child = "publish" /\ First(run) = "none"
      BY <1>2, <1>3, <2>2, NextOfPublish
    <2>5. TaskAsked(c, r)
      BY <1>1, <2>1, <2>3, <2>4 DEF TaskAsked
    <2>6. CopyTrue(r, run)'
      BY <1>1, <1>2, <2>3, <2>4 DEF CopyTrue, Pinned, Author
    <2>7. "waiting" \in Results \ {"none"}
      BY DEF Results
    <2>8. \E x : proc' = [proc EXCEPT ![c] = x] /\ Holding(x) /\ x.run = r /\ CallTrue(c)'
      BY <1>2, <1>5, <2>3, <2>4, <2>6, <2>7, FinishSees
    <2> PICK x : proc' = [proc EXCEPT ![c] = x] /\ Holding(x) /\ x.run = r /\ CallTrue(c)'
      BY <2>8
    <2>9. (\A d \in Calls \ {c} : proc'[d] = proc[d]) /\ \A q : About(c, q)' <=> q = r
      BY NewCall, Lengths
    <2>10. Continues(c)
      <3>1. StoreGrows
        BY <1>1, Lengths DEF StoreGrows
      <3> QED BY <1>1, <2>1, <2>5, <2>9, <3>1, Lengths DEF Continues
    <2>11. Attaches(c)
      BY <1>1 DEF Attaches
    <2>12. \A q \in 1..Len(requests) : c \in AuthorCalls /\ Publishes(q) /\ About(c, q) => About(c, q)' \/ q \in attached'
      BY <2>9 DEF About
    <2> QED BY <1>1, <2>8, <2>10, <2>11, <2>12, ActsSees
  <1> QED BY <1>4, <1>5 DEF StartChild

(* The tools.                                                               *)
LEMMA QuietTool ==
  ASSUME UNCHANGED <<requests, runs, tasks, attached, snapshots, outcomes, effects, troubles>>, NEW c \in Calls
  PROVE  Steady /\ OutcomesTend(c) /\ EffectsTend
  BY DEF Steady, OutcomesTend, EffectsTend

LEMMA FindPublicationSees == ASSUME KnowledgeInv, KnowledgeInv', ViewInv, NEW c \in Calls, FindPublication(c) PROVE ViewInv'
  <1>1. Steady /\ OutcomesTend(c) /\ EffectsTend
    BY QuietTool DEF FindPublication, storeVars
  <1>2. proc[c].at \in ExecSteps /\ {"conflict", "commit"} \subseteq ExecSteps
    BY DEF FindPublication, Executes, ExecSteps
  <1>3. CASE \E ending \in {"succeeded", "failed"} : Ran(c, ending)
    BY <1>1, <1>2, <1>3, RanSees
  <1>4. CASE \E step \in {"conflict", "commit"} : Go(c, step)
    BY <1>1, <1>2, <1>4, GoSees
  <1> QED BY <1>3, <1>4 DEF FindPublication

LEMMA CommitSees == ASSUME KnowledgeInv, KnowledgeInv', ViewInv, NEW c \in Calls, Commit(c) PROVE ViewInv'
  <1> PICK s : s = proc[c].copy.snap
    OBVIOUS
  <1>1. Steady /\ proc[c].at = "commit" /\ proc[c].at \in ExecSteps /\ "reread" \in ExecSteps /\ Go(c, "reread") /\ troubles' = troubles
    BY DEF Commit, Steady, ExecSteps
  <1>2. CommitBatch(s) /\ Publishing(c, s)
    BY DEF Commit, Snap, Publishing
  <1>3. OutcomesTend(c)
    <2>1. outcomes' = outcomes \/ outcomes' = [outcomes EXCEPT ![s] = "published"]
      BY <1>2 DEF CommitBatch
    <2> QED BY <1>2, <2>1, Lengths DEF OutcomesTend
  <1>4. EffectsTend
    <2>1. ASSUME NEW o \in 1..Len(snapshots), NEW e \in Effects, effects'[o][e].status = "failed"
          PROVE  effects[o][e].status = "failed"
      <3>1. CASE effects' = effects
        BY <2>1, <3>1
      <3>2. CASE effects' = [effects EXCEPT ![s] = [k \in Effects |-> IF @[k].status = "none" THEN [@[k] EXCEPT !.status = "pending"] ELSE @[k]]]
        <4>1. CASE o # s
          BY <2>1, <3>2, <4>1, Lengths
        <4>2. CASE o = s
          <5>1. effects[s] \in EffectRows /\ s \in 1..Len(effects)
            BY <4>2, Lengths, StoreFacts
          <5>2. effects'[s] = Queued(effects[s])
            <6>1. effects' = [effects EXCEPT ![s] = Queued(effects[s])]
              BY <3>2 DEF Queued
            <6> QED BY <5>1, <6>1
          <5>3. effects'[s][e] = IF effects[s][e].status = "none" THEN [effects[s][e] EXCEPT !.status = "pending"] ELSE effects[s][e]
            BY <5>2 DEF Queued
          <5>4. effects[s][e] \in [status : {"none", "pending", "failed", "succeeded"}, attempts : Nat]
            BY <5>1 DEF EffectRows
          <5>5. effects[s][e].status = "none" => effects'[s][e].status = "pending"
            BY <5>3, <5>4
          <5> QED BY <2>1, <4>2, <5>3, <5>5
        <4> QED BY <4>1, <4>2
      <3> QED BY <1>2, <3>1, <3>2 DEF CommitBatch
    <2> QED BY <1>1, <2>1 DEF EffectsTend
  <1> QED BY <1>1, <1>3, <1>4, GoSees

LEMMA RereadSees == ASSUME KnowledgeInv, KnowledgeInv', ViewInv, NEW c \in Calls, Reread(c) PROVE ViewInv'
  <1>1. Steady /\ OutcomesTend(c) /\ EffectsTend
    BY QuietTool DEF Reread, storeVars
  <1>2. proc[c].at \in ExecSteps /\ "conflict" \in ExecSteps
    BY DEF Reread, ExecSteps
  <1>3. CASE Ran(c, "succeeded")
    BY <1>1, <1>2, <1>3, RanSees
  <1>4. CASE Go(c, "conflict")
    BY <1>1, <1>2, <1>4, GoSees
  <1> QED BY <1>3, <1>4 DEF Reread

LEMMA ConflictSees == ASSUME KnowledgeInv, KnowledgeInv', ViewInv, NEW c \in Calls, Conflict(c) PROVE ViewInv'
  <1> PICK s : s = proc[c].copy.snap
    OBVIOUS
  <1>1. Steady /\ proc[c].at \in ExecSteps /\ UNCHANGED <<effects, troubles>>
    BY DEF Conflict, Steady, ExecSteps
  <1>2. RecordConflict(s) /\ Publishing(c, s)
    BY DEF Conflict, Snap, Publishing
  <1>3. OutcomesTend(c)
    BY <1>2, Lengths DEF OutcomesTend, RecordConflict
  <1>4. EffectsTend
    BY <1>1 DEF EffectsTend
  <1>5. \E ending \in {"succeeded", "failed"} : Ran(c, ending)
    BY DEF Conflict
  <1> QED BY <1>1, <1>3, <1>4, <1>5, RanSees

LEMMA ArchiveToolSees == ASSUME KnowledgeInv, KnowledgeInv', ViewInv, NEW c \in Calls, ArchiveTool(c) PROVE ViewInv'
  <1>1. Steady /\ OutcomesTend(c) /\ EffectsTend
    BY QuietTool DEF ArchiveTool
  <1> QED BY <1>1, RanSees DEF ArchiveTool, Executes, ExecSteps

LEMMA MarkReviewedSees == ASSUME KnowledgeInv, KnowledgeInv', ViewInv, NEW c \in Calls, MarkReviewed(c) PROVE ViewInv'
  <1>1. Steady /\ OutcomesTend(c) /\ EffectsTend
    BY QuietTool DEF MarkReviewed, storeVars
  <1>2. \E ending \in {"succeeded", "failed"} : Ran(c, ending)
    BY DEF MarkReviewed
  <1> QED BY <1>1, <1>2, RanSees DEF MarkReviewed, Executes, ExecSteps

LEMMA TroubleTends ==
  ASSUME ViewInv, troubles' = troubles + 1, UNCHANGED <<requests, runs, tasks, attached, snapshots, outcomes>>, NEW c \in Calls
  PROVE  Steady /\ OutcomesTend(c) /\ EffectsTend /\ troubles' # 0
  BY DEF ViewInv, Steady, OutcomesTend, EffectsTend

LEMMA EffectFailsSees == ASSUME KnowledgeInv, KnowledgeInv', ViewInv, NEW c \in Calls, EffectFails(c) PROVE ViewInv'
  <1>1. Steady /\ OutcomesTend(c) /\ EffectsTend
    BY TroubleTends DEF EffectFails
  <1> QED BY <1>1, RanSees DEF EffectFails, Executes, ExecSteps

LEMMA ReindexSees == ASSUME KnowledgeInv, KnowledgeInv', ViewInv, NEW c \in Calls, Reindex(c) PROVE ViewInv'
  <1>1. Steady /\ OutcomesTend(c) /\ EffectsTend
    BY QuietTool DEF Reindex
  <1> QED BY <1>1, GoSees DEF Reindex, Executes, ExecSteps

LEMMA NotifySees == ASSUME KnowledgeInv, KnowledgeInv', ViewInv, NEW c \in Calls, Notify(c) PROVE ViewInv'
  <1>1. Steady /\ OutcomesTend(c) /\ EffectsTend
    BY QuietTool DEF Notify
  <1> QED BY <1>1, GoSees DEF Notify, Executes, ExecSteps

LEMMA RecordDoneSees == ASSUME KnowledgeInv, KnowledgeInv', ViewInv, NEW c \in Calls, RecordDone(c) PROVE ViewInv'
  <1> PICK s : s = proc[c].copy.snap
    OBVIOUS
  <1> PICK e : e = proc[c].child
    OBVIOUS
  <1>1. Steady /\ OutcomesTend(c) /\ proc[c].at \in ExecSteps /\ troubles' = troubles
    BY DEF RecordDone, Steady, OutcomesTend, ExecSteps
  <1>2. effects' = [effects EXCEPT ![s][e] = [status |-> "succeeded", attempts |-> effects[s][e].attempts + 1]]
    BY DEF RecordDone, RecordEffect, Snap, Current
  <1>3. EffectsTend
    <2>1. ASSUME NEW o \in 1..Len(snapshots), NEW k \in Effects, effects'[o][k].status = "failed"
          PROVE  effects[o][k].status = "failed"
      <3>1. CASE o # s
        BY <1>2, <2>1, <3>1, Lengths
      <3>2. CASE o = s
        <4>1. effects[s] \in EffectRows /\ s \in 1..Len(effects)
          BY <3>2, Lengths, StoreFacts
        <4>2. effects'[s] = [effects[s] EXCEPT ![e] = [status |-> "succeeded", attempts |-> effects[s][e].attempts + 1]]
          BY <1>2, <4>1, Lengths
        <4>3. k = e => effects'[s][k].status = "succeeded"
          BY <4>1, <4>2 DEF EffectRows
        <4>4. k # e => effects'[s][k] = effects[s][k]
          BY <4>1, <4>2 DEF EffectRows
        <4> QED BY <2>1, <3>2, <4>3, <4>4
      <3> QED BY <3>1, <3>2
    <2> QED BY <1>1, <2>1 DEF EffectsTend
  <1> QED BY <1>1, <1>3, RanSees DEF RecordDone

LEMMA ToolFailsSees == ASSUME KnowledgeInv, KnowledgeInv', ViewInv, NEW c \in Calls, ToolFails(c) PROVE ViewInv'
  <1>1. Steady /\ OutcomesTend(c) /\ EffectsTend
    BY TroubleTends DEF ToolFails, storeVars
  <1> QED BY <1>1, RanSees DEF ToolFails, ExecSteps

LEMMA CallEndsSees == ASSUME KnowledgeInv, KnowledgeInv', ViewInv, NEW c \in Calls, CallEnds(c) PROVE ViewInv'
  <1>1. Steady /\ OutcomesTend(c) /\ EffectsTend /\ troubles' # 0
    BY TroubleTends DEF CallEnds, storeVars
  <1> QED BY <1>1, EndsSees DEF CallEnds

LEMMA SaveRunSees == ASSUME KnowledgeInv, KnowledgeInv', ViewInv, NEW c \in Calls, SaveRun(c) PROVE ViewInv'
  <1> PICK run : run = proc[c].copy
    OBVIOUS
  <1> PICK r : r = proc[c].run
    OBVIOUS
  <1>1. /\ proc[c].at = "save" /\ Holding(proc[c]) /\ About(c, r)
        /\ UNCHANGED storeVars /\ UNCHANGED <<requests, tasks, attached, troubles, snapshots, outcomes>>
    BY DEF SaveRun, Holding, RunningSteps, storeVars, About
  <1>2. /\ r \in 1..Len(requests) /\ run \in RunRows /\ CopyTrue(r, run) /\ LabelTrue(r, run)
        /\ run.kind = "publish" => StepTrue(proc[c])
        /\ Publishes(r) <=> run.kind = "publish"
    BY <1>1, HeldFacts DEF Labelled
  <1>3. runs'[r] = run /\ \A q \in 1..Len(requests) : q # r => runs'[q] = runs[q]
    BY <1>2, Lengths DEF SaveRun
  <1>4. CopyTrue(r, run)' /\ LabelTrue(r, run)'
    BY <1>1, <1>2 DEF CopyTrue, LabelTrue, Pinned, Author
  <1>5. ASSUME NEW x, proc' = [proc EXCEPT ![c] = x], CallTrue(c)', Holding(x) => x.run = r,
               c \in AuthorCalls /\ run.kind = "publish" => Holding(x) \/ r \in attached
        PROVE  ViewInv'
    <2>1. (\A d \in Calls \ {c} : proc'[d] = proc[d]) /\ \A q : About(c, q)' <=> Holding(x) /\ x.run = q
      BY <1>5, NewCall, Lengths
    <2>2. Continues(c)
      <3>1. RunStored(c, r)
        BY <1>1, <1>3 DEF RunStored
      <3>2. StoreGrows
        BY <1>1, Lengths DEF StoreGrows
      <3>3. \A q : About(c, q)' => About(c, q)
        BY <1>1, <1>5, <2>1
      <3> QED BY <1>1, <1>3, <2>1, <3>1, <3>2, <3>3, Lengths DEF Continues
    <2>3. Attaches(c)
      BY <1>1 DEF Attaches
    <2>4. \A q \in 1..Len(requests) : c \in AuthorCalls /\ Publishes(q) /\ About(c, q) => About(c, q)' \/ q \in attached'
      BY <1>1, <1>2, <1>5, <2>1 DEF About
    <2> QED BY <1>1, <1>5, <2>2, <2>3, <2>4, ActsSees
  <1>6. CASE run.kind = "publish" /\ Go(c, "attach")
    <2> PICK x : x = [proc[c] EXCEPT !.at = "attach"]
      OBVIOUS
    <2>1. x.at = "attach" /\ x.run = r /\ x.copy = run
      <3>1. proc[c] \in RunningCalls
        BY <1>1 DEF KnowledgeInv, CallOK, RunningSteps
      <3> QED BY <3>1 DEF RunningCalls
    <2>2. proc' = [proc EXCEPT ![c] = x] /\ proc'[c] = x
      BY <1>6, Lengths DEF Go
    <2>3. Holding(x)
      BY <2>1 DEF Holding, RunningSteps
    <2>4. First(run) # "none" /\ run.status # "running" /\ run # NoRun
      BY <1>1, <1>2, <1>6 DEF StepTrue, RunRows, NoRun
    <2>5. StepTrue(x)'
      BY <1>3, <2>1, <2>4 DEF StepTrue, ExecSteps
    <2>6. CallTrue(c)'
      BY <1>4, <1>6, <2>1, <2>2, <2>3, <2>4, <2>5, IsHolding
    <2> QED BY <1>5, <2>1, <2>2, <2>3, <2>6
  <1>7. CASE Ends(c) /\ ~(run.kind = "publish" /\ c \in AuthorCalls /\ r \notin attached)
    <2>1. proc' = [proc EXCEPT ![c] = NoCall] /\ proc'[c] = NoCall
      BY <1>7, Lengths DEF Ends
    <2>2. ~Holding(NoCall) /\ NoCall.at = "idle"
      BY DEF NoCall, Holding, RunningSteps, ExecSteps
    <2>3. CallTrue(c)'
      BY <2>1, <2>2, NotHolding
    <2> QED BY <1>5, <1>7, <2>1, <2>2, <2>3
  <1> QED BY <1>6, <1>7 DEF SaveRun

LEMMA AttachRequestSees == ASSUME KnowledgeInv, KnowledgeInv', ViewInv, NEW c \in Calls, AttachRequest(c) PROVE ViewInv'
  <1>1. proc' = [proc EXCEPT ![c] = NoCall] /\ proc'[c] = NoCall
    BY Lengths DEF AttachRequest, Ends
  <1>2. ~Holding(NoCall) /\ NoCall.at = "idle"
    BY DEF NoCall, Holding, RunningSteps, ExecSteps
  <1>3. CallTrue(c)'
    BY <1>1, <1>2, NotHolding
  <1>4. (\A d \in Calls \ {c} : proc'[d] = proc[d]) /\ \A q : ~About(c, q)'
    BY <1>1, <1>2, NewCall, Lengths
  <1>5. UNCHANGED storeVars /\ UNCHANGED <<requests, runs, tasks, troubles, snapshots, outcomes>> /\ Attaches(c)
    BY DEF AttachRequest, Attaches, storeVars
  <1>6. Continues(c)
    <2>1. StoreGrows
      BY <1>5, Lengths DEF StoreGrows
    <2> QED BY <1>4, <1>5, <2>1, Lengths DEF Continues
  <1>7. \A q \in 1..Len(requests) : About(c, q) => q \in attached'
    BY DEF AttachRequest, About
  <1> QED BY <1>3, <1>5, <1>6, <1>7, ActsSees

LEMMA DecideSees == ASSUME KnowledgeInv, KnowledgeInv', ViewInv, NEW c \in Calls, Decide(c) PROVE ViewInv'
  <1>1. /\ ~Holding(proc[c]) /\ UNCHANGED storeVars /\ UNCHANGED <<requests, runs, attached, troubles, snapshots, outcomes>>
    BY DEF Decide, Holding, RunningSteps, ExecSteps, storeVars
  <1> PICK r \in 1..Len(tasks), p \in People, verdict \in {"approved", "rejected"} :
        /\ tasks[r].status = "pending" /\ p \in tasks[r].candidates
        /\ tasks' = [tasks EXCEPT ![r].status = verdict, ![r].by = p]
        /\ proc' = [proc EXCEPT ![c] = [at |-> "decided", run |-> r]]
    BY DEF Decide
  <1> PICK x : x = [at |-> "decided", run |-> r]
    OBVIOUS
  <1>2. x.at = "decided" /\ x.run = r /\ ~Holding(x)
    BY DEF Holding, RunningSteps, ExecSteps
  <1>3. proc' = [proc EXCEPT ![c] = x] /\ proc'[c] = x
    BY Lengths
  <1>4. r \in 1..Len(requests) /\ tasks[r] \in TaskRows /\ tasks[r] # NoTask
    BY Lengths DEF NoTask
  <1> PICK task : task = [tasks[r] EXCEPT !.status = verdict, !.by = p]
    OBVIOUS
  <1>5. tasks'[r] = task /\ \A q \in 1..Len(requests) : q # r => tasks'[q] = tasks[q]
    <2>1. tasks' = [tasks EXCEPT ![r] = task]
      BY <1>4, Lengths
    <2>2. task.status = verdict
      BY <1>4 DEF TaskRows
    <2>3. task \in TaskRows
      BY <1>4, <2>2 DEF TaskRows, NoTask
    <2>4. tasks \in Seq(TaskRows) /\ Len(tasks) = Len(requests)
      BY Lengths
    <2> QED BY ZenonT(60), <2>1, <2>3, <2>4, PutTask
  <1>6. tasks'[r].status = verdict
    BY <1>4, <1>5 DEF TaskRows
  <1>7. TaskClosed(r)
    BY <1>5 DEF TaskClosed
  <1>8. (\A d \in Calls \ {c} : proc'[d] = proc[d]) /\ \A q : ~About(c, q)'
    BY <1>2, <1>3, NewCall, Lengths
  <1>9. Continues(c)
    <2>1. StoreGrows
      BY <1>1, Lengths DEF StoreGrows
    <2> QED BY <1>1, <1>5, <1>7, <1>8, <2>1, Lengths DEF Continues
  <1>10. CallTrue(c)'
    <2>1. x.at \notin Labelled /\ ~Holding(x)'
      BY <1>2 DEF Labelled, Holding
    <2>2. ~Untried(c)'
      BY <1>3, <2>1 DEF Untried
    <2> QED BY <1>2, <1>3, <1>6, <2>1, <2>2 DEF CallTrue
  <1>11. Attaches(c) /\ \A q : ~About(c, q)
    BY <1>1 DEF Attaches, About
  <1> QED BY <1>1, <1>9, <1>10, <1>11, ActsSees

LEMMA CancelItsTaskSees == ASSUME KnowledgeInv, KnowledgeInv', ViewInv, NEW c \in Calls, CancelItsTask(c) PROVE ViewInv'
  <1> PICK run : run = proc[c].copy
    OBVIOUS
  <1> PICK r : r = proc[c].run
    OBVIOUS
  <1>1. /\ proc[c].at = "cancel" /\ Holding(proc[c]) /\ About(c, r)
        /\ UNCHANGED storeVars /\ UNCHANGED <<requests, runs, attached, troubles, snapshots, outcomes>>
    BY DEF CancelItsTask, Holding, RunningSteps, storeVars, About
  <1>2. /\ r \in 1..Len(requests) /\ run \in RunRows /\ RunOK(run) /\ CopyTrue(r, run) /\ LabelTrue(r, run)
        /\ run.kind = "publish" => StepTrue(proc[c]) /\ run.snap \in 1..Len(snapshots)
    BY <1>1, HeldFacts DEF Labelled
  <1>3. tasks[r] \in TaskRows /\ r \in 1..Len(tasks)
    BY <1>2, Lengths
  <1>4. tasks'[r].status # "pending" /\ (tasks'[r] = tasks[r] \/ TaskClosed(r)) /\ \A q \in 1..Len(requests) : q # r => tasks'[q] = tasks[q]
    <2>1. CASE tasks[r].status = "pending"
      <3> PICK task : task = [tasks[r] EXCEPT !.status = "cancelled"]
        OBVIOUS
      <3>1. tasks[r] # NoTask
        BY <2>1 DEF NoTask
      <3>2. task.status = "cancelled" /\ task = [tasks[r] EXCEPT !.status = "cancelled", !.by = tasks[r].by]
        BY <1>3, <3>1 DEF TaskRows
      <3>3. task \in TaskRows
        BY <1>3, <3>1, <3>2 DEF TaskRows, NoTask
      <3>4. tasks' = [tasks EXCEPT ![r] = task]
        BY <1>3, <2>1, Lengths DEF CancelItsTask
      <3>5. tasks'[r] = task /\ \A q \in 1..Len(requests) : q # r => tasks'[q] = tasks[q]
        BY <1>3, <3>3, <3>4, Lengths, PutTask
      <3> QED BY <2>1, <3>2, <3>5 DEF TaskClosed
    <2>2. CASE tasks[r].status # "pending"
      <3> PICK task : task = [tasks[r] EXCEPT !.status = IF @ = "pending" THEN "cancelled" ELSE @]
        OBVIOUS
      <3>1. tasks' = [tasks EXCEPT ![r] = task]
        BY <1>3, Lengths DEF CancelItsTask
      <3>2. task = tasks[r]
        BY <1>3, <2>2 DEF TaskRows, NoTask
      <3>3. tasks' = [tasks EXCEPT ![r] = tasks[r]]
        BY <3>1, <3>2
      <3>4. tasks'[r] = tasks[r] /\ \A q \in 1..Len(requests) : q # r => tasks'[q] = tasks[q]
        BY <1>3, <3>3, Lengths, PutTask
      <3> QED BY <2>2, <3>4
    <2> QED BY <2>1, <2>2
  <1> PICK x : x = [proc[c] EXCEPT !.at = "save"]
    OBVIOUS
  <1>6. x.at = "save" /\ x.run = r /\ x.copy = run
    <2>1. proc[c] \in RunningCalls
      BY <1>1 DEF KnowledgeInv, CallOK, RunningSteps
    <2> QED BY <2>1 DEF RunningCalls
  <1>7. proc' = [proc EXCEPT ![c] = x] /\ proc'[c] = x
    BY Lengths DEF CancelItsTask, Go
  <1>8. Holding(x)
    BY <1>6 DEF Holding, RunningSteps
  <1>9. (\A d \in Calls \ {c} : proc'[d] = proc[d]) /\ \A q : About(c, q)' <=> q = r
    <2>1. \A d \in Calls \ {c} : proc'[d] = proc[d]
      BY <1>7, Lengths
    <2>2. \A q : About(c, q)' <=> Holding(proc'[c]) /\ proc'[c].run = q
      BY DEF About, Holding
    <2>3. Holding(proc'[c]) /\ proc'[c].run = r
      BY <1>6, <1>7, <1>8
    <2> QED BY <2>1, <2>2, <2>3
  <1>10. Continues(c)
    <2>1. StoreGrows
      BY <1>1, Lengths DEF StoreGrows
    <2> QED BY <1>1, <1>4, <1>9, <2>1, Lengths DEF Continues
  <1>11. CopyTrue(r, run)' /\ LabelTrue(r, run)'
    <2>1. ~TaskAsked(c, r)
      BY <1>1 DEF TaskAsked
    <2> QED BY <1>2, <1>10, <2>1, CopyStays
  <1>12. run.kind = "publish" => First(run) # "none" /\ StepTrue(x)'
    <2>1. run.kind = "publish" => First(run) # "none" /\ run.status # "running"
      BY <1>1, <1>2 DEF StepTrue
    <2> QED BY <1>4, <1>6, <2>1 DEF StepTrue, ExecSteps
  <1>13. CallTrue(c)'
    BY <1>6, <1>7, <1>8, <1>11, <1>12, IsHolding
  <1>14. Attaches(c) /\ \A q \in 1..Len(requests) : About(c, q) => About(c, q)'
    BY <1>1, <1>9 DEF Attaches, About
  <1> QED BY <1>1, <1>10, <1>13, <1>14, ActsSees

LEMMA LoadToCancelSees == ASSUME KnowledgeInv, KnowledgeInv', ViewInv, NEW c \in Calls, LoadToCancel(c) PROVE ViewInv'
  <1>1. Steady /\ OutcomesTend(c) /\ EffectsTend
    BY RestIsSteady DEF LoadToCancel
  <1>2. ~Holding(proc[c])
    BY DEF LoadToCancel, Holding, RunningSteps, ExecSteps
  <1> PICK r \in 1..Len(runs) : /\ r \in attached /\ runs[r].status = "waiting"
                                /\ proc' = [proc EXCEPT ![c] = [at |-> "cancel", run |-> r, copy |->
                                      [runs[r] EXCEPT !.children = [k \in Children |-> IF @[k] = "waiting" THEN "cancelled" ELSE @[k]],
                                                      !.status = "cancelled"]]]
    BY DEF LoadToCancel, MayCancel
  <1> PICK run : run = runs[r]
    OBVIOUS
  <1> DEFINE kids == [k \in Children |-> IF run.children[k] = "waiting" THEN "cancelled" ELSE run.children[k]]
             y == [run EXCEPT !.children = kids, !.status = "cancelled"]
             x == [at |-> "cancel", run |-> r, copy |-> y]
  <1>3. r \in 1..Len(requests) /\ run # NoRun /\ Publishes(r) /\ Takes(r)
    BY Lengths DEF ViewInv, AttachedTrue, Takes
  <1>4. run \in RunRows /\ CopyTrue(r, run) /\ LabelTrue(r, run)
    BY <1>3, Lengths DEF ViewInv, StoredTrue
  <1>5. run.kind = "publish" /\ First(run) # "none"
    <2>1. run.kind = "publish"
      BY <1>3, <1>4, CopyKinds
    <2> QED BY <1>4, <2>1 DEF LabelTrue
  <1>6. /\ y.kind = run.kind /\ y.snap = run.snap /\ y.by = run.by /\ y.status = "cancelled"
        /\ y.children = kids
    BY <1>4 DEF RunRows
  <1>7. First(y) = IF First(run) = "waiting" THEN "cancelled" ELSE First(run)
    BY <1>6 DEF First, Children
  <1>8. x.at = "cancel" /\ x.run = r /\ x.copy = y /\ Holding(x)
    BY DEF Holding, RunningSteps
  <1> HIDE DEF kids, y, x
  <1>9. proc' = [proc EXCEPT ![c] = x] /\ proc'[c] = x
    <2>1. proc' = [proc EXCEPT ![c] = x]
      BY DEF x, y, kids
    <2> QED BY <2>1, Lengths
  <1>10. CopyTrue(r, run)'
    BY <1>1, <1>4 DEF CopyTrue, Pinned, Author, Steady
  <1>11. CopyTrue(r, y)' /\ LabelTrue(r, y)'
    BY <1>5, <1>6, <1>7, <1>10 DEF CopyTrue, LabelTrue, Effects
  <1>12. StepTrue(x)' /\ First(y) # "none"
    BY <1>5, <1>6, <1>7, <1>8 DEF StepTrue, ExecSteps
  <1>13. CallTrue(c)'
    BY <1>8, <1>9, <1>11, <1>12, IsHolding
  <1>14. StaysAt(c, x)
    BY <1>2 DEF StaysAt
  <1> QED BY <1>1, <1>3, <1>8, <1>9, <1>13, <1>14, Moves

LEMMA ApplyDecisionSees == ASSUME KnowledgeInv, KnowledgeInv', ViewInv, NEW c \in Calls, ApplyDecision(c) PROVE ViewInv'
  <1>1. Steady /\ OutcomesTend(c) /\ EffectsTend /\ proc[c].at = "decided"
    BY RestIsSteady DEF ApplyDecision
  <1>2. ~Holding(proc[c])
    BY <1>1 DEF Holding, RunningSteps, ExecSteps
  <1> PICK r : r = proc[c].run
    OBVIOUS
  <1> PICK run : run = runs[r]
    OBVIOUS
  <1> PICK child : child = tasks[r].child
    OBVIOUS
  <1>3. r \in 1..Len(requests) /\ tasks[r] # NoTask /\ Takes(r)
    BY <1>1 DEF KnowledgeInv, CallOK, Takes
  <1>4. Publishes(r) => tasks[r].status \in {"approved", "rejected"} /\ child = "publish"
    BY <1>1, <1>3 DEF ViewInv, CallTrue, TaskTrue
  <1>5. CASE Ends(c)
    BY <1>1, <1>2, <1>5, EndsSees
  <1>6. ASSUME run # NoRun, run.children[child] # "none",
               \/ tasks[r].status = "rejected" /\ FinishChild(c, child, "rejected", run)
               \/ FinishChild(c, child, "failed", run)
               \/ tasks[r].status # "rejected" /\ proc' = [proc EXCEPT ![c] = [at |-> "execute", run |-> r, child |-> child, copy |-> run]]
        PROVE  ViewInv'
    <2>1. run \in RunRows /\ CopyTrue(r, run)
      BY <1>3, <1>6, Lengths DEF ViewInv, StoredTrue
    <2>2. CopyTrue(r, run)'
      BY <1>1, <2>1 DEF CopyTrue, Pinned, Author, Steady
    <2>3. run.kind \notin Effects
      <3>1. requests[r][1] # "retry" /\ requests[r][1] = KeyKind(run.kind) /\ run.kind \in RunKinds
        BY ZenonT(60), <1>3, <2>1, CopyKinds DEF ViewInv, TaskTrue, CopyTrue
      <3> QED BY <3>1, KeyKinds
    <2>4. run.kind = "publish" => child = "publish" /\ First(run) # "none" /\ tasks'[r].status \in {"approved", "rejected"} /\ tasks' = tasks
      BY <1>1, <1>4, <1>6, <2>1, CopyKinds DEF Steady, First
    <2>5. \E x : proc' = [proc EXCEPT ![c] = x] /\ Holding(x) /\ x.run = r /\ CallTrue(c)'
      <3>1. {"rejected", "failed"} \subseteq Results \ {"none"}
        BY DEF Results
      <3>2. CASE tasks[r].status = "rejected" /\ FinishChild(c, child, "rejected", run)
        BY <2>1, <2>2, <2>3, <2>4, <3>1, <3>2, FinishSees
      <3>3. CASE FinishChild(c, child, "failed", run)
        BY <2>1, <2>2, <2>3, <2>4, <3>1, <3>3, FinishSees
      <3>4. CASE tasks[r].status # "rejected" /\ proc' = [proc EXCEPT ![c] = [at |-> "execute", run |-> r, child |-> child, copy |-> run]]
        <4> PICK x : x = [at |-> "execute", run |-> r, child |-> child, copy |-> run]
          OBVIOUS
        <4>1. x.at = "execute" /\ x.run = r /\ x.copy = run /\ x.child = child /\ Holding(x) /\ x.at \notin Labelled
          BY DEF Holding, ExecSteps, Labelled
        <4>2. proc' = [proc EXCEPT ![c] = x] /\ proc'[c] = x
          BY <3>4, Lengths
        <4>3. run.kind = "publish" => StepTrue(x)'
          BY <2>4, <3>4, <4>1 DEF StepTrue
        <4>4. CallTrue(c)'
          BY <2>2, <2>4, <4>1, <4>2, <4>3, IsHolding
        <4> QED BY <4>1, <4>2, <4>4
      <3> QED BY <1>6, <3>2, <3>3, <3>4
    <2> PICK x : proc' = [proc EXCEPT ![c] = x] /\ Holding(x) /\ x.run = r /\ CallTrue(c)'
      BY <2>5
    <2>6. StaysAt(c, x)
      BY <1>2 DEF StaysAt
    <2> QED BY <1>1, <1>3, <2>6, Moves
  <1> QED BY <1>5, <1>6 DEF ApplyDecision

LEMMA ViewsInitial == ASSUME PublicationInit, KnowledgeInv PROVE ViewInv
  <1>1. /\ snapshots = <<>> /\ requests = <<>> /\ runs = <<>> /\ tasks = <<>> /\ outcomes = <<>> /\ effects = <<>>
        /\ attached = {} /\ troubles = 0 /\ proc = [c \in Calls |-> NoCall]
    BY DEF PublicationInit, StoreInit
  <1>2. KeysTrue /\ StoredTrue /\ AttachedTrue /\ (\A r \in 1..Len(requests) : TaskTrue(r)) /\ troubles \in Nat /\ Untroubled
    BY <1>1 DEF KeysTrue, StoredTrue, AttachedTrue, Untroubled
  <1>3. ASSUME NEW c \in Calls PROVE CallTrue(c)
    <2>1. proc[c].at = "idle" /\ ~Holding(proc[c])
      BY <1>1 DEF NoCall, Holding, RunningSteps, ExecSteps
    <2> QED BY <2>1 DEF CallTrue, Untried, Labelled
  <1> QED BY <1>2, <1>3 DEF ViewInv

LEMMA ViewsKeep == ASSUME KnowledgeInv, KnowledgeInv', ViewInv, [PublicationNext]_knowledgeVars PROVE ViewInv'
  <1>1. CASE UNCHANGED knowledgeVars
    <2>1. UNCHANGED storeVars /\ UNCHANGED platformVars
      BY <1>1 DEF knowledgeVars
    <2>2. Steady /\ UNCHANGED <<outcomes, effects, proc>> /\ troubles' = troubles
      BY <2>1 DEF Steady, storeVars, platformVars
    <2> QED BY <2>2, QuietSees
  <1>2. ASSUME NEW p \in People, EditDraft(p) \/ RestorePage(p) \/ Revoke(p) PROVE ViewInv'
    BY <1>2, EditDraftSees, RestorePageSees, RevokeSees
  <1>3. ASSUME NEW c \in AuthorCalls,
               PreparePublication(c) \/ AskArchive(c) \/ RetryEffect(c) \/ RunMaintenance(c) \/ LoadToCancel(c)
        PROVE  ViewInv'
    <2>1. c \in Calls
      BY DEF Calls
    <2> QED BY <1>3, <2>1, PreparePublicationSees, AskArchiveSees, RetryEffectSees, RunMaintenanceSees, LoadToCancelSees
  <1>4. ASSUME NEW c \in Calls, Decide(c) \/ Answer(c) PROVE ViewInv'
    BY <1>4, DecideSees, AnswerSees
  <1>5. ASSUME NEW c \in Calls, Step(c) PROVE ViewInv'
    BY <1>5, WritePublicationSees, FindOrInsertSees, InsertRunSees, AnalyzeSees, StartChildSees, FindPublicationSees, CommitSees,
       RereadSees, ConflictSees, ArchiveToolSees, MarkReviewedSees, EffectFailsSees, ReindexSees, NotifySees, RecordDoneSees,
       SaveRunSees, AttachRequestSees, ApplyDecisionSees, CancelItsTaskSees DEF Step
  <1>6. ASSUME NEW c \in Calls, CallEnds(c) \/ ToolFails(c) PROVE ViewInv'
    BY <1>6, CallEndsSees, ToolFailsSees
  <1> QED BY <1>1, <1>2, <1>3, <1>4, <1>5, <1>6 DEF PublicationNext, Calls

LEMMA StoredFacts ==
  ASSUME KnowledgeInv, ViewInv, NEW r \in 1..Len(runs), runs[r] # NoRun
  PROVE  /\ r \in 1..Len(requests) /\ runs[r] \in RunRows /\ RunOK(runs[r]) /\ CopyTrue(r, runs[r]) /\ LabelTrue(r, runs[r]) /\ TaskTrue(r)
         /\ Publishes(r) <=> runs[r].kind = "publish"
         /\ runs[r].kind = "publish" => runs[r].snap \in 1..Len(snapshots) /\ Pinned(r) = runs[r].snap /\ runs[r].by = Author(r)
  <1>1. r \in 1..Len(requests) /\ RunOK(runs[r])
    BY Lengths DEF KnowledgeInv, RunsOK
  <1>2. CopyTrue(r, runs[r]) /\ LabelTrue(r, runs[r]) /\ TaskTrue(r)
    BY <1>1 DEF ViewInv, StoredTrue
  <1>3. runs[r] \in RunRows /\ (runs[r].kind = "publish" => runs[r].snap \in 1..Len(snapshots))
    BY <1>1 DEF RunOK, SnapOK
  <1> QED BY <1>1, <1>2, <1>3, CopyKinds DEF CopyTrue

LEMMA ViewsTellTheTruth == ASSUME KnowledgeInv, ViewInv PROVE RunsAreTrue
  <1> SUFFICES ASSUME NEW r \in 1..Len(runs), runs[r] # NoRun, NEW run, run = runs[r]
               PROVE  /\ run.status = "rejected" => run.snap = 0 \/ outcomes[run.snap] = "none"
                      /\ run.kind = "publish" =>
                           /\ run.status = "succeeded" => outcomes[run.snap] = "published"
                           /\ outcomes[run.snap] # "none" /\ tasks[r].status # "none" =>
                                tasks[r].status = "approved" /\ tasks[r].by # run.by
    BY DEF RunsAreTrue
  <1>1. /\ run \in RunRows /\ RunOK(run) /\ CopyTrue(r, run) /\ LabelTrue(r, run) /\ TaskTrue(r)
        /\ Publishes(r) <=> run.kind = "publish"
        /\ run.kind = "publish" => run.snap \in 1..Len(snapshots) /\ Pinned(r) = run.snap /\ run.by = Author(r)
    BY StoredFacts
  <1>2. run.kind \in {"publish", "archive", "maintain"} \cup Effects
    BY <1>1 DEF RunRows, RunKinds
  <1>3. run.kind = "publish" /\ run.status = "rejected" => outcomes[run.snap] = "none"
    BY <1>1 DEF LabelTrue, TaskTrue
  <1>4. run.kind # "publish" /\ run.status = "rejected" => run.snap = 0
    BY <1>1, <1>2 DEF LabelTrue, CopyTrue
  <1>5. run.kind = "publish" /\ run.status = "succeeded" => outcomes[run.snap] = "published"
    BY <1>1 DEF LabelTrue, RunOK, First
  <1>6. run.kind = "publish" /\ outcomes[run.snap] # "none" /\ tasks[r].status # "none" => tasks[r].status = "approved" /\ tasks[r].by # run.by
    <2>1. tasks[r].status # "none" => tasks[r] # NoTask
      BY DEF NoTask
    <2> QED BY <1>1, <2>1 DEF TaskTrue
  <1> QED BY <1>3, <1>4, <1>5, <1>6

(* The panel of a snapshot finds the one run of its publication.            *)
LEMMA PanelFindsTheRun ==
  ASSUME KnowledgeInv, ViewInv, NEW s \in Snapshots
  PROVE  /\ \A q \in Requested(s) : q \in 1..Len(runs) /\ runs[q] # NoRun /\ runs[q].status # "running" /\ Publishes(q) /\ Pinned(q) = s
         /\ \A q, r \in Requested(s) : q = r
         /\ \A r \in Requested(s) : RunStatus(s) = runs[r].status
         /\ Requested(s) = {} => RunStatus(s) = "none"
  <1>1. ASSUME NEW q \in Requested(s)
        PROVE  q \in 1..Len(runs) /\ runs[q] # NoRun /\ runs[q].status # "running" /\ Publishes(q) /\ Pinned(q) = s
    <2>1. q \in attached /\ runs[q].snap = s
      BY DEF Requested
    <2>2. q \in 1..Len(runs) /\ Publishes(q) /\ runs[q] # NoRun /\ runs[q].status # "running"
      BY <2>1, Lengths DEF ViewInv, AttachedTrue
    <2> QED BY <2>1, <2>2, StoredFacts
  <1>2. \A q, r \in Requested(s) : q = r
    BY <1>1, OnePerPin, Lengths DEF ViewInv
  <1>3. \A r \in Requested(s) : (CHOOSE q \in Requested(s) : TRUE) = r
    BY <1>2
  <1>4. \A r \in Requested(s) : RunStatus(s) = runs[r].status
    BY <1>3 DEF RunStatus
  <1> QED BY <1>1, <1>2, <1>4 DEF RunStatus

LEMMA PanelStates ==
  ASSUME KnowledgeInv, NEW s \in Snapshots
  PROVE  /\ PanelState(s) = "analyzing" => outcomes[s] = "none" /\ RunStatus(s) = "running"
         /\ PanelState(s) = "waiting_approval" => outcomes[s] = "none" /\ RunStatus(s) = "waiting"
         /\ outcomes[s] = "none" /\ RunStatus(s) = "waiting" => PanelState(s) = "waiting_approval"
  <1>1. outcomes[s] \in {"none", "conflict", "published"}
    BY StoreFacts DEF Snapshots, SnapOutcomes
  <1> PICK panel : panel = PanelState(s)
    OBVIOUS
  <1> PICK label : label = RunStatus(s)
    OBVIOUS
  <1>2. CASE outcomes[s] = "conflict"
    <2>1. panel = "conflict"
      BY <1>2 DEF PanelState
    <2> QED BY <1>2, <2>1
  <1>3. CASE outcomes[s] = "published"
    <2>1. panel \in {"published", "published_effect_failed"}
      BY <1>3 DEF PanelState
    <2> QED BY <1>3, <2>1
  <1>4. CASE outcomes[s] = "none"
    <2>1. label = "waiting" => panel = "waiting_approval"
      BY <1>4 DEF PanelState
    <2>2. label = "running" => panel = "analyzing"
      BY <1>4 DEF PanelState
    <2>3. label \in {"rejected", "cancelled"} => panel = label
      BY <1>4 DEF PanelState
    <2>4. label \notin {"waiting", "running", "rejected", "cancelled"} => panel = "failed_before_publish"
      BY <1>4 DEF PanelState
    <2> QED BY <1>4, <2>1, <2>2, <2>3, <2>4
  <1> QED BY <1>1, <1>2, <1>3, <1>4

LEMMA ThePanelIsTrue == ASSUME KnowledgeInv, ViewInv PROVE PanelIsTrue
  <1> SUFFICES ASSUME troubles = 0, NEW s \in Snapshots, ~Starting(s), \A r \in 1..Len(requests) : ~Underway(r)
               PROVE  /\ PanelState(s) # "analyzing"
                      /\ PanelState(s) \in SaidToBeOver =>
                           \A r \in Runs : runs[r].kind = "publish" /\ runs[r].snap = s => ~PendingTask(r)
    BY DEF PanelIsTrue
  <1>1. RunStatus(s) # "running"
    BY PanelFindsTheRun
  <1>2. PanelState(s) # "analyzing"
    BY <1>1, PanelStates
  <1>3. ASSUME NEW r \in Runs, runs[r].kind = "publish", runs[r].snap = s, PendingTask(r)
        PROVE  PanelState(s) \notin SaidToBeOver
    <2>1. r \in 1..Len(runs) /\ runs[r] # NoRun
      BY DEF Runs
    <2>2. r \in 1..Len(requests) /\ TaskTrue(r) /\ Publishes(r) /\ Pinned(r) = s
      BY <1>3, <2>1, StoredFacts
    <2>3. r \in attached
      <3>1. ASSUME NEW c \in AuthorCalls, About(c, r) PROVE FALSE
        <4>1. c \in Calls /\ proc[c].at \in RunningSteps \cup ExecSteps /\ proc[c].run = r
          BY <3>1 DEF About, Holding, Calls
        <4>2. proc[c] \in RunningCalls \cup ExecCalls
          BY <4>1 DEF KnowledgeInv, CallOK
        <4>3. "run" \in DOMAIN proc[c]
          BY <4>2 DEF RunningCalls, ExecCalls
        <4> QED BY <2>2, <4>1, <4>3 DEF Underway
      <3> QED BY <2>2, <3>1 DEF ViewInv, Untroubled
    <2>4. r \in Requested(s)
      BY <1>3, <2>3 DEF Requested
    <2>5. runs[r].status = "waiting"
      BY <1>3, <2>1, <2>2, <2>4, PanelFindsTheRun DEF TaskTrue, PendingTask
    <2>6. outcomes[s] = "none"
      BY <1>3, <2>2 DEF TaskTrue, PendingTask
    <2>7. PanelState(s) = "waiting_approval"
      BY <2>4, <2>5, <2>6, PanelFindsTheRun, PanelStates
    <2> QED BY <2>7 DEF SaidToBeOver
  <1> QED BY <1>2, <1>3

LEMMA ViewsOfferWork == ASSUME KnowledgeInv, ViewInv PROVE OffersWork
  <1>1. ASSUME NEW s \in Snapshots, NEW p \in People, CanCancel(p, s) PROVE \E r \in Requested(s) : MayCancel(p, r)
    <2>1. PanelState(s) = "waiting_approval" /\ (snapshots[s].by = p \/ roles[p] = "owner")
      BY <1>1 DEF CanCancel
    <2>2. RunStatus(s) = "waiting"
      BY <2>1, PanelStates
    <2> PICK r \in Requested(s) : TRUE
      BY <2>2, PanelFindsTheRun
    <2>3. r \in 1..Len(runs) /\ runs[r] # NoRun /\ Publishes(r) /\ Pinned(r) = s /\ runs[r].status = "waiting"
      BY <2>2, PanelFindsTheRun
    <2>4. runs[r].by = snapshots[s].by
      BY <2>3, StoredFacts DEF Author
    <2>5. r \in attached
      BY DEF Requested
    <2> QED BY <2>1, <2>3, <2>4, <2>5 DEF MayCancel
  <1>2. ASSUME NEW s \in Snapshots, NEW p \in People,
               NEW e \in RetryableEffects(p, s) \cup {x[2] : x \in {y \in RepairableEffects(p) : y[1] = s}}
        PROVE  SnapshotForAuthor(p, s) /\ outcomes[s] = "published" /\ effects[s][e].status = "failed"
    <2>1. CASE e \in RetryableEffects(p, s)
      BY <2>1 DEF RetryableEffects, SnapshotForAuthor, MayPublish, FailedEffects, Snapshots
    <2>2. CASE e \in {x[2] : x \in {y \in RepairableEffects(p) : y[1] = s}}
      <3>1. page.published = s /\ MayPublish(p) /\ e \in FailedEffects(s)
        BY <2>2 DEF RepairableEffects
      <3>2. page.published # 0
        BY <3>1 DEF Snapshots
      <3>3. outcomes[s] = "published"
        BY <3>1, <3>2, StoreFacts
      <3> QED BY <3>1, <3>3 DEF SnapshotForAuthor, MayPublish, FailedEffects, Snapshots
    <2> QED BY <2>1, <2>2
  <1>3. ASSUME NEW r \in Runs, NEW p \in People, runs[r].kind = "publish", troubles = 0 PROVE OffersRetry(p, r) = {}
    <2>1. runs[r].snap \in 1..Len(snapshots)
      BY <1>3, StoredFacts DEF Runs
    <2>2. FailedEffects(runs[r].snap) = {}
      BY <1>3, <2>1 DEF ViewInv, Untroubled, FailedEffects
    <2> QED BY <2>2 DEF OffersRetry, RetryableEffects
  <1>4. ASSUME NEW p \in People, NEW r \in WaitsForApproval(p) PROVE p \notin tasks[r].candidates
    <2>1. r \in 1..Len(runs) /\ runs[r] # NoRun /\ runs[r].kind = "publish" /\ runs[r].by = p /\ tasks[r].status = "pending"
      BY DEF WaitsForApproval, Runs, PendingTask
    <2>2. tasks[r] # NoTask
      BY <2>1 DEF NoTask
    <2> QED BY <2>1, <2>2, StoredFacts DEF TaskTrue
  <1> QED BY <1>1, <1>2, <1>3, <1>4 DEF OffersWork

(***************************************************************************)
(* What a run, a panel and the lists of what is to do say of a publication *)
(* is true, and what they offer is accepted, although calls about one run  *)
(* overwrite each other's copy of it, approvers decide and authors cancel  *)
(* at the same time, and calls die half way (platform.ts, service.ts).     *)
(***************************************************************************)
THEOREM ViewsStayTrue == MCSpec => []ViewsAreTrue
  <1>1. MCInit => KnowledgeInv /\ ViewInv
    BY PublicationInitial, ViewsInitial DEF MCInit
  <1>2. KnowledgeInv /\ ViewInv /\ [MCNext]_mcVars => KnowledgeInv' /\ ViewInv'
    <2> SUFFICES ASSUME KnowledgeInv, ViewInv, [MCNext]_mcVars PROVE KnowledgeInv' /\ ViewInv'
      OBVIOUS
    <2>1. [PublicationNext]_knowledgeVars
      BY DEF MCNext, PublishBehaviours, ReadBehaviours, PublishPart, mcVars
    <2> QED BY <2>1, PublicationKeeps, ViewsKeep
  <1>3. KnowledgeInv /\ ViewInv => ViewsAreTrue
    BY ViewsTellTheTruth, ThePanelIsTrue, ViewsOfferWork DEF ViewsAreTrue
  <1> QED BY <1>1, <1>2, <1>3, PTL DEF MCSpec
=============================================================================
