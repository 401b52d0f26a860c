---------------------------- MODULE PublicApi_proofs ----------------------------
(***************************************************************************)
(* What clients are told of one Idempotency-Key agrees, for every number of *)
(* calls, keys and bodies, every lease and every limit; listings show what  *)
(* was there all along, for every page size; access stays governed.         *)
(***************************************************************************)
EXTENDS MCPublicApi, FiniteSetTheorems, WellFoundedInduction, TLAPS

Places == {"new", "load", "take", "execute", "accept", "write", "submit", "save", "start",
           "settle", "over"}
Codes == {"none", "reused", "in_progress", "unsaved", "limited", "unavailable", "invalid",
          "closed", "decided", "broken", "denied", "accepted", "created"}
Answers == [code: Codes, by: Calls \cup {"nobody"}]
Bodies == Payloads \cup {"none"}
Rows == [status: {"free", "pending", "completed"}, payload: Bodies, until: Int, answer: Answers]
Holdings == [key: Keys \cup {"none"}, payload: Bodies, asked: Nat, seen: Rows, window: Int,
             answer: Answers]

(* Types; a call past its reservation has a key, and has read the clock.    *)
Typed ==
    /\ now \in Nat
    /\ stored \in [Keys -> Rows]
    /\ at \in [Calls -> Places]
    /\ call \in [Calls -> Holdings]
    /\ \A c \in Calls : at[c] \notin {"new", "over"} => Key(c) \in Keys
    /\ \A c \in Calls : call[c].asked <= now

(* An answer a client may rely on is the stored response of its key.        *)
Backed(row, a) == row.status = "completed" /\ row.payload = a.payload /\ row.answer = a.answer
GivenAreStored ==
    \A a \in given : /\ a.key \in Keys
                     /\ a.answer.code \notin Passing => Backed(stored[a.key], a)

IInv == Typed /\ GivenAreStored

(* What every step does to rows and answers.                                *)
Sealed == \A k \in Keys : stored[k].status = "completed" => stored'[k] = stored[k]
Honest ==
    \A a \in given' : \/ a \in given
                      \/ /\ a.key \in Keys
                         /\ a.answer.code \notin Passing => Backed(stored'[a.key], a)

LEMMA SealedAndHonest ==
  ASSUME IInv, Sealed, Honest, stored' \in [Keys -> Rows] PROVE GivenAreStored'
  BY DEF IInv, GivenAreStored, Sealed, Honest, Backed

LEMMA RowTypes ==
  /\ Free \in Rows /\ NoCall \in Holdings
  /\ \A code \in Codes : Says(code) \in Answers
  /\ \A code \in Codes, c \in Calls : Made(code, c) \in Answers
  <1>1. \A code \in Codes : Says(code) \in Answers
    BY DEF Says, Answers
  <1>2. \A code \in Codes, c \in Calls : Made(code, c) \in Answers
    BY DEF Made, Answers
  <1>3. Says("none") \in Answers
    BY <1>1 DEF Codes
  <1>4. Free \in Rows
    BY <1>3 DEF Free, Rows, Bodies
  <1>5. NoCall \in Holdings
    BY <1>3, <1>4 DEF NoCall, Holdings, Bodies
  <1> QED BY <1>1, <1>2, <1>4, <1>5

LEMMA ReservationType ==
  ASSUME Typed, NEW p \in Payloads, NEW read \in 0..now PROVE Reservation(p, read) \in Rows
  <1>1. Lease \in Nat
    BY PublicApiBounds
  <1>2. Says("none") \in Answers
    BY RowTypes DEF Codes
  <1>3. read + Lease \in Int /\ p \in Bodies
    BY <1>1 DEF Typed, Bodies
  <1> QED BY <1>2, <1>3 DEF Reservation, Rows

LEMMA InitInv == Init => IInv
  BY RowTypes DEF Init, IInv, Typed, GivenAreStored, Free, NoCall, Key, Places

Good == Typed' /\ Sealed /\ Honest

(* The holder of a call changes one field of what it holds.                 *)
LEMMA ReserveGood ==
  ASSUME IInv, NEW c \in Calls, NEW k \in Keys, NEW p \in Payloads, NEW read \in 0..now,
         Reserve(c, k, p, read)
  PROVE  Good
  <1>1. Reservation(p, read) \in Rows
    BY ReservationType DEF IInv
  <1>2. stored' \in [Keys -> Rows] /\ Sealed
    BY <1>1 DEF Reserve, IInv, Typed, Sealed
  <1>3. /\ call' \in [Calls -> Holdings] /\ call'[c].key = k /\ call'[c].asked <= now
        /\ \A d \in Calls \ {c} : call'[d] = call[d]
    <2> DEFINE asked == IF stored[k].status = "free" THEN call[c].asked ELSE read
    <2>1. asked \in Nat /\ asked <= now /\ p \in Bodies /\ call[c] \in Holdings
      BY DEF IInv, Typed, Holdings, Bodies
    <2>2. call' = [call EXCEPT ![c] = [call[c] EXCEPT !.key = k, !.payload = p, !.asked = asked]]
      BY DEF Reserve, IInv, Typed
    <2> HIDE DEF asked
    <2>3. [call[c] EXCEPT !.key = k, !.payload = p, !.asked = asked] \in Holdings
      BY <2>1 DEF Holdings
    <2> QED BY <2>1, <2>2, <2>3 DEF IInv, Typed, Holdings
  <1>4. at' \in [Calls -> Places] /\ \A d \in Calls \ {c} : at'[d] = at[d]
    BY DEF Reserve, IInv, Typed, Go, Places
  <1> QED BY <1>2, <1>3, <1>4 DEF Good, Typed, IInv, Honest, Reserve, Key

LEMMA ReserveFailsGood ==
  ASSUME IInv, NEW c \in Calls, NEW k \in Keys, NEW p \in Payloads, NEW read \in 0..now,
         ReserveFails(c, k, p, read)
  PROVE  Good
  <1>1. Reservation(p, read) \in Rows
    BY ReservationType DEF IInv
  <1>2. stored' \in [Keys -> Rows] /\ Sealed
    BY <1>1 DEF ReserveFails, IInv, Typed, Sealed
  <1>3. at' \in [Calls -> Places] /\ at'[c] = "over" /\ \A d \in Calls \ {c} : at'[d] = at[d]
    BY DEF ReserveFails, IInv, Typed, Go, Answer, Places
  <1>4. Honest
    BY DEF ReserveFails, Answer, Honest, Says, Passing, Retriable
  <1> QED BY <1>2, <1>3, <1>4 DEF Good, Typed, IInv, ReserveFails, Key

(* A reply ends its call and gives an answer to the body of the call.       *)
LEMMA ReplyGood ==
  ASSUME IInv, NEW c \in Calls, at[c] \notin {"new", "over"}, NEW a, Reply(c, a),
         now' = now, stored' \in [Keys -> Rows], Sealed,
         a.code \notin Passing =>
           Backed(stored'[Key(c)], [key |-> Key(c), payload |-> call[c].payload, answer |-> a])
  PROVE  Good
  <1>1. at' \in [Calls -> Places] /\ at'[c] = "over" /\ \A d \in Calls \ {c} : at'[d] = at[d]
    BY DEF IInv, Typed, Go, Answer, Reply, Places
  <1>2. Key(c) \in Keys
    BY DEF IInv, Typed
  <1>3. Honest
    BY <1>2 DEF Reply, Answer, Honest
  <1> QED BY <1>1, <1>3 DEF Good, Typed, IInv, Reply, Key

(* A call goes on with its key and body.                                    *)
Keeps(c) ==
    /\ call' \in [Calls -> Holdings] /\ call'[c].key = call[c].key /\ call'[c].asked = call[c].asked
    /\ \A d \in Calls \ {c} : call'[d] = call[d]
LEMMA HoldingKeeps ==
  ASSUME IInv, NEW c \in Calls
  PROVE  /\ \A a \in Answers : Holding(c, "answer", a) => Keeps(c)
         /\ \A w \in Int : Holding(c, "window", w) => Keeps(c)
         /\ \A r \in Rows : Holding(c, "seen", r) => Keeps(c)
         /\ UNCHANGED call => Keeps(c)
  BY DEF Holding, Keeps, IInv, Typed, Holdings

LEMMA GoesOnGood ==
  ASSUME IInv, NEW c \in Calls, at[c] \notin {"new", "over"}, NEW where \in Places, Go(c, where),
         Keeps(c), now' = now, stored' \in [Keys -> Rows], Sealed, given' = given
  PROVE  Good
  <1>1. at' \in [Calls -> Places] /\ \A d \in Calls \ {c} : at'[d] = at[d]
    BY DEF IInv, Typed, Go, Places
  <1> QED BY <1>1 DEF Good, Typed, IInv, Key, Keeps, Honest

LEMMA LoadGood ==
  ASSUME IInv, NEW c \in Calls, Load(c) PROVE Good
  <1> DEFINE row == stored[Key(c)]
  <1>1. at[c] \notin {"new", "over"} /\ now' = now /\ stored' = stored
    BY DEF Load
  <1>2. Key(c) \in Keys /\ row \in Rows /\ stored' \in [Keys -> Rows] /\ Sealed
    BY <1>1 DEF IInv, Typed, Sealed
  <1>3. CASE \/ Reply(c, Says("unavailable")) \/ Reply(c, Says("reused"))
             \/ Reply(c, Says("in_progress"))
    <2>1. \A code \in {"unavailable", "reused", "in_progress"} : Says(code).code \in Passing
      BY DEF Says, Passing, Retriable
    <2> QED BY <1>1, <1>2, <1>3, <2>1, ReplyGood
  <1>4. CASE row.status = "completed" /\ row.payload = call[c].payload /\ Reply(c, row.answer)
    <2>1. Backed(stored'[Key(c)],
                 [key |-> Key(c), payload |-> call[c].payload, answer |-> row.answer])
      BY <1>1, <1>4 DEF Backed
    <2> QED BY <1>1, <1>2, <1>4, <2>1, ReplyGood
  <1>5. CASE Go(c, "take") /\ Holding(c, "seen", row) /\ UNCHANGED given
    <2>1. Keeps(c) /\ "take" \in Places
      BY <1>2, <1>5, HoldingKeeps DEF Places
    <2> QED BY <1>1, <1>2, <1>5, <2>1, GoesOnGood
  <1> QED BY <1>3, <1>4, <1>5 DEF Load

LEMMA TakeOverGood ==
  ASSUME IInv, NEW c \in Calls, TakeOver(c) PROVE Good
  <1> DEFINE row == stored[Key(c)]
  <1>1. at[c] \notin {"new", "over"} /\ now' = now /\ Key(c) \in Keys /\ row \in Rows
    BY DEF TakeOver, IInv, Typed
  <1>2. CASE /\ row.status = "pending" /\ Go(c, "execute") /\ UNCHANGED <<call, given>>
             /\ stored' = [stored EXCEPT ![Key(c)].until = call[c].asked + Lease]
    <2>1. call[c].asked + Lease \in Int
      BY PublicApiBounds DEF IInv, Typed, Holdings
    <2>2. [row EXCEPT !.until = call[c].asked + Lease] \in Rows
      BY <1>1, <2>1 DEF Rows
    <2>3. stored' = [stored EXCEPT ![Key(c)] = [row EXCEPT !.until = call[c].asked + Lease]]
      BY <1>2
    <2>4. stored' \in [Keys -> Rows] /\ Sealed
      BY <1>1, <1>2, <2>2, <2>3 DEF IInv, Typed, Sealed
    <2>5. Keeps(c) /\ "execute" \in Places
      BY <1>2, HoldingKeeps DEF Places
    <2> QED BY <1>1, <1>2, <2>4, <2>5, GoesOnGood
  <1>3. CASE Reply(c, Says("in_progress")) /\ UNCHANGED stored
    <2>1. Says("in_progress").code \in Passing
      BY DEF Says, Passing
    <2>2. stored' \in [Keys -> Rows] /\ Sealed
      BY <1>3 DEF IInv, Typed, Sealed
    <2> QED BY <1>1, <1>3, <2>1, <2>2, ReplyGood
  <1> QED BY <1>2, <1>3 DEF TakeOver

(* While it executes a call answers nobody and leaves the keys alone.       *)
LEMMA ExecuteGood ==
  ASSUME IInv, NEW c \in Calls, Execute(c) PROVE Good
  <1>1. /\ at[c] \notin {"new", "over"} /\ now' = now /\ given' = given
        /\ stored' \in [Keys -> Rows] /\ Sealed
    BY DEF Execute, RefuseBody, Consume, Accept, CreatePending, Prepare, SavePlan, StartWorkflow,
           IInv, Typed, Sealed
  <1>2. \A read \in 0..now : WindowOf(read) \in Int
    BY PublicApiBounds DEF WindowOf, IInv, Typed
  <1>3. ASSUME NEW a \in Answers, Respond(c, a) PROVE Good
    <2>1. Keeps(c) /\ "settle" \in Places /\ Go(c, "settle")
      BY <1>3, HoldingKeeps DEF Respond, Places
    <2> QED BY <1>1, <2>1, GoesOnGood
  <1>4. ASSUME NEW where \in Places, Go(c, where),
               UNCHANGED call \/ \E w \in Int : Holding(c, "window", w)
        PROVE  Good
    <2>1. Keeps(c)
      BY <1>4, HoldingKeeps
    <2> QED BY <1>1, <1>4, <2>1, GoesOnGood
  <1>5. \/ \E a \in Answers : Respond(c, a)
        \/ \E where \in Places :
             Go(c, where) /\ (UNCHANGED call \/ \E w \in Int : Holding(c, "window", w))
    <2>0. CASE RefuseBody(c)
      BY <2>0, RowTypes DEF RefuseBody, Codes
    <2>1. CASE \E read \in 0..now : Consume(c, WindowOf(read))
      BY <1>2, <2>1, RowTypes DEF Consume, Codes, Places
    <2>2. CASE Accept(c)
      BY <2>2, RowTypes DEF Accept, Codes, Places
    <2>3. CASE CreatePending(c)
      BY <2>3, RowTypes DEF CreatePending, Codes
    <2>4. CASE Prepare(c)
      BY <2>4, RowTypes DEF Prepare, Codes, Places
    <2>5. CASE SavePlan(c)
      BY <2>5, RowTypes DEF SavePlan, Codes, Places
    <2>6. CASE StartWorkflow(c)
      BY <2>6, RowTypes DEF StartWorkflow, Codes
    <2> QED BY <2>0, <2>1, <2>2, <2>3, <2>4, <2>5, <2>6 DEF Execute
  <1> QED BY <1>3, <1>4, <1>5

(* Only a pending row is given back.                                        *)
LEMMA ReleaseGood ==
  ASSUME IInv, NEW c \in Calls, Release(c) PROVE Good
  <1>1. /\ at[c] \notin {"new", "over"} /\ now' = now /\ Reply(c, call[c].answer)
        /\ call[c].answer.code \in Passing
    BY DEF Release, Passing
  <1>2. stored' \in [Keys -> Rows] /\ Sealed
    BY RowTypes DEF Release, Held, IInv, Typed, Sealed
  <1> QED BY <1>1, <1>2, ReplyGood

(* What is answered has just been stored over a pending row.                *)
LEMMA CompleteGood ==
  ASSUME IInv, NEW c \in Calls, Complete(c) PROVE Good
  <1> DEFINE row == stored[Key(c)]
             a   == call[c].answer
             held == Held(row, call[c].payload)
             done == [stored EXCEPT ![Key(c)] = Completed(row, a)]
  <1>1. /\ at[c] \notin {"new", "over"} /\ now' = now /\ Key(c) \in Keys /\ row \in Rows
        /\ call[c] \in Holdings
    BY DEF Complete, IInv, Typed
  <1>2. Completed(row, a) \in Rows
    BY <1>1 DEF Completed, Rows, Holdings
  <1>3. stored' = stored \/ (held /\ stored' = done)
    BY DEF Complete, MayComplete
  <1>4. stored' \in [Keys -> Rows] /\ Sealed
    BY <1>1, <1>2, <1>3 DEF Held, IInv, Typed, Sealed
  <1>5. CASE held /\ stored' = done /\ Reply(c, a)
    <2>1. Backed(stored'[Key(c)], [key |-> Key(c), payload |-> call[c].payload, answer |-> a])
      BY <1>1, <1>5 DEF Backed, Completed, Held, Rows, IInv, Typed
    <2> QED BY <1>1, <1>4, <1>5, <2>1, ReplyGood
  <1>6. CASE Reply(c, Says("unsaved")) \/ Reply(c, Says("unavailable"))
    <2>1. \A code \in {"unsaved", "unavailable"} : Says(code).code \in Passing
      BY DEF Says, Passing, Retriable
    <2> QED BY <1>1, <1>4, <1>6, <2>1, ReplyGood
  <1> QED BY <1>5, <1>6 DEF Complete, MayComplete

LEMMA DieGood ==
  ASSUME IInv, NEW c \in Calls, Die(c) PROVE Good
  <1>1. stored' \in [Keys -> Rows] /\ Sealed /\ Keeps(c) /\ "over" \in Places
    BY HoldingKeeps DEF Die, IInv, Typed, Sealed, Places
  <1> QED BY <1>1, GoesOnGood DEF Die

LEMMA StepGood ==
  ASSUME IInv, [Next]_vars PROVE Good
  <1>1. ASSUME NEW c \in Calls, Handle(c) PROVE Good
    BY <1>1, ReserveGood, ReserveFailsGood, LoadGood, TakeOverGood, ExecuteGood, ReleaseGood,
       CompleteGood, DieGood DEF Handle
  <1>2. CASE ApplyCommand \/ CloseTask \/ UNCHANGED vars
    BY <1>2 DEF ApplyCommand, CloseTask, vars, Good, IInv, Typed, Sealed, Honest, Key
  <1>3. CASE Tick
    <2>1. now' = now + 1 /\ UNCHANGED <<stored, at, call, given>>
      BY <1>3 DEF Tick
    <2>2. \A c \in Calls : call[c].asked <= now + 1
      BY DEF IInv, Typed, Holdings
    <2> QED BY <2>1, <2>2 DEF Good, IInv, Typed, Sealed, Honest, Key
  <1> QED BY <1>1, <1>2, <1>3 DEF Next

(* The inductive invariant: every answer to rely on is a stored response,   *)
(* and a stored response is never replaced.                                 *)
THEOREM Invariance == Spec => []IInv
  <1>1. IInv /\ [Next]_vars => IInv'
    <2> SUFFICES ASSUME IInv, [Next]_vars PROVE IInv'
      OBVIOUS
    <2>1. Typed' /\ Sealed /\ Honest
      BY StepGood DEF Good
    <2>2. GivenAreStored'
      BY <2>1, SealedAndHonest DEF Typed
    <2> QED BY <2>1, <2>2 DEF IInv
  <1> QED BY InitInv, <1>1, PTL DEF Spec

(* Answers to one key and body that do not ask to try again agree: late     *)
(* holders, those that took over, and replays say the same.                 *)
THEOREM AnswersAgreeHolds == Spec => []AnswersAgree
  <1>1. IInv => AnswersAgree
    BY DEF IInv, GivenAreStored, Backed, AnswersAgree
  <1> QED BY <1>1, Invariance, PTL

(* A stored response is never replaced nor removed.                         *)
THEOREM ResponsesAreFinal == Spec => [][Sealed]_vars
  <1>1. IInv /\ [Next]_vars => [Sealed]_vars
    BY StepGood DEF Good
  <1> QED BY <1>1, Invariance, PTL DEF Spec

-----------------------------------------------------------------------------
(* What the requests of a client come to.  A call owns its key from its     *)
(* reservation until it answers, and for good once it has written.          *)
Executing == {"execute", "accept", "write", "submit", "save", "start", "settle"}
Effects == {"none", "command", "planned", "started"}
Owns(c, k) == Key(c) = k /\ (at[c] \in Executing \/ effect[c] # "none")

Alone(k) ==
    /\ \A c, d \in Calls : Owns(c, k) /\ Owns(d, k) => c = d
    /\ stored[k].status = "free" => \A c \in Calls : ~Owns(c, k)

OwnersOK ==
    /\ effect \in [Calls -> Effects]
    /\ \A c \in Calls : at[c] \in {"new", "load", "take"} => effect[c] = "none"
    /\ \A c \in Calls : at[c] = "take" => LeaseOver(call[c].seen.until)
    /\ \A k \in Keys \ excused : Alone(k)

(* A step of one call: whatever it does, the other calls stay as they are.  *)
Others(c) ==
    \A d \in Calls \ {c} : at'[d] = at[d] /\ call'[d] = call[d] /\ effect'[d] = effect[d]

LEMMA OthersStay ==
  ASSUME IInv, OwnersOK, NEW c \in Calls, Handle(c) PROVE Others(c)
  <1> USE DEF IInv, Typed, OwnersOK, Others, Go, Holding, Answer, Reply, Respond
  <1>1. CASE \E k \in Keys, p \in Payloads, read \in 0..now :
               Reserve(c, k, p, read) \/ ReserveFails(c, k, p, read)
    BY <1>1 DEF Reserve, ReserveFails
  <1>2. CASE Load(c) \/ TakeOver(c) \/ Release(c) \/ Complete(c) \/ Die(c)
    BY <1>2 DEF Load, TakeOver, Release, Complete, Die
  <1>3. CASE Execute(c)
    BY <1>3 DEF Execute, RefuseBody, Consume, Accept, CreatePending, Prepare, SavePlan, StartWorkflow
  <1> QED BY <1>1, <1>2, <1>3 DEF Handle

(* A call that owned its key before, or owns none now, disturbs no owner.   *)
LEMMA OwnersShrink ==
  ASSUME OwnersOK, NEW c \in Calls, Others(c), effect' \in [Calls -> Effects],
         excused \subseteq excused', now' = now,
         \A k \in Keys \ excused' : /\ Owns(c, k)' => Owns(c, k)
                                    /\ stored'[k].status = "free" => stored[k].status = "free",
         at'[c] \in {"new", "load", "take"} => effect'[c] = "none",
         at'[c] = "take" => LeaseOver(call'[c].seen.until)
  PROVE  OwnersOK'
  <1>1. \A d \in Calls : at'[d] \in {"new", "load", "take"} => effect'[d] = "none"
    BY DEF OwnersOK, Others
  <1>2. \A d \in Calls : at'[d] = "take" => LeaseOver(call[d].seen.until)'
    BY DEF OwnersOK, Others, LeaseOver
  <1>3. ASSUME NEW k \in Keys \ excused' PROVE Alone(k)'
    <2>1. Alone(k)
      BY <1>3 DEF OwnersOK
    <2>2. \A d \in Calls : Owns(d, k)' => Owns(d, k)
      BY <1>3 DEF Others, Owns, Key
    <2> QED BY <1>3, <2>1, <2>2 DEF Alone
  <1> QED BY <1>1, <1>2, <1>3 DEF OwnersOK

LEMMA ReserveOwners ==
  ASSUME IInv, OwnersOK, NEW c \in Calls, NEW k \in Keys, NEW p \in Payloads,
         NEW read \in 0..now, Reserve(c, k, p, read)
  PROVE  OwnersOK'
  <1>0. Handle(c)
    BY Zenon DEF Handle
  <1>1. Others(c) /\ effect' = effect /\ excused' = excused /\ now' = now /\ at[c] = "new"
    BY <1>0, OthersStay DEF Reserve
  <1>2. effect'[c] = "none" /\ at'[c] \in {"execute", "load"} /\ Key(c)' = k
    BY <1>1 DEF Reserve, Go, Key, IInv, Typed, Holdings, OwnersOK
  <1>3. CASE stored[k].status = "free"
    <2>1. /\ stored'[k].status = "pending"
          /\ \A l \in Keys \ {k} : stored'[l] = stored[l]
      BY <1>3 DEF Reserve, Reservation, IInv, Typed
    <2>2. ASSUME NEW l \in Keys \ excused' PROVE Alone(l)'
      <3>1. Alone(l)
        BY <1>1, <2>2 DEF OwnersOK
      <3>2. CASE l = k
        <4>1. \A d \in Calls : Owns(d, k)' => d = c
          BY <1>1, <1>3, <3>1, <3>2 DEF Alone, Owns, Key, Others
        <4> QED BY <2>1, <3>2, <4>1 DEF Alone
      <3>3. CASE l # k
        <4>1. \A d \in Calls : Owns(d, l)' => Owns(d, l)
          BY <1>1, <1>2, <3>3 DEF Owns, Key, Others
        <4> QED BY <2>1, <3>1, <3>3, <4>1 DEF Alone
      <3> QED BY <3>2, <3>3
    <2>3. at'[c] = "execute"
      BY <1>3 DEF Reserve, Go, IInv, Typed
    <2>4. \A d \in Calls : at'[d] \in {"new", "load", "take"} => effect'[d] = "none"
      BY <1>1, <1>2 DEF OwnersOK, Others
    <2>5. \A d \in Calls : at'[d] = "take" => LeaseOver(call[d].seen.until)'
      BY <1>1, <2>3 DEF OwnersOK, Others, LeaseOver
    <2> QED BY <1>1, <2>2, <2>4, <2>5 DEF OwnersOK
  <1>4. CASE stored[k].status # "free"
    <2>1. stored' = stored /\ at'[c] = "load"
      BY <1>4 DEF Reserve, Go, IInv, Typed
    <2>2. \A l \in Keys : ~Owns(c, l)'
      BY <1>2, <2>1 DEF Owns, Executing
    <2> QED BY <1>1, <1>2, <2>1, <2>2, OwnersShrink DEF OwnersOK
  <1> QED BY <1>3, <1>4

LEMMA ReserveFailsOwners ==
  ASSUME IInv, OwnersOK, NEW c \in Calls, NEW k \in Keys, NEW p \in Payloads,
         NEW read \in 0..now, ReserveFails(c, k, p, read)
  PROVE  OwnersOK'
  <1>0. Handle(c)
    BY Zenon DEF Handle
  <1>1. Others(c) /\ effect' = effect /\ excused' = excused /\ now' = now
    BY <1>0, OthersStay DEF ReserveFails
  <1>2. effect'[c] = "none" /\ at'[c] = "over"
    BY <1>1 DEF ReserveFails, Answer, Go, IInv, Typed, OwnersOK
  <1>3. \A l \in Keys : stored'[l].status = "free" => stored[l].status = "free"
    BY DEF ReserveFails, Reservation, IInv, Typed
  <1>4. \A l \in Keys : ~Owns(c, l)'
    BY <1>2 DEF Owns, Executing
  <1> QED BY <1>1, <1>2, <1>3, <1>4, OwnersShrink DEF OwnersOK

LEMMA LoadOwners ==
  ASSUME IInv, OwnersOK, NEW c \in Calls, Load(c) PROVE OwnersOK'
  <1>1. Others(c) /\ effect' = effect /\ excused' = excused /\ now' = now /\ stored' = stored
    BY OthersStay DEF Load, Handle
  <1>2. effect'[c] = "none" /\ at'[c] \in {"over", "take"}
    BY <1>1 DEF Load, Reply, Answer, Go, IInv, Typed, OwnersOK
  <1>3. at'[c] = "take" => LeaseOver(call'[c].seen.until)
    <2>1. SUFFICES ASSUME at'[c] = "take" PROVE LeaseOver(call'[c].seen.until)
      OBVIOUS
    <2>2. TakesOver(stored[Key(c)].until, call[c].asked) /\ Holding(c, "seen", stored[Key(c)])
      BY <2>1 DEF Load, Reply, Answer, Go, IInv, Typed
    <2>3. LeaseOver(stored[Key(c)].until)
      BY <1>1, <2>2 DEF Load, TakesOver, LeaseOver, IInv, Typed, Holdings, Rows
    <2> QED BY <2>2, <2>3 DEF Holding, IInv, Typed, Holdings, LeaseOver
  <1>4. \A l \in Keys : ~Owns(c, l)'
    BY <1>2 DEF Owns, Executing
  <1> QED BY <1>1, <1>2, <1>3, <1>4, OwnersShrink DEF OwnersOK

LEMMA TakeOverOwners ==
  ASSUME IInv, OwnersOK, NEW c \in Calls, TakeOver(c) PROVE OwnersOK'
  <1>1. /\ Others(c) /\ effect' = effect /\ now' = now /\ excused \subseteq excused'
        /\ at'[c] \in {"execute", "over"} /\ Key(c)' = Key(c) /\ Key(c) \in Keys
    BY OthersStay DEF TakeOver, Handle, Reply, Answer, Go, Excuse, Key, IInv, Typed
  <1>2. \A l \in Keys : stored'[l].status = "free" => stored[l].status = "free"
    BY DEF TakeOver, IInv, Typed, Rows
  <1>3. at'[c] = "execute" => Key(c) \in excused'
    BY DEF TakeOver, Reply, Answer, Go, Excuse, IInv, Typed, OwnersOK
  <1>4. effect'[c] = "none"
    BY <1>1 DEF TakeOver, OwnersOK
  <1>5. \A l \in Keys \ excused' : ~Owns(c, l)'
    BY <1>1, <1>3, <1>4 DEF Owns, Executing
  <1> QED BY <1>1, <1>2, <1>4, <1>5, OwnersShrink DEF OwnersOK

LEMMA ExecuteOwners ==
  ASSUME IInv, OwnersOK, NEW c \in Calls, Execute(c) PROVE OwnersOK'
  <1>1. Others(c) /\ excused' = excused /\ now' = now /\ stored' = stored
    BY OthersStay DEF Execute, RefuseBody, Consume, Accept, CreatePending, Prepare, SavePlan,
                      StartWorkflow, Handle
  <1>2. at[c] \in Executing
    BY DEF Execute, RefuseBody, Consume, Accept, CreatePending, Prepare, SavePlan, StartWorkflow,
           Executing
  <1>3. at'[c] \in Executing /\ Key(c)' = Key(c)
    <2>1. CASE RefuseBody(c)
      BY <2>1 DEF RefuseBody, Executing, Respond, Go, Holding, Key, IInv, Typed, Holdings
    <2>2. ASSUME NEW read \in 0..now, Consume(c, WindowOf(read))
          PROVE  at'[c] \in Executing /\ Key(c)' = Key(c)
      BY <2>2 DEF Consume, Executing, Respond, Go, Holding, Key, IInv, Typed, Holdings
    <2>3. CASE Accept(c) \/ CreatePending(c) \/ Prepare(c) \/ SavePlan(c) \/ StartWorkflow(c)
      BY <2>3 DEF Accept, CreatePending, Prepare, SavePlan, StartWorkflow, Executing, Respond, Go,
                  Holding, Key, IInv, Typed, Holdings
    <2> QED BY <2>1, <2>2, <2>3 DEF Execute
  <1>4. effect' \in [Calls -> Effects]
    BY DEF Execute, RefuseBody, Consume, Accept, CreatePending, Prepare, SavePlan, StartWorkflow, OwnersOK,
           Effects
  <1> QED BY <1>1, <1>2, <1>3, <1>4, OwnersShrink DEF Owns, Executing

LEMMA SettleOwners ==
  ASSUME IInv, OwnersOK, NEW c \in Calls, Release(c) \/ Complete(c) PROVE OwnersOK'
  <1>1. /\ Others(c) /\ effect' = effect /\ now' = now /\ excused \subseteq excused'
        /\ at[c] = "settle" /\ at'[c] = "over" /\ Key(c)' = Key(c) /\ Key(c) \in Keys
    BY OthersStay DEF Release, Complete, Handle, Reply, Answer, Go, Excuse, Key, IInv, Typed
  <1>2. \A l \in Keys : Owns(c, l)' => Owns(c, l)
    BY <1>1 DEF Owns, Executing
  <1>3. \A l \in Keys \ {Key(c)} : stored'[l] = stored[l]
    BY DEF Release, Complete, IInv, Typed
  <1>4. CASE stored'[Key(c)].status = "free" => stored[Key(c)].status = "free"
    BY <1>1, <1>2, <1>3, <1>4, OwnersShrink DEF OwnersOK
  <1>5. CASE ~(stored'[Key(c)].status = "free" => stored[Key(c)].status = "free")
    <2>1. Release(c)
      BY <1>1, <1>5 DEF Complete, Completed, MayComplete, Held, IInv, Typed, Rows
    <2>2. effect[c] # "none" => Key(c) \in excused'
      BY <2>1 DEF Release, Excuse
    <2>3. ASSUME NEW l \in Keys \ excused' PROVE Alone(l)'
      <3>1. Alone(l)
        BY <1>1, <2>3 DEF OwnersOK
      <3>2. \A d \in Calls : Owns(d, l)' => Owns(d, l)
        BY <1>1, <1>2 DEF Owns, Key, Others
      <3>3. CASE l # Key(c)
        BY <1>3, <3>1, <3>2, <3>3 DEF Alone
      <3>4. CASE l = Key(c)
        <4>1. Owns(c, l) /\ ~Owns(c, l)'
          BY <1>1, <2>2, <2>3, <3>4 DEF Owns, Executing
        <4>2. \A d \in Calls : ~Owns(d, l)'
          BY <3>1, <3>2, <4>1 DEF Alone
        <4> QED BY <4>2 DEF Alone
      <3> QED BY <3>3, <3>4
    <2>4. \A d \in Calls : at'[d] \in {"new", "load", "take"} => effect'[d] = "none"
      BY <1>1 DEF OwnersOK, Others
    <2>5. \A d \in Calls : at'[d] = "take" => LeaseOver(call[d].seen.until)'
      BY <1>1 DEF OwnersOK, Others, LeaseOver
    <2> QED BY <1>1, <2>3, <2>4, <2>5 DEF OwnersOK
  <1> QED BY <1>4, <1>5

LEMMA DieOwners ==
  ASSUME IInv, OwnersOK, NEW c \in Calls, Die(c) PROVE OwnersOK'
  <1>1. /\ Others(c) /\ effect' = effect /\ now' = now /\ excused' = excused
        /\ stored' = stored /\ at'[c] = "over" /\ Key(c)' = Key(c)
    BY OthersStay DEF Die, Handle, Go, Key, IInv, Typed
  <1>2. \A l \in Keys : Owns(c, l)' => Owns(c, l)
    BY <1>1 DEF Owns, Executing
  <1> QED BY <1>1, <1>2, OwnersShrink DEF OwnersOK

LEMMA StepOwners ==
  ASSUME IInv, OwnersOK, [Next]_vars PROVE OwnersOK'
  <1>1. ASSUME NEW c \in Calls, Handle(c) PROVE OwnersOK'
    BY <1>1, ReserveOwners, ReserveFailsOwners, LoadOwners, TakeOverOwners, ExecuteOwners,
       SettleOwners, DieOwners DEF Handle
  <1>2. CASE ApplyCommand \/ CloseTask \/ UNCHANGED vars
    BY <1>2 DEF ApplyCommand, CloseTask, vars, OwnersOK, Alone, Owns, Key, LeaseOver
  <1>3. CASE Tick
    <2>1. \A c \in Calls : at'[c] = "take" => LeaseOver(call[c].seen.until)'
      BY <1>3 DEF Tick, OwnersOK, LeaseOver, IInv, Typed, Holdings, Rows
    <2> QED BY <1>3, <2>1 DEF Tick, OwnersOK, Alone, Owns, Key
  <1> QED BY <1>1, <1>2, <1>3 DEF Next

THEOREM Ownership == Spec => []OwnersOK
  <1>1. Init => OwnersOK
    BY DEF Init, OwnersOK, Alone, Owns, Executing, Effects
  <1>2. IInv /\ OwnersOK /\ [Next]_vars => OwnersOK'
    BY StepOwners
  <1> QED BY <1>1, <1>2, Invariance, PTL DEF Spec

(* A key that nobody took over and that no attempt gave back after writing  *)
(* leads to one command or ActionRequest at most.                           *)
THEOREM OneEffectPerKeyHolds == Spec => []OneEffectPerKey
  <1>1. OwnersOK => OneEffectPerKey
    <2> SUFFICES ASSUME OwnersOK, NEW k \in Keys \ excused
                 PROVE  Cardinality(Wrote(k)) <= 1
      BY DEF OneEffectPerKey
    <2>1. \A c, d \in Wrote(k) : c = d
      BY DEF OwnersOK, Alone, Owns, Wrote
    <2>2. CASE Wrote(k) = {}
      BY <2>2, FS_EmptySet
    <2>3. ASSUME NEW c \in Wrote(k) PROVE Cardinality(Wrote(k)) <= 1
      <3>1. Wrote(k) = {c}
        BY <2>1, <2>3
      <3>2. Cardinality(Wrote(k)) = 1
        BY <3>1, FS_Singleton, Zenon
      <3> QED BY <3>2
    <2> QED BY <2>2, <2>3
  <1> QED BY <1>1, Ownership, PTL

-----------------------------------------------------------------------------
(* The requests a window let pass and that have written or still may.       *)
Charging == {"accept", "write", "submit", "save", "start"}
Charged(o, w) == {c \in Calls : /\ at[c] \in Charging \/ effect[c] # "none"
                                /\ OperationOf(Key(c)) = o /\ call[c].window = w}
Operations == {"decide", "create"}

WithinBounds(o, w) ==
    /\ IsFiniteSet(Charged(o, w))
    /\ Cardinality(Charged(o, w)) <= counter[o][w] /\ Cardinality(Charged(o, w)) <= Limit
WindowsOK ==
    /\ now \in 0..MaxTime
    /\ counter \in [Operations -> [Windows -> Nat]]
    /\ \A o \in Operations, w \in Windows : WithinBounds(o, w)

(* Whoever is charged no more, or was charged before, disturbs no window.   *)
LEMMA ChargesShrink ==
  ASSUME WindowsOK, now' \in 0..MaxTime, counter' = counter,
         \A o \in Operations, w \in Windows : Charged(o, w)' \subseteq Charged(o, w)
  PROVE  WindowsOK'
  <1>1. ASSUME NEW o \in Operations, NEW w \in Windows PROVE WithinBounds(o, w)'
    <2> DEFINE S == Charged(o, w)
               T == Charged(o, w)'
    <2> HIDE DEF S, T
    <2>1. T \subseteq S /\ IsFiniteSet(S)
      BY DEF S, T, WindowsOK, WithinBounds
    <2>2. IsFiniteSet(T) /\ Cardinality(T) <= Cardinality(S)
      BY <2>1, FS_Subset
    <2>3. Cardinality(T) \in Nat /\ Cardinality(S) \in Nat
      BY <2>1, <2>2, FS_CardinalityType
    <2>4. Cardinality(S) <= counter[o][w] /\ Cardinality(S) <= Limit
      BY DEF S, WindowsOK, WithinBounds
    <2>5. counter[o][w] \in Nat /\ Limit \in Nat
      BY PublicApiBounds DEF WindowsOK
    <2>6. Cardinality(T) <= counter'[o][w] /\ Cardinality(T) <= Limit
      BY <2>2, <2>3, <2>4, <2>5
    <2> QED BY <2>2, <2>6 DEF T, WithinBounds
  <1> QED BY <1>1 DEF WindowsOK

(* consume lets one more call pass and counts it.                           *)
LEMMA ConsumeWindows ==
  ASSUME IInv, OwnersOK, WindowsOK, NEW c \in Calls, NEW read \in 0..now,
         Consume(c, WindowOf(read))
  PROVE  WindowsOK'
  <1> DEFINE op == OperationOf(Key(c))
             charged == WindowOf(read)
  <1>0. Consume(c, charged)
    OBVIOUS
  <1>1. /\ Others(c) /\ effect' = effect /\ now' = now /\ at[c] = "execute"
        /\ op \in Operations
    BY OthersStay DEF Consume, Execute, Handle, OperationOf, Operations
  <1>2. charged \in Windows
    <2>1. read \in 0..MaxTime
      BY PublicApiBounds DEF WindowsOK
    <2> QED BY <2>1 DEF WindowOf, Windows
  <1> HIDE DEF charged
  <1>3. /\ counter' \in [Operations -> [Windows -> Nat]]
        /\ counter'[op][charged] = counter[op][charged] + 1
        /\ \A o \in Operations, w \in Windows : counter'[o][w] >= counter[o][w]
    BY <1>0, <1>1, <1>2 DEF Consume, WindowsOK
  <1>4. Key(c)' = Key(c)
    BY <1>0 DEF Consume, Respond, Holding, Key, IInv, Typed, Holdings
  <1>5. at'[c] \in Charging => /\ counter[op][charged] + 1 <= Limit
                               /\ call'[c].window = charged
    BY <1>0 DEF Consume, WithinLimit, Allowed, Respond, Go, Holding, Charging, IInv, Typed, Holdings
  <1>6. effect[c] # "none" => call'[c].window = call[c].window \/ at'[c] \in Charging
    BY <1>0 DEF Consume, Respond, Go, Holding, Charging, IInv, Typed, Holdings
  <1>7. ASSUME NEW o \in Operations, NEW w \in Windows PROVE WithinBounds(o, w)'
    <2> DEFINE S == Charged(o, w)
               T == Charged(o, w)'
    <2>1. T \subseteq S \cup {c}
      BY <1>1 DEF Charged, Others, Key
    <2>2. CASE T \subseteq S
      <3> HIDE DEF S, T
      <3>1. IsFiniteSet(S)
        BY DEF S, WindowsOK, WithinBounds
      <3>2. IsFiniteSet(T) /\ Cardinality(T) <= Cardinality(S)
        BY <2>2, <3>1, FS_Subset
      <3>3. Cardinality(T) \in Nat /\ Cardinality(S) \in Nat
        BY <3>1, <3>2, FS_CardinalityType
      <3>4. Cardinality(S) <= counter[o][w] /\ Cardinality(S) <= Limit
        BY DEF S, WindowsOK, WithinBounds
      <3>5. counter[o][w] \in Nat /\ counter'[o][w] \in Nat /\ Limit \in Nat
        BY <1>3, PublicApiBounds DEF WindowsOK
      <3>6. counter'[o][w] >= counter[o][w]
        BY <1>3
      <3>7. Cardinality(T) <= counter'[o][w] /\ Cardinality(T) <= Limit
        BY <3>2, <3>3, <3>4, <3>5, <3>6
      <3> QED BY <3>2, <3>7 DEF T, WithinBounds
    <2>3. CASE ~(T \subseteq S)
      <3>1. c \in T /\ c \notin S
        BY <2>1, <2>3
      <3>2. at'[c] \in Charging /\ o = op /\ w = charged
        BY <1>1, <1>4, <1>5, <1>6, <3>1 DEF Charged, Key
      <3>3. /\ counter'[o][w] = counter[o][w] + 1 /\ counter[o][w] + 1 <= Limit
            /\ counter[o][w] \in Nat
        BY <1>2, <1>3, <1>5, <3>2 DEF WindowsOK
      <3>4. Cardinality(S) <= counter[o][w]
        BY DEF WindowsOK, WithinBounds
      <3>5. IsFiniteSet(S)
        BY DEF WindowsOK, WithinBounds
      <3> HIDE DEF S, T
      <3>6. IsFiniteSet(S \cup {c}) /\ Cardinality(S \cup {c}) = Cardinality(S) + 1
        BY <3>1, <3>5, FS_AddElement
      <3>7. IsFiniteSet(T) /\ Cardinality(T) <= Cardinality(S \cup {c})
        BY <2>1, <3>6, FS_Subset
      <3>8. Cardinality(T) \in Nat /\ Cardinality(S) \in Nat /\ Limit \in Nat
        BY <3>5, <3>7, FS_CardinalityType, PublicApiBounds
      <3>9. Cardinality(T) <= counter'[o][w] /\ Cardinality(T) <= Limit
        BY <3>3, <3>4, <3>6, <3>7, <3>8
      <3> QED BY <3>7, <3>9 DEF T, WithinBounds
    <2> QED BY <2>2, <2>3
  <1> QED BY <1>1, <1>3, <1>7 DEF WindowsOK

LEMMA HandleWindows ==
  ASSUME IInv, OwnersOK, WindowsOK, NEW c \in Calls, Handle(c),
         \A read \in 0..now : ~Consume(c, WindowOf(read))
  PROVE  WindowsOK'
  <1>1. Others(c) /\ now' = now /\ counter' = counter
    <2>1. Others(c)
      BY OthersStay
    <2>2. CASE \E k \in Keys, p \in Payloads, read \in 0..now :
               Reserve(c, k, p, read) \/ ReserveFails(c, k, p, read)
      BY <2>1, <2>2 DEF Reserve, ReserveFails
    <2>3. CASE Load(c) \/ TakeOver(c) \/ Release(c) \/ Complete(c) \/ Die(c)
      BY <2>1, <2>3 DEF Load, TakeOver, Release, Complete, Die
    <2>4. CASE \/ RefuseBody(c) \/ Accept(c) \/ CreatePending(c) \/ Prepare(c) \/ SavePlan(c)
               \/ StartWorkflow(c)
      BY <2>1, <2>4 DEF RefuseBody, Accept, CreatePending, Prepare, SavePlan, StartWorkflow
    <2> QED BY Zenon, <2>2, <2>3, <2>4 DEF Handle, Execute
  <1>2. ASSUME NEW o \in Operations, NEW w \in Windows
        PROVE  Charged(o, w)' \subseteq Charged(o, w)
    <2>1. CASE \E k \in Keys, p \in Payloads, read \in 0..now :
               Reserve(c, k, p, read) \/ ReserveFails(c, k, p, read)
      <3>1. at'[c] \notin Charging /\ effect'[c] = "none"
        BY <2>1 DEF Reserve, ReserveFails, Answer, Go, Charging, IInv, Typed, OwnersOK
      <3> QED BY <1>1, <3>1 DEF Charged, Others, Key
    <2>2. CASE Load(c) \/ TakeOver(c) \/ Release(c) \/ Complete(c) \/ Die(c)
      <3>1. /\ at'[c] \notin Charging /\ effect' = effect
            /\ call'[c].window = call[c].window /\ Key(c)' = Key(c)
        BY <2>2 DEF Load, TakeOver, Release, Complete, Die, Reply, Answer, Go, Holding, Charging,
             Key, IInv, Typed, Holdings
      <3> QED BY <1>1, <3>1 DEF Charged, Others, Key
    <2>3. CASE Accept(c) \/ CreatePending(c) \/ Prepare(c) \/ SavePlan(c) \/ StartWorkflow(c)
      <3>1. at[c] \in Charging /\ call'[c].window = call[c].window /\ Key(c)' = Key(c)
        BY <2>3 DEF Accept, CreatePending, Prepare, SavePlan, StartWorkflow, Respond, Go, Holding,
             Charging, Key, IInv, Typed, Holdings
      <3> QED BY <1>1, <3>1 DEF Charged, Others, Key
    <2>4. CASE RefuseBody(c)
      <3>1. /\ at'[c] \notin Charging /\ effect' = effect
            /\ call'[c].window = call[c].window /\ Key(c)' = Key(c)
        BY <2>4 DEF RefuseBody, Respond, Go, Holding, Charging, Key, IInv, Typed, Holdings
      <3> QED BY <1>1, <3>1 DEF Charged, Others, Key
    <2> QED BY <2>1, <2>2, <2>3, <2>4 DEF Handle, Execute
  <1> QED BY <1>1, <1>2, ChargesShrink DEF WindowsOK

THEOREM Charges == Spec => []WindowsOK
  <1>1. Init => WindowsOK
    <2> SUFFICES ASSUME Init PROVE WindowsOK
      OBVIOUS
    <2>1. counter \in [Operations -> [Windows -> Nat]] /\ now \in 0..MaxTime
      BY PublicApiBounds DEF Init, Operations
    <2>2. ASSUME NEW o \in Operations, NEW w \in Windows PROVE WithinBounds(o, w)
      <3>1. Charged(o, w) = {}
        BY DEF Init, Charged, Charging
      <3>2. counter[o][w] = 0 /\ Limit \in Nat
        BY PublicApiBounds DEF Init, Operations
      <3>3. IsFiniteSet({}) /\ Cardinality({}) = 0
        BY FS_EmptySet
      <3> QED BY <3>1, <3>2, <3>3 DEF WithinBounds
    <2> QED BY <2>1, <2>2 DEF WindowsOK
  <1>2. IInv /\ OwnersOK /\ WindowsOK /\ [Next]_vars => WindowsOK'
    <2> SUFFICES ASSUME IInv, OwnersOK, WindowsOK, [Next]_vars PROVE WindowsOK'
      OBVIOUS
    <2>1. ASSUME NEW c \in Calls, Handle(c) PROVE WindowsOK'
      BY <2>1, ConsumeWindows, HandleWindows
    <2>2. CASE Tick \/ ApplyCommand \/ CloseTask \/ UNCHANGED vars
      <3> MaxTime \in Nat
        BY PublicApiBounds
      <3>1. now' \in 0..MaxTime /\ UNCHANGED <<counter, at, call, effect>>
        BY <2>2 DEF Tick, ApplyCommand, CloseTask, vars, WindowsOK
      <3> QED BY <3>1, ChargesShrink DEF Charged, Key
    <2> QED BY <2>1, <2>2 DEF Next
  <1> QED BY <1>1, <1>2, Invariance, Ownership, PTL DEF Spec

(* A window lets no more than Limit of a user's requests write.             *)
THEOREM LimitHoldsHolds == Spec => []LimitHolds
  <1>1. WindowsOK => LimitHolds
    <2> SUFFICES ASSUME WindowsOK, NEW o \in Operations, NEW w \in Windows
                 PROVE  Cardinality({c \in Calls : /\ effect[c] # "none"
                                                   /\ OperationOf(Key(c)) = o
                                                   /\ call[c].window = w}) <= Limit
      BY DEF LimitHolds, Operations
    <2> DEFINE S == Charged(o, w)
               T == {c \in Calls : /\ effect[c] # "none" /\ OperationOf(Key(c)) = o
                                   /\ call[c].window = w}
    <2>1. T \subseteq S
      BY DEF Charged
    <2>2. IsFiniteSet(S) /\ Cardinality(S) <= Limit
      BY DEF WindowsOK, WithinBounds
    <2> HIDE DEF S, T
    <2>3. IsFiniteSet(T) /\ Cardinality(T) <= Cardinality(S)
      BY <2>1, <2>2, FS_Subset
    <2>4. Cardinality(T) \in Nat /\ Cardinality(S) \in Nat /\ Limit \in Nat
      BY <2>2, <2>3, FS_CardinalityType, PublicApiBounds
    <2>5. Cardinality(T) <= Limit
      BY <2>2, <2>3, <2>4
    <2> QED BY <2>5 DEF T
  <1> QED BY <1>1, Charges, PTL

(* What the requests of a client come to is bounded by keys and windows.    *)
THEOREM EffectsBounded == Spec => []EffectsAreBounded
  <1>1. OneEffectPerKey /\ LimitHolds => EffectsAreBounded
    BY DEF EffectsAreBounded
  <1> QED BY <1>1, OneEffectPerKeyHolds, LimitHoldsHolds, PTL

-----------------------------------------------------------------------------
(* Pages of ordered rows.                                                   *)
Smaller == {ss \in Nat \X Nat : ss[1] < ss[2]}
LEMMA LeastNumber ==
  ASSUME NEW T, T \subseteq Nat, T # {}
  PROVE  \E x \in T : \A y \in T : x =< y
  <1>1. IsWellFoundedOn(Smaller, Nat)
    BY NatLessThanWellFounded DEF OpToRel, Smaller
  <1>2. PICK x \in T : \A y \in T : ~ (<<y, x>> \in Smaller)
    BY <1>1, WFMin
  <1>3. ASSUME NEW y \in T PROVE x =< y
    <2>1. x \in Nat /\ y \in Nat
      OBVIOUS
    <2>2. y < x => <<y, x>> \in Smaller
      BY <2>1 DEF Smaller
    <2> QED BY <1>2, <2>1, <2>2
  <1> QED BY <1>3

(* R orders the rows strictly, one after the other.                         *)
Orders(R, rows) ==
    /\ \A x \in rows : <<x, x>> \notin R
    /\ \A x, y, z \in rows : <<x, y>> \in R /\ <<y, z>> \in R => <<x, z>> \in R
    /\ \A x, y \in rows : x # y => <<x, y>> \in R \/ <<y, x>> \in R

Ahead(R, rows, x) == {y \in rows : <<y, x>> \in R}
PageOf(R, rows, n) == {x \in rows : Cardinality(Ahead(R, rows, x)) < n}

LEMMA AheadGrows ==
  ASSUME NEW rows, IsFiniteSet(rows), NEW R, Orders(R, rows),
         NEW x \in rows, NEW y \in rows, <<y, x>> \in R
  PROVE  /\ Cardinality(Ahead(R, rows, x)) \in Nat /\ Cardinality(Ahead(R, rows, y)) \in Nat
         /\ Cardinality(Ahead(R, rows, y)) < Cardinality(Ahead(R, rows, x))
  <1> DEFINE X == Ahead(R, rows, x)
             Y == Ahead(R, rows, y)
  <1>1. X \in SUBSET rows /\ Y \in SUBSET rows
    BY DEF Ahead
  <1>2. IsFiniteSet(X) /\ IsFiniteSet(Y)
    BY <1>1, FS_Subset
  <1>3. Y \in SUBSET X
    BY DEF Ahead, Orders
  <1>4. y \in X /\ y \notin Y
    BY DEF Ahead, Orders
  <1>5. Cardinality(Y) =< Cardinality(X) /\ Cardinality(Y) # Cardinality(X)
    BY <1>2, <1>3, <1>4, FS_Subset
  <1>6. Cardinality(X) \in Nat /\ Cardinality(Y) \in Nat
    BY <1>2, FS_CardinalityType
  <1> HIDE DEF X, Y
  <1>7. Cardinality(Y) < Cardinality(X)
    BY <1>5, <1>6
  <1> QED BY <1>6, <1>7 DEF X, Y

(* The first row of an order.                                               *)
LEMMA FirstExists ==
  ASSUME NEW rows, IsFiniteSet(rows), NEW R, Orders(R, rows), rows # {}
  PROVE  \E x \in rows : Ahead(R, rows, x) = {}
  <1> DEFINE T == {Cardinality(Ahead(R, rows, x)) : x \in rows}
  <1>1. ASSUME NEW x \in rows PROVE IsFiniteSet(Ahead(R, rows, x)) /\ Cardinality(Ahead(R, rows, x)) \in Nat
    <2>1. Ahead(R, rows, x) \in SUBSET rows
      BY DEF Ahead
    <2> QED BY <2>1, FS_Subset, FS_CardinalityType
  <1>2. T \subseteq Nat /\ T # {}
    BY <1>1
  <1>3. PICK n \in T : \A k \in T : n =< k
    BY <1>2, LeastNumber
  <1>4. PICK x \in rows : n = Cardinality(Ahead(R, rows, x))
    BY <1>3
  <1>5. ASSUME NEW y \in Ahead(R, rows, x) PROVE FALSE
    <2>1. y \in rows /\ <<y, x>> \in R
      BY DEF Ahead
    <2>2. Cardinality(Ahead(R, rows, y)) < n /\ n \in Nat /\ Cardinality(Ahead(R, rows, y)) \in Nat
      BY <2>1, <1>4, AheadGrows
    <2>3. Cardinality(Ahead(R, rows, y)) \in T
      BY <2>1
    <2> QED BY <2>2, <2>3, <1>3
  <1> QED BY <1>5

LEMMA LastExists ==
  ASSUME NEW rows, IsFiniteSet(rows), NEW R, R \subseteq rows \X rows, Orders(R, rows), rows # {}
  PROVE  \E x \in rows : \A y \in rows : y # x => <<y, x>> \in R
  <1> DEFINE Q == {ss \in rows \X rows : <<ss[2], ss[1]>> \in R}
  <1>1. \A x, y \in rows : <<x, y>> \in Q <=> <<y, x>> \in R
    OBVIOUS
  <1> HIDE DEF Q
  <1>2. Orders(Q, rows)
    <2>1. \A x \in rows : <<x, x>> \notin Q
      BY <1>1 DEF Orders
    <2>2. ASSUME NEW x \in rows, NEW y \in rows, NEW z \in rows, <<x, y>> \in Q, <<y, z>> \in Q
          PROVE <<x, z>> \in Q
      BY <1>1, <2>2 DEF Orders
    <2>3. \A x, y \in rows : x # y => <<x, y>> \in Q \/ <<y, x>> \in Q
      BY <1>1 DEF Orders
    <2> QED BY <2>1, <2>2, <2>3 DEF Orders
  <1>3. PICK x \in rows : Ahead(Q, rows, x) = {}
    BY <1>2, FirstExists
  <1>4. ASSUME NEW y \in rows, y # x PROVE <<y, x>> \in R
    <2>1. <<y, x>> \notin Q
      BY <1>3 DEF Ahead
    <2>2. <<x, y>> \notin R
      BY <2>1, <1>1
    <2> QED BY <2>2, <1>4 DEF Orders
  <1> QED BY <1>4

(* A page of n rows: nothing ahead of it is left out, it is all there is    *)
(* when there are no more than n, and it is empty only when there are none. *)
LEMMA Paging ==
  ASSUME NEW rows, IsFiniteSet(rows), NEW R, Orders(R, rows), NEW n \in Nat \ {0}
  PROVE  /\ PageOf(R, rows, n) \subseteq rows /\ IsFiniteSet(PageOf(R, rows, n))
         /\ \A x \in PageOf(R, rows, n), y \in rows \ PageOf(R, rows, n) : <<x, y>> \in R
         /\ ~ (Cardinality(rows) > n) => PageOf(R, rows, n) = rows
         /\ rows # {} => PageOf(R, rows, n) # {}
  <1> DEFINE P == PageOf(R, rows, n)
  <1>1. P \in SUBSET rows
    BY DEF PageOf
  <1>2. IsFiniteSet(P)
    BY <1>1, FS_Subset
  <1>3. ASSUME NEW x \in rows PROVE /\ IsFiniteSet(Ahead(R, rows, x))
                                    /\ Cardinality(Ahead(R, rows, x)) \in Nat
                                    /\ Cardinality(Ahead(R, rows, x)) < Cardinality(rows)
    <2>1. Ahead(R, rows, x) \in SUBSET rows /\ Ahead(R, rows, x) # rows
      BY DEF Ahead, Orders
    <2>2. IsFiniteSet(Ahead(R, rows, x)) /\ Cardinality(Ahead(R, rows, x)) =< Cardinality(rows)
          /\ Cardinality(rows) # Cardinality(Ahead(R, rows, x))
      BY <2>1, FS_Subset
    <2>3. Cardinality(Ahead(R, rows, x)) \in Nat /\ Cardinality(rows) \in Nat
      BY <2>2, FS_CardinalityType
    <2> QED BY <2>2, <2>3
  <1>4. ASSUME NEW x \in P, NEW y \in rows \ P PROVE <<x, y>> \in R
    <2>1. x \in rows /\ x # y /\ Cardinality(Ahead(R, rows, x)) < n /\ ~ (Cardinality(Ahead(R, rows, y)) < n)
      BY DEF PageOf
    <2>2. CASE <<y, x>> \in R
      BY <2>1, <2>2, AheadGrows
    <2>3. CASE <<x, y>> \in R
      BY <2>3
    <2> QED BY <2>1, <2>2, <2>3 DEF Orders
  <1>5. ASSUME ~ (Cardinality(rows) > n) PROVE P = rows
    <2>1. Cardinality(rows) \in Nat
      BY FS_CardinalityType
    <2>2. \A x \in rows : Cardinality(Ahead(R, rows, x)) < n
      BY <1>3, <1>5, <2>1
    <2> QED BY <2>2 DEF PageOf
  <1>6. ASSUME rows # {} PROVE P # {}
    <2>1. PICK x \in rows : Ahead(R, rows, x) = {}
      BY <1>6, FirstExists
    <2>2. Cardinality(Ahead(R, rows, x)) = 0
      BY <2>1, FS_EmptySet
    <2> QED BY <2>2 DEF PageOf
  <1> QED BY <1>1, <1>2, <1>4, <1>5, <1>6

-----------------------------------------------------------------------------
(* Pages that share no row.                                                 *)
Apart(pages) == \A i, j \in DOMAIN pages : i # j => pages[i] \cap pages[j] = {}

LEMMA OneMorePage ==
  ASSUME NEW S, NEW pages \in Seq(SUBSET S), NEW page \in SUBSET S
  PROVE  /\ Append(pages, page) \in Seq(SUBSET S)
         /\ DOMAIN Append(pages, page) = DOMAIN pages \cup {Len(pages) + 1}
         /\ Len(pages) + 1 \notin DOMAIN pages
         /\ \A i \in DOMAIN pages : Append(pages, page)[i] = pages[i] /\ i < Len(pages) + 1
         /\ Append(pages, page)[Len(pages) + 1] = page
  OBVIOUS

LEMMA PagesMeetIn ==
  ASSUME NEW S, NEW pages \in Seq(SUBSET S), NEW page \in SUBSET S, NEW back,
         \A i, j \in DOMAIN pages : i # j => pages[i] \cap pages[j] \subseteq back,
         \A i \in DOMAIN pages : pages[i] \cap page \subseteq back
  PROVE  \A i, j \in DOMAIN Append(pages, page) :
            i # j => Append(pages, page)[i] \cap Append(pages, page)[j] \subseteq back
  <1> DEFINE more == Append(pages, page)
             n == Len(pages) + 1
  <1>1. /\ DOMAIN more = DOMAIN pages \cup {n}
        /\ \A i \in DOMAIN pages : more[i] = pages[i]
        /\ more[n] = page
    BY OneMorePage
  <1> HIDE DEF more, n
  <1>2. ASSUME NEW i \in DOMAIN more, NEW j \in DOMAIN more, i # j PROVE more[i] \cap more[j] \subseteq back
    <2>1. CASE i \in DOMAIN pages /\ j \in DOMAIN pages
      BY <1>1, <1>2, <2>1
    <2>2. CASE i \in DOMAIN pages /\ j = n
      BY <1>1, <2>2
    <2>3. CASE i = n /\ j \in DOMAIN pages
      BY <1>1, <2>3
    <2> QED BY <1>1, <1>2, <2>1, <2>2, <2>3
  <1> QED BY <1>2 DEF more

LEMMA PagesStayApart ==
  ASSUME NEW S, NEW pages \in Seq(SUBSET S), NEW page \in SUBSET S, Apart(pages),
         \A i \in DOMAIN pages : pages[i] \cap page = {}
  PROVE  Apart(Append(pages, page))
  <1>1. \A i, j \in DOMAIN pages : i # j => pages[i] \cap pages[j] \subseteq {}
    BY DEF Apart
  <1>2. \A i, j \in DOMAIN Append(pages, page) :
           i # j => Append(pages, page)[i] \cap Append(pages, page)[j] \subseteq {}
    BY <1>1, PagesMeetIn
  <1> QED BY <1>2 DEF Apart

LEMMA ShownBefore ==
  ASSUME NEW S, NEW pages \in Seq(SUBSET S), NEW page \in SUBSET S, NEW x
  PROVE  (\E i \in DOMAIN Append(pages, page) : x \in Append(pages, page)[i])
            <=> (x \in page \/ \E i \in DOMAIN pages : x \in pages[i])
  <1> DEFINE more == Append(pages, page)
             n == Len(pages) + 1
  <1>1. /\ DOMAIN more = DOMAIN pages \cup {n}
        /\ \A i \in DOMAIN pages : more[i] = pages[i]
        /\ more[n] = page
    BY OneMorePage
  <1> HIDE DEF more, n
  <1>2. (\E i \in DOMAIN more : x \in more[i]) <=> (x \in page \/ \E i \in DOMAIN pages : x \in pages[i])
    BY <1>1
  <1> QED BY <1>2 DEF more

-----------------------------------------------------------------------------
(* The inbox.                                                               *)
InSome(pages, x) == \E i \in DOMAIN pages : x \in pages[i]
Listings == [page : {"more", "end"}, cursor : Nat, shown : Seq(SUBSET Tasks), steady : SUBSET Tasks]

InboxTyped == tasks \in [Tasks -> {"absent", "pending", "closed"}] /\ listing \in Listings
(* What was shown is at or before the cursor; what was there all along is   *)
(* after it or was shown.                                                   *)
InboxSteady ==
    /\ Apart(listing.shown)
    /\ listing.page = "more" => \A i \in DOMAIN listing.shown : \A t \in listing.shown[i] : t =< listing.cursor
    /\ \A t \in listing.steady : /\ tasks[t] = "pending"
                                 /\ InSome(listing.shown, t) \/ (listing.page = "more" /\ t > listing.cursor)
InboxInv == InboxTyped /\ InboxSteady

LEMMA InboxPage ==
  ASSUME NEW rows \in SUBSET Tasks
  PROVE  /\ FirstRows(rows) \in SUBSET rows
         /\ ~ (Cardinality(rows) > PageSize) => FirstRows(rows) = rows
         /\ Cardinality(rows) > PageSize =>
              /\ NextCursor(FirstRows(rows)) \in FirstRows(rows)
              /\ \A t \in FirstRows(rows) : t =< NextCursor(FirstRows(rows))
              /\ \A t \in rows \ FirstRows(rows) : t > NextCursor(FirstRows(rows))
  <1> DEFINE R == {ss \in rows \X rows : ss[1] < ss[2]}
             page == FirstRows(rows)
  <1>1. TaskCount \in Nat /\ PageSize \in Nat \ {0}
    BY InboxBounds
  <1>2. rows \in SUBSET Nat /\ IsFiniteSet(rows)
    <2>1. IsFiniteSet(Tasks)
      BY <1>1, FS_Interval DEF Tasks
    <2>2. Tasks \in SUBSET Nat
      BY <1>1 DEF Tasks
    <2> QED BY <2>1, <2>2, FS_Subset
  <1>3. \A x, y \in rows : <<x, y>> \in R <=> x < y
    OBVIOUS
  <1>4. R \subseteq rows \X rows
    OBVIOUS
  <1> HIDE DEF R
  <1>5. Orders(R, rows)
    <2>1. \A x \in rows : <<x, x>> \notin R
      BY <1>2, <1>3
    <2>2. ASSUME NEW x \in rows, NEW y \in rows, NEW z \in rows, <<x, y>> \in R, <<y, z>> \in R
          PROVE <<x, z>> \in R
      BY <1>2, <1>3, <2>2
    <2>3. \A x, y \in rows : x # y => <<x, y>> \in R \/ <<y, x>> \in R
      BY <1>2, <1>3
    <2> QED BY <2>1, <2>2, <2>3 DEF Orders
  <1>6. page = PageOf(R, rows, PageSize)
    <2>1. \A t \in rows : {u \in rows : u < t} = Ahead(R, rows, t)
      BY <1>3 DEF Ahead
    <2> QED BY <2>1 DEF FirstRows, PageOf
  <1>7. /\ page \in SUBSET rows /\ IsFiniteSet(page)
        /\ \A x \in page, y \in rows \ page : <<x, y>> \in R
        /\ ~ (Cardinality(rows) > PageSize) => page = rows
        /\ rows # {} => page # {}
    BY <1>1, <1>2, <1>5, <1>6, Paging
  <1> HIDE DEF page
  <1>8. ASSUME Cardinality(rows) > PageSize
        PROVE /\ NextCursor(page) \in page
              /\ \A t \in page : t =< NextCursor(page)
              /\ \A t \in rows \ page : t > NextCursor(page)
    <2>1. rows # {}
      BY <1>1, <1>8, FS_EmptySet
    <2>2. page # {}
      BY <1>7, <2>1
    <2>3. \E x \in page : \A y \in page : x >= y
      <3> DEFINE Q == {ss \in page \X page : ss[1] < ss[2]}
      <3>1. \A x, y \in page : <<x, y>> \in Q <=> x < y
        OBVIOUS
      <3>2. Q \subseteq page \X page
        OBVIOUS
      <3> HIDE DEF Q
      <3>3. page \in SUBSET Nat
        BY <1>2, <1>7
      <3>4. Orders(Q, page)
        <4>1. \A x \in page : <<x, x>> \notin Q
          BY <3>1, <3>3
        <4>2. ASSUME NEW x \in page, NEW y \in page, NEW z \in page, <<x, y>> \in Q, <<y, z>> \in Q
              PROVE <<x, z>> \in Q
          BY <3>1, <3>3, <4>2
        <4>3. \A x, y \in page : x # y => <<x, y>> \in Q \/ <<y, x>> \in Q
          BY <3>1, <3>3
        <4> QED BY <4>1, <4>2, <4>3 DEF Orders
      <3>5. PICK x \in page : \A y \in page : y # x => <<y, x>> \in Q
        BY <1>7, <2>2, <3>2, <3>4, LastExists
      <3>6. ASSUME NEW y \in page PROVE x >= y
        <4>1. x \in Nat /\ y \in Nat
          BY <3>3
        <4>2. y = x \/ y < x
          BY <3>1, <3>5
        <4> QED BY <4>1, <4>2
      <3> QED BY <3>6
    <2>4. NextCursor(page) \in page /\ \A y \in page : NextCursor(page) >= y
      BY <2>3 DEF NextCursor, Max
    <2>5. \A t \in page : t =< NextCursor(page)
      BY <1>2, <1>7, <2>4
    <2>6. \A t \in rows \ page : t > NextCursor(page)
      BY <1>2, <1>3, <1>7, <2>4
    <2> QED BY <2>4, <2>5, <2>6
  <1> QED BY <1>7, <1>8 DEF page

LEMMA InboxInitial == InboxInit => InboxInv
  <1> SUFFICES ASSUME InboxInit PROVE InboxInv
    OBVIOUS
  <1>1. tasks \in [Tasks -> {"absent", "pending", "closed"}]
    BY DEF InboxInit
  <1>2. Matching(tasks, 0) \in SUBSET Tasks /\ \A t \in Matching(tasks, 0) : tasks[t] = "pending" /\ t > 0
    BY <1>1 DEF Matching
  <1>3. listing \in Listings
    BY <1>2 DEF InboxInit, Listings
  <1>4. InboxSteady
    BY <1>2 DEF InboxInit, InboxSteady, Apart, InSome
  <1> QED BY <1>1, <1>3, <1>4 DEF InboxInv, InboxTyped

LEMMA InboxPages ==
  ASSUME InboxInv, NEW readable \in SUBSET Tasks, NextPage(readable) PROVE InboxInv'
  <1> DEFINE rows == Matching(tasks, listing.cursor)
             page == FirstRows(rows)
             more == Cardinality(rows) > PageSize
             seen == page \cap readable
  <1>1. /\ tasks \in [Tasks -> {"absent", "pending", "closed"}] /\ listing \in Listings
        /\ listing.page = "more" /\ listing.cursor \in Nat
        /\ listing.shown \in Seq(SUBSET Tasks) /\ listing.steady \in SUBSET Tasks
    BY DEF InboxInv, InboxTyped, Listings, NextPage
  <1>2. rows \in SUBSET Tasks
        /\ \A t \in Tasks : t \in rows <=> tasks[t] = "pending" /\ t > listing.cursor
    BY <1>1 DEF Matching
  <1>3. /\ tasks' = tasks
        /\ listing' = [page |-> IF more THEN "more" ELSE "end",
                       cursor |-> IF more THEN NextCursor(page) ELSE listing.cursor,
                       shown |-> Append(listing.shown, seen),
                       steady |-> listing.steady \cap readable]
    BY DEF NextPage
  <1> HIDE DEF rows
  <1>4. /\ page \in SUBSET rows
        /\ ~ more => page = rows
        /\ more => /\ NextCursor(page) \in page
                   /\ \A t \in page : t =< NextCursor(page)
                   /\ \A t \in rows \ page : t > NextCursor(page)
    BY <1>2, InboxPage
  <1> HIDE DEF page, more
  <1>5. seen \in SUBSET Tasks /\ \A t \in seen : t \in page /\ t \in readable
    BY <1>2, <1>4
  <1>6. Tasks \in SUBSET Nat
    BY InboxBounds DEF Tasks
  <1>n. more => NextCursor(page) \in Nat
    BY <1>2, <1>4, <1>6
  <1>7. Append(listing.shown, seen) \in Seq(SUBSET Tasks)
    BY <1>1, <1>5, OneMorePage
  <1>8. /\ listing'.page = (IF more THEN "more" ELSE "end") /\ (more => listing'.cursor = NextCursor(page))
        /\ listing'.shown = Append(listing.shown, seen) /\ listing'.steady = listing.steady \cap readable
    BY <1>3
  <1>9. listing' \in Listings
    BY <1>1, <1>3, <1>7, <1>n DEF Listings
  <1>10. ASSUME NEW i \in DOMAIN listing.shown, NEW t \in listing.shown[i] PROVE t =< listing.cursor /\ t \in Nat
    <2>1. listing.shown[i] \in SUBSET Tasks
      BY <1>1
    <2>2. t =< listing.cursor
      BY <1>1 DEF InboxInv, InboxSteady
    <2> QED BY <2>1, <2>2, <1>6
  <1>11. \A i \in DOMAIN listing.shown : listing.shown[i] \cap seen = {}
    <2>1. \A t \in seen : t \in Nat /\ t > listing.cursor
      BY <1>2, <1>4, <1>5, <1>6
    <2>2. ASSUME NEW i \in DOMAIN listing.shown, NEW t \in listing.shown[i], t \in seen PROVE FALSE
      BY <1>1, <1>10, <2>1, <2>2
    <2> QED BY <2>2
  <1>12. Apart(listing'.shown)
    <2>1. Apart(listing.shown)
      BY DEF InboxInv, InboxSteady
    <2> HIDE DEF seen
    <2> QED BY <1>1, <1>5, <1>8, <1>11, <2>1, PagesStayApart
  <1> HIDE DEF seen
  <1>13. \A t : InSome(listing'.shown, t) <=> t \in seen \/ InSome(listing.shown, t)
    BY SMTT(60), <1>1, <1>5, <1>8, ShownBefore DEF InSome
  <1>14. ASSUME more, NEW t, InSome(listing'.shown, t) PROVE t =< listing'.cursor
    <2>1. CASE t \in seen
      BY <1>4, <1>5, <1>8, <1>14, <2>1
    <2>2. CASE InSome(listing.shown, t)
      <3>1. t \in Nat /\ t =< listing.cursor
        BY <2>2, <1>10 DEF InSome
      <3>2. NextCursor(page) > listing.cursor
        BY <1>2, <1>4, <1>14
      <3> QED BY <1>1, <1>8, <1>14, <1>n, <3>1, <3>2
    <2> QED BY <1>13, <1>14, <2>1, <2>2
  <1>15. ASSUME NEW t \in listing'.steady
         PROVE /\ tasks'[t] = "pending"
               /\ InSome(listing'.shown, t) \/ (listing'.page = "more" /\ t > listing'.cursor)
    <2>1. t \in listing.steady /\ t \in readable /\ t \in Tasks
      BY <1>1, <1>8
    <2>2. tasks[t] = "pending" /\ (InSome(listing.shown, t) \/ t > listing.cursor)
      BY <2>1 DEF InboxInv, InboxSteady
    <2>3. CASE InSome(listing.shown, t)
      BY <1>3, <1>13, <2>2, <2>3
    <2>4. CASE t > listing.cursor /\ t \in page
      <3>1. t \in seen
        BY <2>1, <2>4 DEF seen
      <3> QED BY <1>3, <1>13, <2>2, <3>1
    <2>5. CASE t > listing.cursor /\ t \notin page
      <3>1. t \in rows \ page
        BY <1>2, <2>1, <2>2, <2>5
      <3>2. more /\ t > NextCursor(page)
        BY <1>4, <3>1
      <3> QED BY <1>3, <1>8, <2>2, <3>2
    <2> QED BY <2>2, <2>3, <2>4, <2>5
  <1>16. listing'.page = "more" => \A i \in DOMAIN listing'.shown : \A t \in listing'.shown[i] : t =< listing'.cursor
    <2>1. listing'.page = "more" => more
      BY <1>8
    <2> QED BY <1>14, <2>1 DEF InSome
  <1>17. InboxSteady'
    BY <1>12, <1>15, <1>16 DEF InboxSteady
  <1> QED BY <1>1, <1>3, <1>9, <1>17 DEF InboxInv, InboxTyped

LEMMA InboxMoves ==
  ASSUME InboxInv, NEW t \in Tasks, NEW from, NEW to \in {"pending", "closed"}, Move(t, from, to)
  PROVE  InboxInv'
  <1>1. /\ tasks \in [Tasks -> {"absent", "pending", "closed"}] /\ listing \in Listings
    BY DEF InboxInv, InboxTyped
  <1>2. tasks' = [tasks EXCEPT ![t] = to] /\ listing' = [listing EXCEPT !.steady = @ \ {t}]
    BY DEF Move
  <1>3. /\ listing'.page = listing.page /\ listing'.cursor = listing.cursor
        /\ listing'.shown = listing.shown /\ listing'.steady = listing.steady \ {t}
        /\ listing' \in Listings
    BY <1>1, <1>2 DEF Listings
  <1>4. \A u \in listing'.steady : u \in listing.steady /\ u \in Tasks /\ tasks'[u] = tasks[u]
    BY <1>1, <1>2, <1>3 DEF Listings
  <1>5. InboxSteady'
    BY <1>3, <1>4 DEF InboxInv, InboxSteady
  <1>6. tasks' \in [Tasks -> {"absent", "pending", "closed"}]
    BY <1>1, <1>2
  <1> QED BY <1>3, <1>5, <1>6 DEF InboxInv, InboxTyped

LEMMA InboxKeeps == ASSUME InboxInv, InboxNext PROVE InboxInv'
  BY InboxPages, InboxMoves DEF InboxNext

LEMMA InboxHolds == ASSUME InboxInv PROVE InboxIsComplete
  BY DEF InboxInv, InboxSteady, InboxIsComplete, Apart, InSome

-----------------------------------------------------------------------------
(* The console.                                                             *)
Fields == SyncStatuses \cup EventTypes \cup Tuples
MutationStatuses == SyncStatuses \cup {"superseded"}
RelationshipRows == [revision : Nat, sync : SyncStatuses, updated : Nat]
MutationRows == [status : MutationStatuses, attempts : Nat]
AuditRows == [type : EventTypes, tuple : Tuples, revision : Nat, key : Nat]
Stamps == Nat \X Nat
Walks == [of : {"nothing", "relationships", "audit", "detail"}, row : RelationshipRows,
          filter : SUBSET Fields, cursor : {<<>>} \cup Stamps, page : {"more", "end"},
          shown : Seq(SUBSET Nat), told : MutationStatuses \cup {"nothing"},
          steady : SUBSET Nat, back : SUBSET Nat]
Lists == {"relationships", "audit"}

ConsoleTyped ==
    /\ rels \in [Tuples -> RelationshipRows] /\ muts \in [Tuples -> Seq(MutationRows)]
    /\ audit \in Seq(AuditRows) /\ walk \in Walks

(* A row follows the latest of its mutations; what started, was confirmed   *)
(* or failed has its event, which is what keeps a repeated mark from        *)
(* telling it again; and an event of an end is of a mutation that ended so. *)
RowsFollow ==
    \A t \in Tuples : /\ rels[t].revision = Len(muts[t])
                      /\ rels[t].revision > 0 => rels[t].sync = muts[t][rels[t].revision].status
MarksAreTold ==
    \A t \in Tuples : \A n \in DOMAIN muts[t] :
       muts[t][n].status \in {"applying", "confirmed", "failed"} =>
          \E m \in DOMAIN audit : audit[m] = Event(EventOf(muts[t][n].status), t, n, muts[t][n].attempts)
EndsAsTold(e, m) == m.status \notin OpenStatuses /\ EventOf(m.status) = e.type
EventsAreTrue ==
    \A m \in DOMAIN audit :
       /\ audit[m].revision \in DOMAIN muts[audit[m].tuple]
       /\ audit[m].type \in Endings => EndsAsTold(audit[m], muts[audit[m].tuple][audit[m].revision])
JournalOK == RowsFollow /\ MarksAreTold /\ EventsAreTrue /\ AuditTellsOneStory

(* A listing that goes on: what it has shown is not past its cursor unless  *)
(* it moved back, and what has matched and stayed was shown or is past it.  *)
NotPast(w, x) == w.cursor # <<>> /\ ~ Past(w.cursor, Place(w, x))
Once(w) == \A i, j \in DOMAIN w.shown : i # j => w.shown[i] \cap w.shown[j] \subseteq w.back
Going(w) ==
    /\ Once(w)
    /\ \A i \in DOMAIN w.shown : \A x \in w.shown[i] : NotPast(w, x) \/ x \in w.back
    /\ \A x \in w.steady : x \in RowsOf(w) /\ (InSome(w.shown, x) \/ x \in RestOf(w))
Ended(w) == Once(w) /\ \A x \in w.steady : InSome(w.shown, x)
Listed(w) == w.of \in Lists => IF w.page = "more" THEN Going(w) ELSE Ended(w)

(* The audit is shown from its end.                                         *)
Descending(w) ==
    /\ \A i \in DOMAIN w.shown : w.shown[i] \in SUBSET DOMAIN audit
    /\ \A i, j \in DOMAIN w.shown : i < j => \A m \in w.shown[i], n \in w.shown[j] : m > n
AuditOK(w) == w.of = "audit" => Descending(w)

(* A row that was read is of a mutation that is still there, and if it said *)
(* that the mutation ended, so it did.                                      *)
ReadOf(w, t) ==
    /\ w.filter = {t} /\ w.row.revision \in DOMAIN muts[t]
    /\ w.row.sync \notin OpenStatuses => muts[t][w.row.revision].status = w.row.sync
Known(w) ==
    /\ w.of = "nothing" => w = NoWalk
    /\ w.of # "relationships" => w.back = {}
    /\ w.of = "relationships" => \A i \in DOMAIN w.shown : w.shown[i] \in SUBSET Tuples
    /\ w.of = "detail" =>
         IF w.page = "more"
         THEN /\ w.shown = <<>> /\ w.steady = {} /\ w.told = "nothing"
              /\ \E t \in Tuples : ReadOf(w, t)
         ELSE /\ w.steady = {} /\ \E S \in SUBSET Nat : w.shown = <<S>> /\ \E n \in S : n >= w.row.revision
              /\ w.row.sync \notin OpenStatuses /\ w.told # "nothing" => w.told = w.row.sync

ConsoleInv == ConsoleTyped /\ JournalOK /\ Listed(walk) /\ AuditOK(walk) /\ Known(walk)

LEMMA NoStampEmpty == <<>> \notin Stamps
  <1>1. ASSUME <<>> \in Stamps PROVE FALSE
    <2>1. PICK a \in Nat, b \in Nat : <<>> = <<a, b>>
      BY <1>1 DEF Stamps
    <2>2. Len(<<>>) = 0 /\ Len(<<a, b>>) = 2
      OBVIOUS
    <2> QED BY <2>1, <2>2
  <1> QED BY <1>1

LEMMA BeforeOrders ==
  /\ \A x \in Stamps : ~ Before(x, x)
  /\ \A x, y, z \in Stamps : Before(x, y) /\ Before(y, z) => Before(x, z)
  /\ \A x, y \in Stamps : x # y => Before(x, y) \/ Before(y, x)
  <1>1. \A x \in Stamps : x[1] \in Nat /\ x[2] \in Nat /\ x = <<x[1], x[2]>>
    BY DEF Stamps
  <1>2. \A x, y \in Stamps : x # y => x[1] # y[1] \/ x[2] # y[2]
    BY <1>1
  <1>3. \A x \in Stamps : ~ Before(x, x)
    BY <1>1 DEF Before
  <1>4. ASSUME NEW x \in Stamps, NEW y \in Stamps, NEW z \in Stamps, Before(x, y), Before(y, z)
        PROVE Before(x, z)
    BY <1>1, <1>4 DEF Before
  <1>5. ASSUME NEW x \in Stamps, NEW y \in Stamps, x # y PROVE Before(x, y) \/ Before(y, x)
    BY <1>1, <1>2, <1>5 DEF Before
  <1> QED BY <1>3, <1>4, <1>5

(* The rows of a listing are finitely many, each at a place of its own.     *)
LEMMA RowsHavePlaces ==
  ASSUME ConsoleTyped, NEW w \in Walks, w.of \in Lists
  PROVE  /\ RowsOf(w) \in SUBSET Nat /\ IsFiniteSet(RowsOf(w))
         /\ \A x \in RowsOf(w) : Place(w, x) \in Stamps
         /\ \A x, y \in RowsOf(w) : x # y => Place(w, x) # Place(w, y)
         /\ w.of = "relationships" => RowsOf(w) \in SUBSET Tuples
         /\ w.of = "audit" => RowsOf(w) \in SUBSET DOMAIN audit
  <1>0. TupleCount \in Nat
    BY ConsoleBounds
  <1>1. CASE w.of = "relationships"
    <2>1. RowsOf(w) \in SUBSET Tuples
      BY <1>1 DEF RowsOf, RelationshipsMatching, Stored
    <2>2. Tuples \in SUBSET Nat /\ IsFiniteSet(Tuples)
      BY <1>0, FS_Interval DEF Tuples
    <2>3. IsFiniteSet(RowsOf(w))
      BY <2>1, <2>2, FS_Subset
    <2>4. \A x \in RowsOf(w) : Place(w, x) = <<rels[x].updated, x>> /\ rels[x].updated \in Nat
      BY <1>1, <2>1 DEF Place, RelationshipPlace, ConsoleTyped, RelationshipRows
    <2>5. ASSUME NEW x \in RowsOf(w) PROVE Place(w, x) \in Stamps
      <3>1. rels[x].updated \in Nat /\ x \in Nat
        BY <2>1, <2>2, <2>4
      <3>2. <<rels[x].updated, x>> \in Stamps
        BY <3>1 DEF Stamps
      <3> QED BY <2>4, <3>2
    <2>6. \A x, y \in RowsOf(w) : x # y => Place(w, x) # Place(w, y)
      BY <2>4
    <2> QED BY <1>1, <2>1, <2>2, <2>3, <2>5, <2>6
  <1>2. CASE w.of = "audit"
    <2>1. RowsOf(w) \in SUBSET DOMAIN audit
      BY <1>2 DEF RowsOf, AuditMatching
    <2>2. Len(audit) \in Nat /\ DOMAIN audit = 1..Len(audit)
      BY DEF ConsoleTyped
    <2>3. DOMAIN audit \in SUBSET Nat /\ IsFiniteSet(DOMAIN audit)
      BY <2>2, FS_Interval
    <2>4. IsFiniteSet(RowsOf(w))
      BY <2>1, <2>3, FS_Subset
    <2>5. \A x \in RowsOf(w) : Place(w, x) = <<x, 0>>
      BY <1>2 DEF Place
    <2>6. \A x \in RowsOf(w) : Place(w, x) \in Stamps
      BY <2>1, <2>3, <2>5 DEF Stamps
    <2>7. \A x, y \in RowsOf(w) : x # y => Place(w, x) # Place(w, y)
      BY <2>5
    <2> QED BY <1>2, <2>1, <2>3, <2>4, <2>6, <2>7
  <1> QED BY <1>1, <1>2 DEF Lists

LEMMA ConsolePageOf ==
  ASSUME ConsoleTyped, NEW w \in Walks, w.of \in Lists, NEW rows \in SUBSET RowsOf(w)
  PROVE  /\ FirstOf(w, rows) \in SUBSET rows
         /\ ~ (Cardinality(rows) > ConsolePage) => FirstOf(w, rows) = rows
         /\ Cardinality(rows) > ConsolePage =>
              /\ LastOf(w, FirstOf(w, rows)) \in FirstOf(w, rows)
              /\ \A x \in FirstOf(w, rows) : ~ Before(Place(w, LastOf(w, FirstOf(w, rows))), Place(w, x))
              /\ \A x \in rows \ FirstOf(w, rows) : Before(Place(w, LastOf(w, FirstOf(w, rows))), Place(w, x))
  <1> DEFINE R == {ss \in rows \X rows : Before(Place(w, ss[1]), Place(w, ss[2]))}
             page == FirstOf(w, rows)
  <1>1. ConsolePage \in Nat \ {0}
    BY ConsoleBounds
  <1>2. /\ IsFiniteSet(rows)
        /\ \A x \in rows : Place(w, x) \in Stamps
        /\ \A x, y \in rows : x # y => Place(w, x) # Place(w, y)
    BY RowsHavePlaces, FS_Subset
  <1>3. \A x, y \in rows : <<x, y>> \in R <=> Before(Place(w, x), Place(w, y))
    OBVIOUS
  <1>4. R \subseteq rows \X rows
    OBVIOUS
  <1> HIDE DEF R
  <1>5. ASSUME NEW some \in SUBSET rows PROVE Orders(R, some)
    <2>1. \A x \in some : <<x, x>> \notin R
      BY <1>2, <1>3, BeforeOrders
    <2>2. ASSUME NEW x \in some, NEW y \in some, NEW z \in some, <<x, y>> \in R, <<y, z>> \in R
          PROVE <<x, z>> \in R
      BY <1>2, <1>3, <2>2, BeforeOrders
    <2>3. \A x, y \in some : x # y => <<x, y>> \in R \/ <<y, x>> \in R
      BY <1>2, <1>3, BeforeOrders
    <2> QED BY <2>1, <2>2, <2>3 DEF Orders
  <1>6. page = PageOf(R, rows, ConsolePage)
    <2>1. \A x \in rows : {y \in rows : Before(Place(w, y), Place(w, x))} = Ahead(R, rows, x)
      BY <1>3 DEF Ahead
    <2> QED BY <2>1 DEF FirstOf, PageOf
  <1>7. /\ page \in SUBSET rows /\ IsFiniteSet(page)
        /\ \A x \in page, y \in rows \ page : <<x, y>> \in R
        /\ ~ (Cardinality(rows) > ConsolePage) => page = rows
        /\ rows # {} => page # {}
    <2>1. Orders(R, rows)
      BY <1>5
    <2> QED BY <1>1, <1>2, <2>1, <1>6, Paging
  <1> HIDE DEF page
  <1>8. ASSUME Cardinality(rows) > ConsolePage
        PROVE /\ LastOf(w, page) \in page
              /\ \A x \in page : ~ Before(Place(w, LastOf(w, page)), Place(w, x))
              /\ \A x \in rows \ page : Before(Place(w, LastOf(w, page)), Place(w, x))
    <2>1. rows # {}
      BY <1>1, <1>8, FS_EmptySet
    <2>2. page # {}
      BY <1>7, <2>1
    <2> DEFINE Q == {ss \in page \X page : ss \in R}
    <2>3. Q \subseteq page \X page /\ \A x, y \in page : <<x, y>> \in Q <=> <<x, y>> \in R
      OBVIOUS
    <2> HIDE DEF Q
    <2>4. Orders(Q, page)
      <3>1. Orders(R, page)
        BY <1>5, <1>7
      <3> QED BY <2>3, <3>1 DEF Orders
    <2>5. PICK x \in page : \A y \in page : y # x => <<y, x>> \in Q
      BY <1>7, <2>2, <2>3, <2>4, LastExists
    <2>6. ASSUME NEW y \in page PROVE ~ Before(Place(w, x), Place(w, y))
      <3>1. CASE y = x
        BY <1>2, <1>7, <3>1, BeforeOrders
      <3>2. CASE y # x
        <4>1. Before(Place(w, y), Place(w, x))
          BY <1>3, <1>7, <2>3, <2>5, <3>2
        <4> QED BY <4>1, <1>2, <1>7, BeforeOrders
      <3> QED BY <3>1, <3>2
    <2>7. LastOf(w, page) \in page /\ \A y \in page : ~ Before(Place(w, LastOf(w, page)), Place(w, y))
      BY <2>6 DEF LastOf
    <2>8. \A y \in rows \ page : Before(Place(w, LastOf(w, page)), Place(w, y))
      BY <1>3, <1>7, <2>7
    <2> QED BY <2>7, <2>8
  <1> QED BY <1>7, <1>8 DEF page

(* The next page of a listing.                                              *)
LEMMA NextPageGoesOn ==
  ASSUME ConsoleTyped, NEW w \in Walks, w.of \in Lists, Going(w), AuditOK(w), Known(w)
  PROVE  /\ NextPageOf(w) \in Walks
         /\ Listed(NextPageOf(w)) /\ AuditOK(NextPageOf(w)) /\ Known(NextPageOf(w))
  <1> DEFINE rows == RestOf(w)
             page == FirstOf(w, rows)
             more == Cardinality(rows) > ConsolePage
             stop == IF more THEN Place(w, LastOf(w, page)) ELSE w.cursor
             next == NextPageOf(w)
  <1>1. rows \in SUBSET RowsOf(w)
        /\ \A x \in RowsOf(w) : x \in rows <=> w.cursor = <<>> \/ Past(w.cursor, Place(w, x))
    BY DEF RestOf
  <1>2. next = [w EXCEPT !.shown = Append(@, page), !.page = IF more THEN "more" ELSE "end",
                         !.cursor = stop]
    BY DEF NextPageOf
  <1> HIDE DEF rows, next
  <1>3. /\ page \in SUBSET rows
        /\ ~ more => page = rows
        /\ more => /\ LastOf(w, page) \in page
                   /\ \A x \in page : ~ Before(Place(w, LastOf(w, page)), Place(w, x))
                   /\ \A x \in rows \ page : Before(Place(w, LastOf(w, page)), Place(w, x))
    BY <1>1, ConsolePageOf
  <1>4. /\ RowsOf(w) \in SUBSET Nat
        /\ \A x \in RowsOf(w) : Place(w, x) \in Stamps
    BY RowsHavePlaces
  <1> HIDE DEF page, more
  <1>5. w.shown \in Seq(SUBSET Nat) /\ page \in SUBSET Nat
    BY <1>1, <1>3, <1>4 DEF Walks
  <1>6. stop \in {<<>>} \cup Stamps /\ (more => stop \in Stamps)
    BY <1>1, <1>3, <1>4 DEF Walks
  <1>7. more => stop = Place(w, LastOf(w, page))
    OBVIOUS
  <1> HIDE DEF stop
  <1>8. Append(w.shown, page) \in Seq(SUBSET Nat)
    BY <1>5, OneMorePage
  <1>9. next \in Walks /\ next.of = w.of /\ next.row = w.row /\ next.filter = w.filter
        /\ next.steady = w.steady /\ next.shown = Append(w.shown, page) /\ next.cursor = stop
        /\ next.page = (IF more THEN "more" ELSE "end") /\ next.back = w.back
    BY <1>2, <1>6, <1>8 DEF Walks
  <1>10. RowsOf(next) = RowsOf(w) /\ \A x : Place(next, x) = Place(w, x)
    BY <1>9 DEF RowsOf, Place
  <1>11. ASSUME NEW i \in DOMAIN w.shown, NEW x \in w.shown[i]
         PROVE x \in w.back \/ (w.cursor # <<>> /\ ~ Past(w.cursor, Place(w, x)) /\ x \notin page)
    <2>1. x \in w.back \/ (w.cursor # <<>> /\ ~ Past(w.cursor, Place(w, x)))
      BY DEF Going, NotPast
    <2> QED BY <2>1, <1>1, <1>3
  <1>12. Once(next)
    <2>1. Once(w) /\ \A i \in DOMAIN w.shown : w.shown[i] \cap page \subseteq w.back
      BY <1>11 DEF Going
    <2>2. \A i, j \in DOMAIN next.shown : i # j => next.shown[i] \cap next.shown[j] \subseteq w.back
      BY <1>5, <1>9, <2>1, PagesMeetIn DEF Once
    <2> QED BY <1>9, <2>2 DEF Once
  <1>13. ASSUME NEW x PROVE InSome(next.shown, x) <=> x \in page \/ InSome(w.shown, x)
    <2>1. (\E i \in DOMAIN Append(w.shown, page) : x \in Append(w.shown, page)[i])
             <=> (x \in page \/ \E i \in DOMAIN w.shown : x \in w.shown[i])
      BY <1>5, ShownBefore
    <2> QED BY <1>9, <2>1 DEF InSome
  <1>14. ASSUME NEW i \in DOMAIN w.shown, NEW x \in w.shown[i] PROVE x \in Nat /\ Place(w, x) \in Stamps
    <2>1. w.shown[i] \in SUBSET Nat
      BY <1>5
    <2>2. CASE w.of = "audit"
      BY <2>1, <2>2 DEF Place, Stamps
    <2>3. CASE w.of = "relationships"
      <3>1. x \in Tuples
        BY <2>3 DEF Known
      <3>2. rels[x].updated \in Nat
        BY <3>1 DEF ConsoleTyped, RelationshipRows
      <3> QED BY <2>1, <2>3, <3>2 DEF Place, RelationshipPlace, Stamps
    <2> QED BY <2>1, <2>2, <2>3 DEF Lists
  <1>15. ASSUME more, NEW x, InSome(next.shown, x) PROVE NotPast(next, x) \/ x \in w.back
    <2>1. stop \in Stamps /\ stop # <<>>
      BY <1>6, <1>15, NoStampEmpty
    <2>2. CASE x \in page
      <3>1. ~ Before(stop, Place(w, x))
        BY <1>3, <1>7, <1>15, <2>2
      <3> QED BY <1>9, <1>10, <2>1, <3>1 DEF NotPast, Past
    <2>3. CASE InSome(w.shown, x) /\ x \notin w.back
      <3>1. w.cursor # <<>> /\ ~ Before(w.cursor, Place(w, x)) /\ Place(w, x) \in Stamps
        BY <1>11, <1>14, <2>3 DEF InSome, Past
      <3>2. w.cursor \in Stamps
        BY <3>1 DEF Walks
      <3>3. Before(w.cursor, stop)
        BY <1>1, <1>3, <1>7, <1>15, <3>1 DEF Past
      <3>4. ~ Before(stop, Place(w, x))
        BY <2>1, <3>1, <3>2, <3>3, BeforeOrders
      <3> QED BY <1>9, <1>10, <2>1, <3>4 DEF NotPast, Past
    <2> QED BY <1>13, <1>15, <2>2, <2>3
  <1>16. ASSUME NEW x \in next.steady
         PROVE x \in RowsOf(next) /\ (InSome(next.shown, x) \/ (more /\ x \in RestOf(next)))
    <2>1. x \in RowsOf(w) /\ (InSome(w.shown, x) \/ x \in rows)
      BY <1>9 DEF Going, rows
    <2>2. CASE InSome(w.shown, x) \/ x \in page
      BY <1>10, <1>13, <2>1, <2>2
    <2>3. CASE x \in rows \ page
      <3>1. more /\ Before(stop, Place(w, x))
        BY <1>3, <1>7, <2>3
      <3>2. x \in RestOf(next)
        BY <1>9, <1>10, <2>1, <3>1 DEF RestOf, Past
      <3> QED BY <1>10, <2>1, <3>1, <3>2
    <2> QED BY <2>1, <2>2, <2>3
  <1>17. Listed(next)
    <2>1. CASE more
      <3>1. next.page = "more"
        BY <1>9, <2>1
      <3>2. \A i \in DOMAIN next.shown : \A x \in next.shown[i] : NotPast(next, x) \/ x \in next.back
        BY <1>9, <1>15, <2>1 DEF InSome
      <3>3. Going(next)
        BY <1>12, <1>16, <3>2 DEF Going
      <3> QED BY <3>1, <3>3 DEF Listed
    <2>2. CASE ~ more
      <3>1. next.page = "end"
        BY <1>9, <2>2
      <3>2. Ended(next)
        BY <1>12, <1>16, <2>2 DEF Ended
      <3> QED BY <3>1, <3>2 DEF Listed
    <2> QED BY <2>1, <2>2
  <1>18. AuditOK(next)
    <2> SUFFICES ASSUME w.of = "audit" PROVE Descending(next)
      BY <1>9 DEF AuditOK
    <2> DEFINE n == Len(w.shown) + 1
    <2>1. /\ DOMAIN next.shown = DOMAIN w.shown \cup {n} /\ n \notin DOMAIN w.shown
          /\ \A i \in DOMAIN w.shown : next.shown[i] = w.shown[i] /\ i < n
          /\ next.shown[n] = page
      BY SMTT(60), <1>5, <1>9, OneMorePage
    <2>n. n \in Nat /\ DOMAIN w.shown \in SUBSET Nat
      BY <1>5
    <2> HIDE DEF n
    <2>2. Descending(w) /\ w.back = {}
      BY DEF AuditOK, Known
    <2>3. page \in SUBSET DOMAIN audit
      BY <1>1, <1>3, RowsHavePlaces
    <2>4. \A i \in DOMAIN next.shown : next.shown[i] \in SUBSET DOMAIN audit
      BY <2>1, <2>2, <2>3 DEF Descending
    <2>5. ASSUME NEW i \in DOMAIN w.shown, NEW x \in w.shown[i], NEW y \in page PROVE x > y
      <3>1. w.cursor # <<>> /\ ~ Before(w.cursor, <<x, 0>>) /\ x \in Nat
        BY <1>11, <1>14, <2>2 DEF Past, Place
      <3>2. Before(w.cursor, <<y, 0>>) /\ y \in Nat
        BY <1>1, <1>3, <1>5, <3>1 DEF Past, Place
      <3>3. w.cursor[1] \in Nat /\ w.cursor[2] \in Nat
        BY <3>1 DEF Walks, Stamps
      <3>4. x >= w.cursor[1] /\ (x = w.cursor[1] => ~ (w.cursor[2] > 0))
        BY <3>1, <3>3 DEF Before
      <3>5. w.cursor[1] > y \/ (w.cursor[1] = y /\ w.cursor[2] > 0)
        BY <3>2 DEF Before
      <3> QED BY <3>1, <3>2, <3>3, <3>4, <3>5
    <2>6. ASSUME NEW i \in DOMAIN next.shown, NEW j \in DOMAIN next.shown, i < j,
                 NEW x \in next.shown[i], NEW y \in next.shown[j]
          PROVE x > y
      <3>1. i \in DOMAIN w.shown
        BY <2>1, <2>n, <2>6
      <3>2. CASE j \in DOMAIN w.shown
        BY <2>1, <2>2, <2>6, <3>1, <3>2 DEF Descending
      <3>3. CASE j = n
        BY <2>1, <2>5, <3>1, <3>3
      <3> QED BY <2>1, <3>2, <3>3
    <2> QED BY <2>4, <2>6 DEF Descending
  <1>19. Known(next)
    <2> SUFFICES ASSUME w.of = "relationships"
                 PROVE \A i \in DOMAIN next.shown : next.shown[i] \in SUBSET Tuples
      BY <1>9 DEF Known, Lists
    <2>1. page \in SUBSET Tuples
      BY <1>1, <1>3, RowsHavePlaces
    <2> QED BY <1>5, <1>9, <2>1, OneMorePage DEF Known
  <1> QED BY <1>9, <1>17, <1>18, <1>19 DEF next

ConsoleVocabulary == /\ SyncStatuses \in SUBSET Fields /\ EventTypes \in SUBSET Fields
                     /\ \A t \in Tuples : {t} \in SUBSET Fields
LEMMA Vocabulary == ConsoleVocabulary
  BY DEF ConsoleVocabulary, Fields

LEMMA NoWalkOK == NoWalk \in Walks /\ NoWalk.of = "nothing" /\ NoWalk.page = "end"
                  /\ NoWalk.shown = <<>> /\ NoWalk.steady = {} /\ NoWalk.cursor = <<>>
                  /\ NoWalk.back = {} /\ NoWalk.told = "nothing"
  <1>1. NoRelationship \in RelationshipRows
    BY DEF NoRelationship, RelationshipRows, SyncStatuses
  <1>2. <<>> \in Seq(SUBSET Nat)
    OBVIOUS
  <1> HIDE DEF NoRelationship
  <1> QED BY <1>1, <1>2 DEF NoWalk, Walks

LEMMA ConsoleInitial == ConsoleInit => ConsoleInv
  <1> SUFFICES ASSUME ConsoleInit PROVE ConsoleInv
    OBVIOUS
  <1>1. NoRelationship \in RelationshipRows /\ NoRelationship.revision = 0
    BY DEF NoRelationship, RelationshipRows, SyncStatuses
  <1>2. rels \in [Tuples -> RelationshipRows] /\ \A t \in Tuples : rels[t].revision = 0
    BY <1>1 DEF ConsoleInit
  <1>3. audit \in Seq(AuditRows) /\ DOMAIN audit = {} /\ walk = NoWalk
    BY DEF ConsoleInit
  <1>4. /\ muts \in [Tuples -> Seq(MutationRows)]
        /\ \A t \in Tuples : Len(muts[t]) = 0 /\ DOMAIN muts[t] = {}
    <2>1. <<>> \in Seq(MutationRows) /\ Len(<<>>) = 0 /\ DOMAIN <<>> = {}
      OBVIOUS
    <2> QED BY <2>1 DEF ConsoleInit
  <1>5. ConsoleTyped
    BY <1>2, <1>3, <1>4, NoWalkOK DEF ConsoleTyped
  <1>6. JournalOK
    BY <1>2, <1>3, <1>4 DEF JournalOK, RowsFollow, MarksAreTold, EventsAreTrue, AuditTellsOneStory
  <1>7. Listed(walk) /\ AuditOK(walk) /\ Known(walk)
    BY <1>3, NoWalkOK DEF Listed, AuditOK, Known, Lists
  <1> QED BY <1>5, <1>6, <1>7 DEF ConsoleInv

(* A reader changes nothing but where he is.                                *)
LEMMA Viewed ==
  ASSUME ConsoleInv, UNCHANGED <<rels, muts, audit>>, NEW STATE v, walk' = v,
         v \in Walks, Listed(v), AuditOK(v), Known(v)
  PROVE  ConsoleInv'
  <1>1. rels' = rels /\ muts' = muts /\ audit' = audit
    OBVIOUS
  <1>2. ConsoleTyped'
    BY <1>1 DEF ConsoleInv, ConsoleTyped
  <1>3. JournalOK'
    BY <1>1 DEF ConsoleInv, JournalOK, RowsFollow, MarksAreTold, EventsAreTrue, AuditTellsOneStory
  <1>4. Listed(walk)'
    BY <1>1 DEF Listed, Going, Ended, NotPast, RowsOf, RestOf, Place, RelationshipPlace,
                RelationshipsMatching, Stored, AuditMatching
  <1>5. AuditOK(walk)'
    BY <1>1 DEF AuditOK, Descending
  <1>6. Known(walk)'
    BY <1>1 DEF Known, ReadOf
  <1> QED BY <1>2, <1>3, <1>4, <1>5, <1>6 DEF ConsoleInv

(* The first page.                                                          *)
LEMMA FirstPage ==
  ASSUME ConsoleInv, NEW w \in Walks, w.of \in Lists, w.shown = <<>>, w.cursor = <<>>,
         w.back = {}, w.steady = RowsOf(w), walk' = NextPageOf(w), UNCHANGED <<rels, muts, audit>>
  PROVE  ConsoleInv'
  <1>1. DOMAIN w.shown = {}
    OBVIOUS
  <1>2. Going(w)
    BY <1>1 DEF Going, Once, RestOf
  <1>3. AuditOK(w)
    BY <1>1 DEF AuditOK, Descending
  <1>4. Known(w)
    BY <1>1 DEF Known, Lists
  <1>5. ConsoleTyped
    BY DEF ConsoleInv
  <1>6. /\ NextPageOf(w) \in Walks
        /\ Listed(NextPageOf(w)) /\ AuditOK(NextPageOf(w)) /\ Known(NextPageOf(w))
    BY <1>2, <1>3, <1>4, <1>5, NextPageGoesOn
  <1> QED BY <1>6, Viewed

LEMMA ListRelationshipsKeeps ==
  ASSUME ConsoleInv, NEW response, NEW filter \in SUBSET SyncStatuses, ListRelationships(filter, response)
  PROVE  ConsoleInv'
  <1> DEFINE w == [NoWalk EXCEPT !.of = "relationships", !.filter = filter,
                                 !.steady = RelationshipsMatching(filter)]
  <1>1. walk' = NextPageOf(w) /\ UNCHANGED <<rels, muts, audit>>
    BY DEF ListRelationships
  <1>2. RelationshipsMatching(filter) \in SUBSET Nat
    <2>1. TupleCount \in Nat
      BY ConsoleBounds
    <2> QED BY <2>1 DEF RelationshipsMatching, Stored, Tuples
  <1>3. filter \in SUBSET Fields
    BY Vocabulary DEF ConsoleVocabulary
  <1>4. /\ w \in Walks /\ w.of = "relationships" /\ w.shown = <<>> /\ w.cursor = <<>>
        /\ w.steady = RelationshipsMatching(filter) /\ w.filter = filter /\ w.back = {}
    BY <1>2, <1>3, NoWalkOK DEF Walks
  <1> HIDE DEF w
  <1>5. w.steady = RowsOf(w) /\ w.of \in Lists
    BY <1>4 DEF RowsOf, Lists
  <1> QED BY <1>1, <1>4, <1>5, FirstPage

LEMMA ListAuditKeeps ==
  ASSUME ConsoleInv, NEW response, NEW filter \in SUBSET EventTypes, ListAudit(filter, response)
  PROVE  ConsoleInv'
  <1> DEFINE w == [NoWalk EXCEPT !.of = "audit", !.filter = filter,
                                 !.steady = AuditMatching(filter)]
  <1>1. walk' = NextPageOf(w) /\ UNCHANGED <<rels, muts, audit>>
    BY DEF ListAudit
  <1>2. AuditMatching(filter) \in SUBSET Nat
    BY DEF ConsoleInv, ConsoleTyped, AuditMatching
  <1>3. filter \in SUBSET Fields
    BY Vocabulary DEF ConsoleVocabulary
  <1>4. /\ w \in Walks /\ w.of = "audit" /\ w.shown = <<>> /\ w.cursor = <<>>
        /\ w.steady = AuditMatching(filter) /\ w.filter = filter /\ w.back = {}
    BY <1>2, <1>3, NoWalkOK DEF Walks
  <1> HIDE DEF w
  <1>5. w.steady = RowsOf(w) /\ w.of \in Lists
    BY <1>4 DEF RowsOf, Lists
  <1> QED BY <1>1, <1>4, <1>5, FirstPage

LEMMA ContinueKeeps ==
  ASSUME ConsoleInv, NEW response, Continue(response) PROVE ConsoleInv'
  <1>1. /\ walk.of \in Lists /\ walk.page = "more" /\ walk' = NextPageOf(walk)
        /\ UNCHANGED <<rels, muts, audit>>
    BY DEF Continue, Lists
  <1>2. ConsoleTyped /\ walk \in Walks /\ Going(walk) /\ AuditOK(walk) /\ Known(walk)
    BY <1>1 DEF ConsoleInv, ConsoleTyped, Listed
  <1>3. /\ NextPageOf(walk) \in Walks
        /\ Listed(NextPageOf(walk)) /\ AuditOK(NextPageOf(walk)) /\ Known(NextPageOf(walk))
    BY <1>1, <1>2, NextPageGoesOn
  <1> QED BY <1>1, <1>3, Viewed

LEMMA ReadRowKeeps ==
  ASSUME ConsoleInv, NEW response, NEW t \in Tuples, ReadRow(t, response) PROVE ConsoleInv'
  <1> DEFINE v == [NoWalk EXCEPT !.of = "detail", !.filter = {t}, !.row = rels[t], !.page = "more"]
  <1>1. walk' = v /\ UNCHANGED <<rels, muts, audit>> /\ t \in Stored
    BY DEF ReadRow
  <1>2. rels[t] \in RelationshipRows /\ rels[t].revision > 0 /\ rels[t].revision \in Nat
    BY <1>1 DEF ConsoleInv, ConsoleTyped, Stored, RelationshipRows
  <1>3. /\ v \in Walks /\ v.of = "detail" /\ v.shown = <<>> /\ v.steady = {} /\ v.back = {}
        /\ v.told = "nothing" /\ v.filter = {t} /\ v.row = rels[t] /\ v.page = "more"
    BY <1>2, NoWalkOK, Vocabulary DEF Walks, ConsoleVocabulary
  <1> HIDE DEF v
  <1>4. Listed(v) /\ AuditOK(v)
    BY <1>3 DEF Listed, AuditOK, Lists
  <1>5. ReadOf(v, t)
    <2>1. rels[t].revision = Len(muts[t]) /\ rels[t].sync = muts[t][rels[t].revision].status
      BY <1>2 DEF ConsoleInv, JournalOK, RowsFollow
    <2>2. DOMAIN muts[t] = 1..Len(muts[t])
      BY DEF ConsoleInv, ConsoleTyped
    <2> QED BY <1>2, <1>3, <2>1, <2>2 DEF ReadOf
  <1>6. Known(v)
    BY <1>3, <1>5 DEF Known
  <1> QED BY <1>1, <1>3, <1>4, <1>6, Viewed

LEMMA ReadMutationsKeeps ==
  ASSUME ConsoleInv, ReadMutations PROVE ConsoleInv'
  <1>1. walk \in Walks /\ walk.of = "detail" /\ walk.page = "more" /\ walk.steady = {} /\ walk.back = {}
        /\ UNCHANGED <<rels, muts, audit>>
    BY DEF ConsoleInv, ConsoleTyped, ReadMutations, Known
  <1>2. PICK t \in Tuples : ReadOf(walk, t)
    BY <1>1 DEF ConsoleInv, Known
  <1> DEFINE S == LatestMutations(t)
             n == walk.row.revision
             told == IF n \in S THEN muts[t][n].status ELSE walk.told
             v == [walk EXCEPT !.page = "end", !.shown = <<S>>, !.told = told]
  <1>3. walk.filter = {t}
    BY <1>2 DEF ReadOf
  <1>4. walk' = v
    BY <1>3 DEF ReadMutations
  <1>5. /\ Len(muts[t]) \in Nat /\ DOMAIN muts[t] = 1..Len(muts[t])
        /\ n \in DOMAIN muts[t] /\ muts[t][n] \in MutationRows
    <2>1. muts[t] \in Seq(MutationRows)
      BY DEF ConsoleInv, ConsoleTyped
    <2>2. n \in DOMAIN muts[t]
      BY <1>2 DEF ReadOf
    <2> QED BY <2>1, <2>2
  <1>6. MutationPage \in Nat \ {0}
    BY ConsoleBounds
  <1>7. S \in SUBSET Nat /\ Len(muts[t]) \in S /\ Len(muts[t]) >= n
    <2>1. Len(muts[t]) \in DOMAIN muts[t] /\ Len(muts[t]) > Len(muts[t]) - MutationPage
      BY <1>5, <1>6
    <2> QED BY <1>5, <2>1 DEF LatestMutations
  <1>8. told \in MutationStatuses \cup {"nothing"}
    BY <1>1, <1>5 DEF MutationRows, Walks
  <1>9. walk.row.sync \notin OpenStatuses => muts[t][n].status = walk.row.sync
    BY <1>2 DEF ReadOf
  <1>10. walk.told = "nothing" => (walk.row.sync \notin OpenStatuses /\ told # "nothing" => told = walk.row.sync)
    BY <1>9
  <1> HIDE DEF S, told
  <1>11. <<S>> \in Seq(SUBSET Nat)
    BY <1>7
  <1>12. /\ v \in Walks /\ v.of = "detail" /\ v.page = "end" /\ v.shown = <<S>> /\ v.steady = {}
         /\ v.row = walk.row /\ v.back = {} /\ v.told = told
    BY <1>1, <1>8, <1>11 DEF Walks
  <1> HIDE DEF v
  <1>13. Listed(v) /\ AuditOK(v)
    BY <1>12 DEF Listed, AuditOK, Lists
  <1>14. walk.told = "nothing"
    BY <1>1 DEF ConsoleInv, Known
  <1>15. Known(v)
    BY <1>7, <1>10, <1>12, <1>14 DEF Known
  <1> QED BY <1>1, <1>4, <1>12, <1>13, <1>15, Viewed

(* What a batch of the journal may do to what readers read.                 *)
Grown ==
    /\ muts' \in [Tuples -> Seq(MutationRows)]
    /\ \A t \in Tuples : \A n \in DOMAIN muts[t] :
          /\ n \in DOMAIN muts'[t]
          /\ muts[t][n].status \notin OpenStatuses => muts'[t][n].status = muts[t][n].status
Appended ==
    /\ audit' \in Seq(AuditRows)
    /\ \A m \in DOMAIN audit : m \in DOMAIN audit' /\ audit'[m] = audit[m]
Touched == \/ UNCHANGED <<rels, walk>>
           \/ \E t \in Tuples : \E row \in RelationshipRows : Stamped(t, row)

(* A row that is stamped leaves what a listing must show, and is noted if   *)
(* it moves back.                                                           *)
LEMMA MovesNoted ==
  ASSUME ConsoleTyped, Touched
  PROVE  /\ rels' \in [Tuples -> RelationshipRows] /\ walk' \in Walks
         /\ walk'.of = walk.of /\ walk'.page = walk.page /\ walk'.shown = walk.shown
         /\ walk'.cursor = walk.cursor /\ walk'.filter = walk.filter
         /\ walk'.steady \in SUBSET walk.steady /\ walk.back \in SUBSET walk'.back
         /\ walk.of # "relationships" => walk' = walk
         /\ walk.of = "relationships" =>
              \A x \in Tuples : /\ x \in walk'.steady => rels'[x] = rels[x]
                                /\ rels'[x].updated >= rels[x].updated \/ x \in walk'.back
  <1>1. /\ rels \in [Tuples -> RelationshipRows] /\ walk \in Walks
        /\ \A x \in Tuples : rels[x].updated \in Nat
    BY DEF ConsoleTyped, RelationshipRows
  <1>2. CASE UNCHANGED <<rels, walk>>
    BY <1>1, <1>2
  <1>3. ASSUME NEW t \in Tuples, NEW row \in RelationshipRows, Stamped(t, row)
        PROVE  /\ rels' \in [Tuples -> RelationshipRows] /\ walk' \in Walks
               /\ walk'.of = walk.of /\ walk'.page = walk.page /\ walk'.shown = walk.shown
               /\ walk'.cursor = walk.cursor /\ walk'.filter = walk.filter
               /\ walk'.steady \in SUBSET walk.steady /\ walk.back \in SUBSET walk'.back
               /\ walk.of # "relationships" => walk' = walk
               /\ walk.of = "relationships" =>
                    \A x \in Tuples : /\ x \in walk'.steady => rels'[x] = rels[x]
                                      /\ rels'[x].updated >= rels[x].updated \/ x \in walk'.back
    <2>1. /\ rels' \in [Tuples -> RelationshipRows] /\ rels'[t] = row
          /\ \A x \in Tuples : x # t => rels'[x] = rels[x]
      BY <1>1, <1>3 DEF Stamped
    <2>2. row.updated \in Nat /\ t \in Nat
      BY ConsoleBounds DEF RelationshipRows, Tuples
    <2>3. CASE walk.of # "relationships"
      BY <1>1, <1>3, <2>1, <2>3 DEF Stamped, Moves
    <2>4. CASE walk.of = "relationships"
      <3> DEFINE back == IF row.updated < rels[t].updated THEN walk.back \cup {t} ELSE walk.back
      <3>1. walk' = [walk EXCEPT !.steady = @ \ {t}, !.back = back]
        BY <1>3, <2>4 DEF Stamped, Moves
      <3>2. /\ back \in SUBSET Nat /\ walk.back \in SUBSET back
            /\ row.updated >= rels[t].updated \/ t \in back
        BY <1>1, <2>2 DEF Walks
      <3> HIDE DEF back
      <3>3. /\ walk' \in Walks
            /\ walk'.of = walk.of /\ walk'.page = walk.page /\ walk'.shown = walk.shown
            /\ walk'.cursor = walk.cursor /\ walk'.filter = walk.filter
            /\ walk'.steady = walk.steady \ {t} /\ walk'.back = back
        BY <1>1, <3>1, <3>2 DEF Walks
      <3>4. \A x \in Tuples : rels'[x].updated >= rels[x].updated \/ x \in walk'.back
        <4>1. ASSUME NEW x \in Tuples, x # t PROVE rels'[x].updated >= rels[x].updated
          BY <1>1, <2>1, <4>1
        <4> QED BY <2>1, <3>2, <3>3, <4>1
      <3> QED BY <2>1, <2>4, <3>2, <3>3, <3>4
    <2> QED BY <2>3, <2>4
  <1> QED BY <1>2, <1>3 DEF Touched

LEMMA JournalFrame == ASSUME ConsoleInv, Grown, Appended, Touched, JournalOK' PROVE ConsoleInv'
  <1>1. ConsoleTyped
    BY DEF ConsoleInv
  <1>2. /\ rels' \in [Tuples -> RelationshipRows] /\ walk' \in Walks
        /\ walk'.of = walk.of /\ walk'.page = walk.page /\ walk'.shown = walk.shown
        /\ walk'.cursor = walk.cursor /\ walk'.filter = walk.filter
        /\ walk'.steady \in SUBSET walk.steady /\ walk.back \in SUBSET walk'.back
        /\ walk.of # "relationships" => walk' = walk
        /\ walk.of = "relationships" =>
             \A x \in Tuples : /\ x \in walk'.steady => rels'[x] = rels[x]
                               /\ rels'[x].updated >= rels[x].updated \/ x \in walk'.back
    BY <1>1, MovesNoted
  <1>3. ConsoleTyped'
    BY <1>2 DEF ConsoleTyped, Grown, Appended
  <1>4. Listed(walk)'
    <2>1. CASE walk.of = "relationships"
      <3>1. /\ \A i \in DOMAIN walk.shown : walk.shown[i] \in SUBSET Tuples
            /\ walk \in Walks
        BY <2>1 DEF ConsoleInv, ConsoleTyped, Known
      <3>2. \A x \in Tuples : /\ rels[x].updated \in Nat /\ rels'[x].updated \in Nat
                              /\ rels[x] \in RelationshipRows /\ rels'[x] \in RelationshipRows
        BY <1>1, <1>2 DEF ConsoleTyped, RelationshipRows
      <3>3. \A x \in Tuples : /\ Place(walk, x) = <<rels[x].updated, x>> /\ Place(walk, x)' = <<rels'[x].updated, x>>
                              /\ x \in Nat
        <4>1. TupleCount \in Nat
          BY ConsoleBounds
        <4> QED BY <2>1, <1>2, <4>1 DEF Place, RelationshipPlace, Tuples
      <3>4. ASSUME NEW x \in Tuples, NotPast(walk, x) \/ x \in walk.back
            PROVE  NotPast(walk, x)' \/ x \in walk'.back
        <4>1. CASE x \in walk'.back
          BY <4>1
        <4>2. CASE x \notin walk'.back
          <5>1. NotPast(walk, x) /\ rels'[x].updated >= rels[x].updated
            BY <1>2, <2>1, <3>4, <4>2
          <5>2. walk.cursor # <<>> /\ walk.cursor \in Stamps /\ ~ Before(walk.cursor, <<rels[x].updated, x>>)
            BY <3>1, <3>3, <5>1 DEF NotPast, Past, Walks
          <5>3. walk.cursor[1] \in Nat /\ walk.cursor[2] \in Nat
            BY <5>2 DEF Stamps
          <5>4. ~ Before(walk.cursor, <<rels'[x].updated, x>>)
            BY <3>2, <3>3, <5>1, <5>2, <5>3 DEF Before
          <5> QED BY <1>2, <3>3, <5>2, <5>4 DEF NotPast, Past
        <4> QED BY <4>1, <4>2
      <3>5. ASSUME NEW x \in Tuples, rels'[x] = rels[x], x \in RowsOf(walk)
            PROVE /\ x \in RowsOf(walk)' /\ (x \in RestOf(walk) => x \in RestOf(walk)')
        <4>1. x \in RowsOf(walk)'
          BY <1>2, <2>1, <3>5 DEF RowsOf, RelationshipsMatching, Stored
        <4>2. Place(walk, x)' = Place(walk, x)
          BY <3>3, <3>5
        <4> QED BY <1>2, <4>1, <4>2 DEF RestOf, Past
      <3>6. ASSUME Once(walk) PROVE Once(walk)'
        BY <1>2, <3>6 DEF Once
      <3>7. CASE walk.page = "more"
        <4>1. Going(walk)
          BY <2>1, <3>7 DEF ConsoleInv, Listed, Lists
        <4>2. \A i \in DOMAIN walk.shown : \A x \in walk.shown[i] : NotPast(walk, x)' \/ x \in walk'.back
          BY <3>1, <3>4, <4>1 DEF Going
        <4>3. ASSUME NEW x \in walk'.steady
              PROVE x \in RowsOf(walk)' /\ (InSome(walk.shown, x) \/ x \in RestOf(walk)')
          <5>1. x \in RowsOf(walk) /\ (InSome(walk.shown, x) \/ x \in RestOf(walk))
            BY <1>2, <4>1 DEF Going
          <5>2. x \in Tuples
            BY <5>1, <2>1 DEF RowsOf, RelationshipsMatching, Stored
          <5>3. rels'[x] = rels[x]
            BY <1>2, <2>1, <5>2
          <5> QED BY <3>5, <5>1, <5>2, <5>3
        <4>4. Once(walk)'
          BY <3>6, <4>1 DEF Going
        <4>5. Going(walk)'
          BY <1>2, <4>2, <4>3, <4>4 DEF Going, InSome
        <4> QED BY <4>5, <3>7, <1>2 DEF Listed
      <3>8. CASE walk.page # "more"
        <4>1. Ended(walk)
          BY <2>1, <3>8 DEF ConsoleInv, Listed, Lists
        <4>2. Once(walk)'
          BY <3>6, <4>1 DEF Ended
        <4>3. Ended(walk)'
          BY <1>2, <4>1, <4>2 DEF Ended, InSome
        <4> QED BY <4>3, <3>8, <1>2 DEF Listed
      <3> QED BY <3>7, <3>8
    <2>2. CASE walk.of = "audit"
      <3>1. walk' = walk
        BY <1>2, <2>2
      <3>2. \A x : x \in RowsOf(walk) => x \in RowsOf(walk)'
        BY <2>2, <3>1 DEF RowsOf, AuditMatching, Appended
      <3>3. \A x : Place(walk, x)' = Place(walk, x)
        BY <2>2, <3>1 DEF Place
      <3>4. \A x : x \in RestOf(walk) => x \in RestOf(walk)'
        BY <3>1, <3>2, <3>3 DEF RestOf, Past
      <3>5. CASE walk.page = "more"
        <4>1. Going(walk)
          BY <2>2, <3>5 DEF ConsoleInv, Listed, Lists
        <4>2. \A x : NotPast(walk, x) => NotPast(walk, x)'
          BY <3>1, <3>3 DEF NotPast, Past
        <4>3. Going(walk)'
          BY <3>1, <3>2, <3>4, <4>1, <4>2 DEF Going, Once
        <4> QED BY <4>3, <3>1, <3>5 DEF Listed
      <3>6. CASE walk.page # "more"
        <4>1. Ended(walk)
          BY <2>2, <3>6 DEF ConsoleInv, Listed, Lists
        <4> QED BY <3>1, <3>6, <4>1 DEF Listed, Ended, Once
      <3> QED BY <3>5, <3>6
    <2>3. CASE walk.of \notin Lists
      BY <1>2, <2>3 DEF Listed
    <2> QED BY <2>1, <2>2, <2>3 DEF Lists
  <1>5. AuditOK(walk)'
    <2>1. ASSUME walk.of = "audit" PROVE Descending(walk)'
      <3>1. walk' = walk /\ Descending(walk)
        BY <1>2, <2>1 DEF ConsoleInv, AuditOK
      <3>2. DOMAIN audit \in SUBSET DOMAIN audit'
        BY DEF Appended
      <3> QED BY <3>1, <3>2 DEF Descending
    <2> QED BY <1>2, <2>1 DEF AuditOK
  <1>6. Known(walk)'
    <2>1. CASE walk.of = "relationships"
      BY <1>2, <2>1 DEF ConsoleInv, Known
    <2>2. CASE walk.of = "detail" /\ walk.page = "more"
      <3>1. walk' = walk
        BY <1>2, <2>2
      <3>2. walk.shown = <<>> /\ walk.steady = {} /\ walk.back = {} /\ walk.told = "nothing"
        BY <2>2 DEF ConsoleInv, Known
      <3>3. PICK t \in Tuples : ReadOf(walk, t)
        BY <2>2 DEF ConsoleInv, Known
      <3>4. walk.row.sync \notin OpenStatuses => muts[t][walk.row.revision].status \notin OpenStatuses
        BY <3>3 DEF ReadOf
      <3>5. ReadOf(walk, t)'
        BY <3>1, <3>3, <3>4 DEF ReadOf, Grown
      <3> QED BY <2>2, <3>1, <3>2, <3>5 DEF Known
    <2>3. CASE walk.of \in {"nothing", "audit"} \/ (walk.of = "detail" /\ walk.page # "more")
      <3>1. walk' = walk
        BY <1>2, <2>3
      <3> QED BY <2>3, <3>1 DEF ConsoleInv, Known
    <2> QED BY <1>1, <2>1, <2>2, <2>3 DEF Walks, ConsoleTyped
  <1> QED BY <1>3, <1>4, <1>5, <1>6 DEF ConsoleInv

(* An event fits the story: it tells a start, a confirmation or a request   *)
(* of the latest revision, an end that was written with it, and nothing     *)
(* after the end of its mutation but a repair.                              *)
Fits(e) ==
    /\ e.revision \in DOMAIN muts'[e.tuple]
    /\ e.type \in Leading => e.revision >= Len(muts[e.tuple])
    /\ e.type \in Endings => EndsAsTold(e, muts'[e.tuple][e.revision])
    /\ \A m \in DOMAIN audit :
          audit[m].tuple = e.tuple /\ audit[m].revision = e.revision /\ audit[m].type \in Endings
             => audit[m].type = "change_confirmed" /\ e.type = "drift_repaired"
Fresh == DOMAIN audit' \ DOMAIN audit

LEMMA StoryGoesOn ==
  ASSUME ConsoleTyped, JournalOK, Grown, Appended, \A n \in Fresh : Fits(audit'[n]),
         \A m, n \in Fresh : m < n => /\ audit'[m].revision # audit'[n].revision
                                      /\ audit'[n].type \notin Leading
  PROVE  EventsAreTrue' /\ AuditTellsOneStory'
  <1>1. /\ \A m \in DOMAIN audit : m \in DOMAIN audit' /\ audit'[m] = audit[m]
        /\ \A m \in DOMAIN audit, n \in Fresh : m < n
        /\ \A n \in DOMAIN audit' : audit'[n] \in AuditRows
        /\ DOMAIN audit' \in SUBSET Nat
    <2>1. /\ audit \in Seq(AuditRows) /\ audit' \in Seq(AuditRows)
          /\ \A m \in DOMAIN audit : m \in DOMAIN audit' /\ audit'[m] = audit[m]
      BY DEF ConsoleTyped, Appended
    <2>2. /\ Len(audit) \in Nat /\ Len(audit') \in Nat
          /\ DOMAIN audit = 1..Len(audit) /\ DOMAIN audit' = 1..Len(audit')
      BY <2>1
    <2> QED BY <2>1, <2>2 DEF Fresh
  <1>2. \A m \in DOMAIN audit : audit[m] \in AuditRows
    BY DEF ConsoleTyped
  <1>3. EventsAreTrue'
    <2> SUFFICES ASSUME NEW m \in DOMAIN audit'
                 PROVE /\ audit'[m].revision \in DOMAIN muts'[audit'[m].tuple]
                       /\ audit'[m].type \in Endings => EndsAsTold(audit'[m], muts'[audit'[m].tuple][audit'[m].revision])
      BY DEF EventsAreTrue
    <2>1. CASE m \in DOMAIN audit
      <3> DEFINE e == audit[m]
                 t == e.tuple
                 r == e.revision
      <3>1. audit'[m] = e /\ t \in Tuples
        BY <1>1, <1>2, <2>1 DEF AuditRows
      <3>2. r \in DOMAIN muts[t] /\ (e.type \in Endings => EndsAsTold(e, muts[t][r]))
        BY <2>1 DEF JournalOK, EventsAreTrue
      <3> HIDE DEF e, t, r
      <3>3. r \in DOMAIN muts'[t]
            /\ (muts[t][r].status \notin OpenStatuses => muts'[t][r].status = muts[t][r].status)
        BY <3>1, <3>2 DEF Grown
      <3>4. e.type \in Endings => EndsAsTold(e, muts'[t][r])
        BY <3>2, <3>3 DEF EndsAsTold
      <3> QED BY <3>1, <3>3, <3>4 DEF e, t, r
    <2>2. CASE m \in Fresh
      BY <2>2 DEF Fits
    <2> QED BY <2>1, <2>2 DEF Fresh
  <1>4. AuditTellsOneStory'
    <2> SUFFICES ASSUME NEW m \in DOMAIN audit', NEW n \in DOMAIN audit', m < n,
                        audit'[m].tuple = audit'[n].tuple
                 PROVE  /\ audit'[n].type \in Leading => audit'[m].revision <= audit'[n].revision
                        /\ audit'[m].revision = audit'[n].revision /\ audit'[m].type \in Endings =>
                              audit'[m].type = "change_confirmed" /\ audit'[n].type = "drift_repaired"
      BY DEF AuditTellsOneStory
    <2>1. CASE m \in DOMAIN audit /\ n \in DOMAIN audit
      BY <1>1, <2>1 DEF JournalOK, AuditTellsOneStory
    <2>2. CASE m \in DOMAIN audit /\ n \in Fresh
      <3>1. audit'[m] = audit[m] /\ Fits(audit'[n])
        BY <1>1, <2>2
      <3>2. audit'[n].type \in Leading => audit'[m].revision <= audit'[n].revision
        <4>1. audit'[n].type \in Leading => audit'[n].revision >= Len(muts[audit'[n].tuple])
          BY <3>1 DEF Fits
        <4>2. audit[m].revision \in DOMAIN muts[audit[m].tuple] /\ audit[m].tuple \in Tuples
          BY <1>2, <2>2 DEF JournalOK, EventsAreTrue, AuditRows
        <4>3. audit[m].revision \in 1..Len(muts[audit[m].tuple]) /\ Len(muts[audit[m].tuple]) \in Nat
          BY <4>2 DEF ConsoleTyped
        <4>4. audit'[n].revision \in Nat
          BY <1>1 DEF AuditRows
        <4> QED BY <3>1, <4>1, <4>3, <4>4
      <3>3. audit'[m].revision = audit'[n].revision /\ audit'[m].type \in Endings =>
               audit'[m].type = "change_confirmed" /\ audit'[n].type = "drift_repaired"
        BY <2>2, <3>1 DEF Fits
      <3> QED BY <3>2, <3>3
    <2>3. CASE m \in Fresh /\ n \in Fresh
      BY <2>3
    <2>4. CASE m \in Fresh /\ n \in DOMAIN audit
      <3>1. n < m /\ m \in Nat /\ n \in Nat
        BY <1>1, <2>4 DEF Fresh
      <3> QED BY <3>1
    <2> QED BY <2>1, <2>2, <2>3, <2>4 DEF Fresh
  <1> QED BY <1>3, <1>4

(* One event, unless it is there already.                                   *)
LEMMA RecordedOnce ==
  ASSUME ConsoleTyped, JournalOK, Grown, NEW e \in AuditRows, audit' = Recorded(e),
         (\A m \in DOMAIN audit : audit[m] # e) => Fits(e)
  PROVE  /\ Appended /\ EventsAreTrue' /\ AuditTellsOneStory'
         /\ \E m \in DOMAIN audit' : audit'[m] = e
  <1>1. audit \in Seq(AuditRows) /\ ToSet(audit) = {audit[m] : m \in DOMAIN audit}
    BY DEF ConsoleTyped, ToSet
  <1>2. CASE e \in ToSet(audit)
    <2>1. audit' = audit /\ \E m \in DOMAIN audit : audit[m] = e
      BY <1>1, <1>2 DEF Recorded
    <2>2. Appended
      BY <1>1, <2>1 DEF Appended
    <2>3. Fresh = {}
      BY <2>1 DEF Fresh
    <2> QED BY <2>1, <2>2, <2>3, StoryGoesOn
  <1>3. CASE e \notin ToSet(audit)
    <2>1. audit' = Append(audit, e) /\ Fits(e)
      BY <1>1, <1>3 DEF Recorded
    <2> DEFINE n == Len(audit) + 1
    <2>2. /\ audit' \in Seq(AuditRows) /\ DOMAIN audit' = DOMAIN audit \cup {n} /\ audit'[n] = e
          /\ \A m \in DOMAIN audit : audit'[m] = audit[m]
          /\ n \notin DOMAIN audit /\ n \in Nat
      BY <1>1, <2>1
    <2> HIDE DEF n
    <2>3. Appended
      BY <2>2 DEF Appended
    <2>4. Fresh = {n}
      BY <2>2 DEF Fresh
    <2>5. EventsAreTrue' /\ AuditTellsOneStory'
      <3>1. \A k \in Fresh : Fits(audit'[k])
        BY <2>1, <2>2, <2>4
      <3>2. \A l, k \in Fresh : l < k => /\ audit'[l].revision # audit'[k].revision
                                         /\ audit'[k].type \notin Leading
        BY <2>2, <2>4
      <3> QED BY <2>3, <3>1, <3>2, StoryGoesOn
    <2> QED BY <2>2, <2>3, <2>5
  <1> QED BY <1>2, <1>3

LEMMA MakesSeq ==
  ASSUME NEW S, NEW n \in Nat, NEW f \in [1..n -> S] PROVE f \in Seq(S) /\ Len(f) = n
  OBVIOUS

LEMMA SeqExcept ==
  ASSUME NEW S, NEW s \in Seq(S), NEW i \in 1..Len(s), NEW e \in S
  PROVE  /\ [s EXCEPT ![i] = e] \in Seq(S) /\ Len([s EXCEPT ![i] = e]) = Len(s)
         /\ \A j \in 1..Len(s) : [s EXCEPT ![i] = e][j] = IF j = i THEN e ELSE s[j]
  <1> DEFINE r == [s EXCEPT ![i] = e]
  <1>1. r \in [1..Len(s) -> S] /\ Len(s) \in Nat /\ DOMAIN s = 1..Len(s)
    OBVIOUS
  <1>2. \A j \in 1..Len(s) : r[j] = IF j = i THEN e ELSE s[j]
    BY <1>1
  <1> HIDE DEF r
  <1>3. r \in Seq(S) /\ Len(r) = Len(s)
    BY <1>1, MakesSeq
  <1> QED BY <1>2, <1>3 DEF r

LEMMA EventOfIs ==
  /\ EventOf("applying") = "apply_started" /\ EventOf("confirmed") = "change_confirmed"
  /\ EventOf("indeterminate") = "change_indeterminate" /\ EventOf("failed") = "change_failed"
  /\ EventOf("superseded") = "change_superseded"
  BY DEF EventOf

(* A mutation of the journal that was written over.                         *)
LEMMA MutationWritten ==
  ASSUME ConsoleTyped, NEW t \in Tuples, NEW n \in DOMAIN muts[t], NEW one \in MutationRows,
         muts' = [muts EXCEPT ![t][n] = one]
  PROVE  /\ muts' \in [Tuples -> Seq(MutationRows)]
         /\ muts'[t][n] = one
         /\ \A u \in Tuples : Len(muts'[u]) = Len(muts[u]) /\ DOMAIN muts'[u] = DOMAIN muts[u]
         /\ \A u \in Tuples : \A k \in DOMAIN muts[u] : u # t \/ k # n => muts'[u][k] = muts[u][k]
  <1> DEFINE s == muts[t]
             r == [s EXCEPT ![n] = one]
  <1>1. s \in Seq(MutationRows) /\ n \in 1..Len(s) /\ DOMAIN s = 1..Len(s)
    BY DEF ConsoleTyped
  <1>2. muts' = [muts EXCEPT ![t] = r]
    OBVIOUS
  <1> HIDE DEF s
  <1>3. r \in Seq(MutationRows) /\ Len(r) = Len(s) /\ DOMAIN r = DOMAIN s
        /\ r[n] = one /\ \A k \in DOMAIN s : k # n => r[k] = s[k]
    <2>1. /\ r \in Seq(MutationRows) /\ Len(r) = Len(s)
          /\ \A k \in 1..Len(s) : r[k] = IF k = n THEN one ELSE s[k]
      BY <1>1, SeqExcept
    <2> QED BY <1>1, <2>1
  <1> HIDE DEF r
  <1>4. muts'[t] = r /\ \A u \in Tuples : u # t => muts'[u] = muts[u]
    BY <1>2 DEF ConsoleTyped
  <1>5. muts' \in [Tuples -> Seq(MutationRows)]
    BY <1>2, <1>3 DEF ConsoleTyped
  <1> QED BY <1>3, <1>4, <1>5 DEF s

LEMMA RequestedKeeps ==
  ASSUME ConsoleInv, NEW t \in Tuples, NEW instant_ \in Instants, Requested(t, instant_) PROVE ConsoleInv'
  <1> DEFINE n == Len(muts[t]) + 1
             one == Mutation("prepared", 0)
             e == Event("change_requested", t, n, 0)
             row == [revision |-> n, sync |-> "prepared", updated |-> instant_]
  <1>1. ConsoleTyped /\ JournalOK
    BY DEF ConsoleInv
  <1>2. /\ muts' = [muts EXCEPT ![t] = Append(@, one)]
        /\ Stamped(t, row) /\ audit' = Recorded(e)
    BY DEF Requested
  <1>3. /\ muts[t] \in Seq(MutationRows) /\ Len(muts[t]) \in Nat /\ n \in Nat
        /\ DOMAIN muts[t] = 1..Len(muts[t]) /\ instant_ \in Nat
    BY <1>1, ConsoleBounds DEF ConsoleTyped, Instants
  <1>4. /\ one \in MutationRows /\ one.status = "prepared"
        /\ e \in AuditRows /\ e.tuple = t /\ e.revision = n /\ e.type = "change_requested"
        /\ row \in RelationshipRows /\ row.revision = n /\ row.sync = "prepared"
    BY <1>3 DEF Mutation, MutationRows, MutationStatuses, SyncStatuses, Event, AuditRows, EventTypes,
                RelationshipRows
  <1> DEFINE more == Append(muts[t], one)
  <1>5. /\ more \in Seq(MutationRows) /\ Len(more) = n /\ DOMAIN more = DOMAIN muts[t] \cup {n}
        /\ more[n] = one /\ \A k \in DOMAIN muts[t] : more[k] = muts[t][k]
        /\ n \notin DOMAIN muts[t]
    <2> HIDE DEF one
    <2> QED BY <1>3, <1>4
  <1>6. muts' = [muts EXCEPT ![t] = more]
    BY <1>2
  <1> HIDE DEF more, one, e, row
  <1>7. /\ muts' \in [Tuples -> Seq(MutationRows)] /\ muts'[t] = more
        /\ \A u \in Tuples : u # t => muts'[u] = muts[u]
    BY <1>1, <1>5, <1>6 DEF ConsoleTyped
  <1>8. Grown
    <2>1. \A u \in Tuples : \A k \in DOMAIN muts[u] : k \in DOMAIN muts'[u] /\ muts'[u][k] = muts[u][k]
      BY <1>5, <1>7
    <2> QED BY <1>7, <2>1 DEF Grown
  <1>9. Fits(e)
    <2>1. e.revision \in DOMAIN muts'[e.tuple] /\ e.revision >= Len(muts[e.tuple])
      BY <1>3, <1>4, <1>5, <1>7
    <2>2. e.type \notin Endings
      BY <1>4 DEF Endings
    <2>3. \A m \in DOMAIN audit : ~ (audit[m].tuple = e.tuple /\ audit[m].revision = e.revision)
      BY <1>1, <1>4, <1>5 DEF JournalOK, EventsAreTrue
    <2> QED BY <2>1, <2>2, <2>3 DEF Fits
  <1>10. Appended /\ EventsAreTrue' /\ AuditTellsOneStory'
    BY <1>1, <1>2, <1>4, <1>8, <1>9, RecordedOnce
  <1>11. /\ rels'[t] = row /\ \A u \in Tuples : u # t => rels'[u] = rels[u]
    BY <1>1, <1>2 DEF Stamped, ConsoleTyped
  <1>12. RowsFollow'
    <2>1. ASSUME NEW u \in Tuples
          PROVE  /\ rels'[u].revision = Len(muts'[u])
                 /\ rels'[u].revision > 0 => rels'[u].sync = muts'[u][rels'[u].revision].status
      <3>1. CASE u = t
        BY <1>4, <1>5, <1>7, <1>11, <3>1
      <3>2. CASE u # t
        BY <1>1, <1>7, <1>11, <3>2 DEF JournalOK, RowsFollow
      <3> QED BY <3>1, <3>2
    <2> QED BY <2>1 DEF RowsFollow
  <1>13. MarksAreTold'
    <2>1. ASSUME NEW u \in Tuples, NEW k \in DOMAIN muts'[u],
                 muts'[u][k].status \in {"applying", "confirmed", "failed"}
          PROVE  \E m \in DOMAIN audit' :
                    audit'[m] = Event(EventOf(muts'[u][k].status), u, k, muts'[u][k].attempts)
      <3>1. k \in DOMAIN muts[u] /\ muts'[u][k] = muts[u][k]
        BY <1>4, <1>5, <1>7, <2>1
      <3>2. PICK m \in DOMAIN audit :
                    audit[m] = Event(EventOf(muts[u][k].status), u, k, muts[u][k].attempts)
        BY <1>1, <2>1, <3>1 DEF JournalOK, MarksAreTold
      <3>3. m \in DOMAIN audit' /\ audit'[m] = audit[m]
        BY <1>10 DEF Appended
      <3> QED BY <3>1, <3>2, <3>3
    <2> QED BY <2>1 DEF MarksAreTold
  <1>14. JournalOK'
    BY <1>10, <1>12, <1>13 DEF JournalOK
  <1>15. Touched
    BY <1>2, <1>4 DEF Touched
  <1> QED BY <1>8, <1>10, <1>14, <1>15, JournalFrame

LEMMA MarkKeeps ==
  ASSUME ConsoleInv, NEW t \in Tuples, NEW n \in DOMAIN muts[t], NEW status \in SyncStatuses \ {"prepared"},
         NEW instant_ \in Instants, Mark(t, n, status, instant_)
  PROVE  ConsoleInv'
  <1> DEFINE old == muts[t][n]
             one == Marked(t, n, status)
             e == Event(EventOf(status), t, n, one.attempts)
             row == [rels[t] EXCEPT !.sync = status, !.updated = instant_]
  <1>1. ConsoleTyped /\ JournalOK
    BY DEF ConsoleInv
  <1>2. /\ muts' = [muts EXCEPT ![t][n] = one]
        /\ IF one.status = status /\ IsLatest(t, n) THEN Stamped(t, row) ELSE UNCHANGED <<rels, walk>>
        /\ audit' = IF one.status = status THEN Recorded(e) ELSE audit
    BY DEF Mark
  <1>3. /\ old \in MutationRows /\ old.status \in MutationStatuses /\ old.attempts \in Nat
        /\ n \in Nat /\ DOMAIN muts[t] = 1..Len(muts[t]) /\ Len(muts[t]) \in Nat /\ instant_ \in Nat
    <2>1. muts[t] \in Seq(MutationRows)
      BY <1>1 DEF ConsoleTyped
    <2>2. old \in MutationRows /\ n \in Nat /\ DOMAIN muts[t] = 1..Len(muts[t]) /\ Len(muts[t]) \in Nat
      BY <2>1
    <2>3. instant_ \in Nat
      BY ConsoleBounds DEF Instants
    <2> QED BY <2>2, <2>3 DEF MutationRows
  <1>4. /\ rels[t] \in RelationshipRows /\ rels[t].revision = Len(muts[t])
        /\ rels[t].revision > 0 => rels[t].sync = muts[t][rels[t].revision].status
    BY <1>1 DEF ConsoleTyped, JournalOK, RowsFollow
  <1>5. /\ row \in RelationshipRows /\ row.revision = rels[t].revision /\ row.sync = status
    BY <1>3, <1>4 DEF RelationshipRows
  <1>6. /\ MayMark(t, n, status) => one.status = status /\ one.attempts \in Nat /\ one \in MutationRows
        /\ ~MayMark(t, n, status) => one = old
    BY <1>3 DEF Marked, Mutation, MutationRows, MutationStatuses
  <1>7. /\ MayMark(t, n, status) => old.status \in OpenStatuses
        /\ status \in OpenStatuses \cup {"confirmed", "failed"}
        /\ EventOf(status) \in EventTypes
        /\ EventOf(status) \in Leading => status \in {"applying", "confirmed"}
        /\ EventOf(status) \in Endings => status \in {"confirmed", "failed"}
    BY EventOfIs DEF MayMark, SyncStatuses, OpenStatuses, EventTypes, Leading, Endings
  <1>8. one \in MutationRows /\ one.attempts \in Nat
    BY <1>3, <1>6 DEF MutationRows
  <1> HIDE DEF one, old, row
  <1>9. e \in AuditRows /\ e.tuple = t /\ e.revision = n /\ e.type = EventOf(status) /\ e.key = one.attempts
    BY <1>3, <1>7, <1>8 DEF Event, AuditRows
  <1>10. e = Event(EventOf(status), t, n, one.attempts)
    OBVIOUS
  <1> HIDE DEF e
  <1>11. /\ muts' \in [Tuples -> Seq(MutationRows)] /\ muts'[t][n] = one
         /\ \A u \in Tuples : Len(muts'[u]) = Len(muts[u]) /\ DOMAIN muts'[u] = DOMAIN muts[u]
         /\ \A u \in Tuples : \A k \in DOMAIN muts[u] : u # t \/ k # n => muts'[u][k] = muts[u][k]
    BY <1>1, <1>2, <1>8, MutationWritten
  <1>12. old.status \notin OpenStatuses => one = old
    BY <1>6, <1>7
  <1>13. Grown
    <2>1. ASSUME NEW u \in Tuples, NEW k \in DOMAIN muts[u]
          PROVE /\ k \in DOMAIN muts'[u]
                /\ muts[u][k].status \notin OpenStatuses => muts'[u][k].status = muts[u][k].status
      <3>1. CASE u = t /\ k = n
        BY <1>11, <1>12, <3>1 DEF old
      <3>2. CASE u # t \/ k # n
        BY <1>11, <3>2
      <3> QED BY <3>1, <3>2
    <2> QED BY <1>11, <2>1 DEF Grown
  <1>14. ASSUME one.status = status, \A m \in DOMAIN audit : audit[m] # e PROVE Fits(e)
    <2>1. MayMark(t, n, status)
      <3> SUFFICES ASSUME ~MayMark(t, n, status) PROVE FALSE
        OBVIOUS
      <3>1. one = old /\ old.status = status
        BY <1>6, <1>14
      <3>2. status # "indeterminate"
        BY <3>1 DEF MayMark, OpenStatuses, old
      <3>3. status \in {"applying", "confirmed", "failed"}
        BY <3>2 DEF SyncStatuses
      <3>4. \E m \in DOMAIN audit : audit[m] = Event(EventOf(old.status), t, n, old.attempts)
        BY <1>1, <3>1, <3>3 DEF JournalOK, MarksAreTold, old
      <3> QED BY <1>10, <1>14, <3>1, <3>4
    <2>2. e.revision \in DOMAIN muts'[e.tuple]
      BY <1>9, <1>11
    <2>3. e.type \in Leading => e.revision >= Len(muts[e.tuple])
      <3>1. e.type \in Leading => n = rels[t].revision
        BY <1>7, <1>9, <2>1 DEF MayMark, IsLatest
      <3> QED BY <1>3, <1>4, <1>9, <3>1
    <2>4. e.type \in Endings => EndsAsTold(e, muts'[e.tuple][e.revision])
      <3>1. e.type \in Endings => status \notin OpenStatuses
        BY <1>7, <1>9 DEF OpenStatuses
      <3> QED BY <1>9, <1>11, <1>14, <3>1 DEF EndsAsTold
    <2>5. ASSUME NEW m \in DOMAIN audit, audit[m].tuple = e.tuple, audit[m].revision = e.revision,
                 audit[m].type \in Endings
          PROVE FALSE
      <3>1. muts[t][n].status \notin OpenStatuses
        BY <1>1, <1>9, <2>5 DEF JournalOK, EventsAreTrue, EndsAsTold
      <3> QED BY <1>7, <2>1, <3>1 DEF old
    <2> QED BY <2>2, <2>3, <2>4, <2>5 DEF Fits
  <1>15. /\ Appended /\ EventsAreTrue' /\ AuditTellsOneStory'
         /\ one.status = status => \E m \in DOMAIN audit' : audit'[m] = e
    <2>1. CASE one.status = status
      <3>1. audit' = Recorded(e)
        BY <1>2, <2>1
      <3> QED BY <1>1, <1>9, <1>13, <1>14, <2>1, <3>1, RecordedOnce
    <2>2. CASE one.status # status
      <3>1. audit' = audit
        BY <1>2, <2>2
      <3>2. Appended
        BY <1>1, <3>1 DEF ConsoleTyped, Appended
      <3>3. Fresh = {}
        BY <3>1 DEF Fresh
      <3> QED BY <1>1, <1>13, <2>2, <3>2, <3>3, StoryGoesOn
    <2> QED BY <2>1, <2>2
  <1>16. RowsFollow'
    <2>1. ASSUME NEW u \in Tuples
          PROVE  /\ rels'[u].revision = Len(muts'[u])
                 /\ rels'[u].revision > 0 => rels'[u].sync = muts'[u][rels'[u].revision].status
      <3>1. /\ rels[u].revision = Len(muts[u]) /\ rels[u].revision \in Nat
            /\ rels[u].revision > 0 => /\ rels[u].sync = muts[u][rels[u].revision].status
                                       /\ rels[u].revision \in DOMAIN muts[u]
        BY <1>1 DEF JournalOK, RowsFollow, ConsoleTyped, RelationshipRows
      <3>2. CASE one.status = status /\ IsLatest(t, n)
        <4>1. rels'[t] = row /\ \A x \in Tuples : x # t => rels'[x] = rels[x]
          BY <1>1, <1>2, <3>2 DEF Stamped, ConsoleTyped
        <4>2. CASE u = t
          BY <1>5, <1>11, <3>1, <3>2, <4>1, <4>2 DEF IsLatest
        <4>3. CASE u # t
          BY <1>11, <3>1, <4>1, <4>3
        <4> QED BY <4>2, <4>3
      <3>3. CASE ~ (one.status = status /\ IsLatest(t, n))
        <4>1. rels' = rels
          BY <1>2, <3>3
        <4>2. CASE u = t /\ rels[u].revision = n
          <5>1. one = old
            BY <1>6, <3>3, <4>2 DEF IsLatest
          <5> QED BY <1>11, <3>1, <4>1, <4>2, <5>1 DEF old
        <4>3. CASE u # t \/ rels[u].revision # n
          BY <1>11, <3>1, <4>1, <4>3
        <4> QED BY <4>2, <4>3
      <3> QED BY <3>2, <3>3
    <2> QED BY <2>1 DEF RowsFollow
  <1>17. MarksAreTold'
    <2>1. ASSUME NEW u \in Tuples, NEW k \in DOMAIN muts'[u],
                 muts'[u][k].status \in {"applying", "confirmed", "failed"}
          PROVE  \E m \in DOMAIN audit' :
                    audit'[m] = Event(EventOf(muts'[u][k].status), u, k, muts'[u][k].attempts)
      <3>0. k \in DOMAIN muts[u]
        BY <1>11
      <3>1. CASE muts'[u][k] = muts[u][k]
        <4>1. PICK m \in DOMAIN audit :
                    audit[m] = Event(EventOf(muts[u][k].status), u, k, muts[u][k].attempts)
          BY <1>1, <2>1, <3>0, <3>1 DEF JournalOK, MarksAreTold
        <4>2. m \in DOMAIN audit' /\ audit'[m] = audit[m]
          BY <1>15 DEF Appended
        <4> QED BY <3>1, <4>1, <4>2
      <3>2. CASE muts'[u][k] # muts[u][k]
        <4>1. u = t /\ k = n /\ one # old
          BY <1>11, <3>0, <3>2 DEF old
        <4>2. one.status = status /\ muts'[u][k] = one
          BY <1>6, <1>11, <4>1
        <4> QED BY <1>10, <1>15, <4>1, <4>2
      <3> QED BY <3>1, <3>2
    <2> QED BY <2>1 DEF MarksAreTold
  <1>18. JournalOK'
    BY <1>15, <1>16, <1>17 DEF JournalOK
  <1>19. Touched
    BY <1>2, <1>5 DEF Touched
  <1> QED BY <1>13, <1>15, <1>18, <1>19, JournalFrame

LEMMA SupersedeKeeps == ASSUME ConsoleInv, NEW t \in Tuples, SupersedeStale(t) PROVE ConsoleInv'
  <1> DEFINE stale == Stale(t)
             settled == [n \in DOMAIN muts[t] |->
                           IF n \in stale THEN Mutation("superseded", muts[t][n].attempts) ELSE muts[t][n]]
  <1>1. ConsoleTyped /\ JournalOK
    BY DEF ConsoleInv
  <1>2. /\ muts[t] \in Seq(MutationRows) /\ Len(muts[t]) \in Nat /\ DOMAIN muts[t] = 1..Len(muts[t])
        /\ \A n \in DOMAIN muts[t] : muts[t][n] \in MutationRows /\ muts[t][n].attempts \in Nat
    <2>1. muts[t] \in Seq(MutationRows)
      BY <1>1 DEF ConsoleTyped
    <2>2. \A n \in DOMAIN muts[t] : muts[t][n] \in MutationRows
      BY <2>1
    <2> QED BY <2>1, <2>2 DEF MutationRows
  <1>3. stale \in SUBSET DOMAIN muts[t]
        /\ \A n \in stale : muts[t][n].status \in OpenStatuses /\ n < rels[t].revision
    BY DEF Stale
  <1>4. muts' = [muts EXCEPT ![t] = settled] /\ rels' = rels /\ walk' = walk
    BY DEF SupersedeStale
  <1>5. PICK order \in SetToSeqs(stale) :
           audit' = audit \o [i \in DOMAIN order |->
                      Event("change_superseded", t, order[i], muts[t][order[i]].attempts)]
    BY DEF SupersedeStale
  <1> HIDE DEF stale
  <1>6. /\ settled \in Seq(MutationRows) /\ Len(settled) = Len(muts[t]) /\ DOMAIN settled = DOMAIN muts[t]
        /\ \A n \in stale : settled[n].status = "superseded"
        /\ \A n \in DOMAIN muts[t] \ stale : settled[n] = muts[t][n]
    <2>1. \A n \in DOMAIN muts[t] : Mutation("superseded", muts[t][n].attempts) \in MutationRows
                                    /\ Mutation("superseded", muts[t][n].attempts).status = "superseded"
      BY <1>2 DEF Mutation, MutationRows, MutationStatuses
    <2>2. settled \in [1..Len(muts[t]) -> MutationRows]
      BY <1>2, <2>1
    <2>3. settled \in Seq(MutationRows) /\ Len(settled) = Len(muts[t])
      BY <1>2, <2>2, MakesSeq
    <2> QED BY <1>2, <1>3, <2>1, <2>2, <2>3
  <1> HIDE DEF settled
  <1>7. /\ muts' \in [Tuples -> Seq(MutationRows)] /\ muts'[t] = settled
        /\ \A u \in Tuples : u # t => muts'[u] = muts[u]
    BY <1>1, <1>4, <1>6 DEF ConsoleTyped
  <1>8. \A u \in Tuples : /\ DOMAIN muts'[u] = DOMAIN muts[u] /\ Len(muts'[u]) = Len(muts[u])
                          /\ \A n \in DOMAIN muts[u] : ~ (u = t /\ n \in stale) => muts'[u][n] = muts[u][n]
    BY <1>6, <1>7
  <1>9. Grown
    <2>1. ASSUME NEW u \in Tuples, NEW k \in DOMAIN muts[u]
          PROVE /\ k \in DOMAIN muts'[u]
                /\ muts[u][k].status \notin OpenStatuses => muts'[u][k].status = muts[u][k].status
      BY <1>3, <1>8
    <2> QED BY <1>7, <2>1 DEF Grown
  <1> DEFINE more == [i \in DOMAIN order |->
                        Event("change_superseded", t, order[i], muts[t][order[i]].attempts)]
  <1>10. PICK count \in Nat : /\ order \in [1..count -> stale]
                              /\ \A i, j \in 1..count : i # j => order[i] # order[j]
    <2>1. IsFiniteSet(stale)
      <3>1. IsFiniteSet(DOMAIN muts[t])
        BY <1>2, FS_Interval
      <3> QED BY <1>3, <3>1, FS_Subset
    <2> DEFINE c == Cardinality(stale)
    <2>2. c \in Nat
      BY <2>1, FS_CardinalityType
    <2>3. order \in {f \in [1..c -> stale] : \A i, j \in 1..c : i # j => f[i] # f[j]}
      BY <1>5 DEF SetToSeqs
    <2> HIDE DEF c
    <2> QED BY <2>2, <2>3
  <1>11. \A i \in 1..count : /\ more[i] \in AuditRows /\ more[i].type = "change_superseded"
                             /\ more[i].tuple = t /\ more[i].revision = order[i]
    <2>1. ASSUME NEW k \in stale
          PROVE /\ Event("change_superseded", t, k, muts[t][k].attempts) \in AuditRows
                /\ Event("change_superseded", t, k, muts[t][k].attempts).type = "change_superseded"
                /\ Event("change_superseded", t, k, muts[t][k].attempts).tuple = t
                /\ Event("change_superseded", t, k, muts[t][k].attempts).revision = k
      BY <1>2, <1>3 DEF Event, AuditRows, EventTypes
    <2>2. \A i \in 1..count : order[i] \in stale /\ i \in DOMAIN order
      BY <1>10
    <2> QED BY <2>1, <2>2
  <1>12. more \in Seq(AuditRows) /\ Len(more) = count
    <2>1. more \in [1..count -> AuditRows]
      BY <1>10, <1>11
    <2> QED BY <2>1, MakesSeq
  <1>13. audit' = audit \o more
    BY <1>5
  <1> HIDE DEF more
  <1>14. /\ audit \in Seq(AuditRows) /\ audit' \in Seq(AuditRows)
         /\ \A m \in DOMAIN audit : m \in DOMAIN audit' /\ audit'[m] = audit[m]
         /\ Len(audit) \in Nat /\ DOMAIN audit = 1..Len(audit)
         /\ \A m \in Fresh : m - Len(audit) \in 1..count /\ audit'[m] = more[m - Len(audit)] /\ m \in Nat
    <2>1. audit \in Seq(AuditRows)
      BY <1>1 DEF ConsoleTyped
    <2> QED BY <2>1, <1>12, <1>13 DEF Fresh
  <1>15. Appended
    BY <1>14 DEF Appended
  <1>16. ASSUME NEW m \in Fresh PROVE Fits(audit'[m])
    <2> DEFINE i == m - Len(audit)
               e == audit'[m]
    <2>1. i \in 1..count /\ e = more[i]
      BY <1>14
    <2> HIDE DEF i, e
    <2>2. e.type = "change_superseded" /\ e.tuple = t /\ e.revision \in stale
      BY <1>10, <1>11, <2>1
    <2>3. e.revision \in DOMAIN muts'[e.tuple] /\ muts'[e.tuple][e.revision].status = "superseded"
      BY <1>3, <1>6, <1>7, <2>2
    <2>4. EndsAsTold(e, muts'[e.tuple][e.revision]) /\ e.type \notin Leading
      BY <2>2, <2>3, EventOfIs DEF EndsAsTold, OpenStatuses, Leading
    <2>5. ASSUME NEW k \in DOMAIN audit, audit[k].tuple = e.tuple, audit[k].revision = e.revision,
                 audit[k].type \in Endings
          PROVE FALSE
      <3>1. muts[t][audit[k].revision].status \notin OpenStatuses
        BY <1>1, <2>2, <2>5 DEF JournalOK, EventsAreTrue, EndsAsTold
      <3> QED BY <1>3, <2>2, <2>5, <3>1
    <2>6. Fits(e)
      BY <2>3, <2>4, <2>5 DEF Fits
    <2> QED BY <2>6 DEF e
  <1>17. ASSUME NEW l \in Fresh, NEW m \in Fresh, l < m
         PROVE audit'[l].revision # audit'[m].revision /\ audit'[m].type \notin Leading
    <2> DEFINE i == l - Len(audit)
               j == m - Len(audit)
    <2>1. i \in 1..count /\ j \in 1..count /\ i # j /\ audit'[l] = more[i] /\ audit'[m] = more[j]
      BY <1>14, <1>17
    <2> HIDE DEF i, j
    <2>2. order[i] # order[j]
      BY <1>10, <2>1
    <2> QED BY <1>11, <2>1, <2>2 DEF Leading
  <1>18. EventsAreTrue' /\ AuditTellsOneStory'
    BY <1>1, <1>9, <1>15, <1>16, <1>17, StoryGoesOn
  <1>19. RowsFollow'
    <2>1. ASSUME NEW u \in Tuples
          PROVE  /\ rels'[u].revision = Len(muts'[u])
                 /\ rels'[u].revision > 0 => rels'[u].sync = muts'[u][rels'[u].revision].status
      <3>1. /\ rels[u].revision = Len(muts[u]) /\ rels[u].revision \in Nat
            /\ rels[u].revision > 0 => /\ rels[u].sync = muts[u][rels[u].revision].status
                                       /\ rels[u].revision \in DOMAIN muts[u]
        BY <1>1 DEF JournalOK, RowsFollow, ConsoleTyped, RelationshipRows
      <3>2. ~ (u = t /\ rels[u].revision \in stale)
        BY <1>3, <3>1
      <3> QED BY <1>4, <1>8, <3>1, <3>2
    <2> QED BY <2>1 DEF RowsFollow
  <1>20. MarksAreTold'
    <2>1. ASSUME NEW u \in Tuples, NEW k \in DOMAIN muts'[u],
                 muts'[u][k].status \in {"applying", "confirmed", "failed"}
          PROVE  \E m \in DOMAIN audit' :
                    audit'[m] = Event(EventOf(muts'[u][k].status), u, k, muts'[u][k].attempts)
      <3>1. k \in DOMAIN muts[u] /\ muts'[u][k] = muts[u][k]
        BY <1>6, <1>7, <1>8, <2>1
      <3>2. PICK m \in DOMAIN audit :
                    audit[m] = Event(EventOf(muts[u][k].status), u, k, muts[u][k].attempts)
        BY <1>1, <2>1, <3>1 DEF JournalOK, MarksAreTold
      <3>3. m \in DOMAIN audit' /\ audit'[m] = audit[m]
        BY <1>15 DEF Appended
      <3> QED BY <3>1, <3>2, <3>3
    <2> QED BY <2>1 DEF MarksAreTold
  <1>21. JournalOK'
    BY <1>18, <1>19, <1>20 DEF JournalOK
  <1>22. Touched
    BY <1>4 DEF Touched
  <1> QED BY <1>9, <1>15, <1>21, <1>22, JournalFrame

LEMMA RepairKeeps ==
  ASSUME ConsoleInv, NEW t \in Tuples, NEW n \in DOMAIN muts[t], NEW instant_ \in Instants,
         DriftRepaired(t, n, instant_)
  PROVE  ConsoleInv'
  <1> DEFINE e == Event("drift_repaired", t, n, instant_)
             row == [rels[t] EXCEPT !.sync = "confirmed", !.updated = instant_]
  <1>1. ConsoleTyped /\ JournalOK
    BY DEF ConsoleInv
  <1>2. /\ muts[t][n].status = "confirmed" /\ muts' = muts /\ audit' = Recorded(e)
        /\ IF IsLatest(t, n) THEN Stamped(t, row) ELSE UNCHANGED <<rels, walk>>
    BY DEF DriftRepaired
  <1>3. n \in Nat /\ instant_ \in Nat /\ rels[t] \in RelationshipRows
    BY <1>1, ConsoleBounds DEF ConsoleTyped, Instants
  <1>4. /\ row \in RelationshipRows /\ row.revision = rels[t].revision /\ row.sync = "confirmed"
        /\ e \in AuditRows /\ e.tuple = t /\ e.revision = n /\ e.type = "drift_repaired"
    BY <1>3 DEF RelationshipRows, SyncStatuses, Event, AuditRows, EventTypes
  <1> HIDE DEF e, row
  <1>5. Grown
    BY <1>1, <1>2 DEF Grown, ConsoleTyped
  <1>6. Fits(e)
    <2>1. e.revision \in DOMAIN muts'[e.tuple] /\ e.type \notin Leading /\ e.type \notin Endings
      BY <1>2, <1>4 DEF Leading, Endings
    <2>2. ASSUME NEW m \in DOMAIN audit, audit[m].tuple = e.tuple, audit[m].revision = e.revision,
                 audit[m].type \in Endings
          PROVE audit[m].type = "change_confirmed"
      <3>1. EventOf(muts[t][n].status) = audit[m].type
        BY <1>1, <1>4, <2>2 DEF JournalOK, EventsAreTrue, EndsAsTold
      <3> QED BY <1>2, <3>1, EventOfIs
    <2> QED BY <1>4, <2>1, <2>2 DEF Fits
  <1>7. Appended /\ EventsAreTrue' /\ AuditTellsOneStory'
    BY <1>1, <1>2, <1>4, <1>5, <1>6, RecordedOnce
  <1>8. RowsFollow'
    <2>1. ASSUME NEW u \in Tuples
          PROVE  /\ rels'[u].revision = Len(muts'[u])
                 /\ rels'[u].revision > 0 => rels'[u].sync = muts'[u][rels'[u].revision].status
      <3>1. /\ rels[u].revision = Len(muts[u])
            /\ rels[u].revision > 0 => rels[u].sync = muts[u][rels[u].revision].status
        BY <1>1 DEF JournalOK, RowsFollow
      <3>2. CASE IsLatest(t, n)
        <4>1. rels'[t] = row /\ \A x \in Tuples : x # t => rels'[x] = rels[x]
          BY <1>1, <1>2, <3>2 DEF Stamped, ConsoleTyped
        <4>2. CASE u = t
          BY <1>2, <1>4, <3>1, <3>2, <4>1, <4>2 DEF IsLatest
        <4>3. CASE u # t
          BY <1>2, <3>1, <4>1, <4>3
        <4> QED BY <4>2, <4>3
      <3>3. CASE ~ IsLatest(t, n)
        BY <1>2, <3>1, <3>3
      <3> QED BY <3>2, <3>3
    <2> QED BY <2>1 DEF RowsFollow
  <1>9. MarksAreTold'
    <2>1. ASSUME NEW u \in Tuples, NEW k \in DOMAIN muts[u],
                 muts[u][k].status \in {"applying", "confirmed", "failed"}
          PROVE  \E m \in DOMAIN audit' :
                    audit'[m] = Event(EventOf(muts[u][k].status), u, k, muts[u][k].attempts)
      <3>1. PICK m \in DOMAIN audit :
                    audit[m] = Event(EventOf(muts[u][k].status), u, k, muts[u][k].attempts)
        BY <1>1, <2>1 DEF JournalOK, MarksAreTold
      <3>2. m \in DOMAIN audit' /\ audit'[m] = audit[m]
        BY <1>7 DEF Appended
      <3> QED BY <3>1, <3>2
    <2> QED BY <1>2, <2>1 DEF MarksAreTold
  <1>10. JournalOK'
    BY <1>7, <1>8, <1>9 DEF JournalOK
  <1>11. Touched
    BY <1>2, <1>4 DEF Touched
  <1> QED BY <1>5, <1>7, <1>10, <1>11, JournalFrame

LEMMA ConsoleKeeps == ASSUME ConsoleInv, ConsoleNext PROVE ConsoleInv'
  <1>1. ASSUME NEW response \in Responses, NEW filter \in {SyncStatuses, {"prepared"}},
               ListRelationships(filter, response)
        PROVE ConsoleInv'
    <2>1. filter \in SUBSET SyncStatuses
      BY DEF SyncStatuses
    <2> QED BY <1>1, <2>1, ListRelationshipsKeeps
  <1>2. ASSUME NEW response \in Responses, NEW filter \in {EventTypes, {"change_requested"}},
               ListAudit(filter, response)
        PROVE ConsoleInv'
    <2>1. filter \in SUBSET EventTypes
      BY DEF EventTypes
    <2> QED BY <1>2, <2>1, ListAuditKeeps
  <1>3. ASSUME Journal PROVE ConsoleInv'
    BY <1>3, SupersedeKeeps, RequestedKeeps, MarkKeeps, RepairKeeps DEF Journal
  <1> QED BY <1>1, <1>2, <1>3, ContinueKeeps, ReadRowKeeps, ReadMutationsKeeps DEF ConsoleNext

LEMMA ConsoleHolds == ASSUME ConsoleInv PROVE ConsoleShowsAll /\ AuditTellsOneStory /\ DetailIsRecent
  <1>0. AuditTellsOneStory
    BY DEF ConsoleInv, JournalOK
  <1>1. walk \in Walks
    BY DEF ConsoleInv, ConsoleTyped
  <1>2. CASE walk.of \in Lists
    <2>1. Once(walk)
      BY <1>2 DEF ConsoleInv, Listed, Going, Ended
    <2>2. walk.page = "end" => \A x \in walk.steady : InSome(walk.shown, x)
      BY <1>2 DEF ConsoleInv, Listed, Ended
    <2>3. walk.of = "audit" =>
            \A i, j \in DOMAIN walk.shown : i < j => \A m \in walk.shown[i], n \in walk.shown[j] : m > n
      BY DEF ConsoleInv, AuditOK, Descending
    <2> QED BY <1>0, <1>2, <2>1, <2>2, <2>3 DEF ConsoleShowsAll, DetailIsRecent, Once, InSome, Lists
  <1>3. CASE walk.of = "nothing"
    BY <1>0, <1>3, NoWalkOK DEF ConsoleInv, Known, ConsoleShowsAll, DetailIsRecent
  <1>4. CASE walk.of = "detail"
    <2>1. CASE walk.page = "more"
      BY <1>0, <1>4, <2>1 DEF ConsoleInv, Known, ConsoleShowsAll, DetailIsRecent
    <2>2. CASE walk.page = "end"
      <3>1. PICK S \in SUBSET Nat : walk.shown = <<S>> /\ \E n \in S : n >= walk.row.revision
        BY <1>4, <2>2 DEF ConsoleInv, Known
      <3>2. /\ walk.steady = {}
            /\ walk.row.sync \notin OpenStatuses /\ walk.told # "nothing" => walk.told = walk.row.sync
        BY <1>4, <2>2 DEF ConsoleInv, Known
      <3>3. DOMAIN walk.shown = {1} /\ walk.shown[1] = S
        BY <3>1
      <3> QED BY <1>0, <1>4, <3>1, <3>2, <3>3 DEF ConsoleShowsAll, DetailIsRecent
    <2> QED BY <1>1, <2>1, <2>2 DEF Walks
  <1> QED BY <1>1, <1>2, <1>3, <1>4 DEF Walks, Lists

-----------------------------------------------------------------------------
(* Access tokens.                                                           *)
Tokens == [of : Secrets \cup {Unset}, issued : Int, exp : Int, ends : Int]
AskPlaces == {"new", "wait", "send", "done"}
Asking == [pc : AskPlaces, provider : Secrets \cup {Unset}, since : Nat, waited : BOOLEAN,
           token : Tokens, answer : {"none", "allow", "deny", "error"}]

FgaTyped ==
    /\ secret \in Secrets \cup {Unset} /\ instant \in Nat
    /\ cached \in [Secrets -> Tokens] /\ inflight \in [Secrets -> Int] /\ ask \in [Askers -> Asking]

(* A cached token is of its secret and lives as long as it is believed to.  *)
CacheOK == \A s \in Secrets : cached[s].of \in {s, Unset} /\ cached[s].exp =< cached[s].ends
AskOK(a) ==
    /\ ask[a].pc = "wait" => /\ ask[a].provider \in Secrets /\ inflight[ask[a].provider] # None
                             /\ ask[a].waited
    /\ ask[a].token # NoToken =>
         /\ ask[a].token.of = ask[a].provider
         /\ ask[a].waited \/ ask[a].token.ends - Margin > ask[a].since
FgaInv == FgaTyped /\ CacheOK /\ \A a \in Askers : AskOK(a)

LEMMA FgaConstants == Margin \in Nat /\ Guess \in Nat /\ Lifetimes \subseteq Nat /\ Unset \notin Secrets
  BY FgaBounds

LEMMA NoTokenType == NoToken \in Tokens /\ NoToken.of = Unset /\ NoToken.exp = 0 /\ NoToken.ends = 0
                     /\ NewAsk \in Asking /\ NewAsk.token = NoToken /\ NewAsk.pc = "new"
  <1>1. NoToken \in Tokens /\ NoToken.of = Unset /\ NoToken.exp = 0 /\ NoToken.ends = 0
    BY DEF NoToken, Tokens
  <1>2. NewAsk.token = NoToken /\ NewAsk.pc = "new"
    BY DEF NewAsk
  <1> HIDE DEF NoToken
  <1>3. NewAsk \in Asking
    BY <1>1 DEF NewAsk, Asking, AskPlaces
  <1> QED BY <1>1, <1>2, <1>3

LEMMA FgaInitial == FgaInit => FgaInv
  <1> SUFFICES ASSUME FgaInit PROVE FgaInv
    OBVIOUS
  <1>1. FgaTyped
    BY NoTokenType DEF FgaInit, FgaTyped, None
  <1>2. CacheOK
    BY NoTokenType DEF FgaInit, CacheOK
  <1>3. \A a \in Askers : AskOK(a)
    BY NoTokenType DEF FgaInit, AskOK
  <1> QED BY <1>1, <1>2, <1>3 DEF FgaInv

(* A step that moves one asker.                                             *)
LEMMA OneAsks ==
  ASSUME FgaInv, NEW a \in Askers, NEW next \in Asking, ask' = [ask EXCEPT ![a] = next],
         UNCHANGED <<secret, cached, instant>>, inflight' \in [Secrets -> Int],
         \A s \in Secrets : inflight[s] # None => inflight'[s] = inflight[s],
         next.pc = "wait" => next.provider \in Secrets /\ inflight'[next.provider] # None /\ next.waited,
         next.token # NoToken => /\ next.token.of = next.provider
                                 /\ next.waited \/ next.token.ends - Margin > next.since
  PROVE  FgaInv'
  <1>1. ask \in [Askers -> Asking] /\ ask' \in [Askers -> Asking]
        /\ ask'[a] = next /\ \A b \in Askers : b # a => ask'[b] = ask[b]
    BY DEF FgaInv, FgaTyped
  <1>2. FgaTyped'
    BY <1>1 DEF FgaInv, FgaTyped
  <1>3. CacheOK'
    BY DEF FgaInv, CacheOK
  <1>4. ASSUME NEW b \in Askers PROVE AskOK(b)'
    <2>1. CASE b = a
      BY <1>1, <2>1 DEF AskOK
    <2>2. CASE b # a
      BY <1>1, <2>2 DEF FgaInv, AskOK
    <2> QED BY <2>1, <2>2
  <1> QED BY <1>2, <1>3, <1>4 DEF FgaInv

LEMMA NotConfiguredKeeps == ASSUME FgaInv, NEW a \in Askers, NotConfigured(a) PROVE FgaInv'
  <1> DEFINE next == [[ask[a] EXCEPT !.pc = "done"] EXCEPT !.answer = "error"]
  <1>1. ask[a] \in Asking /\ ask \in [Askers -> Asking] /\ inflight \in [Secrets -> Int]
    BY DEF FgaInv, FgaTyped
  <1>2. ask' = [ask EXCEPT ![a] = next] /\ UNCHANGED <<secret, cached, inflight, instant>>
    BY <1>1 DEF NotConfigured
  <1>3. next \in Asking /\ next.pc = "done" /\ next.token = ask[a].token /\ next.provider = ask[a].provider
        /\ next.waited = ask[a].waited /\ next.since = ask[a].since
    BY <1>1 DEF Asking, AskPlaces
  <1> HIDE DEF next
  <1>4. AskOK(a)
    BY DEF FgaInv
  <1> QED BY <1>1, <1>2, <1>3, <1>4, OneAsks DEF AskOK

LEMMA CheckKeeps ==
  ASSUME FgaInv, NEW a \in Askers, NEW response \in Responses, Check(a, response) PROVE FgaInv'
  <1> DEFINE next == [[ask[a] EXCEPT !.pc = "done"] EXCEPT !.answer = CheckAnswer(response)]
  <1>1. ask[a] \in Asking /\ ask \in [Askers -> Asking] /\ inflight \in [Secrets -> Int]
    BY DEF FgaInv, FgaTyped
  <1>2. ask' = [ask EXCEPT ![a] = next] /\ UNCHANGED <<secret, cached, inflight, instant>>
    BY <1>1 DEF Check
  <1>3. CheckAnswer(response) \in {"none", "allow", "deny", "error"}
    BY DEF CheckAnswer
  <1>4. next \in Asking /\ next.pc = "done" /\ next.token = ask[a].token /\ next.provider = ask[a].provider
        /\ next.waited = ask[a].waited /\ next.since = ask[a].since
    BY <1>1, <1>3 DEF Asking, AskPlaces
  <1> HIDE DEF next
  <1>5. AskOK(a)
    BY DEF FgaInv
  <1> QED BY <1>1, <1>2, <1>4, <1>5, OneAsks DEF AskOK

LEMMA GetAccessTokenKeeps == ASSUME FgaInv, NEW a \in Askers, GetAccessToken(a) PROVE FgaInv'
  <1> DEFINE mine == [NewAsk EXCEPT !.provider = secret, !.since = instant]
             ready == [mine EXCEPT !.pc = "send", !.token = cached[secret]]
             waiting == [mine EXCEPT !.pc = "wait", !.waited = TRUE]
  <1>1. secret \in Secrets /\ instant \in Nat /\ cached[secret] \in Tokens /\ inflight \in [Secrets -> Int]
    BY DEF FgaInv, FgaTyped, GetAccessToken
  <1>2. UNCHANGED <<secret, cached, instant>>
    BY DEF GetAccessToken
  <1>3. mine \in Asking /\ mine.provider = secret /\ mine.since = instant /\ mine.token = NoToken
    BY <1>1, NoTokenType DEF Asking
  <1>4. /\ ready \in Asking /\ ready.provider = secret /\ ready.since = instant
        /\ ready.token = cached[secret] /\ ready.pc = "send"
    BY <1>1, <1>3 DEF Asking, AskPlaces
  <1>5. /\ waiting \in Asking /\ waiting.provider = secret /\ waiting.token = NoToken
        /\ waiting.pc = "wait" /\ waiting.waited
    BY <1>3 DEF Asking, AskPlaces
  <1>6. CASE Reusable(cached[secret])
    <2>1. ask' = [ask EXCEPT ![a] = ready] /\ UNCHANGED inflight
      BY <1>6 DEF GetAccessToken
    <2>2. cached[secret].of = secret /\ cached[secret].exp =< cached[secret].ends
          /\ cached[secret].exp - Margin > instant
      BY <1>1, <1>6 DEF FgaInv, CacheOK, Reusable
    <2>3. cached[secret].ends - Margin > instant
      BY <1>1, <2>2, FgaConstants DEF Tokens
    <2> HIDE DEF ready
    <2> QED BY <1>1, <1>2, <1>4, <2>1, <2>2, <2>3, OneAsks
  <1>7. CASE ~ Reusable(cached[secret])
    <2>1. /\ ask' = [ask EXCEPT ![a] = waiting]
          /\ inflight' = [inflight EXCEPT ![secret] = IF @ = None THEN instant ELSE @]
      BY <1>7 DEF GetAccessToken
    <2>2. /\ inflight' \in [Secrets -> Int] /\ inflight'[secret] # None
          /\ \A s \in Secrets : inflight[s] # None => inflight'[s] = inflight[s]
      BY <1>1, <2>1 DEF None
    <2> HIDE DEF waiting
    <2> QED BY <1>2, <1>1, <1>5, <2>1, <2>2, OneAsks
  <1> QED BY <1>6, <1>7

(* Whoever waited for an exchange that is over has its outcome.             *)
LEMMA SettledAsks ==
  ASSUME FgaInv, NEW s \in Secrets, NEW pc \in {"send", "done"}, NEW token \in Tokens,
         NEW answer \in {"none", "error"}, Settled(s, pc, token, answer),
         token = NoToken \/ token.of = s
  PROVE  /\ ask' \in [Askers -> Asking] /\ inflight' \in [Secrets -> Int]
         /\ \A a \in Askers : AskOK(a)'
  <1>1. ask \in [Askers -> Asking] /\ inflight \in [Secrets -> Int] /\ \A a \in Askers : AskOK(a)
    BY DEF FgaInv, FgaTyped
  <1>2. inflight' \in [Secrets -> Int] /\ \A r \in Secrets : r # s => inflight'[r] = inflight[r]
    <2>1. inflight' = [inflight EXCEPT ![s] = None]
      BY DEF Settled
    <2>2. None \in Int
      BY DEF None
    <2> QED BY <1>1, <2>1, <2>2
  <1>3. ASSUME NEW a \in Askers PROVE ask'[a] \in Asking /\ AskOK(a)'
    <2>1. CASE ask[a].pc = "wait" /\ ask[a].provider = s
      <3> DEFINE next == [ask[a] EXCEPT !.pc = pc, !.token = token, !.answer = answer]
      <3>1. ask'[a] = next
        BY <2>1 DEF Settled
      <3>2. next \in Asking /\ next.pc = pc /\ next.token = token /\ next.provider = s /\ next.waited
        BY <1>1, <2>1 DEF Asking, AskPlaces, AskOK
      <3> HIDE DEF next
      <3> QED BY <3>1, <3>2 DEF AskOK
    <2>2. CASE ~ (ask[a].pc = "wait" /\ ask[a].provider = s)
      <3>1. ask'[a] = ask[a]
        BY <2>2 DEF Settled
      <3>2. ask[a] \in Asking /\ AskOK(a)
        BY <1>1
      <3> QED BY <1>2, <2>2, <3>1, <3>2 DEF AskOK
    <2> QED BY <2>1, <2>2
  <1>4. ask' \in [Askers -> Asking]
    BY <1>3 DEF Settled
  <1> QED BY <1>2, <1>3, <1>4

LEMMA ExchangedKeeps ==
  ASSUME FgaInv, NEW s \in Secrets, NEW form \in {"jwt", "expires_in", "opaque"}, NEW l \in Lifetimes,
         Exchanged(s, form, l)
  PROVE  FgaInv'
  <1>1. /\ l \in Nat /\ inflight[s] \in Int /\ instant \in Nat /\ cached \in [Secrets -> Tokens]
        /\ UNCHANGED <<secret, instant>> /\ (form = "opaque" => l >= Guess) /\ Guess \in Nat
    BY FgaConstants DEF FgaInv, FgaTyped, Exchanged, Stated
  <1> DEFINE Token(issued) == [of |-> s, issued |-> issued, ends |-> issued + l,
                               exp |-> Expiry(form, inflight[s], issued + l, l)]
  <1>2. PICK issued \in inflight[s]..instant :
              cached' = [cached EXCEPT ![s] = Token(issued)] /\ Settled(s, "send", Token(issued), "none")
    BY DEF Exchanged
  <1>3. issued \in Int /\ issued >= inflight[s]
    BY <1>1
  <1>4. Expiry(form, inflight[s], issued + l, l) \in Int
        /\ Expiry(form, inflight[s], issued + l, l) =< issued + l
    <2>1. CASE form = "jwt"
      BY <1>1, <1>3, <2>1 DEF Expiry
    <2>2. CASE form = "expires_in"
      BY <1>1, <1>3, <2>2 DEF Expiry
    <2>3. CASE form = "opaque"
      BY <1>1, <1>3, <2>3 DEF Expiry
    <2> QED BY <2>1, <2>2, <2>3
  <1>5. /\ Token(issued) \in Tokens /\ Token(issued).of = s
        /\ Token(issued).exp =< Token(issued).ends
    BY <1>1, <1>3, <1>4 DEF Tokens
  <1> HIDE DEF Token
  <1>6. /\ ask' \in [Askers -> Asking] /\ inflight' \in [Secrets -> Int]
        /\ \A a \in Askers : AskOK(a)'
    BY <1>2, <1>5, SettledAsks
  <1>7. cached' \in [Secrets -> Tokens] /\ CacheOK'
    BY <1>1, <1>2, <1>5 DEF FgaInv, CacheOK
  <1>8. FgaTyped'
    BY <1>1, <1>6, <1>7 DEF FgaInv, FgaTyped
  <1> QED BY <1>6, <1>7, <1>8 DEF FgaInv

LEMMA ExchangeFailsKeeps == ASSUME FgaInv, NEW s \in Secrets, ExchangeFails(s) PROVE FgaInv'
  <1>1. Settled(s, "done", NoToken, "error") /\ UNCHANGED <<secret, cached, instant>>
    BY DEF ExchangeFails
  <1>2. /\ ask' \in [Askers -> Asking] /\ inflight' \in [Secrets -> Int]
        /\ \A a \in Askers : AskOK(a)'
    BY <1>1, NoTokenType, SettledAsks
  <1>3. FgaTyped'
    BY <1>1, <1>2 DEF FgaInv, FgaTyped
  <1>4. CacheOK'
    BY <1>1 DEF FgaInv, CacheOK
  <1> QED BY <1>2, <1>3, <1>4 DEF FgaInv

LEMMA FgaKeeps == ASSUME FgaInv, FgaNext PROVE FgaInv'
  <1>1. ASSUME NEW s \in Secrets, Rotate(s) PROVE FgaInv'
    BY <1>1 DEF Rotate, FgaInv, FgaTyped, CacheOK, AskOK
  <1>2. ASSUME Passes PROVE FgaInv'
    <2>1. instant' \in Nat
      BY <1>2 DEF Passes, FgaInv, FgaTyped
    <2> QED BY <1>2, <2>1 DEF Passes, FgaInv, FgaTyped, CacheOK, AskOK
  <1> QED BY <1>1, <1>2, NotConfiguredKeeps, GetAccessTokenKeeps, CheckKeeps, ExchangedKeeps,
             ExchangeFailsKeeps DEF FgaNext

-----------------------------------------------------------------------------
(* What is let through, and what errors never allow.                        *)
LEMMA SessionsFailClosed ==
  ASSUME NEW viewer \in Responses, NEW editor \in Responses
  PROVE  /\ Session(viewer, editor).viewer => viewer = "allowed"
         /\ Session(viewer, editor).editor => editor = "allowed"
  <1>1. \A response \in Responses : CheckAnswer(response) = "allow" => response = "allowed"
    BY DEF Responses, CheckAnswer, Body
  <1> QED BY <1>1 DEF Session, Authorized, Unavailable

LEMMA OnlyPlansAreAllowed ==
  ASSUME NEW evaluation \in Evaluations,
         Explain({}, {}, evaluation).effective \in {"allowed_no_approval", "allowed_requires_approval"}
  PROVE  evaluation.type = "planned"
  <1>1. CASE evaluation.type = "error"
    <2>1. Explain({}, {}, evaluation).effective = "evaluation_error"
      BY <1>1 DEF Explain, ExplainError
    <2> QED BY <2>1
  <1>2. CASE evaluation.type = "authorization_denied"
    <2>1. Explain({}, {}, evaluation).effective = "deny"
      BY <1>2 DEF Explain
    <2> QED BY <2>1
  <1>3. evaluation.type \in {"error", "authorization_denied", "planned"}
    BY DEF Evaluations
  <1> QED BY <1>1, <1>2, <1>3

LEMMA ErrorsNeverAllow == FailsClosed
  <1>1. ASSUME NEW entries \in SUBSET [kind : {"user", "userset"}, id : {"ann", "team"}],
               ListUsers(entries, TRUE).complete
        PROVE entries \subseteq [kind : {"user"}, id : {"ann", "team"}]
    <2>1. \A e \in entries : e.kind = "user"
      BY <1>1 DEF ListUsers
    <2> QED BY <2>1
  <1> QED BY <1>1, SessionsFailClosed, OnlyPlansAreAllowed DEF FailsClosed

LEMMA UpdatesGoverned == UpdatesAreGoverned
  <1> SUFFICES ASSUME NEW catalog \in SUBSET CatalogEntries, NEW input \in UpdateInputs,
                      ValidateRelationshipUpdate(input, catalog) = {}
               PROVE  /\ Managed(catalog, input.object.type, input.relation)
                      /\ input.user = [type |-> "user", id |-> "stable"] /\ input.object.id = "stable"
    BY DEF UpdatesAreGoverned
  <1>1. /\ {"invalid_tuple" : x \in {x \in {TRUE} : ~WellFormed(input.relation)}} = {}
        /\ UserIssues(input.user) = {} /\ ObjectIssues(input.object) = {}
        /\ CatalogIssues(catalog, input.object, input.relation) = {}
    BY DEF ValidateRelationshipUpdate
  <1>2. WellFormed(input.relation)
    BY <1>1
  <1>3. input.user.type = "user" /\ input.user.id \notin {"spaced", "email"}
    BY <1>1 DEF UserIssues
  <1>4. input.object.type # "untyped" /\ input.object.id \notin {"spaced", "scoped"}
    BY <1>1 DEF ObjectIssues
  <1>5. input.object.type # RelationAdmin /\ <<input.object.type, input.relation>> \in catalog
    BY <1>1, <1>2, <1>4 DEF CatalogIssues
  <1>6. input.user \in Users /\ input.object \in Objects
    BY DEF UpdateInputs
  <1>7. input.user = [type |-> "user", id |-> "stable"]
    BY <1>3, <1>6 DEF Users
  <1>8. input.object.id = "stable"
    BY <1>4, <1>6 DEF Objects
  <1> QED BY <1>5, <1>7, <1>8 DEF Managed

-----------------------------------------------------------------------------
(* Names of organizations and objects.                                      *)
Symbols == {"a", "/", "%", "2F"}
Codings == {"a", "/", "%", "2F", "25"}
Escaped(c) == CASE c = "/" -> <<"%", "2F">> [] c = "%" -> <<"%", "25">> [] OTHER -> <<c>>
Then(c, x) == Escaped(c) \o x
Unrolled(text) == CHOOSE f : f = [n \in 0..Len(text) |-> IF n = 0 THEN <<>> ELSE f[n - 1] \o Escaped(text[n])]

LEMMA EncodedUnrolls == ASSUME NEW text PROVE Encoded(text) = Unrolled(text)[Len(text)]
  BY DEF Encoded, Unrolled, Escaped

LEMMA EscapedType ==
  \A c \in Symbols : /\ Escaped(c) \in Seq(Codings) /\ Len(Escaped(c)) \in {1, 2}
                     /\ \A i \in 1..Len(Escaped(c)) : Escaped(c)[i] # "/"
  <1> SUFFICES ASSUME NEW c \in Symbols
               PROVE  /\ Escaped(c) \in Seq(Codings) /\ Len(Escaped(c)) \in {1, 2}
                      /\ \A i \in 1..Len(Escaped(c)) : Escaped(c)[i] # "/"
    OBVIOUS
  <1>1. CASE c = "/"
    <2>1. Escaped(c) = <<"%", "2F">>
      BY <1>1 DEF Escaped
    <2> QED BY <2>1 DEF Codings
  <1>2. CASE c = "%"
    <2>1. Escaped(c) = <<"%", "25">>
      BY <1>2 DEF Escaped
    <2> QED BY <2>1 DEF Codings
  <1>3. CASE c \in {"a", "2F"}
    <2>1. Escaped(c) = <<c>>
      BY <1>3 DEF Escaped
    <2>2. c \in Codings /\ c # "/"
      BY <1>3 DEF Codings
    <2> QED BY <2>1, <2>2
  <1> QED BY <1>1, <1>2, <1>3 DEF Symbols

LEMMA UnrolledStep ==
  ASSUME NEW text \in Seq(Symbols), Len(text) =< 2
  PROVE  Unrolled(text) = [n \in 0..Len(text) |-> IF n = 0 THEN <<>> ELSE Unrolled(text)[n - 1] \o Escaped(text[n])]
  <1> DEFINE one == <<>> \o Escaped(text[1])
             g == [n \in 0..Len(text) |-> IF n = 0 THEN <<>> ELSE IF n = 1 THEN one ELSE one \o Escaped(text[2])]
  <1>1. Len(text) \in Nat
    OBVIOUS
  <1>2. ASSUME NEW n \in 0..Len(text)
        PROVE g[n] = IF n = 0 THEN <<>> ELSE g[n - 1] \o Escaped(text[n])
    <2> HIDE DEF one
    <2>1. CASE n = 0
      BY <2>1
    <2>2. CASE n = 1
      <3>1. g[0] = <<>> /\ g[1] = one
        BY <1>1, <2>2
      <3>2. one = g[0] \o Escaped(text[1])
        BY <3>1 DEF one
      <3>3. n - 1 = 0 /\ n # 0
        BY <2>2
      <3> HIDE DEF g
      <3> QED BY <2>2, <3>1, <3>2, <3>3
    <2>3. CASE n = 2
      <3>1. g[1] = one /\ g[2] = one \o Escaped(text[2])
        BY <1>1, <2>3
      <3>2. n - 1 = 1 /\ n # 0
        BY <2>3
      <3> HIDE DEF g
      <3> QED BY <2>3, <3>1, <3>2
    <2> QED BY <1>1, <2>1, <2>2, <2>3
  <1>3. g = [n \in 0..Len(text) |-> IF n = 0 THEN <<>> ELSE g[n - 1] \o Escaped(text[n])]
    BY <1>2
  <1> HIDE DEF g
  <1> QED BY <1>3 DEF Unrolled

(* Sequences that agree at every place are one.                             *)
LEMMA SameSequence ==
  ASSUME NEW S, NEW x \in Seq(S), NEW y \in Seq(S), Len(x) = Len(y), \A i \in 1..Len(x) : x[i] = y[i]
  PROVE  x = y
  OBVIOUS

LEMMA JoinedLength ==
  ASSUME NEW S, NEW x \in Seq(S), NEW y \in Seq(S)
  PROVE  Len(x \o y) = Len(x) + Len(y) /\ Len(x) \in Nat /\ Len(y) \in Nat
  OBVIOUS

LEMMA SameRest ==
  ASSUME NEW S, NEW p \in Seq(S), NEW q \in Seq(S), NEW x \in Seq(S), NEW y \in Seq(S),
         p \o x = q \o y, Len(p) = Len(q)
  PROVE  p = q /\ x = y
  <1>1. Len(x) = Len(y) /\ Len(p) \in Nat /\ Len(q) \in Nat /\ Len(x) \in Nat /\ Len(y) \in Nat
    <2>1. Len(p \o x) = Len(p) + Len(x) /\ Len(q \o y) = Len(q) + Len(y)
          /\ Len(p) \in Nat /\ Len(q) \in Nat /\ Len(x) \in Nat /\ Len(y) \in Nat
      BY JoinedLength
    <2>2. Len(p \o x) = Len(q \o y)
      OBVIOUS
    <2> QED BY <2>1, <2>2
  <1>2. \A i \in 1..Len(p) : p[i] = q[i]
    <2>1. \A i \in 1..Len(p) : (p \o x)[i] = p[i]
      OBVIOUS
    <2>2. \A i \in 1..Len(q) : (q \o y)[i] = q[i]
      OBVIOUS
    <2> QED BY <2>1, <2>2
  <1>3. \A i \in 1..Len(x) : x[i] = y[i]
    <2>1. \A i \in 1..Len(x) : (p \o x)[Len(p) + i] = x[i]
      OBVIOUS
    <2>2. \A i \in 1..Len(y) : (q \o y)[Len(q) + i] = y[i]
      OBVIOUS
    <2> QED BY <1>1, <2>1, <2>2
  <1>4. p = q
    BY <1>2, SameSequence
  <1>5. x = y
    BY <1>1, <1>3, SameSequence
  <1> QED BY <1>4, <1>5

(* What an escaped text begins with tells its first symbol.                 *)
LEMMA EscapedForms ==
  ASSUME NEW c \in Symbols
  PROVE  /\ c = "/" => Escaped(c)[1] = "%" /\ Escaped(c)[2] = "2F" /\ Len(Escaped(c)) = 2
         /\ c = "%" => Escaped(c)[1] = "%" /\ Escaped(c)[2] = "25" /\ Len(Escaped(c)) = 2
         /\ c \in {"a", "2F"} => Escaped(c)[1] = c
  <1>1. CASE c = "/"
    <2>1. Escaped(c) = <<"%", "2F">>
      BY <1>1 DEF Escaped
    <2> QED BY <1>1, <2>1
  <1>2. CASE c = "%"
    <2>1. Escaped(c) = <<"%", "25">>
      BY <1>2 DEF Escaped
    <2> QED BY <1>2, <2>1
  <1>3. CASE c \in {"a", "2F"}
    <2>1. Escaped(c) = <<c>>
      BY <1>3 DEF Escaped
    <2> QED BY <1>3, <2>1
  <1> QED BY <1>1, <1>2, <1>3 DEF Symbols

LEMMA ThenType ==
  ASSUME NEW c \in Symbols, NEW x \in Seq(Codings)
  PROVE  Then(c, x) \in Seq(Codings) /\ Then(c, x) # <<>>
  <1> DEFINE p == Escaped(c)
  <1>1. p \in Seq(Codings) /\ Len(p) \in {1, 2}
    BY EscapedType
  <1> HIDE DEF p
  <1>2. p \o x \in Seq(Codings) /\ Len(p \o x) = Len(p) + Len(x) /\ Len(x) \in Nat
    BY <1>1
  <1>3. Len(<<>>) = 0
    OBVIOUS
  <1>4. ASSUME p \o x = <<>> PROVE FALSE
    <2>1. Len(p \o x) = 0
      BY <1>3, <1>4
    <2> QED BY <1>1, <1>2, <2>1
  <1> QED BY <1>2, <1>4 DEF Then, p

LEMMA FirstDecodes ==
  ASSUME NEW c \in Symbols, NEW d \in Symbols, NEW x \in Seq(Codings), NEW y \in Seq(Codings),
         Then(c, x) = Then(d, y)
  PROVE  c = d /\ x = y
  <1> DEFINE p == Escaped(c)
             q == Escaped(d)
  <1>1. /\ p \in Seq(Codings) /\ q \in Seq(Codings)
        /\ Len(p) \in {1, 2} /\ Len(q) \in {1, 2}
    BY EscapedType
  <1>2. p \o x = q \o y
    BY DEF Then
  <1>3. c = d => p = q
    OBVIOUS
  <1>4. /\ c = "/" => p[1] = "%" /\ p[2] = "2F" /\ Len(p) = 2
        /\ c = "%" => p[1] = "%" /\ p[2] = "25" /\ Len(p) = 2
        /\ c \in {"a", "2F"} => p[1] = c
    BY EscapedForms
  <1>5. /\ d = "/" => q[1] = "%" /\ q[2] = "2F" /\ Len(q) = 2
        /\ d = "%" => q[1] = "%" /\ q[2] = "25" /\ Len(q) = 2
        /\ d \in {"a", "2F"} => q[1] = d
    BY EscapedForms
  <1> HIDE DEF p, q
  <1>6. \A i \in 1..Len(p) : (p \o x)[i] = p[i]
    BY <1>1
  <1>7. \A i \in 1..Len(q) : (q \o y)[i] = q[i]
    BY <1>1
  <1>8. p[1] = q[1] /\ (Len(p) = 2 /\ Len(q) = 2 => p[2] = q[2])
    <2>0. \A n \in {1, 2} : 1 \in 1..n /\ (n = 2 => 2 \in 1..n)
      OBVIOUS
    <2>1. 1 \in 1..Len(p) /\ 1 \in 1..Len(q) /\ (Len(p) = 2 => 2 \in 1..Len(p)) /\ (Len(q) = 2 => 2 \in 1..Len(q))
      BY <1>1, <2>0
    <2> QED BY <1>2, <1>6, <1>7, <2>1
  <1>9. c = d
    BY <1>4, <1>5, <1>8 DEF Symbols
  <1>10. x = y
    BY <1>1, <1>2, <1>3, <1>9, SameRest
  <1> QED BY <1>9, <1>10

LEMMA UnrolledIs ==
  ASSUME NEW text \in Seq(Symbols), Len(text) =< 2
  PROVE  /\ Unrolled(text)[0] = <<>>
         /\ Len(text) >= 1 => Unrolled(text)[1] = <<>> \o Escaped(text[1])
         /\ Len(text) >= 2 => Unrolled(text)[2] = Unrolled(text)[1] \o Escaped(text[2])
  <1> DEFINE f == Unrolled(text)
  <1>1. f = [n \in 0..Len(text) |-> IF n = 0 THEN <<>> ELSE f[n - 1] \o Escaped(text[n])]
    BY UnrolledStep
  <1> HIDE DEF f
  <1>2. Len(text) \in Nat
    OBVIOUS
  <1>3. f[0] = <<>>
    <2>1. 0 \in 0..Len(text)
      BY <1>2
    <2> QED BY <1>1, <2>1
  <1>4. ASSUME NEW n \in 0..Len(text), NEW k, n # 0, k = n - 1 PROVE f[n] = f[k] \o Escaped(text[n])
    BY <1>1, <1>4
  <1>5. ASSUME Len(text) >= 1 PROVE f[1] = <<>> \o Escaped(text[1])
    <2>1. 1 \in 0..Len(text) /\ 1 # 0 /\ 0 = 1 - 1
      BY <1>2, <1>5
    <2>2. f[1] = f[0] \o Escaped(text[1])
      BY <1>4, <2>1
    <2> QED BY <1>3, <2>2
  <1>6. ASSUME Len(text) >= 2 PROVE f[2] = f[1] \o Escaped(text[2])
    <2>1. 2 \in 0..Len(text) /\ 2 # 0 /\ 1 = 2 - 1
      BY <1>2, <1>6
    <2> QED BY <1>4, <2>1
  <1> QED BY <1>3, <1>5, <1>6 DEF f

LEMMA EncodedIs ==
  /\ Encoded(<<>>) = <<>>
  /\ \A c \in Symbols : Encoded(<<c>>) = Then(c, <<>>)
  /\ \A c, d \in Symbols : Encoded(<<c, d>>) = Then(c, Then(d, <<>>))
  <1>2. \A x \in Seq(Codings) : <<>> \o x = x /\ x \o <<>> = x
    OBVIOUS
  <1>3. Encoded(<<>>) = <<>>
    <2> DEFINE text == <<>>
    <2>1. text \in Seq(Symbols) /\ Len(text) = 0 /\ Len(text) =< 2
      OBVIOUS
    <2> HIDE DEF text
    <2>2. Unrolled(text)[0] = <<>>
      BY <2>1, UnrolledIs
    <2>3. Encoded(text) = <<>>
      BY <2>1, <2>2, EncodedUnrolls
    <2> QED BY <2>3 DEF text
  <1>4. ASSUME NEW c \in Symbols PROVE Encoded(<<c>>) = Then(c, <<>>)
    <2> DEFINE text == <<c>>
    <2>1. text \in Seq(Symbols) /\ Len(text) = 1 /\ text[1] = c /\ Len(text) =< 2 /\ Len(text) >= 1
      OBVIOUS
    <2> HIDE DEF text
    <2>2. Unrolled(text)[1] = <<>> \o Escaped(text[1])
      BY <2>1, UnrolledIs
    <2>3. Encoded(text) = <<>> \o Escaped(c)
      BY <2>1, <2>2, EncodedUnrolls
    <2>4. Encoded(text) = Escaped(c) \o <<>>
      BY <1>2, <2>3, EscapedType
    <2> QED BY <2>4 DEF text, Then
  <1>5. ASSUME NEW c \in Symbols, NEW d \in Symbols
        PROVE Encoded(<<c, d>>) = Then(c, Then(d, <<>>))
    <2> DEFINE text == <<c, d>>
    <2>1. text \in Seq(Symbols) /\ Len(text) = 2 /\ text[1] = c /\ text[2] = d
          /\ Len(text) =< 2 /\ Len(text) >= 1 /\ Len(text) >= 2
      OBVIOUS
    <2> HIDE DEF text
    <2>2. /\ Unrolled(text)[1] = <<>> \o Escaped(text[1])
          /\ Unrolled(text)[2] = Unrolled(text)[1] \o Escaped(text[2])
      BY <2>1, UnrolledIs
    <2>3. Encoded(text) = (<<>> \o Escaped(c)) \o Escaped(d)
      BY <2>1, <2>2, EncodedUnrolls
    <2>4. <<>> \o Escaped(c) = Escaped(c) /\ Escaped(d) \o <<>> = Escaped(d)
      BY <1>2, EscapedType
    <2>5. Encoded(text) = Escaped(c) \o (Escaped(d) \o <<>>)
      BY <2>3, <2>4
    <2> QED BY <2>5 DEF text, Then
  <1> QED BY <1>3, <1>4, <1>5

LEMMA EncodedType ==
  ASSUME NEW text \in Texts
  PROVE  Encoded(text) \in Seq(Codings) /\ \A i \in 1..Len(Encoded(text)) : Encoded(text)[i] # "/"
  <1> DEFINE Plain(s) == s \in Seq(Codings) /\ \A i \in 1..Len(s) : s[i] # "/"
  <1>1. Plain(<<>>)
    OBVIOUS
  <1>2. \A c \in Symbols : Plain(Escaped(c))
    BY EscapedType
  <1>3. ASSUME NEW p, NEW q, Plain(p), Plain(q) PROVE Plain(p \o q)
    <2>1. p \o q \in Seq(Codings) /\ Len(p \o q) = Len(p) + Len(q) /\ Len(p) \in Nat /\ Len(q) \in Nat
      BY <1>3
    <2>2. \A i \in 1..Len(p \o q) : (p \o q)[i] = IF i =< Len(p) THEN p[i] ELSE q[i - Len(p)]
      BY <1>3
    <2>3. ASSUME NEW i \in 1..Len(p \o q) PROVE (p \o q)[i] # "/"
      <3>1. CASE i =< Len(p)
        BY <1>3, <2>1, <2>2, <3>1
      <3>2. CASE ~ (i =< Len(p))
        <4>1. i - Len(p) \in 1..Len(q)
          BY <2>1, <3>2
        <4> QED BY <1>3, <2>2, <3>2, <4>1
      <3> QED BY <3>1, <3>2
    <2> QED BY <2>1, <2>3
  <1> HIDE DEF Plain
  <1>4. \A c, d \in Symbols : Plain(Then(c, Then(d, <<>>))) /\ Plain(Then(c, <<>>))
    BY <1>1, <1>2, <1>3 DEF Then
  <1>5. Plain(Encoded(text))
    <2>1. CASE text = <<>>
      BY <1>1, <2>1, EncodedIs
    <2>2. CASE text \in {<<c>> : c \in Symbols}
      BY <1>4, <2>2, EncodedIs
    <2>3. CASE text \in {<<c, d>> : c, d \in Symbols}
      <3>1. PICK c \in Symbols, d \in Symbols : text = <<c, d>>
        BY <2>3
      <3> QED BY <1>4, <3>1, EncodedIs
    <2> QED BY <2>1, <2>2, <2>3 DEF Texts, Symbols
  <1> QED BY <1>5 DEF Plain

LEMMA EncodedTells ==
  ASSUME NEW t \in Texts, NEW u \in Texts, Encoded(t) = Encoded(u) PROVE t = u
  <1> DEFINE nil == <<>>
  <1>1. ASSUME NEW v \in Texts
        PROVE \/ v = nil /\ Encoded(v) = nil
              \/ \E c \in Symbols : v = <<c>> /\ Encoded(v) = Then(c, nil)
              \/ \E c \in Symbols : \E d \in Symbols : v = <<c, d>> /\ Encoded(v) = Then(c, Then(d, nil))
    <2>1. v = <<>> \/ v \in {<<c>> : c \in Symbols} \/ v \in {<<c, d>> : c, d \in Symbols}
      BY DEF Texts, Symbols
    <2>2. CASE v = <<>>
      BY <2>2, EncodedIs
    <2>3. CASE v \in {<<c>> : c \in Symbols}
      BY <2>3, EncodedIs
    <2>4. CASE v \in {<<c, d>> : c, d \in Symbols}
      <3>1. PICK c \in Symbols, d \in Symbols : v = <<c, d>>
        BY <2>4
      <3> QED BY <3>1, EncodedIs
    <2> QED BY <2>1, <2>2, <2>3, <2>4
  <1>2. nil \in Seq(Codings)
    OBVIOUS
  <1>3. \A c \in Symbols : \A x \in Seq(Codings) : Then(c, x) \in Seq(Codings) /\ Then(c, x) # nil
    BY ThenType
  <1> HIDE DEF nil
  <1>4. \A c, d \in Symbols : \A x, y \in Seq(Codings) : Then(c, x) = Then(d, y) => c = d /\ x = y
    BY FirstDecodes
  <1>5. \A c, d \in Symbols : /\ Then(c, nil) \in Seq(Codings) /\ Then(c, nil) # nil
                             /\ Then(c, Then(d, nil)) # nil
    BY <1>2, <1>3
  <1>t. \/ t = nil /\ Encoded(t) = nil
        \/ \E c \in Symbols : t = <<c>> /\ Encoded(t) = Then(c, nil)
        \/ \E c \in Symbols : \E d \in Symbols : t = <<c, d>> /\ Encoded(t) = Then(c, Then(d, nil))
    BY <1>1
  <1>u. \/ u = nil /\ Encoded(u) = nil
        \/ \E c \in Symbols : u = <<c>> /\ Encoded(u) = Then(c, nil)
        \/ \E c \in Symbols : \E d \in Symbols : u = <<c, d>> /\ Encoded(u) = Then(c, Then(d, nil))
    BY <1>1
  <1>6. ASSUME t = nil, Encoded(t) = nil PROVE t = u
    <2>1. ASSUME NEW c \in Symbols, Encoded(u) = Then(c, nil) PROVE FALSE
      BY <1>5, <1>6, <2>1
    <2>2. ASSUME NEW c \in Symbols, NEW d \in Symbols, Encoded(u) = Then(c, Then(d, nil)) PROVE FALSE
      BY <1>5, <1>6, <2>2
    <2> QED BY <1>6, <1>u, <2>1, <2>2
  <1>7. ASSUME NEW c \in Symbols, t = <<c>>, Encoded(t) = Then(c, nil) PROVE t = u
    <2>1. ASSUME NEW d \in Symbols, u = <<d>>, Encoded(u) = Then(d, nil) PROVE t = u
      BY ZenonT(60), <1>2, <1>4, <1>7, <2>1
    <2>2. ASSUME NEW d \in Symbols, NEW e \in Symbols, u = <<d, e>>, Encoded(u) = Then(d, Then(e, nil))
          PROVE FALSE
      <3>1. Then(c, nil) = Then(d, Then(e, nil))
        BY <1>7, <2>2
      <3>2. nil = Then(e, nil)
        BY <1>2, <1>4, <1>5, <3>1
      <3> QED BY <1>5, <3>2
    <2>3. Encoded(u) # nil
      BY <1>5, <1>7
    <2> QED BY <1>u, <2>1, <2>2, <2>3
  <1>8. ASSUME NEW c \in Symbols, NEW b \in Symbols, t = <<c, b>>, Encoded(t) = Then(c, Then(b, nil))
        PROVE t = u
    <2>1. ASSUME NEW d \in Symbols, u = <<d>>, Encoded(u) = Then(d, nil) PROVE FALSE
      <3>1. Then(c, Then(b, nil)) = Then(d, nil)
        BY <1>8, <2>1
      <3>2. nil = Then(b, nil)
        BY <1>2, <1>4, <1>5, <3>1
      <3> QED BY <1>5, <3>2
    <2>2. ASSUME NEW d \in Symbols, NEW e \in Symbols, u = <<d, e>>, Encoded(u) = Then(d, Then(e, nil))
          PROVE t = u
      <3>0. Then(c, Then(b, nil)) = Then(d, Then(e, nil))
        BY <1>8, <2>2
      <3>1. c = d /\ Then(b, nil) = Then(e, nil)
        BY <1>4, <1>5, <3>0
      <3>2. b = e
        BY <1>2, <1>4, <3>1
      <3> QED BY <1>8, <2>2, <3>1, <3>2
    <2>3. Encoded(u) # nil
      BY <1>5, <1>8
    <2> QED BY <1>u, <2>1, <2>2, <2>3
  <1> QED BY <1>t, <1>6, <1>7, <1>8

(* The one "/" tells where the organization ends.                           *)
LEMMA TenantsApart == TenantsAreApart
  <1> SUFFICES ASSUME NEW o1 \in Texts, NEW o2 \in Texts, NEW i1 \in Texts, NEW i2 \in Texts,
                      TenantScoped(o1, i1) = TenantScoped(o2, i2)
               PROVE  o1 = o2 /\ i1 = i2
    BY DEF TenantsAreApart
  <1> DEFINE p == Encoded(o1)
             q == Encoded(o2)
             x == Encoded(i1)
             y == Encoded(i2)
  <1>1. /\ p \in Seq(Codings) /\ q \in Seq(Codings) /\ x \in Seq(Codings) /\ y \in Seq(Codings)
        /\ \A i \in 1..Len(p) : p[i] # "/"
        /\ \A i \in 1..Len(q) : q[i] # "/"
    BY EncodedType
  <1>2. p \o <<"/">> \o x = q \o <<"/">> \o y
    BY DEF TenantScoped
  <1>3. p = q /\ x = y => o1 = o2 /\ i1 = i2
    BY EncodedTells
  <1> HIDE DEF p, q, x, y
  <1>4. <<"/">> \in Seq(Codings) /\ Len(<<"/">>) = 1 /\ <<"/">>[1] = "/"
    BY DEF Codings
  <1> DEFINE pp == p \o <<"/">>
             qq == q \o <<"/">>
  <1>5. /\ pp \in Seq(Codings) /\ Len(pp) = Len(p) + 1 /\ Len(p) \in Nat
        /\ \A i \in 1..Len(p) : pp[i] = p[i]
        /\ pp[Len(p) + 1] = "/"
    BY <1>1, <1>4
  <1>6. /\ qq \in Seq(Codings) /\ Len(qq) = Len(q) + 1 /\ Len(q) \in Nat
        /\ \A i \in 1..Len(q) : qq[i] = q[i]
        /\ qq[Len(q) + 1] = "/"
    BY <1>1, <1>4
  <1> HIDE DEF pp, qq
  <1>7. \A i \in 1..Len(pp) : (pp \o x)[i] = pp[i]
    BY <1>1, <1>5
  <1>8. \A i \in 1..Len(qq) : (qq \o y)[i] = qq[i]
    BY <1>1, <1>6
  <1>9. pp \o x = qq \o y
    BY <1>2 DEF pp, qq
  <1>10. Len(p) = Len(q)
    <2>1. ASSUME Len(p) < Len(q) PROVE FALSE
      <3>1. Len(p) + 1 \in 1..Len(pp) /\ Len(p) + 1 \in 1..Len(q) /\ Len(p) + 1 \in 1..Len(qq)
        BY <1>5, <1>6, <2>1
      <3>2. q[Len(p) + 1] = "/"
        BY <1>5, <1>6, <1>7, <1>8, <1>9, <3>1
      <3> QED BY <1>1, <3>1, <3>2
    <2>2. ASSUME Len(q) < Len(p) PROVE FALSE
      <3>1. Len(q) + 1 \in 1..Len(qq) /\ Len(q) + 1 \in 1..Len(p) /\ Len(q) + 1 \in 1..Len(pp)
        BY <1>5, <1>6, <2>2
      <3>2. p[Len(q) + 1] = "/"
        BY <1>5, <1>6, <1>7, <1>8, <1>9, <3>1
      <3> QED BY <1>1, <3>1, <3>2
    <2> QED BY <1>5, <1>6, <2>1, <2>2
  <1>11. pp = qq /\ x = y
    <2>1. Len(pp) = Len(qq)
      BY <1>5, <1>6, <1>10
    <2>2. pp \in Seq(Codings) /\ qq \in Seq(Codings) /\ x \in Seq(Codings) /\ y \in Seq(Codings)
      BY <1>1, <1>5, <1>6
    <2> QED BY <1>9, <2>1, <2>2, SameRest
  <1>12. p = q
    BY <1>1, <1>4, <1>10, <1>11, SameRest DEF pp, qq
  <1> QED BY <1>3, <1>11, <1>12

-----------------------------------------------------------------------------
(* The parts share no variable, so each keeps what it keeps alone.          *)
ReadingInv == InboxInv /\ ConsoleInv /\ FgaInv

LEMMA ReadingKeeps == ReadingInv /\ [MCNext]_<<vars, inboxVars, consoleVars, fgaVars>> => ReadingInv'
  <1> SUFFICES ASSUME ReadingInv, [MCNext]_<<vars, inboxVars, consoleVars, fgaVars>>
               PROVE ReadingInv'
    OBVIOUS
  <1>1. ASSUME UNCHANGED inboxVars PROVE InboxInv'
    BY <1>1 DEF ReadingInv, inboxVars, InboxInv, InboxTyped, InboxSteady
  <1>2. ASSUME UNCHANGED consoleVars PROVE ConsoleInv'
    <2>1. UNCHANGED <<rels, muts, audit>> /\ walk' = walk
      BY <1>2 DEF consoleVars
    <2>2. walk \in Walks /\ Listed(walk) /\ AuditOK(walk) /\ Known(walk) /\ ConsoleInv
      BY DEF ReadingInv, ConsoleInv, ConsoleTyped
    <2> QED BY <2>1, <2>2, Viewed
  <1>3. ASSUME UNCHANGED fgaVars PROVE FgaInv'
    BY <1>3 DEF ReadingInv, fgaVars, FgaInv, FgaTyped, CacheOK, AskOK
  <1>4. CASE ApiBehaviours
    BY <1>1, <1>2, <1>3, <1>4 DEF ApiBehaviours, ReadingInv
  <1>5. CASE InboxBehaviours
    BY <1>2, <1>3, <1>5, InboxKeeps DEF InboxBehaviours, ReadingInv
  <1>6. CASE ConsoleBehaviours
    BY <1>1, <1>3, <1>6, ConsoleKeeps DEF ConsoleBehaviours, ReadingInv
  <1>7. CASE FgaBehaviours
    BY <1>1, <1>2, <1>7, FgaKeeps DEF FgaBehaviours, ReadingInv
  <1>8. CASE UNCHANGED <<vars, inboxVars, consoleVars, fgaVars>>
    BY <1>1, <1>2, <1>3, <1>8 DEF ReadingInv
  <1> QED BY <1>4, <1>5, <1>6, <1>7, <1>8 DEF MCNext

LEMMA ReadingInitial == MCInit => ReadingInv
  BY InboxInitial, ConsoleInitial, FgaInitial DEF MCInit, ReadingInv

(* Whoever reads a listing to its end - of his tasks, of relationships or   *)
(* of their audit - has seen every row that was there all along, however    *)
(* many rows a page has.  No task and no event comes twice; a relationship  *)
(* does only where a worker stamped it with an older instant than it had.   *)
(* However late workers come, the audit of a tuple requests, starts and     *)
(* confirms no older revision after a newer one, and tells nothing after    *)
(* the end of a mutation but repairs; the history shown with a row is never *)
(* behind it, nor denies an end the row tells.                              *)
THEOREM ListingsLoseNothing == MCSpec => []ListingsAreComplete
  <1>1. ReadingInv => ListingsAreComplete
    BY InboxHolds, ConsoleHolds DEF ReadingInv, ListingsAreComplete
  <1> QED BY <1>1, ReadingInitial, ReadingKeeps, PTL DEF MCSpec

(* Nobody asks OpenFGA with a token of other credentials or one that is     *)
(* about to expire, waits for an exchange nobody makes, meets an object of  *)
(* another organization, changes who may use the console, or is allowed     *)
(* something because a check failed.                                        *)
THEOREM AccessStaysGoverned == MCSpec => []AccessIsGoverned
  <1>1. ReadingInv => TokensOutlastTheirUse
    BY DEF ReadingInv, FgaInv, AskOK, TokensOutlastTheirUse
  <1>2. ReadingInv => AccessIsGoverned
    BY <1>1, TenantsApart, UpdatesGoverned, ErrorsNeverAllow DEF AccessIsGoverned
  <1> QED BY <1>2, ReadingInitial, ReadingKeeps, PTL DEF MCSpec
=============================================================================
