----------------------- MODULE WorkflowPlatform_proofs -----------------------
(***************************************************************************)
(* Proofs about two components of the workflow platform that share no      *)
(* state.                                                                  *)
(*                                                                         *)
(* CompositeAction, for any number of workflows, publishers, requests and  *)
(* calls that die: what a request runs is the version its definition was   *)
(* published with; a run knows the runs it is within, is none of them and  *)
(* is not deeper than the bound; and the leases keep the limits and follow *)
(* the runs.  The rows of the tables are only ever added (Grows), so what  *)
(* a call has read of them keeps holding while it waits; the first         *)
(* invariant (RowsOK) says what that is, the second (LeasesOK) what a      *)
(* start that nothing has disturbed holds at each of its steps.            *)
(*                                                                         *)
(* WorkflowSchedule, for any number of registrants, sweepers, minutes and  *)
(* troubles: SchedulesAreSound is invariant and SlotsAreFinal holds of     *)
(* every step.  Sweepers overlap, so each works on what it read before the *)
(* others wrote; the invariant (SweepInv) says what of that is still true. *)
(***************************************************************************)
EXTENDS CompositeAction, WorkflowSchedule, FiniteSetTheorems, TLAPS

Saved(w, version, content) == version \in 1..Len(versions[w]) /\ versions[w][version] = content

PublishedOK ==
    /\ versions \in [Workflows -> Seq(Contents)]
    /\ DOMAIN bindings = Workflows /\ DOMAIN catalog = Workflows
    /\ \A w \in Workflows : \A n \in DOMAIN bindings[w] :
         Saved(w, bindings[w][n].version, bindings[w][n].content)
    /\ \A w \in Workflows : \A n \in DOMAIN catalog[w] :
         n \in DOMAIN bindings[w] /\ catalog[w][n].schema = bindings[w][n].version

IsSnapshot(x) == x = [status |-> x.status, w |-> x.w, number |-> x.number, type |-> x.type,
                      schema |-> x.schema]
Made(r) == requests[r].status # "none"

RequestsOK ==
    /\ DOMAIN requests = Requests
    /\ \A r \in Requests : Made(r) =>
         /\ IsSnapshot(requests[r]) /\ requests[r].w \in Workflows
         /\ requests[r].number \in DOMAIN catalog[requests[r].w]
         /\ requests[r].schema = catalog[requests[r].w][requests[r].number].schema
         /\ Parent[r] # None => r \in DOMAIN links

LinksOK ==
    \A r \in DOMAIN links :
       /\ r \in Requests
       /\ Parent[r] = None => links[r].depth \in Nat
       /\ Parent[r] # None =>
            /\ Parent[r] \in DOMAIN runs /\ links[r].depth = runs[Parent[r]].depth
            /\ links[r].ancestry = Ancestry(Parent[r])

(* What a run may be made of, when it is and for good.                      *)
Allowed(r) == Made(r) /\ requests[r].w \notin AncestryOf(r) /\ Depth(r) <= MaxDepth

IsRun(x) == x = [w |-> x.w, version |-> x.version, depth |-> x.depth, ancestry |-> x.ancestry,
                 status |-> x.status]
RunsOK ==
    \A r \in DOMAIN runs :
       /\ r \in Requests /\ Allowed(r) /\ IsRun(runs[r])
       /\ runs[r].w = requests[r].w /\ runs[r].version = requests[r].schema
       /\ runs[r].depth = Depth(r) /\ runs[r].ancestry = AncestryOf(r)

Stages == {"tenant", "system", "undo", "create"}
IsPublisher(c) ==
    /\ c.at \in {"saveVersion", "listBindings", "readLatest", "saveBinding", "catalog"}
    /\ c = [at |-> c.at, w |-> c.w, content |-> c.content, type |-> c.type, version |-> c.version,
            number |-> c.number, already |-> c.already]
    /\ c.w \in Workflows /\ c.content \in Contents
    /\ c.version \in Nat \ {0} /\ c.already \in BOOLEAN
IsChild(c) == c.at \in {"link", "commit"} /\ c = [at |-> c.at, r |-> c.r, type |-> c.type] /\ c.r \in Requests
IsStart(c) == c \in [at: Stages, r: Requests]
IsFinish(c) == c \in [at: {"releaseSystem", "delivered"}, r: Requests]

CallOK(c) ==
    \/ c = Idle
    \/ /\ IsPublisher(c) /\ (c.at # "saveVersion" => Saved(c.w, c.version, c.content))
       /\ c.version = 1 \/ c.version - 1 \in 1..Len(versions[c.w])
       /\ c.at = "catalog" =>
            c.number \in DOMAIN bindings[c.w] /\ bindings[c.w][c.number].version = c.version
    \/ IsChild(c) /\ Parent[c.r] \in DOMAIN runs /\ (c.at = "commit" => c.r \in DOMAIN links)
    \/ IsStart(c) /\ Allowed(c.r)
    \/ IsFinish(c) /\ c.r \in DOMAIN runs

CallsOK == DOMAIN call = Calls /\ \A k \in Calls : CallOK(call[k])

RowsOK == PublishedOK /\ RequestsOK /\ LinksOK /\ RunsOK /\ CallsOK

(* Rows are added, and keep what they say.                                  *)
Grows ==
    /\ \A w \in Workflows : \A n \in 1..Len(versions[w]) :
         n \in 1..Len(versions'[w]) /\ versions'[w][n] = versions[w][n]
    /\ \A w \in Workflows : \A n \in DOMAIN bindings[w] :
         n \in DOMAIN bindings'[w] /\ bindings'[w][n] = bindings[w][n]
    /\ \A w \in Workflows : \A n \in DOMAIN catalog[w] :
         n \in DOMAIN catalog'[w] /\ catalog'[w][n] = catalog[w][n]
    /\ \A r \in Requests : Made(r) =>
         /\ requests'[r].status # "none" /\ requests'[r].w = requests[r].w
         /\ requests'[r].number = requests[r].number /\ requests'[r].schema = requests[r].schema
         /\ r \in DOMAIN links' <=> r \in DOMAIN links
    /\ \A r \in DOMAIN links : r \in DOMAIN links' /\ links'[r] = links[r]
    /\ \A r \in DOMAIN runs :
         /\ r \in DOMAIN runs' /\ runs'[r].w = runs[r].w /\ runs'[r].version = runs[r].version
         /\ runs'[r].depth = runs[r].depth /\ runs'[r].ancestry = runs[r].ancestry
    /\ \A r \in DOMAIN runs' \ DOMAIN runs : r \in Requests /\ Allowed(r)

-----------------------------------------------------------------------------
LEMMA InsertedKeeps ==
    ASSUME NEW rows, NEW key, NEW row
    PROVE  /\ DOMAIN Inserted(rows, key, row) = DOMAIN rows \cup {key}
           /\ \A k \in DOMAIN rows : Inserted(rows, key, row)[k] = rows[k]
           /\ key \notin DOMAIN rows => Inserted(rows, key, row)[key] = row
BY DEF Inserted

LEMMA InitRows == Init => RowsOK
  <1> SUFFICES ASSUME Init PROVE RowsOK
    OBVIOUS
  <1>0. DOMAIN NoRows = {}
    BY DEF NoRows
  <1>1. PICK c \in Contents, type \in [Workflows -> Types] :
          /\ versions = [w \in Workflows |-> IF w \in Edited THEN <<>> ELSE <<c>>]
          /\ bindings = [w \in Workflows |-> IF w \in Edited THEN NoRows
                                 ELSE Inserted(NoRows, 1, Binding(1, versions[w][1], type[w]))]
          /\ catalog = [w \in Workflows |-> IF w \in Edited THEN NoRows
                                 ELSE Inserted(NoRows, 1, Definition(type[w], 1))]
    BY DEF Init
  <1>2. PublishedOK
    <2>1. versions \in [Workflows -> Seq(Contents)]
      BY <1>1
    <2>2. ASSUME NEW w \in Workflows, w \notin Edited
          PROVE  /\ DOMAIN bindings[w] = {1} /\ bindings[w][1] = Binding(1, c, type[w])
                 /\ DOMAIN catalog[w] = {1} /\ catalog[w][1] = Definition(type[w], 1)
                 /\ Saved(w, 1, c)
      <3>1. versions[w] = <<c>>
        BY <1>1, <2>2
      <3>2. /\ bindings[w] = Inserted(NoRows, 1, Binding(1, versions[w][1], type[w]))
            /\ catalog[w] = Inserted(NoRows, 1, Definition(type[w], 1))
        BY <1>1, <2>2
      <3>3. Saved(w, 1, c) /\ versions[w][1] = c
        BY <3>1 DEF Saved
      <3>4. DOMAIN bindings[w] = {1} /\ bindings[w][1] = Binding(1, c, type[w])
        BY <1>0, <3>2, <3>3 DEF Inserted
      <3>5. DOMAIN catalog[w] = {1} /\ catalog[w][1] = Definition(type[w], 1)
        BY <1>0, <3>2 DEF Inserted
      <3> QED BY <3>3, <3>4, <3>5
    <2>3. ASSUME NEW w \in Workflows, w \in Edited
          PROVE  DOMAIN bindings[w] = {} /\ DOMAIN catalog[w] = {}
      BY <1>0, <1>1, <2>3
    <2>4. ASSUME NEW w \in Workflows, NEW n \in DOMAIN bindings[w]
          PROVE  Saved(w, bindings[w][n].version, bindings[w][n].content)
      <3>1. w \notin Edited
        BY <2>3, <2>4
      <3>2. n = 1 /\ bindings[w][n] = Binding(1, c, type[w]) /\ Saved(w, 1, c)
        BY <2>2, <2>4, <3>1
      <3>3. Binding(1, c, type[w]).version = 1 /\ Binding(1, c, type[w]).content = c
        BY DEF Binding
      <3> QED BY <3>2, <3>3
    <2>5. ASSUME NEW w \in Workflows, NEW n \in DOMAIN catalog[w]
          PROVE  n \in DOMAIN bindings[w] /\ catalog[w][n].schema = bindings[w][n].version
      <3>1. w \notin Edited
        BY <2>3, <2>5
      <3>2. /\ n = 1 /\ n \in DOMAIN bindings[w] /\ bindings[w][n] = Binding(1, c, type[w])
            /\ catalog[w][n] = Definition(type[w], 1)
        BY <2>2, <2>5, <3>1
      <3>3. Binding(1, c, type[w]).version = 1 /\ Definition(type[w], 1).schema = 1
        BY DEF Binding, Definition
      <3> QED BY <3>2, <3>3
    <2>6. DOMAIN bindings = Workflows /\ DOMAIN catalog = Workflows
      BY <1>1
    <2> QED BY <2>1, <2>4, <2>5, <2>6 DEF PublishedOK
  <1>3. requests = [r \in Requests |-> NoRequest] /\ runs = NoRows /\ call = [k \in Calls |-> Idle]
        /\ \E given \in SUBSET {r \in Requests : Parent[r] = None} : links \in [given -> Before]
    BY DEF Init
  <1>4. RequestsOK
    BY <1>3 DEF RequestsOK, Made, NoRequest
  <1>5. LinksOK
    BY <1>3, CompositeBounds DEF LinksOK
  <1>6. RunsOK
    BY <1>0, <1>3 DEF RunsOK
  <1>7. CallsOK
    BY <1>3 DEF CallsOK, CallOK
  <1> QED BY <1>2, <1>4, <1>5, <1>6, <1>7 DEF RowsOK

-----------------------------------------------------------------------------
(* What stays true while rows are added.                                    *)
LEMMA AllowedStays ==
    ASSUME Grows, NEW r \in Requests, Allowed(r)
    PROVE  Allowed(r)' /\ Depth(r)' = Depth(r) /\ AncestryOf(r)' = AncestryOf(r)
  <1>1. Made(r) /\ requests'[r].w = requests[r].w /\ Made(r)'
    BY DEF Allowed, Grows, Made
  <1>2. (r \in DOMAIN links' <=> r \in DOMAIN links) /\ (r \in DOMAIN links => links'[r] = links[r])
    BY <1>1 DEF Grows
  <1>3. Depth(r)' = Depth(r) /\ AncestryOf(r)' = AncestryOf(r)
    BY <1>2 DEF Depth, AncestryOf
  <1> QED BY <1>1, <1>3 DEF Allowed

LEMMA SavedStays ==
    ASSUME Grows, NEW w \in Workflows, NEW n, NEW content, Saved(w, n, content)
    PROVE  Saved(w, n, content)'
BY DEF Grows, Saved

LEMMA CallStays ==
    ASSUME Grows, NEW c, CallOK(c)
    PROVE  CallOK(c)'
  <1>1. CASE IsPublisher(c) /\ (c.at # "saveVersion" => Saved(c.w, c.version, c.content))
             /\ (c.version = 1 \/ c.version - 1 \in 1..Len(versions[c.w]))
             /\ (c.at = "catalog" =>
                  c.number \in DOMAIN bindings[c.w] /\ bindings[c.w][c.number].version = c.version)
    <2>1. c.w \in Workflows
      BY <1>1 DEF IsPublisher
    <2>2. c.at # "saveVersion" => Saved(c.w, c.version, c.content)'
      BY <1>1, <2>1, SavedStays
    <2>3. c.at = "catalog" =>
            c.number \in DOMAIN bindings'[c.w] /\ bindings'[c.w][c.number].version = c.version
      BY <1>1, <2>1 DEF Grows
    <2>4. c.version = 1 \/ c.version - 1 \in 1..Len(versions'[c.w])
      BY <1>1, <2>1 DEF Grows
    <2> QED BY <1>1, <2>2, <2>3, <2>4 DEF CallOK
  <1>2. CASE IsChild(c) /\ Parent[c.r] \in DOMAIN runs /\ (c.at = "commit" => c.r \in DOMAIN links)
    BY <1>2 DEF CallOK, Grows
  <1>3. CASE IsStart(c) /\ Allowed(c.r)
    <2>1. Allowed(c.r)'
      BY <1>3, AllowedStays DEF IsStart
    <2> QED BY <1>3, <2>1 DEF CallOK
  <1>4. CASE IsFinish(c) /\ c.r \in DOMAIN runs
    BY <1>4 DEF CallOK, Grows
  <1>5. CASE c = Idle
    BY <1>5 DEF CallOK
  <1> QED BY <1>1, <1>2, <1>3, <1>4, <1>5 DEF CallOK

LEMMA HoldsRow ==
    ASSUME CallsOK, Grows, NEW k \in Calls, NEW c, CallOK(c)', Hold(k, c)
    PROVE  CallsOK'
  <1>1. DOMAIN call' = Calls /\ call'[k] = c /\ \A j \in Calls \ {k} : call'[j] = call[j]
    BY DEF CallsOK, Hold
  <1>2. ASSUME NEW j \in Calls PROVE CallOK(call[j])'
    <2>1. PICK x : x = call'[j]
      OBVIOUS
    <2>2. CASE j = k
      BY <1>1, <2>1, <2>2
    <2>3. CASE j # k
      <3>1. x = call[j]
        BY <1>1, <2>1, <2>3
      <3>2. CallOK(x)
        BY <3>1 DEF CallsOK
      <3>3. CallOK(x)'
        BY <3>2, CallStays
      <3> QED BY <2>1, <3>3
    <2> QED BY <2>2, <2>3
  <1> QED BY <1>1, <1>2 DEF CallsOK

LEMMA CallsWait ==
    ASSUME CallsOK, Grows, call' = call
    PROVE  CallsOK'
  <1>1. ASSUME NEW j \in Calls PROVE CallOK(call[j])'
    <2>1. PICK x : x = call[j]
      OBVIOUS
    <2>2. CallOK(x)'
      BY <2>1, CallStays DEF CallsOK
    <2> QED BY <2>1, <2>2
  <1> QED BY <1>1 DEF CallsOK

LEMMA LinksStay ==
    ASSUME LinksOK, Grows, links' = links
    PROVE  LinksOK'
BY DEF LinksOK, Grows, Ancestry

LEMMA RunsStay ==
    ASSUME RunsOK, Grows, DOMAIN runs' = DOMAIN runs, \A r \in DOMAIN runs : IsRun(runs[r])'
    PROVE  RunsOK'
  <1> SUFFICES ASSUME NEW r \in DOMAIN runs
               PROVE  /\ r \in Requests /\ Allowed(r)' /\ IsRun(runs[r])'
                      /\ runs'[r].w = requests'[r].w /\ runs'[r].version = requests'[r].schema
                      /\ runs'[r].depth = Depth(r)' /\ runs'[r].ancestry = AncestryOf(r)'
    BY DEF RunsOK
  <1>1. r \in Requests /\ Allowed(r) /\ Made(r)
    BY DEF RunsOK, Allowed
  <1>2. Allowed(r)' /\ Depth(r)' = Depth(r) /\ AncestryOf(r)' = AncestryOf(r)
    BY <1>1, AllowedStays
  <1>3. requests'[r].w = requests[r].w /\ requests'[r].schema = requests[r].schema
    BY <1>1 DEF Grows
  <1> QED BY <1>1, <1>2, <1>3 DEF RunsOK, Grows

LEMMA RequestsStay ==
    ASSUME RequestsOK, Grows, DOMAIN requests' = Requests,
           \A r \in Requests : Made(r)' => Made(r) /\ IsSnapshot(requests[r])'
    PROVE  RequestsOK'
  <1> SUFFICES ASSUME NEW r \in Requests, Made(r)'
               PROVE  /\ IsSnapshot(requests[r])' /\ requests'[r].w \in Workflows
                      /\ requests'[r].number \in DOMAIN catalog'[requests'[r].w]
                      /\ requests'[r].schema = catalog'[requests'[r].w][requests'[r].number].schema
                      /\ Parent[r] # None => r \in DOMAIN links'
    BY DEF RequestsOK
  <1>1. Made(r) /\ IsSnapshot(requests[r])'
    OBVIOUS
  <1>2. /\ requests[r].w \in Workflows
        /\ requests[r].number \in DOMAIN catalog[requests[r].w]
        /\ requests[r].schema = catalog[requests[r].w][requests[r].number].schema
        /\ Parent[r] # None => r \in DOMAIN links
    BY <1>1 DEF RequestsOK
  <1>3. /\ requests'[r].w = requests[r].w /\ requests'[r].number = requests[r].number
        /\ requests'[r].schema = requests[r].schema /\ (r \in DOMAIN links' <=> r \in DOMAIN links)
    BY <1>1 DEF Grows
  <1> QED BY <1>1, <1>2, <1>3 DEF Grows

Answers ==
    \/ UNCHANGED requests
    \/ \E r \in Requests : \E status \in {"accepted", "refused"} : Answer(r, status)

(* A step that adds no row, and leaves at most an answer.                   *)
Steady == UNCHANGED <<Published, links, runs>> /\ Answers

LEMMA Answered ==
    ASSUME RequestsOK, Answers, NEW r \in Requests
    PROVE  /\ DOMAIN requests' = Requests
           /\ Made(r)' <=> Made(r)
           /\ Made(r) => /\ IsSnapshot(requests[r])' /\ requests'[r].w = requests[r].w
                         /\ requests'[r].number = requests[r].number
                         /\ requests'[r].schema = requests[r].schema
  <1>1. CASE UNCHANGED requests
    BY <1>1 DEF RequestsOK, Made, IsSnapshot
  <1>2. CASE \E q \in Requests : \E status \in {"accepted", "refused"} : Answer(q, status)
    <2>1. PICK q \in Requests, status \in {"accepted", "refused"} :
             requests' = [requests EXCEPT ![q].status = IF @ = "open" THEN status ELSE @]
      BY <1>2 DEF Answer
    <2>2. DOMAIN requests' = Requests /\ (r # q => requests'[r] = requests[r])
      BY <2>1 DEF RequestsOK
    <2>3. CASE r # q
      BY <2>2, <2>3 DEF RequestsOK, Made, IsSnapshot
    <2>4. CASE r = q
      <3>1. PICK x : x = requests[r]
        OBVIOUS
      <3>2. PICK result : result = IF x.status = "open" THEN status ELSE x.status
        OBVIOUS
      <3>3. requests'[r] = [x EXCEPT !.status = result]
        BY <2>1, <2>4, <3>1, <3>2 DEF RequestsOK
      <3>4. CASE Made(r)
        <4>1. x = [status |-> x.status, w |-> x.w, number |-> x.number, type |-> x.type,
                   schema |-> x.schema]
          BY <3>1, <3>4 DEF RequestsOK, IsSnapshot
        <4>2. requests'[r] = [status |-> result, w |-> x.w, number |-> x.number, type |-> x.type,
                              schema |-> x.schema]
          BY <3>3, <4>1
        <4>3. result # "none"
          BY <2>1, <3>1, <3>2, <3>4 DEF Made
        <4>4. PICK y : y = requests'[r]
          OBVIOUS
        <4>5. /\ y.status = result /\ y.w = x.w /\ y.number = x.number /\ y.schema = x.schema
              /\ IsSnapshot(y)
          BY <4>2, <4>4 DEF IsSnapshot
        <4> QED BY <2>2, <3>1, <3>4, <4>3, <4>4, <4>5 DEF Made
      <3>5. CASE ~Made(r)
        <4>1. result = x.status /\ x.status = "none"
          BY <3>1, <3>2, <3>5 DEF Made
        <4>2. requests'[r].status = "none" \/ requests'[r] = x
          BY <3>3, <4>1
        <4> QED BY <2>2, <3>1, <3>5, <4>1, <4>2 DEF Made
      <3> QED BY <3>4, <3>5
    <2> QED BY <2>3, <2>4
  <1> QED BY <1>1, <1>2 DEF Answers

LEMMA SteadyGrows ==
    ASSUME RowsOK, Steady
    PROVE  Grows /\ PublishedOK' /\ RequestsOK' /\ LinksOK' /\ RunsOK'
  <1>1. RequestsOK /\ Answers /\ UNCHANGED <<versions, bindings, catalog, links, runs>>
    BY DEF RowsOK, Steady, Published
  <1>2. Grows
    BY <1>1, Answered DEF Grows, Made
  <1>3. PublishedOK'
    BY <1>1 DEF RowsOK, PublishedOK, Saved
  <1>4. RequestsOK'
    <2>1. DOMAIN requests' = Requests
      BY <1>1 DEF Answers, Answer, RequestsOK
    <2> QED BY <1>1, <1>2, <2>1, Answered, RequestsStay
  <1>5. LinksOK'
    BY <1>1, <1>2, LinksStay DEF RowsOK
  <1>6. RunsOK'
    <2>1. \A r \in DOMAIN runs : IsRun(runs[r])'
      BY <1>1 DEF RowsOK, RunsOK, IsRun
    <2> QED BY <1>1, <1>2, <2>1, RunsStay DEF RowsOK
  <1> QED BY <1>2, <1>3, <1>4, <1>5, <1>6

LEMMA SteadyHold ==
    ASSUME RowsOK, Steady, NEW k \in Calls, NEW c, CallOK(c), Hold(k, c)
    PROVE  RowsOK' /\ Grows
  <1>1. Grows /\ PublishedOK' /\ RequestsOK' /\ LinksOK' /\ RunsOK'
    BY SteadyGrows
  <1>2. CallOK(c)'
    BY <1>1, CallStays
  <1>3. CallsOK'
    BY <1>1, <1>2, HoldsRow DEF RowsOK
  <1> QED BY <1>1, <1>3 DEF RowsOK

LEMMA SteadyWait ==
    ASSUME RowsOK, Steady, call' = call
    PROVE  RowsOK' /\ Grows
  <1>1. Grows /\ PublishedOK' /\ RequestsOK' /\ LinksOK' /\ RunsOK'
    BY SteadyGrows
  <1>2. CallsOK'
    BY <1>1, CallsWait DEF RowsOK
  <1> QED BY <1>1, <1>2 DEF RowsOK

-----------------------------------------------------------------------------
(* Publication.  The call that holds the row is PICKed, so that what was    *)
(* known of it before the step can be said after it.                        *)
LEMMA PublisherOK ==
    ASSUME NEW c, CallOK(c),
           c.at \in {"saveVersion", "listBindings", "readLatest", "saveBinding", "catalog"}
    PROVE  /\ IsPublisher(c) /\ (c.at # "saveVersion" => Saved(c.w, c.version, c.content))
           /\ c.version = 1 \/ c.version - 1 \in 1..Len(versions[c.w])
           /\ c.at = "catalog" =>
                c.number \in DOMAIN bindings[c.w] /\ bindings[c.w][c.number].version = c.version
BY DEF CallOK, IsChild, IsStart, IsFinish, Stages, Idle

LEMMA StartPublishStays ==
    ASSUME RowsOK, NEW k \in Calls, StartPublish(k)
    PROVE  RowsOK' /\ Grows
  <1>1. Steady
    BY DEF StartPublish, Steady, Answers
  <1>2. PICK w, content, t :
          /\ w \in Edited /\ content \in Contents
          /\ Hold(k, [at |-> "saveVersion", w |-> w, content |-> content, type |-> t,
                      version |-> Len(versions[w]) + 1, number |-> 0, already |-> FALSE])
    BY DEF StartPublish
  <1>3. w \in Workflows /\ Len(versions[w]) \in Nat
    BY <1>2, CompositeBounds DEF RowsOK, PublishedOK
  <1>4. PICK c : c = [at |-> "saveVersion", w |-> w, content |-> content, type |-> t,
                      version |-> Len(versions[w]) + 1, number |-> 0, already |-> FALSE]
    OBVIOUS
  <1>5. IsPublisher(c) /\ c.at = "saveVersion"
    BY <1>2, <1>3, <1>4 DEF IsPublisher
  <1>6. c.version = 1 \/ c.version - 1 \in 1..Len(versions[c.w])
    BY <1>3, <1>4
  <1>7. CallOK(c)
    BY <1>5, <1>6 DEF CallOK
  <1> QED BY <1>1, <1>2, <1>4, <1>7, SteadyHold

LEMMA SaveVersionStays ==
    ASSUME RowsOK, NEW k \in Calls, SaveVersion(k)
    PROVE  RowsOK' /\ Grows
  <1>1. PICK c : c = call[k]
    OBVIOUS
  <1>2. /\ c.at = "saveVersion" /\ CallOK(c)
        /\ UNCHANGED <<bindings, catalog, requests, links, runs>>
    BY <1>1 DEF SaveVersion, At, RowsOK, CallsOK
  <1>3. IsPublisher(c) /\ (c.version = 1 \/ c.version - 1 \in 1..Len(versions[c.w]))
    BY <1>2, PublisherOK
  <1>4. PICK d : d = [c EXCEPT !.at = "listBindings"]
    OBVIOUS
  <1>5. /\ d = [at |-> "listBindings", w |-> c.w, content |-> c.content, type |-> c.type,
               version |-> c.version, number |-> c.number, already |-> c.already]
        /\ c.w \in Workflows /\ c.content \in Contents /\ c.version \in Nat \ {0}
        /\ c.already \in BOOLEAN /\ versions \in [Workflows -> Seq(Contents)]
    BY <1>3, <1>4 DEF IsPublisher, RowsOK, PublishedOK
  <1>6. IsPublisher(d)
    BY <1>5 DEF IsPublisher
  <1>7. CASE /\ c.version > Len(versions[c.w]) /\ Hold(k, d)
             /\ versions' = [versions EXCEPT ![c.w] = Append(@, c.content)]
    <2>1. /\ versions'[c.w] = Append(versions[c.w], c.content)
          /\ \A w \in Workflows \ {c.w} : versions'[w] = versions[w]
          /\ versions' \in [Workflows -> Seq(Contents)]
      BY <1>5, <1>7
    <2>2. /\ Len(versions[c.w]) \in Nat /\ c.version = Len(versions[c.w]) + 1
          /\ Len(versions'[c.w]) = c.version /\ versions'[c.w][c.version] = c.content
          /\ \A n \in 1..Len(versions[c.w]) : versions'[c.w][n] = versions[c.w][n]
      BY <1>3, <1>5, <1>7, <2>1
    <2>3. \A w \in Workflows : \A n \in 1..Len(versions[w]) :
            n \in 1..Len(versions'[w]) /\ versions'[w][n] = versions[w][n]
      <3> SUFFICES ASSUME NEW w \in Workflows, NEW n \in 1..Len(versions[w])
                   PROVE  n \in 1..Len(versions'[w]) /\ versions'[w][n] = versions[w][n]
        OBVIOUS
      <3>1. CASE w = c.w
        <4>1. Len(versions'[w]) = Len(versions[w]) + 1 /\ Len(versions[w]) \in Nat
          BY <2>2, <3>1
        <4> QED BY <2>2, <3>1, <4>1
      <3>2. CASE w # c.w
        BY <2>1, <3>2
      <3> QED BY <3>1, <3>2
    <2>4. Grows
      BY <1>2, <2>3 DEF Grows, Made
    <2>5. PublishedOK'
      <3>1. ASSUME NEW w \in Workflows, NEW n \in DOMAIN bindings[w]
            PROVE  Saved(w, bindings[w][n].version, bindings[w][n].content)'
        BY <1>2, <2>3 DEF RowsOK, PublishedOK, Saved
      <3> QED BY <1>2, <2>1, <3>1 DEF RowsOK, PublishedOK
    <2>6. RequestsOK'
      BY <1>2, <2>4, RequestsStay DEF RowsOK, RequestsOK, Made, IsSnapshot
    <2>7. LinksOK' /\ RunsOK'
      BY <1>2, <2>4, LinksStay, RunsStay DEF RowsOK, RunsOK, IsRun
    <2>8. CallOK(d)'
      <3>1. Saved(d.w, d.version, d.content)'
        BY <1>5, <2>2 DEF Saved
      <3>2. d.version = 1 \/ d.version - 1 \in 1..Len(versions'[d.w])
        BY <1>5, <2>2
      <3>3. d.at = "listBindings"
        BY <1>5
      <3> QED BY <1>6, <3>1, <3>2, <3>3 DEF CallOK
    <2>9. CallsOK'
      BY <1>7, <2>4, <2>8, HoldsRow DEF RowsOK
    <2> QED BY <2>4, <2>5, <2>6, <2>7, <2>9 DEF RowsOK
  <1>8. CASE /\ c.version <= Len(versions[c.w]) /\ versions[c.w][c.version] = c.content
             /\ Hold(k, d) /\ UNCHANGED versions
    <2>1. Steady
      BY <1>2, <1>8 DEF Steady, Answers, Published
    <2>2. Saved(d.w, d.version, d.content) /\ d.at = "listBindings"
      BY <1>5, <1>8 DEF Saved
    <2>3. d.version = 1 \/ d.version - 1 \in 1..Len(versions[d.w])
      BY <1>3, <1>5
    <2>4. CallOK(d)
      BY <1>6, <2>2, <2>3 DEF CallOK
    <2> QED BY <1>8, <2>1, <2>4, SteadyHold
  <1>9. CASE Hold(k, Idle) /\ UNCHANGED versions
    <2>1. Steady /\ CallOK(Idle)
      BY <1>2, <1>9 DEF Steady, Answers, Published, CallOK
    <2> QED BY <1>9, <2>1, SteadyHold
  <1> QED BY <1>1, <1>4, <1>7, <1>8, <1>9 DEF SaveVersion, Goto, Return

LEMMA ReadsStay ==
    ASSUME RowsOK, NEW k \in Calls, ListBindings(k) \/ ReadLatest(k)
    PROVE  RowsOK' /\ Grows
  <1>1. PICK c : c = call[k]
    OBVIOUS
  <1>2. Steady
    BY DEF ListBindings, ReadLatest, Steady, Answers
  <1>3. c.at \in {"listBindings", "readLatest"} /\ CallOK(c)
    BY <1>1 DEF ListBindings, ReadLatest, At, RowsOK, CallsOK
  <1>4. /\ IsPublisher(c) /\ Saved(c.w, c.version, c.content)
        /\ (c.version = 1 \/ c.version - 1 \in 1..Len(versions[c.w]))
    BY <1>3, PublisherOK
  <1>5. ASSUME NEW stage \in {"readLatest", "saveBinding"}, NEW number, NEW already \in BOOLEAN,
               NEW d, d = [c EXCEPT !.at = stage, !.already = already, !.number = number]
        PROVE  CallOK(d)
    <2>1. /\ d = [at |-> stage, w |-> c.w, content |-> c.content, type |-> c.type,
                 version |-> c.version, number |-> number, already |-> already]
          /\ c.w \in Workflows /\ c.content \in Contents /\ c.version \in Nat \ {0}
      BY <1>4, <1>5 DEF IsPublisher
    <2>2. /\ IsPublisher(d) /\ d.at # "catalog" /\ d.at # "saveVersion"
          /\ d.w = c.w /\ d.version = c.version /\ d.content = c.content
      BY <2>1 DEF IsPublisher
    <2> QED BY <1>4, <2>2 DEF CallOK
  <1>6. CASE ListBindings(k)
    <2>1. PICK same, number : Hold(k, [c EXCEPT !.at = "readLatest", !.already = same # {},
                                                !.number = number])
      BY <1>1, <1>6 DEF ListBindings
    <2>2. PICK d : d = [c EXCEPT !.at = "readLatest", !.already = same # {}, !.number = number]
      OBVIOUS
    <2>3. CallOK(d)
      BY <1>5, <2>2
    <2> QED BY <1>2, <2>1, <2>2, <2>3, SteadyHold
  <1>7. CASE ReadLatest(k)
    <2>1. PICK number : Hold(k, [c EXCEPT !.at = "saveBinding", !.number = number])
      BY <1>1, <1>7 DEF ReadLatest
    <2>2. PICK d : d = [c EXCEPT !.at = "saveBinding", !.number = number]
      OBVIOUS
    <2>3. d = [c EXCEPT !.at = "saveBinding", !.already = c.already, !.number = number]
          /\ c.already \in BOOLEAN
      BY <1>4, <2>2 DEF IsPublisher
    <2>4. CallOK(d)
      BY <1>5, <2>3
    <2> QED BY <1>2, <2>1, <2>2, <2>4, SteadyHold
  <1> QED BY <1>6, <1>7

LEMMA SaveBindingStays ==
    ASSUME RowsOK, NEW k \in Calls, SaveBinding(k)
    PROVE  RowsOK' /\ Grows
  <1>1. PICK c : c = call[k]
    OBVIOUS
  <1>2. /\ c.at = "saveBinding" /\ CallOK(c)
        /\ UNCHANGED <<versions, catalog, requests, links, runs>>
    BY <1>1 DEF SaveBinding, At, RowsOK, CallsOK
  <1>3. /\ IsPublisher(c) /\ Saved(c.w, c.version, c.content) /\ c.w \in Workflows
        /\ (c.version = 1 \/ c.version - 1 \in 1..Len(versions[c.w]))
    BY <1>2, PublisherOK DEF IsPublisher
  <1>4. PICK row : row = Binding(c.version, c.content, c.type)
    OBVIOUS
  <1>5. row.version = c.version /\ row.content = c.content
    BY <1>4 DEF Binding
  <1>6. /\ bindings' = [bindings EXCEPT ![c.w] = Inserted(bindings[c.w], c.number, row)]
        /\ DOMAIN bindings = Workflows
    BY <1>1, <1>4 DEF SaveBinding, RowsOK, PublishedOK
  <1>7. /\ DOMAIN bindings' = Workflows
        /\ \A w \in Workflows \ {c.w} : bindings'[w] = bindings[w]
        /\ bindings'[c.w] = Inserted(bindings[c.w], c.number, row)
    BY <1>3, <1>6
  <1>8. /\ DOMAIN bindings'[c.w] = DOMAIN bindings[c.w] \cup {c.number}
        /\ \A n \in DOMAIN bindings[c.w] : bindings'[c.w][n] = bindings[c.w][n]
        /\ c.number \notin DOMAIN bindings[c.w] => bindings'[c.w][c.number] = row
    BY <1>7 DEF Inserted
  <1>9. Grows
    BY <1>2, <1>7, <1>8 DEF Grows, Made
  <1>10. PublishedOK'
    <2>1. ASSUME NEW w \in Workflows, NEW n \in DOMAIN bindings'[w]
          PROVE  Saved(w, bindings'[w][n].version, bindings'[w][n].content)
      <3>1. CASE n \in DOMAIN bindings[w]
        BY <1>7, <1>8, <3>1 DEF RowsOK, PublishedOK
      <3>2. CASE n \notin DOMAIN bindings[w]
        BY <1>3, <1>5, <1>7, <1>8, <2>1, <3>2
      <3> QED BY <3>1, <3>2
    <2>2. \A w \in Workflows : \A n \in DOMAIN catalog[w] :
            n \in DOMAIN bindings'[w] /\ catalog[w][n].schema = bindings'[w][n].version
      BY <1>9 DEF RowsOK, PublishedOK, Grows
    <2> QED BY <1>2, <1>7, <2>1, <2>2 DEF RowsOK, PublishedOK, Saved
  <1>11. RequestsOK'
    BY <1>2, <1>9, RequestsStay DEF RowsOK, RequestsOK, Made, IsSnapshot
  <1>12. LinksOK' /\ RunsOK'
    BY <1>2, <1>9, LinksStay, RunsStay DEF RowsOK, RunsOK, IsRun
  <1>13. PICK d : d = [c EXCEPT !.at = "catalog"]
    OBVIOUS
  <1>14. CASE Hold(k, Idle)
    <2>1. CallOK(Idle)'
      BY DEF CallOK
    <2>2. CallsOK'
      BY <1>9, <1>14, <2>1, HoldsRow DEF RowsOK
    <2> QED BY <1>9, <1>10, <1>11, <1>12, <2>2 DEF RowsOK
  <1>15. CASE /\ Hold(k, d)
              /\ c.number \notin DOMAIN bindings[c.w] \/ SameBinding(bindings[c.w][c.number], row)
    <2>1. /\ d = [at |-> "catalog", w |-> c.w, content |-> c.content, type |-> c.type,
                 version |-> c.version, number |-> c.number, already |-> c.already]
          /\ c.content \in Contents /\ c.version \in Nat \ {0} /\ c.already \in BOOLEAN
      BY <1>3, <1>13 DEF IsPublisher
    <2>2. IsPublisher(d) /\ d.w = c.w /\ d.version = c.version /\ d.content = c.content
      BY <1>3, <2>1 DEF IsPublisher
    <2>3. c.number \in DOMAIN bindings'[c.w] /\ bindings'[c.w][c.number].version = c.version
      BY <1>5, <1>8, <1>15 DEF SameBinding
    <2>4. d.number = c.number
      BY <2>1
    <2>5. Saved(d.w, d.version, d.content)'
      BY <1>2, <1>3, <2>2 DEF Saved
    <2>6. CallOK(d)'
      BY <1>2, <1>3, <2>2, <2>3, <2>4, <2>5 DEF CallOK
    <2>7. CallsOK'
      BY <1>9, <1>15, <2>6, HoldsRow DEF RowsOK
    <2> QED BY <1>9, <1>10, <1>11, <1>12, <2>7 DEF RowsOK
  <1> QED BY <1>1, <1>4, <1>13, <1>14, <1>15 DEF SaveBinding, Goto, Return

LEMMA PublishToCatalogStays ==
    ASSUME RowsOK, NEW k \in Calls, PublishToCatalog(k)
    PROVE  RowsOK' /\ Grows
  <1>1. PICK c : c = call[k]
    OBVIOUS
  <1>2. /\ c.at = "catalog" /\ CallOK(c)
        /\ UNCHANGED <<versions, bindings, requests, links, runs>>
    BY <1>1 DEF PublishToCatalog, At, RowsOK, CallsOK
  <1>3. /\ c.w \in Workflows /\ c.number \in DOMAIN bindings[c.w]
        /\ bindings[c.w][c.number].version = c.version
    BY <1>2, PublisherOK DEF IsPublisher
  <1>4. PICK row : row = Definition(c.type, c.version)
    OBVIOUS
  <1>5. row.schema = c.version
    BY <1>4 DEF Definition
  <1>6. /\ catalog' = [catalog EXCEPT ![c.w] = Inserted(catalog[c.w], c.number, row)]
        /\ DOMAIN catalog = Workflows
    BY <1>1, <1>4 DEF PublishToCatalog, RowsOK, PublishedOK
  <1>7. /\ DOMAIN catalog' = Workflows
        /\ \A w \in Workflows \ {c.w} : catalog'[w] = catalog[w]
        /\ catalog'[c.w] = Inserted(catalog[c.w], c.number, row)
    BY <1>3, <1>6
  <1>8. /\ DOMAIN catalog'[c.w] = DOMAIN catalog[c.w] \cup {c.number}
        /\ \A n \in DOMAIN catalog[c.w] : catalog'[c.w][n] = catalog[c.w][n]
        /\ c.number \notin DOMAIN catalog[c.w] => catalog'[c.w][c.number] = row
    BY <1>7 DEF Inserted
  <1>9. Grows
    BY <1>2, <1>7, <1>8 DEF Grows, Made
  <1>10. PublishedOK'
    <2>1. ASSUME NEW w \in Workflows, NEW n \in DOMAIN catalog'[w]
          PROVE  n \in DOMAIN bindings[w] /\ catalog'[w][n].schema = bindings[w][n].version
      <3>1. CASE n \in DOMAIN catalog[w]
        BY <1>7, <1>8, <3>1 DEF RowsOK, PublishedOK
      <3>2. CASE n \notin DOMAIN catalog[w]
        BY <1>3, <1>5, <1>7, <1>8, <2>1, <3>2
      <3> QED BY <3>1, <3>2
    <2> QED BY <1>2, <1>7, <2>1 DEF RowsOK, PublishedOK, Saved
  <1>11. RequestsOK'
    BY <1>2, <1>9, RequestsStay DEF RowsOK, RequestsOK, Made, IsSnapshot
  <1>12. LinksOK' /\ RunsOK'
    BY <1>2, <1>9, LinksStay, RunsStay DEF RowsOK, RunsOK, IsRun
  <1>13. CallOK(Idle)' /\ Hold(k, Idle)
    BY DEF CallOK, PublishToCatalog, Return
  <1>14. CallsOK'
    BY <1>9, <1>13, HoldsRow DEF RowsOK
  <1> QED BY <1>9, <1>10, <1>11, <1>12, <1>14 DEF RowsOK

-----------------------------------------------------------------------------
(* A request that is made of a definition of the catalog.                   *)
LEMMA SnapshotIsMade ==
    ASSUME RowsOK, NEW r \in Requests, ~Made(r), Parent[r] # None => r \in DOMAIN links,
           NEW t, NEW d \in Resolved(t), requests' = [requests EXCEPT ![r] = Snapshot(d)],
           UNCHANGED <<Published, links, runs>>
    PROVE  Grows /\ PublishedOK' /\ RequestsOK' /\ LinksOK' /\ RunsOK'
  <1>1. /\ UNCHANGED <<versions, bindings, catalog, links, runs>>
        /\ DOMAIN requests = Requests
    BY DEF Published, RowsOK, RequestsOK
  <1>2. d[1] \in Workflows /\ d[2] \in DOMAIN catalog[d[1]]
    BY DEF Resolved, OfType
  <1>3. /\ DOMAIN requests' = Requests /\ requests'[r] = Snapshot(d)
        /\ \A q \in Requests \ {r} : requests'[q] = requests[q]
    BY <1>1
  <1>4. PICK x : x = Snapshot(d)
    OBVIOUS
  <1>5. /\ x.status = "open" /\ x.w = d[1] /\ x.number = d[2]
        /\ x.schema = catalog[d[1]][d[2]].schema /\ IsSnapshot(x)
    BY <1>4 DEF Snapshot, IsSnapshot
  <1>6. Grows
    BY <1>1, <1>3 DEF Grows, Made
  <1>7. PublishedOK'
    BY <1>1 DEF RowsOK, PublishedOK, Saved
  <1>8. RequestsOK'
    <2> SUFFICES ASSUME NEW q \in Requests, Made(q)'
                 PROVE  /\ IsSnapshot(requests'[q]) /\ requests'[q].w \in Workflows
                        /\ requests'[q].number \in DOMAIN catalog[requests'[q].w]
                        /\ requests'[q].schema = catalog[requests'[q].w][requests'[q].number].schema
                        /\ Parent[q] # None => q \in DOMAIN links
      BY <1>1, <1>3 DEF RequestsOK, IsSnapshot
    <2>1. CASE q = r
      BY <1>2, <1>3, <1>4, <1>5, <2>1
    <2>2. CASE q # r
      BY <1>3, <2>2 DEF RowsOK, RequestsOK, Made
    <2> QED BY <2>1, <2>2
  <1>9. LinksOK' /\ RunsOK'
    BY <1>1, <1>6, LinksStay, RunsStay DEF RowsOK, RunsOK, IsRun
  <1> QED BY <1>6, <1>7, <1>8, <1>9

LEMMA SubmitStays ==
    ASSUME RowsOK, NEW r \in Requests, Submit(r)
    PROVE  RowsOK' /\ Grows
  <1>1. PICK t \in Asks[r] : \E d \in Resolved(t) : requests' = [requests EXCEPT ![r] = Snapshot(d)]
    BY DEF Submit
  <1>2. PICK d \in Resolved(t) : requests' = [requests EXCEPT ![r] = Snapshot(d)]
    BY <1>1
  <1>3. ~Made(r) /\ Parent[r] = None /\ UNCHANGED <<Published, links, runs, call>>
    BY DEF Submit, Made
  <1>4. Grows /\ PublishedOK' /\ RequestsOK' /\ LinksOK' /\ RunsOK'
    BY <1>2, <1>3, SnapshotIsMade
  <1>5. CallsOK'
    BY <1>3, <1>4, CallsWait DEF RowsOK
  <1> QED BY <1>4, <1>5 DEF RowsOK

-----------------------------------------------------------------------------
(* The children of a run.                                                   *)
LEMMA ChildOK ==
    ASSUME NEW c, CallOK(c), c.at \in {"link", "commit"}
    PROVE  /\ IsChild(c) /\ Parent[c.r] \in DOMAIN runs
           /\ c.at = "commit" => c.r \in DOMAIN links
BY DEF CallOK, IsPublisher, IsStart, IsFinish, Stages, Idle

LEMMA StartChildStays ==
    ASSUME RowsOK, NEW k \in Calls, StartChild(k)
    PROVE  RowsOK' /\ Grows
  <1>1. PICK r, t :
          /\ r \in Requests /\ Parent[r] \in DOMAIN runs
          /\ Hold(k, [at |-> "link", r |-> r, type |-> t])
    BY DEF StartChild
  <1>2. PICK c : c = [at |-> "link", r |-> r, type |-> t]
    OBVIOUS
  <1>3. IsChild(c) /\ c.at = "link" /\ c.r = r
    BY <1>1, <1>2 DEF IsChild
  <1>4. CallOK(c)
    BY <1>1, <1>3 DEF CallOK
  <1>5. Steady
    BY DEF StartChild, Steady, Answers
  <1> QED BY <1>1, <1>2, <1>4, <1>5, SteadyHold

LEMMA RecordLinkStays ==
    ASSUME RowsOK, NEW k \in Calls, RecordLink(k)
    PROVE  RowsOK' /\ Grows
  <1>1. PICK c : c = call[k]
    OBVIOUS
  <1>2. /\ c.at = "link" /\ CallOK(c)
        /\ UNCHANGED <<versions, bindings, catalog, requests, runs>>
    BY <1>1 DEF RecordLink, At, RowsOK, CallsOK, Published
  <1>3. PICK r : r = c.r
    OBVIOUS
  <1>4. IsChild(c) /\ r \in Requests /\ Parent[r] \in DOMAIN runs /\ Parent[r] # None
    <2>1. IsChild(c) /\ Parent[c.r] \in DOMAIN runs
      BY <1>2, ChildOK
    <2>2. Parent[r] \in Requests /\ None \notin Requests
      BY <1>3, <2>1, CompositeBounds DEF RowsOK, RunsOK
    <2> QED BY <1>3, <2>1, <2>2 DEF IsChild
  <1>5. PICK row : row = [depth |-> runs[Parent[r]].depth, ancestry |-> Ancestry(Parent[r])]
    OBVIOUS
  <1>6. row.depth = runs[Parent[r]].depth /\ row.ancestry = Ancestry(Parent[r])
    BY <1>5
  <1>7. links' = Inserted(links, r, row)
    BY <1>1, <1>3, <1>5 DEF RecordLink
  <1>8. /\ DOMAIN links' = DOMAIN links \cup {r}
        /\ \A q \in DOMAIN links : links'[q] = links[q]
        /\ r \notin DOMAIN links => links'[r] = row
    BY <1>7 DEF Inserted
  <1>9. Made(r) => r \in DOMAIN links
    BY <1>4 DEF RowsOK, RequestsOK
  <1>10. Grows
    BY <1>2, <1>8, <1>9 DEF Grows, Made
  <1>11. PublishedOK'
    BY <1>2 DEF RowsOK, PublishedOK, Saved
  <1>12. RequestsOK'
    BY <1>2, <1>10, RequestsStay DEF RowsOK, RequestsOK, Made, IsSnapshot
  <1>13. RunsOK'
    BY <1>2, <1>10, RunsStay DEF RowsOK, RunsOK, IsRun
  <1>14. LinksOK'
    <2> SUFFICES ASSUME NEW q \in DOMAIN links', q \notin DOMAIN links
                 PROVE  /\ q \in Requests /\ Parent[q] # None /\ Parent[q] \in DOMAIN runs
                        /\ links'[q].depth = runs[Parent[q]].depth
                        /\ links'[q].ancestry = Ancestry(Parent[q])
      BY <1>2, <1>8 DEF LinksOK, RowsOK, Ancestry
    <2> QED BY <1>4, <1>6, <1>8
  <1>15. PICK d : d = [c EXCEPT !.at = "commit"]
    OBVIOUS
  <1>16. Hold(k, d)
    BY <1>1, <1>15 DEF RecordLink, Goto
  <1>17. d = [at |-> "commit", r |-> c.r, type |-> c.type] /\ c.r \in Requests
    BY <1>4, <1>15 DEF IsChild
  <1>18. IsChild(d) /\ d.r = r
    BY <1>3, <1>17 DEF IsChild
  <1>19. CallOK(d)'
    BY <1>2, <1>4, <1>8, <1>18 DEF CallOK
  <1>20. CallsOK'
    BY <1>10, <1>16, <1>19, HoldsRow DEF RowsOK
  <1> QED BY <1>10, <1>11, <1>12, <1>13, <1>14, <1>20 DEF RowsOK

LEMMA CommitChildStays ==
    ASSUME RowsOK, NEW k \in Calls, CommitChild(k)
    PROVE  RowsOK' /\ Grows
  <1>1. PICK c : c = call[k]
    OBVIOUS
  <1>2. c.at = "commit" /\ CallOK(c) /\ UNCHANGED <<Published, links, runs>> /\ Hold(k, Idle)
    BY <1>1 DEF CommitChild, At, RowsOK, CallsOK, Return
  <1>3. c.r \in DOMAIN links /\ c.r \in Requests
    BY <1>2, ChildOK DEF IsChild
  <1>4. CASE requests[c.r].status = "none" /\ \E d \in Resolved(c.type) :
               requests' = [requests EXCEPT ![c.r] = Snapshot(d)]
    <2>1. Grows /\ PublishedOK' /\ RequestsOK' /\ LinksOK' /\ RunsOK'
      BY <1>2, <1>3, <1>4, SnapshotIsMade DEF Made
    <2>2. CallsOK'
      <3>1. CallOK(Idle)'
        BY DEF CallOK
      <3> QED BY <1>2, <2>1, <3>1, HoldsRow DEF RowsOK
    <2> QED BY <2>1, <2>2 DEF RowsOK
  <1>5. CASE UNCHANGED requests
    <2>1. Steady /\ CallOK(Idle)
      BY <1>2, <1>5 DEF Steady, Answers, CallOK
    <2> QED BY <1>2, <2>1, SteadyHold
  <1> QED BY <1>1, <1>4, <1>5 DEF CommitChild

-----------------------------------------------------------------------------
(* The start of a run.                                                      *)
LEMMA StartOK ==
    ASSUME NEW c, CallOK(c), c.at \in Stages
    PROVE  IsStart(c) /\ Allowed(c.r)
BY DEF CallOK, IsPublisher, IsChild, IsFinish, Stages, Idle

LEMMA FinishOK ==
    ASSUME NEW c, CallOK(c), c.at \in {"releaseSystem", "delivered"}
    PROVE  IsFinish(c) /\ c.r \in DOMAIN runs
BY DEF CallOK, IsPublisher, IsChild, IsStart, Stages, Idle

LEMMA StartRunStays ==
    ASSUME RowsOK, NEW k \in Calls, StartRun(k)
    PROVE  RowsOK' /\ Grows
  <1>1. PICK r \in Requests :
          /\ requests[r].status = "open"
          /\ \/ Answer(r, "accepted") /\ UNCHANGED call
             \/ Answer(r, "refused") /\ UNCHANGED call
             \/ Startable(r) /\ Hold(k, [at |-> "tenant", r |-> r]) /\ UNCHANGED requests
    BY DEF StartRun
  <1>2. Steady
    BY <1>1 DEF StartRun, Steady, Answers
  <1>3. CASE UNCHANGED call
    BY <1>2, <1>3, SteadyWait
  <1>4. CASE Startable(r) /\ Hold(k, [at |-> "tenant", r |-> r])
    <2>1. PICK c : c = [at |-> "tenant", r |-> r]
      OBVIOUS
    <2>2. IsStart(c) /\ c.r = r
      BY <2>1 DEF IsStart, Stages
    <2>3. Allowed(r)
      BY <1>1, <1>4 DEF Startable, Allowed, Made
    <2>4. CallOK(c)
      BY <2>2, <2>3 DEF CallOK
    <2> QED BY <1>2, <1>4, <2>1, <2>4, SteadyHold
  <1> QED BY <1>1, <1>3, <1>4

LEMMA AdmissionStays ==
    ASSUME RowsOK, NEW k \in Calls, AcquireTenant(k) \/ AcquireSystem(k) \/ UndoAdmission(k)
    PROVE  RowsOK' /\ Grows
  <1>1. PICK c : c = call[k]
    OBVIOUS
  <1>2. c.at \in Stages /\ CallOK(c)
    BY <1>1 DEF AcquireTenant, AcquireSystem, UndoAdmission, At, RowsOK, CallsOK, Stages
  <1>3. IsStart(c) /\ Allowed(c.r) /\ c.r \in Requests
    BY <1>2, StartOK DEF IsStart
  <1>4. Steady
    BY <1>1, <1>3 DEF AcquireTenant, AcquireSystem, UndoAdmission, Steady, Answers
  <1>5. CASE Hold(k, Idle)
    BY <1>4, <1>5, SteadyHold DEF CallOK
  <1>6. CASE \E stage \in Stages : Hold(k, [c EXCEPT !.at = stage])
    <2>1. PICK stage \in Stages : Hold(k, [c EXCEPT !.at = stage])
      BY <1>6
    <2>2. PICK d : d = [c EXCEPT !.at = stage]
      OBVIOUS
    <2>3. IsStart(d) /\ d.r = c.r
      BY <1>3, <2>2 DEF IsStart
    <2>4. CallOK(d)
      BY <1>3, <2>3 DEF CallOK
    <2> QED BY <1>4, <2>1, <2>2, <2>4, SteadyHold
  <1> QED BY <1>1, <1>5, <1>6 DEF AcquireTenant, AcquireSystem, UndoAdmission, Goto, Return, Stages

(* The version a request was bound to is that of its definition.            *)
LEMMA BoundIsRequested ==
    ASSUME RowsOK, NEW r \in Requests, Made(r)
    PROVE  BoundTo(r).version = requests[r].schema
           /\ Saved(requests[r].w, BoundTo(r).version, BoundTo(r).content)
  <1>1. PICK w, n : w = requests[r].w /\ n = requests[r].number
    OBVIOUS
  <1>2. w \in Workflows /\ n \in DOMAIN catalog[w] /\ requests[r].schema = catalog[w][n].schema
    BY <1>1 DEF RowsOK, RequestsOK
  <1>3. /\ n \in DOMAIN bindings[w] /\ catalog[w][n].schema = bindings[w][n].version
        /\ Saved(w, bindings[w][n].version, bindings[w][n].content)
    BY <1>2 DEF RowsOK, PublishedOK
  <1> QED BY <1>1, <1>2, <1>3 DEF BoundTo

LEMMA CreateRunStays ==
    ASSUME RowsOK, NEW k \in Calls, CreateRun(k)
    PROVE  RowsOK' /\ Grows
  <1>1. PICK r : r = call[k].r
    OBVIOUS
  <1>2. /\ r \in Requests /\ Allowed(r) /\ Made(r)
    <2>1. PICK c : c = call[k]
      OBVIOUS
    <2>2. c.at \in Stages /\ CallOK(c)
      BY <2>1 DEF CreateRun, At, RowsOK, CallsOK, Stages
    <2> QED BY <1>1, <2>1, <2>2, StartOK DEF IsStart, Allowed
  <1>3. PICK row : row = [w |-> requests[r].w, version |-> BoundTo(r).version,
                          depth |-> Depth(r), ancestry |-> AncestryOf(r), status |-> "running"]
    OBVIOUS
  <1>4. /\ IsRun(row) /\ row.w = requests[r].w /\ row.version = requests[r].schema
        /\ row.depth = Depth(r) /\ row.ancestry = AncestryOf(r)
    BY <1>2, <1>3, BoundIsRequested DEF IsRun
  <1>5. /\ runs' = Inserted(runs, r, row) /\ Hold(k, Idle)
        /\ UNCHANGED <<versions, bindings, catalog, links>>
        /\ UNCHANGED requests \/ Answer(r, "accepted")
    BY <1>1, <1>3 DEF CreateRun, Return, Published
  <1>6. /\ DOMAIN runs' = DOMAIN runs \cup {r}
        /\ \A q \in DOMAIN runs : runs'[q] = runs[q]
        /\ r \notin DOMAIN runs => runs'[r] = row
    BY <1>5 DEF Inserted
  <1>7. ASSUME NEW q \in Requests
        PROVE  /\ DOMAIN requests' = Requests
               /\ Made(q)' <=> Made(q)
               /\ Made(q) => /\ IsSnapshot(requests[q])' /\ requests'[q].w = requests[q].w
                             /\ requests'[q].number = requests[q].number
                             /\ requests'[q].schema = requests[q].schema
    BY <1>2, <1>5, Answered DEF RowsOK, Answers
  <1>8. Grows
    BY <1>2, <1>5, <1>6, <1>7 DEF Grows, Made
  <1>9. PublishedOK'
    BY <1>5 DEF RowsOK, PublishedOK, Saved
  <1>10. RequestsOK'
    BY <1>2, <1>7, <1>8, RequestsStay DEF RowsOK
  <1>11. LinksOK'
    BY <1>5, <1>8, LinksStay DEF RowsOK
  <1>12. RunsOK'
    <2> SUFFICES ASSUME NEW q \in DOMAIN runs'
                 PROVE  /\ q \in Requests /\ Allowed(q)' /\ IsRun(runs'[q])
                        /\ runs'[q].w = requests'[q].w /\ runs'[q].version = requests'[q].schema
                        /\ runs'[q].depth = Depth(q)' /\ runs'[q].ancestry = AncestryOf(q)'
      BY DEF RunsOK, IsRun
    <2>1. /\ q \in Requests /\ Allowed(q) /\ IsRun(runs'[q])
          /\ runs'[q].w = requests[q].w /\ runs'[q].version = requests[q].schema
          /\ runs'[q].depth = Depth(q) /\ runs'[q].ancestry = AncestryOf(q)
      <3>1. CASE q \in DOMAIN runs
        BY <1>6, <3>1 DEF RowsOK, RunsOK
      <3>2. CASE q \notin DOMAIN runs
        BY <1>2, <1>4, <1>6, <3>2
      <3> QED BY <3>1, <3>2
    <2>2. Allowed(q)' /\ Depth(q)' = Depth(q) /\ AncestryOf(q)' = AncestryOf(q)
      BY <1>8, <2>1, AllowedStays
    <2>3. requests'[q].w = requests[q].w /\ requests'[q].schema = requests[q].schema
      BY <1>7, <2>1 DEF Allowed
    <2> QED BY <2>1, <2>2, <2>3
  <1>13. CallsOK'
    <2>1. CallOK(Idle)'
      BY DEF CallOK
    <2> QED BY <1>5, <1>8, <2>1, HoldsRow DEF RowsOK
  <1> QED BY <1>8, <1>9, <1>10, <1>11, <1>12, <1>13 DEF RowsOK

-----------------------------------------------------------------------------
(* The end of a run: only its status changes.                               *)
LEMMA StatusChanges ==
    ASSUME RowsOK, NEW r \in DOMAIN runs, NEW status,
           runs' = [runs EXCEPT ![r].status = status],
           UNCHANGED <<Published, requests, links>>
    PROVE  Grows /\ PublishedOK' /\ RequestsOK' /\ LinksOK' /\ RunsOK'
  <1>1. UNCHANGED <<versions, bindings, catalog, requests, links>>
    BY DEF Published
  <1>2. PICK x : x = runs[r]
    OBVIOUS
  <1>3. x = [w |-> x.w, version |-> x.version, depth |-> x.depth, ancestry |-> x.ancestry,
             status |-> x.status]
    BY <1>2 DEF RowsOK, RunsOK, IsRun
  <1>4. /\ DOMAIN runs' = DOMAIN runs /\ runs'[r] = [x EXCEPT !.status = status]
        /\ \A q \in DOMAIN runs \ {r} : runs'[q] = runs[q]
    BY <1>2
  <1>5. runs'[r] = [w |-> x.w, version |-> x.version, depth |-> x.depth, ancestry |-> x.ancestry,
                    status |-> status]
    BY <1>3, <1>4
  <1>6. /\ IsRun(runs'[r]) /\ runs'[r].w = x.w /\ runs'[r].version = x.version
        /\ runs'[r].depth = x.depth /\ runs'[r].ancestry = x.ancestry
    BY <1>5 DEF IsRun
  <1>7. Grows
    BY <1>1, <1>2, <1>4, <1>6 DEF Grows, Made
  <1>8. PublishedOK'
    BY <1>1 DEF RowsOK, PublishedOK, Saved
  <1>9. RequestsOK'
    BY <1>1, <1>7, RequestsStay DEF RowsOK, RequestsOK, Made, IsSnapshot
  <1>10. LinksOK'
    BY <1>1, <1>7, LinksStay DEF RowsOK
  <1>11. RunsOK'
    <2>1. \A q \in DOMAIN runs : IsRun(runs[q])'
      BY <1>4, <1>6 DEF RowsOK, RunsOK, IsRun
    <2> QED BY <1>4, <1>7, <2>1, RunsStay DEF RowsOK
  <1> QED BY <1>7, <1>8, <1>9, <1>10, <1>11

LEMMA EndRunStays ==
    ASSUME RowsOK, NEW r \in Requests, EndRun(r)
    PROVE  RowsOK' /\ Grows
  <1>1. Grows /\ PublishedOK' /\ RequestsOK' /\ LinksOK' /\ RunsOK'
    BY StatusChanges DEF EndRun
  <1>2. CallsOK'
    BY <1>1, CallsWait DEF EndRun, RowsOK
  <1> QED BY <1>1, <1>2 DEF RowsOK

LEMMA FinishStays ==
    ASSUME RowsOK, NEW k \in Calls, Finish(k) \/ ReleaseSystem(k)
    PROVE  RowsOK' /\ Grows
  <1>1. Steady
    BY DEF Finish, ReleaseSystem, Steady, Answers
  <1>2. CASE Finish(k)
    <2>1. PICK r \in DOMAIN runs : Hold(k, [at |-> "releaseSystem", r |-> r])
      BY <1>2 DEF Finish
    <2>2. PICK c : c = [at |-> "releaseSystem", r |-> r]
      OBVIOUS
    <2>3. IsFinish(c) /\ c.r = r
      BY <2>2 DEF IsFinish, RowsOK, RunsOK
    <2>4. CallOK(c)
      BY <2>3 DEF CallOK
    <2> QED BY <1>1, <2>1, <2>2, <2>4, SteadyHold
  <1>3. CASE ReleaseSystem(k)
    <2>1. PICK c : c = call[k]
      OBVIOUS
    <2>2. c.at = "releaseSystem" /\ CallOK(c)
      BY <1>3, <2>1 DEF ReleaseSystem, At, RowsOK, CallsOK
    <2>3. IsFinish(c) /\ c.r \in DOMAIN runs
      BY <2>2, FinishOK
    <2>4. PICK d : d = [c EXCEPT !.at = "delivered"]
      OBVIOUS
    <2>5. IsFinish(d) /\ d.r = c.r
      BY <2>3, <2>4 DEF IsFinish
    <2>6. CallOK(d)
      BY <2>3, <2>5 DEF CallOK
    <2>7. Hold(k, d)
      BY <1>3, <2>1, <2>4 DEF ReleaseSystem, Goto
    <2> QED BY <1>1, <2>6, <2>7, SteadyHold
  <1> QED BY <1>2, <1>3

LEMMA RecordDeliveredStays ==
    ASSUME RowsOK, NEW k \in Calls, RecordDelivered(k)
    PROVE  RowsOK' /\ Grows
  <1>1. PICK c : c = call[k]
    OBVIOUS
  <1>2. c.at = "delivered" /\ CallOK(c)
    BY <1>1 DEF RecordDelivered, At, RowsOK, CallsOK
  <1>3. c.r \in DOMAIN runs
    BY <1>2, FinishOK
  <1>4. Grows /\ PublishedOK' /\ RequestsOK' /\ LinksOK' /\ RunsOK'
    BY <1>1, <1>3, StatusChanges DEF RecordDelivered
  <1>5. CallsOK'
    <2>1. CallOK(Idle)' /\ Hold(k, Idle)
      BY DEF CallOK, RecordDelivered, Return
    <2> QED BY <1>4, <2>1, HoldsRow DEF RowsOK
  <1> QED BY <1>4, <1>5 DEF RowsOK

LEMMA DiesStays ==
    ASSUME RowsOK, NEW k \in Calls, Dies(k)
    PROVE  RowsOK' /\ Grows
BY SteadyHold DEF Dies, Steady, Answers, Return, CallOK

LEMMA NextRows ==
    ASSUME RowsOK, [Next]_vars
    PROVE  RowsOK' /\ Grows
  <1>1. ASSUME NEW k \in Calls, Publishing(k) PROVE RowsOK' /\ Grows
    BY <1>1, StartPublishStays, SaveVersionStays, ReadsStay, SaveBindingStays,
       PublishToCatalogStays DEF Publishing
  <1>2. ASSUME NEW k \in Calls, MakingChild(k) PROVE RowsOK' /\ Grows
    BY <1>2, StartChildStays, RecordLinkStays, CommitChildStays DEF MakingChild
  <1>3. ASSUME NEW k \in Calls, Starting(k) PROVE RowsOK' /\ Grows
    BY <1>3, StartRunStays, AdmissionStays, CreateRunStays DEF Starting
  <1>4. ASSUME NEW k \in Calls, Finishing(k) PROVE RowsOK' /\ Grows
    BY <1>4, FinishStays, RecordDeliveredStays DEF Finishing
  <1>5. CASE UNCHANGED vars
    BY <1>5, SteadyWait DEF vars, Steady, Answers, Published
  <1> QED BY <1>1, <1>2, <1>3, <1>4, <1>5, DiesStays, SubmitStays, EndRunStays DEF Next

LEMMA RowsHold == Spec => []RowsOK
  <1>1. RowsOK /\ [Next]_vars => RowsOK'
    BY NextRows
  <1> QED BY <1>1, InitRows, PTL DEF Spec

(* A request runs the workflow version its definition was published with,   *)
(* and the content the binding names, whatever became of the publishers.    *)
THEOREM RunsWhatWasRequestedHolds == Spec => []RunsWhatWasRequested
  <1>1. RowsOK => RunsWhatWasRequested
    <2> SUFFICES ASSUME RowsOK, NEW r \in DOMAIN runs
                 PROVE  /\ runs[r].w = requests[r].w /\ runs[r].version = requests[r].schema
                        /\ versions[runs[r].w][runs[r].version] = BoundTo(r).content
      BY DEF RunsWhatWasRequested
    <2>1. /\ r \in Requests /\ Made(r)
          /\ runs[r].w = requests[r].w /\ runs[r].version = requests[r].schema
      BY DEF RowsOK, RunsOK, Allowed
    <2> QED BY <2>1, BoundIsRequested DEF Saved
  <1> QED BY <1>1, RowsHold, PTL

-----------------------------------------------------------------------------
(* The runs around a run.                                                   *)
NestedRun(r) ==
    /\ Around[r] \subseteq DOMAIN runs /\ IsFiniteSet(Around[r])
    /\ First(r) \in DOMAIN runs
    /\ runs[r].ancestry = {runs[p].w : p \in Around[r]} \cup AncestryOf(First(r))
    /\ runs[r].depth = Cardinality(Around[r]) + Depth(First(r)) /\ Depth(First(r)) \in Nat
Nested == \A r \in DOMAIN runs : NestedRun(r)

(* What a parent knew is what its child was given.                          *)
LEMMA ChildOfRun ==
    ASSUME RowsOK, NEW r \in Requests, Allowed(r), Parent[r] # None
    PROVE  /\ Parent[r] \in DOMAIN runs /\ Depth(r) = runs[Parent[r]].depth + 1
           /\ AncestryOf(r) = runs[Parent[r]].ancestry \cup {runs[Parent[r]].w}
BY DEF RowsOK, RequestsOK, LinksOK, Allowed, Depth, AncestryOf, Ancestry

LEMMA RunIsNotAround ==
    ASSUME RowsOK, NEW p \in DOMAIN runs, NestedRun(p)
    PROVE  p \notin Around[p] /\ \A q \in Around[p] : runs[q].w # runs[p].w
  <1>1. runs[p].w \notin runs[p].ancestry
    BY DEF RowsOK, RunsOK, Allowed
  <1> QED BY <1>1 DEF NestedRun

LEMMA NestedStays ==
    ASSUME RowsOK, Nested, RowsOK', Grows
    PROVE  Nested'
  <1> SUFFICES ASSUME NEW r \in DOMAIN runs' PROVE NestedRun(r)'
    BY DEF Nested
  <1>1. r \in Requests
    BY DEF RowsOK, RunsOK
  <1>2. CASE r \in DOMAIN runs
    <2>1. NestedRun(r)
      BY <1>2 DEF Nested
    <2>2. First(r) \in Requests /\ Allowed(First(r))
      BY <2>1 DEF NestedRun, RowsOK, RunsOK
    <2>3. Depth(First(r))' = Depth(First(r)) /\ AncestryOf(First(r))' = AncestryOf(First(r))
      BY <2>2, AllowedStays
    <2>4. First(r) \in DOMAIN runs' /\ Around[r] \subseteq DOMAIN runs'
      BY <2>1 DEF NestedRun, Grows
    <2>5. {runs'[p].w : p \in Around[r]} = {runs[p].w : p \in Around[r]}
      BY <2>1 DEF NestedRun, Grows
    <2>6. runs'[r].ancestry = runs[r].ancestry /\ runs'[r].depth = runs[r].depth
      BY <1>2 DEF Grows
    <2> QED BY <2>1, <2>3, <2>4, <2>5, <2>6 DEF NestedRun
  <1>3. CASE r \notin DOMAIN runs
    <2>1. Allowed(r)
      BY <1>3 DEF Grows
    <2>2. Depth(r)' = Depth(r) /\ AncestryOf(r)' = AncestryOf(r)
      BY <1>1, <2>1, AllowedStays
    <2>3. runs'[r].depth = Depth(r) /\ runs'[r].ancestry = AncestryOf(r)
      BY <2>2 DEF RowsOK, RunsOK
    <2>4. CASE Parent[r] = None
      <3>1. Around[r] = {} /\ First(r) = r
        <4>1. Around[r] = {}
          BY <1>1, <2>4, AroundIsDefined
        <4>2. {p \in Around[r] \cup {r} : Parent[p] = None} = {r}
          BY <2>4, <4>1
        <4> QED BY <4>1, <4>2 DEF First
      <3>2. Depth(r) \in Nat
        BY <2>4 DEF Depth, RowsOK, LinksOK
      <3>3. IsFiniteSet(Around[r]) /\ Cardinality(Around[r]) = 0
        BY <3>1, FS_EmptySet
      <3>4. {runs'[p].w : p \in Around[r]} = {}
        BY <3>1
      <3> QED BY <2>2, <2>3, <3>1, <3>2, <3>3, <3>4 DEF NestedRun
    <2>5. CASE Parent[r] # None
      <3>1. PICK p : p = Parent[r]
        OBVIOUS
      <3>2. /\ p \in DOMAIN runs /\ Depth(r) = runs[p].depth + 1
            /\ AncestryOf(r) = runs[p].ancestry \cup {runs[p].w}
        BY <1>1, <2>1, <2>5, <3>1, ChildOfRun
      <3>3. NestedRun(p) /\ p \notin Around[p] /\ Around[r] = {p} \cup Around[p]
        BY <1>1, <2>5, <3>1, <3>2, RunIsNotAround, AroundIsDefined DEF Nested
      <3>4. First(r) = First(p)
        <4>1. {q \in Around[r] \cup {r} : Parent[q] = None} = {q \in Around[p] \cup {p} : Parent[q] = None}
          BY <2>5, <3>3
        <4> QED BY <4>1 DEF First
      <3>5. First(p) \in Requests /\ Allowed(First(p))
        BY <3>3 DEF NestedRun, RowsOK, RunsOK
      <3>6. Depth(First(p))' = Depth(First(p)) /\ AncestryOf(First(p))' = AncestryOf(First(p))
        BY <3>5, AllowedStays
      <3>7. /\ IsFiniteSet(Around[r]) /\ Cardinality(Around[p]) \in Nat
            /\ Cardinality(Around[r]) = Cardinality(Around[p]) + 1
        <4>1. IsFiniteSet(Around[p]) /\ Around[r] = Around[p] \cup {p} /\ p \notin Around[p]
          BY <3>3 DEF NestedRun
        <4>2. /\ IsFiniteSet(Around[p] \cup {p}) /\ Cardinality(Around[p]) \in Nat
              /\ Cardinality(Around[p] \cup {p}) = Cardinality(Around[p]) + 1
          BY <4>1, FS_AddElement, FS_CardinalityType
        <4> QED BY <4>1, <4>2
      <3>8. runs'[p].w = runs[p].w /\ p \in DOMAIN runs' /\ Around[r] \subseteq DOMAIN runs'
        BY <3>2, <3>3 DEF Grows, NestedRun
      <3>9. First(p) \in DOMAIN runs'
        BY <3>3 DEF Grows, NestedRun
      <3>10. {runs'[q].w : q \in Around[r]} = {runs[p].w} \cup {runs[q].w : q \in Around[p]}
        BY <3>3, <3>8 DEF Grows, NestedRun
      <3>11. runs'[r].ancestry = {runs'[q].w : q \in Around[r]} \cup AncestryOf(First(r))'
        BY ZenonT(60), <2>3, <3>2, <3>3, <3>4, <3>6, <3>10 DEF NestedRun
      <3>12. runs'[r].depth = Cardinality(Around[r]) + Depth(First(r))' /\ Depth(First(r))' \in Nat
        BY <2>3, <3>2, <3>3, <3>4, <3>6, <3>7 DEF NestedRun
      <3> QED BY <3>4, <3>7, <3>8, <3>9, <3>11, <3>12 DEF NestedRun
    <2> QED BY <2>4, <2>5
  <1> QED BY <1>2, <1>3

(* No workflow runs within a run of itself, and none deeper than the bound: *)
(* what a run inherits is, at each level, what its parent had and was.      *)
THEOREM NothingRunsWithinItselfHolds == Spec => []NothingRunsWithinItself
  <1>1. Init => Nested
    BY DEF Init, NoRows, Nested
  <1>2. RowsOK /\ Nested /\ [Next]_vars => (RowsOK /\ Nested)'
    BY NextRows, NestedStays
  <1>3. RowsOK /\ Nested => NothingRunsWithinItself
    <2> SUFFICES ASSUME RowsOK, Nested, NEW r \in DOMAIN runs
                 PROVE  /\ Around[r] \subseteq DOMAIN runs
                        /\ \A p \in Around[r] : runs[p].w # runs[r].w
                        /\ runs[r].w \notin AncestryOf(First(r))
                        /\ Cardinality(Around[r]) + Depth(First(r)) <= MaxDepth
      BY DEF NothingRunsWithinItself
    <2>1. NestedRun(r)
      BY DEF Nested
    <2>2. \A p \in Around[r] : runs[p].w # runs[r].w
      BY <2>1, RunIsNotAround
    <2>3. runs[r].w \notin runs[r].ancestry /\ runs[r].depth <= MaxDepth
      BY DEF RowsOK, RunsOK, Allowed
    <2> QED BY <2>1, <2>2, <2>3 DEF NestedRun
  <1> QED BY <1>1, <1>2, <1>3, InitRows, PTL DEF Spec

-----------------------------------------------------------------------------
(* The leases.                                                              *)
Scopes == {"tenant", "system"}
Limit(scope) == IF scope = "tenant" THEN TenantRuns ELSE SystemRuns

WithinLimits ==
    /\ leases \subseteq Requests \X Scopes /\ IsFiniteSet(leases)
    /\ \A scope \in Scopes : Cardinality(Held(scope)) <= Limit(scope)

LEMMA HeldIsFinite ==
    ASSUME WithinLimits, NEW scope
    PROVE  IsFiniteSet(Held(scope)) /\ Cardinality(Held(scope)) \in Nat
  <1>1. Held(scope) \subseteq leases
    BY DEF Held
  <1> QED BY <1>1, FS_Subset, FS_CardinalityType DEF WithinLimits

LEMMA FewerLeases ==
    ASSUME WithinLimits, leases' \subseteq leases
    PROVE  WithinLimits'
  <1>1. IsFiniteSet(leases')
    BY FS_Subset DEF WithinLimits
  <1>2. ASSUME NEW scope \in Scopes
        PROVE  Cardinality(Held(scope)') <= Limit(scope)
    <2>1. Held(scope)' \subseteq Held(scope)
      BY DEF Held
    <2>2. IsFiniteSet(Held(scope)) /\ Cardinality(Held(scope)) \in Nat
      BY HeldIsFinite
    <2>3. /\ Cardinality(Held(scope)') <= Cardinality(Held(scope))
          /\ IsFiniteSet(Held(scope)')
      BY <2>1, <2>2, FS_Subset
    <2>4. Cardinality(Held(scope)') \in Nat
      BY <2>3, FS_CardinalityType
    <2>5. Cardinality(Held(scope)) <= Limit(scope) /\ Limit(scope) \in Nat
      BY CompositeBounds DEF WithinLimits, Limit
    <2> QED BY <2>2, <2>3, <2>4, <2>5
  <1> QED BY <1>1, <1>2 DEF WithinLimits, Limit

LEMMA OneMoreLease ==
    ASSUME WithinLimits, NEW r \in Requests, NEW scope \in Scopes,
           Admissible(r, scope, Limit(scope)), leases' = leases \cup {<<r, scope>>}
    PROVE  WithinLimits'
  <1>1. leases' \subseteq Requests \X Scopes /\ IsFiniteSet(leases')
    <2>1. leases' \subseteq Requests \X Scopes
      BY DEF WithinLimits
    <2>2. IsFiniteSet(leases \cup {<<r, scope>>})
      <3>1. IsFiniteSet(leases)
        BY DEF WithinLimits
      <3> QED BY <3>1, FS_AddElement
    <2> QED BY <2>1, <2>2
  <1>2. ASSUME NEW other \in Scopes
        PROVE  Cardinality(Held(other)') <= Limit(other)
    <2>1. IsFiniteSet(Held(other)) /\ Cardinality(Held(other)) <= Limit(other)
      BY HeldIsFinite DEF WithinLimits
    <2>2. CASE other # scope \/ <<r, scope>> \in leases
      <3>1. Held(other)' = Held(other)
        BY <2>2 DEF Held
      <3> QED BY <2>1, <3>1
    <2>3. CASE other = scope /\ <<r, scope>> \notin leases
      <3>1. Held(other)' = Held(other) \cup {<<r, scope>>} /\ <<r, scope>> \notin Held(other)
        BY <2>3 DEF Held
      <3>2. Cardinality(Held(other)') = Cardinality(Held(other)) + 1
        BY <2>1, <3>1, FS_AddElement
      <3> QED BY <2>3, <3>2 DEF Admissible
    <2> QED BY <2>2, <2>3
  <1> QED BY <1>1, <1>2 DEF WithinLimits, Limit

(* What a request holds while it is started, runs and is finished.          *)
Tenant(r) == <<r, "tenant">> \in leases
System(r) == <<r, "system">> \in leases
Starts(c, r) == c.at \in Stages /\ c.r = r
Ends(c, r) == c.at \in {"releaseSystem", "delivered"} /\ c.r = r

LeaseOK(r) ==
    /\ \A j, k \in Calls : Starts(call[j], r) /\ Starts(call[k], r) => j = k
    /\ \A k \in Calls : Starts(call[k], r) =>
         /\ r \notin DOMAIN runs
         /\ Tenant(r) <=> call[k].at # "tenant"
         /\ System(r) <=> call[k].at = "create"
    /\ r \notin DOMAIN runs /\ (\A k \in Calls : ~Starts(call[k], r)) => ~Tenant(r) /\ ~System(r)
    /\ r \in DOMAIN runs /\ runs[r].status = "running" => Tenant(r) /\ System(r)
    /\ r \in DOMAIN runs /\ runs[r].status = "delivered" => ~Tenant(r) /\ ~System(r)
    /\ \A k \in Calls : Ends(call[k], r) =>
         /\ r \in DOMAIN runs /\ runs[r].status \in {"ended", "delivered"} /\ ~Tenant(r)
         /\ call[k].at = "delivered" => ~System(r)

LeasesOK == WithinLimits /\ \A r \in Requests \ disturbed : LeaseOK(r)

(* A step that is not about a request leaves it what it holds.              *)
LEMMA LeaseStays ==
    ASSUME NEW r, LeaseOK(r), Tenant(r)' <=> Tenant(r), System(r)' <=> System(r),
           r \in DOMAIN runs' <=> r \in DOMAIN runs,
           r \in DOMAIN runs => runs'[r].status = runs[r].status,
           \A k \in Calls : (Starts(call[k], r)' <=> Starts(call[k], r))
                            /\ (Ends(call[k], r)' <=> Ends(call[k], r))
                            /\ (Starts(call[k], r) \/ Ends(call[k], r) => call'[k] = call[k])
    PROVE  LeaseOK(r)'
BY DEF LeaseOK

LEMMA ElsewhereStays ==
    ASSUME CallsOK, NEW k \in Calls, NEW d, Hold(k, d), NEW r, LeaseOK(r),
           ~Starts(call[k], r), ~Ends(call[k], r), ~Starts(d, r), ~Ends(d, r),
           Tenant(r)' <=> Tenant(r), System(r)' <=> System(r),
           r \in DOMAIN runs' <=> r \in DOMAIN runs,
           r \in DOMAIN runs => runs'[r].status = runs[r].status
    PROVE  LeaseOK(r)'
  <1>1. call'[k] = d /\ \A j \in Calls \ {k} : call'[j] = call[j]
    BY DEF CallsOK, Hold
  <1>2. ASSUME NEW j \in Calls
        PROVE  /\ (Starts(call[j], r)' <=> Starts(call[j], r))
               /\ (Ends(call[j], r)' <=> Ends(call[j], r))
               /\ (Starts(call[j], r) \/ Ends(call[j], r) => call'[j] = call[j])
    BY <1>1 DEF Starts, Ends
  <1> QED BY <1>2, LeaseStays

LEMMA InitLeases == Init => LeasesOK
  <1> SUFFICES ASSUME Init PROVE LeasesOK
    OBVIOUS
  <1>1. leases = {} /\ call = [k \in Calls |-> Idle] /\ DOMAIN runs = {}
    BY DEF Init, NoRows
  <1>2. ASSUME NEW r \in Requests PROVE LeaseOK(r)
    BY <1>1 DEF LeaseOK, Starts, Ends, Tenant, System, Stages, Idle
  <1>3. WithinLimits
    <2>1. ASSUME NEW scope \in Scopes PROVE Cardinality(Held(scope)) <= Limit(scope)
      <3>1. Held(scope) = {}
        BY <1>1 DEF Held
      <3> QED BY <3>1, FS_EmptySet, CompositeBounds DEF Limit
    <2> QED BY <1>1, <2>1, FS_EmptySet DEF WithinLimits
  <1> QED BY <1>2, <1>3 DEF LeasesOK

(* Publishing and asking for children are about no lease.                   *)
Busy == Stages \cup {"releaseSystem", "delivered"}

LEMMA UnbusyStays ==
    ASSUME CallsOK, LeasesOK, UNCHANGED <<leases, runs, disturbed>>,
           call' = call \/ \E k \in Calls : \E d : Hold(k, d) /\ call[k].at \notin Busy /\ d.at \notin Busy
    PROVE  LeasesOK'
  <1>1. WithinLimits'
    BY FewerLeases DEF LeasesOK
  <1>2. ASSUME NEW r \in Requests \ disturbed' PROVE LeaseOK(r)'
    <2>1. LeaseOK(r) /\ (Tenant(r)' <=> Tenant(r)) /\ (System(r)' <=> System(r))
      BY DEF LeasesOK, Tenant, System
    <2>2. CASE call' = call
      <3>1. \A k \in Calls : (Starts(call[k], r)' <=> Starts(call[k], r))
                            /\ (Ends(call[k], r)' <=> Ends(call[k], r))
        BY <2>2 DEF Starts, Ends
      <3> QED BY <2>1, <2>2, <3>1, LeaseStays
    <2>3. CASE \E k \in Calls : \E d : Hold(k, d) /\ call[k].at \notin Busy /\ d.at \notin Busy
      <3>1. PICK k, d : k \in Calls /\ Hold(k, d) /\ call[k].at \notin Busy /\ d.at \notin Busy
        BY <2>3
      <3>2. ~Starts(call[k], r) /\ ~Ends(call[k], r) /\ ~Starts(d, r) /\ ~Ends(d, r)
        BY <3>1 DEF Starts, Ends, Busy
      <3> QED BY <2>1, <3>1, <3>2, ElsewhereStays
    <2> QED BY <2>2, <2>3
  <1> QED BY <1>1, <1>2 DEF LeasesOK

LEMMA PublishingLeases ==
    ASSUME RowsOK, LeasesOK, NEW k \in Calls, Publishing(k)
    PROVE  LeasesOK'
  <1> USE DEF Busy, Stages
  <1>1. UNCHANGED <<leases, runs, disturbed>> /\ CallsOK
    BY DEF Publishing, StartPublish, SaveVersion, ListBindings, ReadLatest, SaveBinding,
           PublishToCatalog, RowsOK
  <1>2. PICK c : c = call[k]
    OBVIOUS
  <1>3. CASE StartPublish(k)
    <2>1. PICK d : Hold(k, d) /\ d.at = "saveVersion"
      BY <1>3 DEF StartPublish
    <2> QED BY <1>1, <1>3, <2>1, UnbusyStays DEF StartPublish, At
  <1>4. CASE ~StartPublish(k)
    <2>1. c.at \in {"saveVersion", "listBindings", "readLatest", "saveBinding", "catalog"} /\ CallOK(c)
      BY <1>2, <1>4 DEF Publishing, SaveVersion, ListBindings, ReadLatest, SaveBinding,
         PublishToCatalog, At, RowsOK, CallsOK
    <2>2. c = [at |-> c.at, w |-> c.w, content |-> c.content, type |-> c.type,
               version |-> c.version, number |-> c.number, already |-> c.already]
      BY <2>1, PublisherOK DEF IsPublisher
    <2>3. \E d : Hold(k, d) /\ d.at \notin Busy
      <3>1. CASE Hold(k, Idle)
        BY <3>1 DEF Idle
      <3>2. CASE \E stage \in {"listBindings", "catalog"} : Hold(k, [c EXCEPT !.at = stage])
        <4>1. PICK stage \in {"listBindings", "catalog"} : Hold(k, [c EXCEPT !.at = stage])
          BY <3>2
        <4>2. [c EXCEPT !.at = stage].at = stage
          BY <2>2
        <4> QED BY <4>1, <4>2
      <3>3. CASE \E already, number : Hold(k, [c EXCEPT !.at = "readLatest", !.already = already,
                                                       !.number = number])
        <4>1. PICK already, number : Hold(k, [c EXCEPT !.at = "readLatest", !.already = already,
                                                      !.number = number])
          BY <3>3
        <4>2. [c EXCEPT !.at = "readLatest", !.already = already, !.number = number].at = "readLatest"
          BY <2>2
        <4> QED BY <4>1, <4>2
      <3>4. CASE \E number : Hold(k, [c EXCEPT !.at = "saveBinding", !.number = number])
        <4>1. PICK number : Hold(k, [c EXCEPT !.at = "saveBinding", !.number = number])
          BY <3>4
        <4>2. [c EXCEPT !.at = "saveBinding", !.number = number].at = "saveBinding"
          BY <2>2
        <4> QED BY <4>1, <4>2
      <3>5. CASE SaveVersion(k) \/ SaveBinding(k) \/ PublishToCatalog(k)
        BY <1>2, <3>1, <3>2, <3>5 DEF SaveVersion, SaveBinding, PublishToCatalog, Goto, Return
      <3>6. CASE ListBindings(k)
        BY <1>2, <3>3, <3>6 DEF ListBindings
      <3>7. CASE ReadLatest(k)
        BY <1>2, <3>4, <3>7 DEF ReadLatest
      <3> QED BY <1>4, <3>5, <3>6, <3>7 DEF Publishing
    <2>4. call[k].at \notin Busy
      BY <1>2, <2>1
    <2> QED BY <1>1, <2>3, <2>4, UnbusyStays
  <1> QED BY <1>3, <1>4

LEMMA ChildrenLeases ==
    ASSUME RowsOK, LeasesOK, NEW k \in Calls, MakingChild(k)
    PROVE  LeasesOK'
  <1>1. UNCHANGED <<leases, runs, disturbed>> /\ CallsOK
    BY DEF MakingChild, StartChild, RecordLink, CommitChild, RowsOK
  <1>2. \E d : Hold(k, d) /\ d.at \notin Busy
    <2>1. CASE StartChild(k)
      BY <2>1 DEF StartChild, Busy, Stages
    <2>2. CASE RecordLink(k)
      <3>1. PICK c : c = call[k]
        OBVIOUS
      <3>2. c.at = "link" /\ CallOK(c)
        BY <2>2, <3>1 DEF RecordLink, At, RowsOK, CallsOK
      <3>3. c = [at |-> c.at, r |-> c.r, type |-> c.type]
        BY <3>2, ChildOK DEF IsChild
      <3>4. Hold(k, [c EXCEPT !.at = "commit"]) /\ [c EXCEPT !.at = "commit"].at = "commit"
        BY <2>2, <3>1, <3>3 DEF RecordLink, Goto
      <3> QED BY <3>4 DEF Busy, Stages
    <2>3. CASE CommitChild(k)
      BY <2>3 DEF CommitChild, Return, Idle, Busy, Stages
    <2> QED BY <2>1, <2>2, <2>3 DEF MakingChild
  <1>3. call[k].at \notin Busy
    BY DEF MakingChild, StartChild, RecordLink, CommitChild, At, Busy, Stages
  <1> QED BY <1>1, <1>2, <1>3, UnbusyStays

(* A call that works for one request leaves the others what they hold.      *)
LEMMA OthersStay ==
    ASSUME CallsOK, LeasesOK, NEW k \in Calls, NEW d, Hold(k, d), NEW q \in Requests,
           Starts(call[k], q) \/ Ends(call[k], q) \/ call[k] = Idle,
           Starts(d, q) \/ Ends(d, q) \/ d = Idle,
           \A r \in Requests \ {q} : /\ Tenant(r)' <=> Tenant(r)
                                     /\ System(r)' <=> System(r)
                                     /\ r \in DOMAIN runs' <=> r \in DOMAIN runs
                                     /\ r \in DOMAIN runs => runs'[r].status = runs[r].status,
           disturbed \subseteq disturbed'
    PROVE  \A r \in Requests \ disturbed' : r # q => LeaseOK(r)'
  <1> SUFFICES ASSUME NEW r \in Requests \ disturbed', r # q PROVE LeaseOK(r)'
    OBVIOUS
  <1>1. LeaseOK(r)
    BY DEF LeasesOK
  <1>2. ~Starts(call[k], r) /\ ~Ends(call[k], r) /\ ~Starts(d, r) /\ ~Ends(d, r)
    BY DEF Starts, Ends, Idle, Stages
  <1> QED BY <1>1, <1>2, ElsewhereStays

(* What a call that starts, or finishes, a run works for.                   *)
LEMMA StartingCall ==
    ASSUME RowsOK, NEW k \in Calls, call[k].at \in Stages
    PROVE  call[k].r \in Requests /\ call[k] = [at |-> call[k].at, r |-> call[k].r]
           /\ Starts(call[k], call[k].r)
  <1>1. PICK c : c = call[k]
    OBVIOUS
  <1>2. IsStart(c)
    BY <1>1, StartOK DEF RowsOK, CallsOK
  <1> QED BY <1>1, <1>2 DEF IsStart, Starts

LEMMA FinishingCall ==
    ASSUME RowsOK, NEW k \in Calls, call[k].at \in {"releaseSystem", "delivered"}
    PROVE  call[k].r \in Requests /\ call[k] = [at |-> call[k].at, r |-> call[k].r]
           /\ Ends(call[k], call[k].r) /\ call[k].r \in DOMAIN runs
  <1>1. PICK c : c = call[k]
    OBVIOUS
  <1>2. IsFinish(c) /\ c.r \in DOMAIN runs
    BY <1>1, FinishOK DEF RowsOK, CallsOK
  <1> QED BY <1>1, <1>2 DEF IsFinish, Ends

LEMMA StartRunLeases ==
    ASSUME RowsOK, LeasesOK, NEW k \in Calls, StartRun(k)
    PROVE  LeasesOK'
  <1>1. UNCHANGED <<leases, runs>> /\ CallsOK /\ WithinLimits' /\ call[k].at = "idle"
    BY FewerLeases DEF StartRun, RowsOK, LeasesOK, At
  <1>2. CASE UNCHANGED <<call, disturbed>>
    BY <1>1, <1>2, UnbusyStays
  <1>3. CASE ~UNCHANGED <<call, disturbed>>
    <2>1. PICK q \in Requests :
            /\ q \notin DOMAIN runs /\ Hold(k, [at |-> "tenant", r |-> q])
            /\ disturbed' = IF StartsOf(q) = {} THEN disturbed ELSE disturbed \cup {q}
      BY <1>3 DEF StartRun
    <2>2. PICK d : d = [at |-> "tenant", r |-> q]
      OBVIOUS
    <2>3. Hold(k, d) /\ Starts(d, q) /\ d.at = "tenant" /\ ~Ends(d, q)
      BY <2>1, <2>2 DEF Starts, Ends, Stages
    <2>4. call'[k] = d /\ \A j \in Calls \ {k} : call'[j] = call[j]
      BY <1>1, <2>3 DEF Hold, CallsOK
    <2>5. ASSUME NEW r \in Requests \ disturbed' PROVE LeaseOK(r)'
      <3>1. LeaseOK(r) /\ (Tenant(r)' <=> Tenant(r)) /\ (System(r)' <=> System(r))
        BY <1>1, <2>1 DEF LeasesOK, Tenant, System
      <3>2. ~Starts(call[k], r) /\ ~Ends(call[k], r)
        BY <1>1 DEF Starts, Ends, Stages
      <3>3. CASE r # q
        <4>1. ~Starts(d, r) /\ ~Ends(d, r)
          BY <2>2, <3>3 DEF Starts, Ends
        <4> QED BY <1>1, <2>3, <3>1, <3>2, <4>1, ElsewhereStays
      <3>4. CASE r = q
        <4>1. \A j \in Calls : ~Starts(call[j], r)
          BY <2>1, <2>5, <3>4 DEF StartsOf, Starts, Stages
        <4>2. ~Tenant(r) /\ ~System(r) /\ r \notin DOMAIN runs
          BY <2>1, <3>1, <3>4, <4>1 DEF LeaseOK
        <4>3. \A j \in Calls : ~Ends(call[j], r)
          BY <3>1, <4>2 DEF LeaseOK
        <4>4. \A j \in Calls : Starts(call'[j], r) => j = k
          BY <2>4, <4>1
        <4>5. \A j \in Calls : ~Ends(call'[j], r)
          BY <2>3, <2>4, <3>4, <4>3
        <4>6. ~Tenant(r)' /\ ~System(r)' /\ r \notin DOMAIN runs'
          BY <1>1, <3>1, <4>2
        <4>7. Starts(call'[k], r) /\ call'[k].at = "tenant"
          BY <2>3, <2>4, <3>4
        <4> QED BY <4>4, <4>5, <4>6, <4>7 DEF LeaseOK, Starts, Ends
      <3> QED BY <3>3, <3>4
    <2> QED BY <1>1, <2>5 DEF LeasesOK
  <1> QED BY <1>2, <1>3

LEMMA AcquireTenantLeases ==
    ASSUME RowsOK, LeasesOK, NEW k \in Calls, AcquireTenant(k)
    PROVE  LeasesOK'
  <1>1. call[k].at = "tenant" /\ UNCHANGED <<runs, disturbed>> /\ CallsOK
    BY DEF AcquireTenant, At, RowsOK
  <1>2. PICK q : q = call[k].r
    OBVIOUS
  <1>3. q \in Requests /\ call[k] = [at |-> "tenant", r |-> q] /\ Starts(call[k], q)
    BY <1>1, <1>2, StartingCall DEF Stages
  <1>4. PICK d : /\ Hold(k, d)
                 /\ \/ /\ d = [at |-> "system", r |-> q] /\ leases' = leases \cup {<<q, "tenant">>}
                       /\ Admissible(q, "tenant", TenantRuns)
                    \/ d = Idle /\ leases' = leases
    BY <1>2, <1>3 DEF AcquireTenant, Goto, Return
  <1>5. call'[k] = d /\ \A j \in Calls \ {k} : call'[j] = call[j]
    BY <1>1, <1>4 DEF Hold, CallsOK
  <1>6. WithinLimits'
    BY <1>3, <1>4, OneMoreLease, FewerLeases DEF LeasesOK, Limit, Scopes
  <1>7. \A r \in Requests \ disturbed' : r # q => LeaseOK(r)'
    BY <1>1, <1>3, <1>4, OthersStay DEF Tenant, System, Starts, Stages
  <1>8. ASSUME q \notin disturbed' PROVE LeaseOK(q)'
    <2>1. LeaseOK(q)
      BY <1>1, <1>3, <1>8 DEF LeasesOK
    <2>2. /\ q \notin DOMAIN runs /\ ~Tenant(q) /\ ~System(q)
          /\ \A j \in Calls \ {k} : ~Starts(call[j], q)
      BY <1>1, <1>3, <2>1 DEF LeaseOK
    <2>3. \A j \in Calls : ~Ends(call[j], q)
      BY <2>1, <2>2 DEF LeaseOK
    <2>4. /\ ~System(q)' /\ q \notin DOMAIN runs'
          /\ \A j \in Calls \ {k} : ~Starts(call'[j], q) /\ ~Ends(call'[j], q)
      BY <1>1, <1>4, <1>5, <2>2, <2>3 DEF System
    <2>5. CASE d = [at |-> "system", r |-> q] /\ leases' = leases \cup {<<q, "tenant">>}
      <3>1. Tenant(q)' /\ Starts(call'[k], q) /\ ~Ends(call'[k], q) /\ call'[k].at = "system"
        BY <1>5, <2>5 DEF Tenant, Starts, Ends, Stages
      <3> QED BY <2>4, <3>1 DEF LeaseOK, Starts, Ends
    <2>6. CASE d = Idle /\ leases' = leases
      <3>1. ~Tenant(q)' /\ ~Starts(call'[k], q) /\ ~Ends(call'[k], q)
        BY <1>5, <2>2, <2>6 DEF Tenant, Starts, Ends, Stages, Idle
      <3> QED BY <2>4, <3>1 DEF LeaseOK, Starts, Ends
    <2> QED BY <1>4, <2>5, <2>6
  <1> QED BY <1>6, <1>7, <1>8 DEF LeasesOK

LEMMA AcquireSystemLeases ==
    ASSUME RowsOK, LeasesOK, NEW k \in Calls, AcquireSystem(k)
    PROVE  LeasesOK'
  <1>1. call[k].at = "system" /\ UNCHANGED <<runs, disturbed>> /\ CallsOK
    BY DEF AcquireSystem, At, RowsOK
  <1>2. PICK q : q = call[k].r
    OBVIOUS
  <1>3. q \in Requests /\ call[k] = [at |-> "system", r |-> q] /\ Starts(call[k], q)
    BY <1>1, <1>2, StartingCall DEF Stages
  <1>4. PICK d : /\ Hold(k, d)
                 /\ \/ /\ d = [at |-> "create", r |-> q] /\ leases' = leases \cup {<<q, "system">>}
                       /\ Admissible(q, "system", SystemRuns)
                    \/ d = [at |-> "undo", r |-> q] /\ leases' = leases /\ ~System(q)
    BY <1>2, <1>3 DEF AcquireSystem, Goto, System
  <1>5. call'[k] = d /\ \A j \in Calls \ {k} : call'[j] = call[j]
    BY <1>1, <1>4 DEF Hold, CallsOK
  <1>6. WithinLimits'
    BY <1>3, <1>4, OneMoreLease, FewerLeases DEF LeasesOK, Limit, Scopes
  <1>7. \A r \in Requests \ disturbed' : r # q => LeaseOK(r)'
    BY <1>1, <1>3, <1>4, OthersStay DEF Tenant, System, Starts, Stages
  <1>8. ASSUME q \notin disturbed' PROVE LeaseOK(q)'
    <2>1. LeaseOK(q)
      BY <1>1, <1>3, <1>8 DEF LeasesOK
    <2>2. /\ q \notin DOMAIN runs /\ Tenant(q)
          /\ \A j \in Calls \ {k} : ~Starts(call[j], q)
      BY <1>1, <1>3, <2>1 DEF LeaseOK
    <2>3. \A j \in Calls : ~Ends(call[j], q)
      BY <2>1, <2>2 DEF LeaseOK
    <2>4. /\ Tenant(q)' /\ q \notin DOMAIN runs'
          /\ \A j \in Calls \ {k} : ~Starts(call'[j], q) /\ ~Ends(call'[j], q)
      BY <1>1, <1>4, <1>5, <2>2, <2>3 DEF Tenant
    <2>5. CASE d = [at |-> "create", r |-> q] /\ leases' = leases \cup {<<q, "system">>}
      <3>1. System(q)' /\ Starts(call'[k], q) /\ ~Ends(call'[k], q) /\ call'[k].at = "create"
        BY <1>5, <2>5 DEF System, Starts, Ends, Stages
      <3> QED BY <2>4, <3>1 DEF LeaseOK, Starts, Ends
    <2>6. CASE d = [at |-> "undo", r |-> q] /\ leases' = leases /\ ~System(q)
      <3>1. ~System(q)' /\ Starts(call'[k], q) /\ ~Ends(call'[k], q) /\ call'[k].at = "undo"
        BY <1>5, <2>6 DEF System, Starts, Ends, Stages
      <3> QED BY <2>4, <3>1 DEF LeaseOK, Starts, Ends
    <2> QED BY <1>4, <2>5, <2>6
  <1> QED BY <1>6, <1>7, <1>8 DEF LeasesOK

LEMMA UndoAdmissionLeases ==
    ASSUME RowsOK, LeasesOK, NEW k \in Calls, UndoAdmission(k)
    PROVE  LeasesOK'
  <1>1. call[k].at = "undo" /\ UNCHANGED <<runs, disturbed>> /\ CallsOK
    BY DEF UndoAdmission, At, RowsOK
  <1>2. PICK q : q = call[k].r
    OBVIOUS
  <1>3. q \in Requests /\ call[k] = [at |-> "undo", r |-> q] /\ Starts(call[k], q)
    BY <1>1, <1>2, StartingCall DEF Stages
  <1>4. Hold(k, Idle) /\ leases' = leases \ {<<q, "tenant">>}
    BY <1>2 DEF UndoAdmission, Return, Undone
  <1>5. call'[k] = Idle /\ \A j \in Calls \ {k} : call'[j] = call[j]
    BY <1>1, <1>4 DEF Hold, CallsOK
  <1>6. WithinLimits'
    BY <1>4, FewerLeases DEF LeasesOK
  <1>7. \A r \in Requests \ disturbed' : r # q => LeaseOK(r)'
    BY <1>1, <1>3, <1>4, OthersStay DEF Tenant, System
  <1>8. ASSUME q \notin disturbed' PROVE LeaseOK(q)'
    <2>1. LeaseOK(q)
      BY <1>1, <1>3, <1>8 DEF LeasesOK
    <2>2. /\ q \notin DOMAIN runs /\ ~System(q)
          /\ \A j \in Calls \ {k} : ~Starts(call[j], q)
      BY <1>1, <1>3, <2>1 DEF LeaseOK
    <2>3. \A j \in Calls : ~Ends(call[j], q)
      BY <2>1, <2>2 DEF LeaseOK
    <2>4. /\ ~Tenant(q)' /\ ~System(q)' /\ q \notin DOMAIN runs'
          /\ \A j \in Calls \ {k} : ~Starts(call'[j], q) /\ ~Ends(call'[j], q)
      BY <1>1, <1>4, <1>5, <2>2, <2>3 DEF System, Tenant
    <2>5. ~Starts(call'[k], q) /\ ~Ends(call'[k], q)
      BY <1>5 DEF Starts, Ends, Stages, Idle
    <2> QED BY <2>4, <2>5 DEF LeaseOK, Starts, Ends
  <1> QED BY <1>6, <1>7, <1>8 DEF LeasesOK

LEMMA CreateRunLeases ==
    ASSUME RowsOK, LeasesOK, NEW k \in Calls, CreateRun(k)
    PROVE  LeasesOK'
  <1>1. call[k].at = "create" /\ UNCHANGED <<leases, disturbed>> /\ CallsOK /\ Hold(k, Idle)
    BY DEF CreateRun, At, RowsOK, Return
  <1>2. PICK q : q = call[k].r
    OBVIOUS
  <1>3. q \in Requests /\ call[k] = [at |-> "create", r |-> q] /\ Starts(call[k], q)
    BY <1>1, <1>2, StartingCall DEF Stages
  <1>4. /\ DOMAIN runs' = DOMAIN runs \cup {q} /\ \A r \in DOMAIN runs : runs'[r] = runs[r]
        /\ q \notin DOMAIN runs => runs'[q].status = "running"
    BY <1>2 DEF CreateRun, Inserted
  <1>5. call'[k] = Idle /\ \A j \in Calls \ {k} : call'[j] = call[j]
    BY <1>1 DEF Hold, CallsOK
  <1>6. WithinLimits'
    BY <1>1, FewerLeases DEF LeasesOK
  <1>7. \A r \in Requests \ disturbed' : r # q => LeaseOK(r)'
    BY <1>1, <1>3, <1>4, OthersStay DEF Tenant, System
  <1>8. ASSUME q \notin disturbed' PROVE LeaseOK(q)'
    <2>1. LeaseOK(q)
      BY <1>1, <1>3, <1>8 DEF LeasesOK
    <2>2. /\ q \notin DOMAIN runs /\ Tenant(q) /\ System(q)
          /\ \A j \in Calls \ {k} : ~Starts(call[j], q)
      BY <1>1, <1>3, <2>1 DEF LeaseOK
    <2>3. \A j \in Calls : ~Ends(call[j], q)
      BY <2>1, <2>2 DEF LeaseOK
    <2>4. /\ Tenant(q)' /\ System(q)' /\ q \in DOMAIN runs' /\ runs'[q].status = "running"
          /\ \A j \in Calls \ {k} : ~Starts(call'[j], q) /\ ~Ends(call'[j], q)
      BY <1>1, <1>4, <1>5, <2>2, <2>3 DEF System, Tenant
    <2>5. ~Starts(call'[k], q) /\ ~Ends(call'[k], q)
      BY <1>5 DEF Starts, Ends, Stages, Idle
    <2> QED BY <2>4, <2>5 DEF LeaseOK, Starts, Ends
  <1> QED BY <1>6, <1>7, <1>8 DEF LeasesOK

LEMMA EndRunLeases ==
    ASSUME RowsOK, LeasesOK, NEW q \in Requests, EndRun(q)
    PROVE  LeasesOK'
  <1>1. /\ q \in DOMAIN runs /\ runs[q].status = "running" /\ UNCHANGED <<leases, call, disturbed>>
        /\ runs' = [runs EXCEPT ![q].status = "ended"]
    BY DEF EndRun
  <1>2. /\ DOMAIN runs' = DOMAIN runs /\ runs'[q].status = "ended"
        /\ \A r \in DOMAIN runs \ {q} : runs'[r] = runs[r]
    <2>1. PICK x : x = runs[q]
      OBVIOUS
    <2>2. x = [w |-> x.w, version |-> x.version, depth |-> x.depth, ancestry |-> x.ancestry,
               status |-> x.status]
      BY <1>1, <2>1 DEF RowsOK, RunsOK, IsRun
    <2>3. runs'[q] = [x EXCEPT !.status = "ended"]
      BY <1>1, <2>1
    <2> QED BY <1>1, <2>2, <2>3
  <1>3. WithinLimits'
    BY <1>1, FewerLeases DEF LeasesOK
  <1>4. ASSUME NEW r \in Requests \ disturbed' PROVE LeaseOK(r)'
    <2>1. LeaseOK(r)
      BY <1>1 DEF LeasesOK
    <2>2. CASE r # q
      <3>1. \A k \in Calls : (Starts(call[k], r)' <=> Starts(call[k], r))
                            /\ (Ends(call[k], r)' <=> Ends(call[k], r)) /\ call'[k] = call[k]
        BY <1>1 DEF Starts, Ends
      <3>2. (Tenant(r)' <=> Tenant(r)) /\ (System(r)' <=> System(r))
        BY <1>1 DEF Tenant, System
      <3> QED BY <1>2, <2>1, <2>2, <3>1, <3>2, LeaseStays
    <2>3. CASE r = q
      <3>1. \A k \in Calls : ~Starts(call[k], q) /\ ~Ends(call[k], q)
        BY <1>1, <2>1, <2>3 DEF LeaseOK
      <3>2. \A k \in Calls : ~Starts(call'[k], q) /\ ~Ends(call'[k], q)
        BY <1>1, <3>1
      <3> QED BY <1>1, <1>2, <2>3, <3>2 DEF LeaseOK, Starts, Ends
    <2> QED BY <2>2, <2>3
  <1> QED BY <1>3, <1>4 DEF LeasesOK

(* One lease after the other is released.                                   *)
LEMMA FinishLeases ==
    ASSUME RowsOK, LeasesOK, NEW k \in Calls, Finish(k)
    PROVE  LeasesOK'
  <1>1. PICK q \in DOMAIN runs :
          /\ runs[q].status = "ended" /\ leases' = leases \ {<<q, "tenant">>}
          /\ Hold(k, [at |-> "releaseSystem", r |-> q])
    BY DEF Finish
  <1>2. /\ call[k].at = "idle" /\ UNCHANGED <<runs, disturbed>> /\ CallsOK /\ q \in Requests
        /\ call[k] = Idle
    <2>1. PICK c : c = call[k]
      OBVIOUS
    <2>2. c.at = "idle" /\ CallOK(c)
      BY <2>1 DEF Finish, At, RowsOK, CallsOK
    <2>3. c = Idle
      BY <2>2 DEF CallOK, IsPublisher, IsChild, IsStart, IsFinish, Stages
    <2> QED BY <2>1, <2>2, <2>3 DEF Finish, RowsOK, RunsOK
  <1>3. PICK d : d = [at |-> "releaseSystem", r |-> q]
    OBVIOUS
  <1>4. Hold(k, d) /\ Ends(d, q) /\ ~Starts(d, q) /\ d.at = "releaseSystem"
    BY <1>1, <1>3 DEF Ends, Starts, Stages
  <1>5. call'[k] = d /\ \A j \in Calls \ {k} : call'[j] = call[j]
    BY <1>2, <1>4 DEF Hold, CallsOK
  <1>6. WithinLimits'
    BY <1>1, FewerLeases DEF LeasesOK
  <1>7. \A r \in Requests \ disturbed' : r # q => LeaseOK(r)'
    BY <1>1, <1>2, <1>4, OthersStay DEF Tenant, System
  <1>8. ASSUME q \notin disturbed' PROVE LeaseOK(q)'
    <2>1. LeaseOK(q)
      BY <1>2, <1>8 DEF LeasesOK
    <2>2. /\ \A j \in Calls : ~Starts(call[j], q)
          /\ \A j \in Calls : Ends(call[j], q) /\ call[j].at = "delivered" => ~System(q)
      BY <2>1 DEF LeaseOK
    <2>3. ~Tenant(q)' /\ (System(q)' <=> System(q)) /\ q \in DOMAIN runs' /\ runs'[q].status = "ended"
      BY <1>1, <1>2 DEF Tenant, System
    <2>4. /\ \A j \in Calls : ~Starts(call'[j], q)
          /\ \A j \in Calls : Ends(call'[j], q) /\ call'[j].at = "delivered" => ~System(q)'
      BY <1>4, <1>5, <2>2, <2>3
    <2> QED BY <2>3, <2>4 DEF LeaseOK, Starts, Ends
  <1> QED BY <1>6, <1>7, <1>8 DEF LeasesOK

LEMMA ReleaseSystemLeases ==
    ASSUME RowsOK, LeasesOK, NEW k \in Calls, ReleaseSystem(k)
    PROVE  LeasesOK'
  <1>1. call[k].at = "releaseSystem" /\ UNCHANGED <<runs, disturbed>> /\ CallsOK
    BY DEF ReleaseSystem, At, RowsOK
  <1>2. PICK q : q = call[k].r
    OBVIOUS
  <1>3. /\ q \in Requests /\ call[k] = [at |-> "releaseSystem", r |-> q] /\ Ends(call[k], q)
        /\ q \in DOMAIN runs
    BY <1>1, <1>2, FinishingCall
  <1>4. PICK d : d = [at |-> "delivered", r |-> q]
    OBVIOUS
  <1>5. /\ Hold(k, d) /\ Ends(d, q) /\ ~Starts(d, q) /\ d.at = "delivered"
        /\ leases' = leases \ {<<q, "system">>}
    BY <1>2, <1>3, <1>4 DEF ReleaseSystem, Goto, Ends, Starts, Stages
  <1>6. call'[k] = d /\ \A j \in Calls \ {k} : call'[j] = call[j]
    BY <1>1, <1>5 DEF Hold, CallsOK
  <1>7. WithinLimits'
    BY <1>5, FewerLeases DEF LeasesOK
  <1>8. \A r \in Requests \ disturbed' : r # q => LeaseOK(r)'
    BY <1>1, <1>3, <1>5, OthersStay DEF Tenant, System
  <1>9. ASSUME q \notin disturbed' PROVE LeaseOK(q)'
    <2>1. LeaseOK(q)
      BY <1>1, <1>3, <1>9 DEF LeasesOK
    <2>2. /\ \A j \in Calls : ~Starts(call[j], q)
          /\ ~Tenant(q) /\ runs[q].status \in {"ended", "delivered"}
      BY <1>3, <2>1 DEF LeaseOK
    <2>3. /\ ~Tenant(q)' /\ ~System(q)' /\ q \in DOMAIN runs'
          /\ runs'[q].status \in {"ended", "delivered"}
      BY <1>1, <1>3, <1>5, <2>2 DEF Tenant, System
    <2>4. \A j \in Calls : ~Starts(call'[j], q)
      BY <1>5, <1>6, <2>2
    <2> QED BY <2>3, <2>4 DEF LeaseOK, Starts, Ends
  <1> QED BY <1>7, <1>8, <1>9 DEF LeasesOK

LEMMA RecordDeliveredLeases ==
    ASSUME RowsOK, LeasesOK, NEW k \in Calls, RecordDelivered(k)
    PROVE  LeasesOK'
  <1>1. call[k].at = "delivered" /\ UNCHANGED <<leases, disturbed>> /\ CallsOK /\ Hold(k, Idle)
    BY DEF RecordDelivered, At, RowsOK, Return
  <1>2. PICK q : q = call[k].r
    OBVIOUS
  <1>3. /\ q \in Requests /\ call[k] = [at |-> "delivered", r |-> q] /\ Ends(call[k], q)
        /\ q \in DOMAIN runs
    BY <1>1, <1>2, FinishingCall
  <1>4. /\ DOMAIN runs' = DOMAIN runs /\ runs'[q].status = "delivered"
        /\ \A r \in DOMAIN runs \ {q} : runs'[r] = runs[r]
    <2>1. PICK x : x = runs[q]
      OBVIOUS
    <2>2. x = [w |-> x.w, version |-> x.version, depth |-> x.depth, ancestry |-> x.ancestry,
               status |-> x.status]
      BY <1>3, <2>1 DEF RowsOK, RunsOK, IsRun
    <2>3. runs' = [runs EXCEPT ![q].status = "delivered"]
      BY <1>2 DEF RecordDelivered
    <2>4. runs'[q] = [x EXCEPT !.status = "delivered"]
      BY <1>3, <2>1, <2>3
    <2> QED BY <1>3, <2>2, <2>3, <2>4
  <1>5. call'[k] = Idle /\ \A j \in Calls \ {k} : call'[j] = call[j]
    BY <1>1 DEF Hold, CallsOK
  <1>6. WithinLimits'
    BY <1>1, FewerLeases DEF LeasesOK
  <1>7. \A r \in Requests \ disturbed' : r # q => LeaseOK(r)'
    BY <1>1, <1>3, <1>4, OthersStay DEF Tenant, System
  <1>8. ASSUME q \notin disturbed' PROVE LeaseOK(q)'
    <2>1. LeaseOK(q)
      BY <1>1, <1>3, <1>8 DEF LeasesOK
    <2>2. (\A j \in Calls : ~Starts(call[j], q)) /\ ~Tenant(q) /\ ~System(q)
      BY <1>1, <1>3, <2>1 DEF LeaseOK
    <2>3. ~Tenant(q)' /\ ~System(q)' /\ q \in DOMAIN runs' /\ runs'[q].status = "delivered"
      BY <1>1, <1>3, <1>4, <2>2 DEF Tenant, System
    <2>4. \A j \in Calls : ~Starts(call'[j], q)
      BY <1>5, <2>2 DEF Starts, Stages, Idle
    <2> QED BY <2>3, <2>4 DEF LeaseOK, Starts, Ends
  <1> QED BY <1>6, <1>7, <1>8 DEF LeasesOK

LEMMA DiesLeases ==
    ASSUME RowsOK, LeasesOK, NEW k \in Calls, Dies(k)
    PROVE  LeasesOK'
  <1>1. /\ UNCHANGED <<leases, runs>> /\ CallsOK /\ Hold(k, Idle)
        /\ disturbed' = disturbed \cup {r \in Requests : k \in StartsOf(r)}
    BY DEF Dies, RowsOK, Return
  <1>2. call'[k] = Idle /\ \A j \in Calls \ {k} : call'[j] = call[j]
    BY <1>1 DEF Hold, CallsOK
  <1>3. WithinLimits'
    BY <1>1, FewerLeases DEF LeasesOK
  <1>4. ASSUME NEW r \in Requests \ disturbed' PROVE LeaseOK(r)'
    <2>1. LeaseOK(r) /\ (Tenant(r)' <=> Tenant(r)) /\ (System(r)' <=> System(r))
      BY <1>1 DEF LeasesOK, Tenant, System
    <2>2. ~Starts(call[k], r)
      BY <1>1 DEF StartsOf, Starts, Stages
    <2>3. ~Starts(call'[k], r) /\ ~Ends(call'[k], r)
      BY <1>2 DEF Starts, Ends, Stages, Idle
    <2>4. \A j \in Calls : /\ Starts(call'[j], r) => Starts(call[j], r) /\ call'[j] = call[j]
                           /\ Ends(call'[j], r) => Ends(call[j], r) /\ call'[j] = call[j]
      BY <1>2, <2>3
    <2>5. (\A j \in Calls : ~Starts(call'[j], r)) => \A j \in Calls : ~Starts(call[j], r)
      BY <1>2, <2>2
    <2> QED BY <1>1, <2>1, <2>4, <2>5 DEF LeaseOK, Starts, Ends
  <1> QED BY <1>3, <1>4 DEF LeasesOK

(* The quotas are kept, and a run that nothing has disturbed holds its      *)
(* leases until its parent knows its end.                                   *)
THEOREM QuotasFollowRunsHolds == Spec => []QuotasFollowRuns
  <1>1. RowsOK /\ LeasesOK /\ [Next]_vars => (RowsOK /\ LeasesOK)'
    <2> SUFFICES ASSUME RowsOK, LeasesOK, [Next]_vars PROVE RowsOK' /\ LeasesOK'
      OBVIOUS
    <2>1. RowsOK'
      BY NextRows
    <2>2. ASSUME NEW k \in Calls, Starting(k) PROVE LeasesOK'
      BY <2>2, StartRunLeases, AcquireTenantLeases, AcquireSystemLeases, UndoAdmissionLeases,
         CreateRunLeases DEF Starting
    <2>3. ASSUME NEW k \in Calls, Finishing(k) PROVE LeasesOK'
      BY <2>3, FinishLeases, ReleaseSystemLeases, RecordDeliveredLeases DEF Finishing
    <2>4. ASSUME NEW r \in Requests, Submit(r) PROVE LeasesOK'
      BY <2>4, UnbusyStays DEF Submit, RowsOK
    <2>5. CASE UNCHANGED vars
      <3>1. call' = call /\ UNCHANGED <<leases, runs, disturbed>> /\ CallsOK
        BY <2>5 DEF vars, RowsOK
      <3> QED BY <2>1, <3>1, UnbusyStays
    <2> QED BY <2>1, <2>2, <2>3, <2>4, <2>5, PublishingLeases, ChildrenLeases, DiesLeases,
               EndRunLeases DEF Next
  <1>2. RowsOK /\ LeasesOK => QuotasFollowRuns
    <2> SUFFICES ASSUME RowsOK, LeasesOK PROVE QuotasFollowRuns
      OBVIOUS
    <2>1. Cardinality(Held("tenant")) <= TenantRuns /\ Cardinality(Held("system")) <= SystemRuns
      BY DEF LeasesOK, WithinLimits, Limit, Scopes
    <2>2. ASSUME NEW r \in Requests \ disturbed, NEW its, its = leases \cap ({r} \X {"tenant", "system"})
          PROVE  /\ r \in DOMAIN runs /\ runs[r].status = "running" => its = {r} \X {"tenant", "system"}
                 /\ r \in DOMAIN runs /\ runs[r].status = "delivered" => its = {}
                 /\ r \notin DOMAIN runs /\ StartsOf(r) = {} => its = {}
      <3>1. LeaseOK(r)
        BY DEF LeasesOK
      <3>2. Tenant(r) /\ System(r) => its = {r} \X {"tenant", "system"}
        BY <2>2 DEF Tenant, System
      <3>3. ~Tenant(r) /\ ~System(r) => its = {}
        BY <2>2 DEF Tenant, System
      <3>4. StartsOf(r) = {} => \A k \in Calls : ~Starts(call[k], r)
        BY DEF StartsOf, Starts, Stages
      <3> QED BY <3>1, <3>2, <3>3, <3>4 DEF LeaseOK
    <2> QED BY <2>1, <2>2 DEF QuotasFollowRuns
  <1> QED BY <1>1, <1>2, InitRows, InitLeases, PTL DEF Spec

-----------------------------------------------------------------------------
(* Schedules: what a sweep and a registration work with.                    *)
SweepSteps == {"idle", "enqueue", "select", "claim", "load", "save", "commit", "finish"}
Finishes == {"none", "pending"} \cup Settled
WorkRecords == [next : {-1} \cup 1..LastSlot, todo : SUBSET (Slots \X Plans), slot : {0} \cup Slots,
                plan : Plans, finish : Finishes]
CallRecords == [step : CallSteps, next : {-1} \cup 1..(LastSlot + 1), definition : Definitions]

TypeInv ==
    /\ now \in 0..LastSlot /\ troubles \in 0..MaxTroubles
    /\ schedule \in Schedules /\ slots \in [Slots -> SlotRows] /\ stored \in [Slots -> Plans]
    /\ calls \in [Registrants -> CallRecords]
    /\ at \in [Sweepers -> SweepSteps] /\ work \in [Sweepers -> WorkRecords]

\* Nobody has the schedule before it is there, and an active one has a cursor.
CursorInv ==
    /\ schedule.status = "active" => schedule.next \in 1..(LastSlot + 1)
    /\ \A r \in Registrants : calls[r].step = "create" => calls[r].next \in 1..(LastSlot + 1)
    /\ schedule.status = "none" => \A r \in Registrants : calls[r].step \notin {"created", "same"}

\* A plan that a sweeper read is the one its slot has, since a slot's plan is written once.
ReadsTruly(w) ==
    /\ at[w] = "enqueue" => work[w].next \in Slots
    /\ \A t \in Slots, p \in Plans : <<t, p>> \in work[w].todo /\ p # NoPlan => slots[t].plan = p
    /\ at[w] \in {"claim", "load", "save", "commit", "finish"} => Slot(w) \in Slots
    /\ at[w] \in {"claim", "load"} /\ work[w].plan # NoPlan => slots[Slot(w)].plan = work[w].plan
    /\ at[w] = "save" => work[w].plan # NoPlan
    /\ at[w] = "commit" => work[w].plan # NoPlan /\ slots[Slot(w)].plan = work[w].plan
    /\ at[w] = "finish" /\ work[w].finish = "accepted" => stored[Slot(w)] # NoPlan

SweepInv == \A w \in Sweepers : ReadsTruly(w)

IInv == TypeInv /\ CursorInv /\ RegistrationsAgree /\ SweepInv /\ OnePlanPerSlot

LEMMA PairIsAPlan ==
    ASSUME NEW type \in {"prepared", "authorization_denied"}, NEW w \in Sweepers
    PROVE  <<type, w>> \in Plans /\ <<type, w>> # NoPlan
BY DEF Plans, NoPlan

THEOREM InitIInv == ScheduleInit => IInv
<1> SUFFICES ASSUME ScheduleInit PROVE IInv
  OBVIOUS
<1> USE ScheduleBounds
<1>1. TypeInv
  BY DEF ScheduleInit, TypeInv, Schedules, SlotRows, Plans, NoSlot, NoPlan, NothingHeld, WorkRecords, CallRecords,
         CallSteps, SweepSteps, Finishes, Slots
<1>2. CursorInv /\ RegistrationsAgree
  BY DEF ScheduleInit, CursorInv, RegistrationsAgree
<1>3. SweepInv
  BY DEF ScheduleInit, SweepInv, ReadsTruly, NothingHeld, Slot
<1>4. OnePlanPerSlot
  BY DEF ScheduleInit, OnePlanPerSlot, NoSlot
<1> QED
  BY <1>1, <1>2, <1>3, <1>4 DEF IInv

-----------------------------------------------------------------------------
(* Plans are written once, in a slot and in the store: what was read of them *)
(* stays true whatever others do.                                           *)
PlansStay ==
    /\ \A t \in Slots : slots[t].plan # NoPlan => slots'[t].plan = slots[t].plan
    /\ \A t \in Slots : stored[t] # NoPlan => stored'[t] # NoPlan

LEMMA SweepsStay ==
    ASSUME TypeInv, PlansStay, NEW v \in Sweepers, ReadsTruly(v), at'[v] = at[v], work'[v] = work[v]
    PROVE  ReadsTruly(v)'
<1> USE DEF Slot
<1>1. (at[v] = "enqueue" => work[v].next \in Slots)'
  BY DEF ReadsTruly
<1>2. (\A t \in Slots, p \in Plans : <<t, p>> \in work[v].todo /\ p # NoPlan => slots[t].plan = p)'
  BY DEF ReadsTruly, PlansStay
<1>3. (at[v] \in {"claim", "load", "save", "commit", "finish"} => Slot(v) \in Slots)'
  BY DEF ReadsTruly
<1>4. (at[v] \in {"claim", "load"} /\ work[v].plan # NoPlan => slots[Slot(v)].plan = work[v].plan)'
  BY DEF ReadsTruly, PlansStay
<1>5. (at[v] = "save" => work[v].plan # NoPlan)'
  BY DEF ReadsTruly
<1>6. (at[v] = "commit" => work[v].plan # NoPlan /\ slots[Slot(v)].plan = work[v].plan)'
  BY DEF ReadsTruly, PlansStay
<1>7. (at[v] = "finish" /\ work[v].finish = "accepted" => stored[Slot(v)] # NoPlan)'
  BY DEF ReadsTruly, PlansStay
<1> QED
  BY <1>1, <1>2, <1>3, <1>4, <1>5, <1>6, <1>7 DEF ReadsTruly

\* A step of one sweeper, or of none.
LEMMA SweepersRead ==
    ASSUME TypeInv, SweepInv, PlansStay, NEW w \in Sweepers, ReadsTruly(w)',
           \A v \in Sweepers \ {w} : at'[v] = at[v] /\ work'[v] = work[v]
    PROVE  SweepInv'
BY SweepsStay DEF SweepInv

LEMMA NobodyMoved ==
    ASSUME TypeInv, SweepInv, PlansStay, UNCHANGED <<at, work>>
    PROVE  SweepInv'
BY SweepsStay DEF SweepInv

LEMMA GoMoves ==
    ASSUME TypeInv, NEW w \in Sweepers, NEW where \in SweepSteps, NEW what \in WorkRecords, Go(w, where, what)
    PROVE  /\ at' \in [Sweepers -> SweepSteps] /\ work' \in [Sweepers -> WorkRecords]
           /\ at'[w] = where /\ work'[w] = what
           /\ \A v \in Sweepers \ {w} : at'[v] = at[v] /\ work'[v] = work[v]
BY DEF TypeInv, Go

LEMMA IdleIsWork == NothingHeld \in WorkRecords
BY DEF NothingHeld, WorkRecords, Plans, Finishes

-----------------------------------------------------------------------------
(* The owner's routes.                                                      *)
LEMMA BeginRegistrationIInv ==
    ASSUME IInv, NEW r \in Registrants, BeginRegistration(r) PROVE IInv'
<1> USE ScheduleBounds DEF IInv
<1>1. TypeInv'
  BY DEF BeginRegistration, TypeInv, CallRecords, CallSteps, AnswerTo
<1>a. \A q \in Registrants : /\ calls'[q].step = "create" => calls'[q].next \in 1..(LastSlot + 1)
                             /\ calls'[q].step \in {"created", "same"} =>
                                   calls[q].step \in {"created", "same"} \/ schedule.status # "none"
  BY DEF BeginRegistration, CursorInv, TypeInv, CallRecords, CallSteps, AnswerTo
<1>2. CursorInv'
  BY <1>a DEF BeginRegistration, CursorInv
<1>3. RegistrationsAgree'
  BY DEF BeginRegistration, RegistrationsAgree, TypeInv, CallRecords, CallSteps, AnswerTo
<1>4. SweepInv'
  BY NobodyMoved DEF BeginRegistration, PlansStay
<1>5. OnePlanPerSlot'
  BY DEF BeginRegistration, OnePlanPerSlot, Slot
<1> QED
  BY <1>1, <1>2, <1>3, <1>4, <1>5

LEMMA RegisterIInv ==
    ASSUME IInv, NEW r \in Registrants, Register(r) PROVE IInv'
<1> USE ScheduleBounds DEF IInv
<1>1. TypeInv'
  BY DEF Register, KeyIsFree, TypeInv, CursorInv, CallRecords, CallSteps, AnswerTo, Schedules
<1>2. CursorInv'
  BY DEF Register, KeyIsFree, CursorInv, TypeInv, CallRecords, CallSteps, AnswerTo
<1>3. RegistrationsAgree'
  BY DEF Register, KeyIsFree, RegistrationsAgree, CursorInv, TypeInv, CallRecords, CallSteps, AnswerTo
<1>4. SweepInv'
  BY NobodyMoved DEF Register, PlansStay
<1>5. OnePlanPerSlot'
  BY DEF Register, OnePlanPerSlot, Slot
<1> QED
  BY <1>1, <1>2, <1>3, <1>4, <1>5

LEMMA StopIInv == ASSUME IInv, Stop PROVE IInv'
<1> USE ScheduleBounds DEF IInv
<1>0. \A t \in Slots : /\ slots'[t].plan = slots[t].plan
                       /\ slots'[t].status = "accepted" => slots[t].status = "accepted"
  BY DEF Stop, TypeInv, SlotRows
<1>a. schedule' \in Schedules
  BY DEF Stop, TypeInv, Schedules
<1>b. slots' \in [Slots -> SlotRows]
  BY DEF Stop, TypeInv, SlotRows, Settled
<1>c. troubles' \in 0..MaxTroubles
  BY DEF Stop, Trouble, TypeInv
<1>1. TypeInv'
  BY <1>a, <1>b, <1>c DEF Stop, Environment, TypeInv
<1>2. CursorInv' /\ RegistrationsAgree'
  BY DEF Stop, Environment, CursorInv, RegistrationsAgree, TypeInv, Schedules
<1>3. SweepInv'
  BY <1>0, NobodyMoved DEF Stop, PlansStay
<1>4. OnePlanPerSlot'
  BY <1>0 DEF Stop, OnePlanPerSlot, SweepInv, ReadsTruly, Slot
<1> QED
  BY <1>1, <1>2, <1>3, <1>4

LEMMA ResumeIInv == ASSUME IInv, ResumeSchedule PROVE IInv'
<1> USE ScheduleBounds DEF IInv
<1>0. PICK read \in 0..now :
         schedule' = [schedule EXCEPT !.status = "active", !.next = read + 1]
  BY Zenon DEF ResumeSchedule
<1>a. schedule' \in Schedules
  <2>1. read + 1 \in 1..(LastSlot + 1) /\ schedule \in Schedules
    BY DEF TypeInv
  <2>2. schedule' = [[schedule EXCEPT !.status = "active"] EXCEPT !.next = read + 1]
    BY <1>0, <2>1 DEF Schedules
  <2>3. [schedule EXCEPT !.status = "active"] \in Schedules
    BY <2>1 DEF Schedules
  <2> QED
    BY <2>1, <2>2, <2>3 DEF Schedules
<1>1. TypeInv'
  BY <1>a DEF ResumeSchedule, Environment, Trouble, TypeInv
<1>b. read + 1 \in 1..(LastSlot + 1) /\ schedule.status # "none"
  BY DEF TypeInv, ResumeSchedule
<1>2. CursorInv' /\ RegistrationsAgree'
  BY <1>0, <1>b DEF ResumeSchedule, Environment, CursorInv, RegistrationsAgree, TypeInv, Schedules
<1>3. SweepInv'
  BY NobodyMoved DEF ResumeSchedule, PlansStay
<1>4. OnePlanPerSlot'
  BY DEF ResumeSchedule, OnePlanPerSlot, Slot
<1> QED
  BY <1>1, <1>2, <1>3, <1>4

-----------------------------------------------------------------------------
(* The sweep.  A sweeper that takes up the earliest slot left, or has none. *)
Moved(w) ==
    /\ at' \in [Sweepers -> SweepSteps] /\ work' \in [Sweepers -> WorkRecords]
    /\ \A v \in Sweepers \ {w} : at'[v] = at[v] /\ work'[v] = work[v]

LEMMA TakesUp ==
    ASSUME TypeInv, PlansStay, NEW w \in Sweepers, NEW open \in SUBSET (Slots \X Plans), TakeUp(w, open),
           \A t \in Slots, p \in Plans : <<t, p>> \in open /\ p # NoPlan => slots[t].plan = p
    PROVE  Moved(w) /\ ReadsTruly(w)'
<1>1. CASE open = {} /\ Go(w, "idle", NothingHeld)
  <2>1. Moved(w) /\ at'[w] = "idle" /\ work'[w] = NothingHeld
    BY <1>1, GoMoves, IdleIsWork DEF SweepSteps, Moved
  <2> QED
    BY <2>1 DEF ReadsTruly, NothingHeld
<1>2. CASE \E slot \in open : 
      Go(w, "claim", [next |-> -1, todo |-> open \ {slot}, slot |-> slot[1], plan |-> slot[2], finish |-> "none"])
  <2>1. PICK slot \in open : 
      Go(w, "claim", [next |-> -1, todo |-> open \ {slot}, slot |-> slot[1], plan |-> slot[2], finish |-> "none"])
    BY <1>2
  <2> DEFINE t == slot[1]
             p == slot[2]
             what == [next |-> -1, todo |-> open \ {slot}, slot |-> t, plan |-> p, finish |-> "none"]
  <2>a. t \in Slots /\ p \in Plans /\ slot = <<t, p>>
    OBVIOUS
  <2>2. Go(w, "claim", what)
    BY <2>1
  <2>3. what \in WorkRecords
    BY <2>a DEF WorkRecords, Finishes
  <2>4. Moved(w) /\ at'[w] = "claim" /\ work'[w] = what
    <3> HIDE DEF what
    <3> QED BY <2>2, <2>3, GoMoves DEF SweepSteps, Moved
  <2> QED
    BY <2>a, <2>4 DEF ReadsTruly, Slot, PlansStay
<1> QED
  BY <1>1, <1>2 DEF TakeUp

\* What a sweeper does to neither the schedule nor the calls.
LEMMA ScheduleStays ==
    ASSUME CursorInv, RegistrationsAgree, UNCHANGED <<schedule, calls>>
    PROVE  CursorInv' /\ RegistrationsAgree'
BY DEF CursorInv, RegistrationsAgree

\* The commits of everyone agree with the slots as soon as everyone reads truly.
LEMMA CommitsAgree ==
    ASSUME SweepInv', \A t \in Slots : /\ stored'[t] # NoPlan => stored'[t] = slots'[t].plan
                                       /\ slots'[t].status = "accepted" => stored'[t] # NoPlan
    PROVE  OnePlanPerSlot'
BY DEF SweepInv, ReadsTruly, OnePlanPerSlot

LEMMA BeginSweepIInv == ASSUME IInv, NEW w \in Sweepers, BeginSweep(w) PROVE IInv'
<1> USE ScheduleBounds DEF IInv
<1>1. PlansStay /\ UNCHANGED <<schedule, calls, now, slots, stored, troubles>>
  BY DEF BeginSweep, Environment, PlansStay
<1>2. Moved(w) /\ ReadsTruly(w)'
  <2>1. CASE schedule.status = "active" /\ schedule.next <= now
    <3> DEFINE what == [NothingHeld EXCEPT !.next = schedule.next]
    <3>1. schedule.next \in Slots
      BY <2>1 DEF CursorInv, TypeInv, Slots
    <3>2. what \in WorkRecords /\ what.next = schedule.next /\ what.todo = {}
      BY <3>1 DEF WorkRecords, NothingHeld, Finishes, Plans, Slots
    <3>3. Go(w, "enqueue", what)
      BY <2>1 DEF BeginSweep
    <3> HIDE DEF what
    <3>4. Moved(w) /\ at'[w] = "enqueue" /\ work'[w] = what
      BY <3>2, <3>3, GoMoves DEF SweepSteps, Moved
    <3> QED
      BY <3>1, <3>2, <3>4 DEF ReadsTruly
  <2>2. CASE ~(schedule.status = "active" /\ schedule.next <= now)
    <3>1. Go(w, "select", NothingHeld)
      BY <2>2 DEF BeginSweep
    <3>2. Moved(w) /\ at'[w] = "select" /\ work'[w] = NothingHeld
      BY <3>1, GoMoves, IdleIsWork DEF SweepSteps, Moved
    <3> QED
      BY <3>2 DEF ReadsTruly, NothingHeld
  <2> QED
    BY <2>1, <2>2
<1>3. SweepInv'
  BY <1>1, <1>2, SweepersRead DEF Moved
<1>4. OnePlanPerSlot'
  BY <1>1, <1>3, CommitsAgree DEF OnePlanPerSlot
<1> QED
  BY <1>1, <1>2, <1>3, <1>4, ScheduleStays DEF TypeInv, Moved

LEMMA EnqueueIInv == ASSUME IInv, NEW w \in Sweepers, Enqueue(w) PROVE IInv'
<1> USE ScheduleBounds DEF IInv
<1> DEFINE next == work[w].next
<1>0. next \in Slots /\ next \in Int
  BY DEF Enqueue, SweepInv, ReadsTruly, Slots
<1>1. UNCHANGED <<calls, now, stored, troubles>>
  BY DEF Enqueue, Environment
<1>2. schedule' \in Schedules /\ CursorInv' /\ RegistrationsAgree'
  <2>1. CASE CursorIs(next)
    <3>1. schedule' = [schedule EXCEPT !.next = next + 1]
      BY <2>1 DEF Enqueue
    <3>2. next + 1 \in 1..(LastSlot + 1)
      BY <1>0, <2>1 DEF CursorIs, CursorInv, Slots, TypeInv
    <3> QED
      BY <1>1, <3>1, <3>2 DEF TypeInv, Schedules, CursorInv, RegistrationsAgree
  <2>2. CASE ~CursorIs(next)
    BY <2>2, <1>1, ScheduleStays DEF Enqueue, TypeInv
  <2> QED
    BY <2>1, <2>2
<1>3. /\ slots' \in [Slots -> SlotRows]
      /\ \A t \in Slots : /\ slots'[t].plan = slots[t].plan
                          /\ slots'[t].status = "accepted" => slots[t].status = "accepted"
  BY <1>0 DEF Enqueue, TypeInv, SlotRows
<1>4. Moved(w) /\ at'[w] = "select" /\ work'[w] = NothingHeld
  BY GoMoves, IdleIsWork DEF SweepSteps, Moved, Enqueue
<1>5. SweepInv'
  <2>1. PlansStay
    BY <1>1, <1>3 DEF PlansStay
  <2>2. ReadsTruly(w)'
    BY <1>4 DEF ReadsTruly, NothingHeld
  <2> QED
    BY <1>4, <2>1, <2>2, SweepersRead DEF Moved
<1>6. OnePlanPerSlot'
  BY <1>1, <1>3, <1>5, CommitsAgree DEF OnePlanPerSlot
<1> QED
  BY <1>1, <1>2, <1>3, <1>4, <1>5, <1>6 DEF TypeInv, Moved

LEMMA SelectIInv == ASSUME IInv, NEW w \in Sweepers, Select(w) PROVE IInv'
<1> USE ScheduleBounds DEF IInv
<1>1. PlansStay /\ UNCHANGED <<schedule, calls, now, slots, stored, troubles>>
  BY DEF Select, Environment, PlansStay
<1>2. Moved(w) /\ ReadsTruly(w)'
  <2> DEFINE open == {t \in Slots : schedule.status = "active" /\ MayClaim(slots[t])}
             pairs == {<<t, slots[t].plan>> : t \in open}
  <2>1. TakeUp(w, pairs)
    BY DEF Select
  <2>2. pairs \in SUBSET (Slots \X Plans)
    BY DEF TypeInv, SlotRows
  <2>3. \A t \in Slots, p \in Plans : <<t, p>> \in pairs /\ p # NoPlan => slots[t].plan = p
    OBVIOUS
  <2> HIDE DEF pairs
  <2> QED
    BY <1>1, <2>1, <2>2, <2>3, TakesUp
<1>3. SweepInv'
  BY <1>1, <1>2, SweepersRead DEF Moved
<1>4. OnePlanPerSlot'
  BY <1>1, <1>3, CommitsAgree DEF OnePlanPerSlot
<1> QED
  BY <1>1, <1>2, <1>3, <1>4, ScheduleStays DEF TypeInv, Moved

\* The next of the slots a sweeper selected.
LEMMA NextIsTaken ==
    ASSUME TypeInv, SweepInv, PlansStay, NEW w \in Sweepers, NextSlot(w)
    PROVE  Moved(w) /\ ReadsTruly(w)'
<1>1. work[w].todo \in SUBSET (Slots \X Plans) /\ ReadsTruly(w)
  BY DEF TypeInv, WorkRecords, SweepInv
<1> QED
  BY <1>1, TakesUp DEF NextSlot, ReadsTruly

\* A failed call leaves the slot, with or without what it wrote.
LEMMA PassesOverTakes ==
    ASSUME TypeInv, SweepInv, PlansStay, NEW w \in Sweepers, NEW written, PassesOver(w, written)
    PROVE  Moved(w) /\ ReadsTruly(w)' /\ troubles' \in 0..MaxTroubles /\ slots' \in {slots, written}
BY NextIsTaken, ScheduleBounds DEF PassesOver, Trouble, TypeInv

LEMMA ClaimIInv == ASSUME IInv, NEW w \in Sweepers, Claim(w) PROVE IInv'
<1> USE ScheduleBounds DEF IInv
<1> DEFINE claimed == [slots EXCEPT ![Slot(w)].status = "running", ![Slot(w)].locked = TRUE]
<1>1. UNCHANGED <<schedule, calls, now, stored>> /\ ReadsTruly(w) /\ Slot(w) \in Slots
  BY DEF Claim, Environment, SweepInv, ReadsTruly
<1>a. slots' \in {slots, claimed}
  BY DEF Claim, PassesOver
<1>2. /\ slots' \in [Slots -> SlotRows]
      /\ \A t \in Slots : /\ slots'[t].plan = slots[t].plan
                          /\ slots'[t].status = "accepted" => slots[t].status = "accepted"
  BY <1>1, <1>a DEF TypeInv, SlotRows
<1>3. PlansStay
  BY <1>1, <1>2 DEF PlansStay
<1>4. Moved(w) /\ ReadsTruly(w)' /\ troubles' \in 0..MaxTroubles
  <2>1. CASE slots' = claimed /\ Go(w, "load", work[w]) /\ UNCHANGED troubles
    <3>1. work[w] \in WorkRecords /\ at[w] = "claim"
      BY DEF Claim, TypeInv
    <3>2. Moved(w) /\ at'[w] = "load" /\ work'[w] = work[w]
      BY <2>1, <3>1, GoMoves DEF SweepSteps, Moved
    <3> QED
      BY <1>1, <1>2, <2>1, <3>1, <3>2 DEF ReadsTruly, Slot, TypeInv
  <2>2. CASE NextSlot(w) /\ UNCHANGED troubles
    BY <2>2, <1>3, NextIsTaken DEF TypeInv
  <2>3. CASE PassesOver(w, claimed)
    <3> HIDE DEF claimed
    <3> QED BY <2>3, <1>3, PassesOverTakes
  <2> QED
    BY <2>1, <2>2, <2>3 DEF Claim
<1>5. SweepInv'
  BY <1>3, <1>4, SweepersRead DEF Moved
<1>6. OnePlanPerSlot'
  BY <1>1, <1>2, <1>5, CommitsAgree DEF OnePlanPerSlot
<1> QED
  BY <1>1, <1>2, <1>4, <1>5, <1>6, ScheduleStays DEF TypeInv, Moved

\* A step to the end of a slot, or to its commit, with the slot it has.
LEMMA EndsASlot ==
    ASSUME TypeInv, SweepInv, PlansStay, NEW w \in Sweepers, NEW status \in Finishes \ {"accepted"},
           at[w] \in {"load", "commit"}, FinishWith(w, status)
    PROVE  Moved(w) /\ ReadsTruly(w)'
<1> DEFINE what == [work[w] EXCEPT !.finish = status]
<1>1. /\ what \in WorkRecords /\ what.finish = status /\ what.todo = work[w].todo /\ what.slot = work[w].slot
      /\ Go(w, "finish", what) /\ ReadsTruly(w)
  BY DEF TypeInv, WorkRecords, FinishWith, SweepInv
<1> HIDE DEF what
<1>2. Moved(w) /\ at'[w] = "finish" /\ work'[w] = what
  BY <1>1, GoMoves DEF SweepSteps, Moved
<1> QED
  BY <1>1, <1>2 DEF ReadsTruly, Slot, PlansStay

LEMMA LoadIInv == ASSUME IInv, NEW w \in Sweepers, Load(w) PROVE IInv'
<1> USE ScheduleBounds DEF IInv
<1>1. UNCHANGED <<schedule, calls, now, slots, stored>> /\ ReadsTruly(w) /\ PlansStay /\ at[w] = "load"
  BY DEF Load, Environment, SweepInv, PlansStay
<1>2. troubles' \in 0..MaxTroubles /\ Moved(w) /\ ReadsTruly(w)'
  <2>1. CASE \E status \in {"failed", "denied", "skipped"} : FinishWith(w, status) /\ UNCHANGED troubles
    BY <1>1, <2>1, EndsASlot DEF Finishes, Settled, TypeInv
  <2>2. CASE work[w].plan # NoPlan /\ Go(w, "commit", work[w]) /\ UNCHANGED troubles
    <3>1. Moved(w) /\ at'[w] = "commit" /\ work'[w] = work[w]
      BY <2>2, GoMoves DEF SweepSteps, Moved, TypeInv
    <3> QED
      BY <1>1, <2>2, <3>1 DEF ReadsTruly, Slot, TypeInv
  <2>3. CASE \E type \in {"prepared", "authorization_denied"} :
               Go(w, "save", [work[w] EXCEPT !.plan = <<type, w>>]) /\ UNCHANGED troubles
    <3>1. PICK type \in {"prepared", "authorization_denied"} : Go(w, "save", [work[w] EXCEPT !.plan = <<type, w>>])
      BY <2>3
    <3> DEFINE plan == <<type, w>>
               what == [work[w] EXCEPT !.plan = plan]
    <3>2. plan \in Plans /\ plan # NoPlan
      BY PairIsAPlan
    <3> HIDE DEF plan
    <3>3. what \in WorkRecords /\ what.plan = plan /\ what.todo = work[w].todo /\ what.slot = work[w].slot
      BY <3>2 DEF TypeInv, WorkRecords
    <3>4. Go(w, "save", what)
      BY <3>1 DEF plan
    <3> HIDE DEF what
    <3>5. Moved(w) /\ at'[w] = "save" /\ work'[w] = what
      BY <3>3, <3>4, GoMoves DEF SweepSteps, Moved
    <3> QED
      BY <1>1, <2>3, <3>2, <3>3, <3>5 DEF ReadsTruly, Slot, TypeInv
  <2>4. CASE \E status \in {"pending", "failed"} : Trouble /\ FinishWith(w, status)
    BY <1>1, <2>4, EndsASlot DEF Finishes, Settled, TypeInv, Trouble
  <2>5. CASE Trouble /\ NextSlot(w)
    BY <1>1, <2>5, NextIsTaken DEF TypeInv, Trouble
  <2> QED
    BY <2>1, <2>2, <2>3, <2>4, <2>5 DEF Load, Prepare
<1>3. SweepInv'
  BY <1>1, <1>2, SweepersRead DEF Moved
<1>4. OnePlanPerSlot'
  BY <1>1, <1>3, CommitsAgree DEF OnePlanPerSlot
<1> QED
  BY <1>1, <1>2, <1>3, <1>4, ScheduleStays DEF TypeInv, Moved

LEMMA SavePreparationIInv == ASSUME IInv, NEW w \in Sweepers, SavePreparation(w) PROVE IInv'
<1> USE ScheduleBounds DEF IInv
<1> DEFINE saved == [slots EXCEPT ![Slot(w)].plan = work[w].plan]
<1>1. /\ UNCHANGED <<schedule, calls, now, stored>> /\ ReadsTruly(w)
      /\ Slot(w) \in Slots /\ work[w].plan \in Plans /\ work[w].plan # NoPlan
  BY DEF SavePreparation, Environment, SweepInv, ReadsTruly, TypeInv, WorkRecords
<1>a. slots' = slots \/ (WithoutPlan(slots[Slot(w)]) /\ slots' = saved)
  BY DEF SavePreparation, PassesOver
<1>2. /\ slots' \in [Slots -> SlotRows]
      /\ \A t \in Slots : /\ slots[t].plan # NoPlan => slots'[t].plan = slots[t].plan
                          /\ slots'[t].status = slots[t].status
  BY <1>1, <1>a DEF WithoutPlan, TypeInv, SlotRows
<1>3. PlansStay
  BY <1>1, <1>2 DEF PlansStay
<1>4. Moved(w) /\ ReadsTruly(w)' /\ troubles' \in 0..MaxTroubles
  <2>1. CASE slots' = saved /\ Go(w, "commit", work[w]) /\ UNCHANGED troubles
    <3>1. work[w] \in WorkRecords
      BY DEF TypeInv
    <3>2. Moved(w) /\ at'[w] = "commit" /\ work'[w] = work[w]
      BY <2>1, <3>1, GoMoves DEF SweepSteps, Moved
    <3>3. slots'[Slot(w)].plan = work[w].plan
      BY <1>1, <2>1 DEF TypeInv, SlotRows
    <3>4. \A t \in Slots, p \in Plans : <<t, p>> \in work[w].todo /\ p # NoPlan => slots'[t].plan = p
      BY <1>1, <1>2 DEF ReadsTruly
    <3> HIDE DEF saved
    <3> QED
      BY <1>1, <2>1, <3>2, <3>3, <3>4 DEF ReadsTruly, Slot, TypeInv
  <2>2. CASE NextSlot(w) /\ UNCHANGED troubles
    BY <2>2, <1>3, NextIsTaken DEF TypeInv
  <2>3. CASE PassesOver(w, saved)
    <3> HIDE DEF saved
    <3> QED BY <2>3, <1>3, PassesOverTakes
  <2> QED
    BY <2>1, <2>2, <2>3 DEF SavePreparation
<1>5. SweepInv'
  BY <1>3, <1>4, SweepersRead DEF Moved
<1>6. OnePlanPerSlot'
  BY <1>1, <1>2, <1>5, CommitsAgree DEF OnePlanPerSlot
<1> QED
  BY <1>1, <1>2, <1>4, <1>5, <1>6, ScheduleStays DEF TypeInv, Moved

LEMMA CommitIInv == ASSUME IInv, NEW w \in Sweepers, Commit(w) PROVE IInv'
<1> USE ScheduleBounds DEF IInv
<1> DEFINE plan == work[w].plan
           kept == IF plan[1] = "authorization_denied" \/ stored[Slot(w)] # NoPlan
                   THEN stored ELSE [stored EXCEPT ![Slot(w)] = plan]
<1>1. /\ UNCHANGED <<schedule, calls, now, slots>> /\ ReadsTruly(w) /\ at[w] = "commit"
      /\ Slot(w) \in Slots /\ plan \in Plans /\ plan # NoPlan /\ slots[Slot(w)].plan = plan
  BY DEF Commit, Environment, SweepInv, ReadsTruly, TypeInv, WorkRecords
<1>2. stored' \in {stored, kept}
  BY DEF Commit
<1>3. /\ stored' \in [Slots -> Plans]
      /\ \A t \in Slots : /\ stored[t] # NoPlan => stored'[t] = stored[t]
                          /\ stored'[t] # NoPlan => stored'[t] = slots'[t].plan
                          /\ slots'[t].status = "accepted" => stored'[t] # NoPlan
  BY <1>1, <1>2 DEF TypeInv, OnePlanPerSlot
<1>4. PlansStay
  BY <1>1, <1>3 DEF PlansStay
<1>5. troubles' \in 0..MaxTroubles /\ Moved(w) /\ ReadsTruly(w)'
  <2>1. CASE plan[1] = "prepared" /\ FinishWith(w, "accepted") /\ UNCHANGED troubles /\ stored' = kept
    <3> DEFINE what == [work[w] EXCEPT !.finish = "accepted"]
    <3>1. /\ what \in WorkRecords /\ what.finish = "accepted" /\ what.todo = work[w].todo /\ what.slot = work[w].slot
          /\ Go(w, "finish", what)
      BY <2>1 DEF TypeInv, WorkRecords, FinishWith, Finishes, Settled
    <3> HIDE DEF what
    <3>2. Moved(w) /\ at'[w] = "finish" /\ work'[w] = what
      BY <3>1, GoMoves DEF SweepSteps, Moved
    <3>3. stored'[Slot(w)] # NoPlan
      BY <1>1, <2>1 DEF TypeInv
    <3>4. \A t \in Slots, p \in Plans : <<t, p>> \in work[w].todo /\ p # NoPlan => slots'[t].plan = p
      BY <1>1 DEF ReadsTruly
    <3> QED
      BY <1>1, <2>1, <3>1, <3>2, <3>3, <3>4 DEF ReadsTruly, Slot, TypeInv
  <2>2. CASE FinishWith(w, "denied") /\ UNCHANGED troubles
    BY <1>1, <1>4, <2>2, EndsASlot DEF Finishes, Settled, TypeInv
  <2>3. CASE \E status \in {"pending", "failed"} : Trouble /\ FinishWith(w, status)
    BY <1>1, <1>4, <2>3, EndsASlot DEF Finishes, Settled, TypeInv, Trouble
  <2> QED
    BY <2>1, <2>2, <2>3 DEF Commit
<1>6. SweepInv'
  BY <1>4, <1>5, SweepersRead DEF Moved
<1>7. OnePlanPerSlot'
  BY <1>3, <1>6, CommitsAgree
<1> QED
  BY <1>1, <1>3, <1>5, <1>6, <1>7, ScheduleStays DEF TypeInv, Moved

LEMMA FinishSlotIInv == ASSUME IInv, NEW w \in Sweepers, FinishSlot(w) PROVE IInv'
<1> USE ScheduleBounds DEF IInv
<1> DEFINE ended == [slots EXCEPT ![Slot(w)].status = work[w].finish, ![Slot(w)].locked = FALSE]
           finished == IF StillRunning(slots[Slot(w)]) THEN ended ELSE slots
<1>1. /\ UNCHANGED <<schedule, calls, now, stored>> /\ ReadsTruly(w) /\ Slot(w) \in Slots
      /\ work[w].finish = "accepted" => stored[Slot(w)] # NoPlan
  BY DEF FinishSlot, Environment, SweepInv, ReadsTruly
<1>a. slots' = slots \/ slots' = ended
  BY DEF FinishSlot, PassesOver
<1>2. /\ slots' \in [Slots -> SlotRows]
      /\ \A t \in Slots : /\ slots'[t].plan = slots[t].plan
                          /\ slots'[t].status = "accepted" => slots[t].status = "accepted" \/ stored[t] # NoPlan
  <2>1. slots \in [Slots -> SlotRows] /\ work[w].finish \in Finishes
    BY DEF TypeInv, WorkRecords
  <2> DEFINE finish == work[w].finish
  <2>2. finish \in Finishes /\ (finish = "accepted" => stored[Slot(w)] # NoPlan)
    BY <1>1, <2>1
  <2>3. slots' = slots \/ slots' = [slots EXCEPT ![Slot(w)].status = finish, ![Slot(w)].locked = FALSE]
    BY <1>a
  <2> HIDE DEF finish
  <2> QED
    BY <1>1, <2>1, <2>2, <2>3 DEF SlotRows, Finishes
<1>3. PlansStay
  BY <1>1, <1>2 DEF PlansStay
<1>4. Moved(w) /\ ReadsTruly(w)' /\ troubles' \in 0..MaxTroubles
  <2> HIDE DEF ended
  <2>1. CASE NextSlot(w) /\ UNCHANGED troubles
    BY <2>1, <1>3, NextIsTaken DEF TypeInv
  <2>2. CASE PassesOver(w, finished)
    <3> HIDE DEF finished
    <3> QED BY <2>2, <1>3, PassesOverTakes
  <2> QED
    BY <2>1, <2>2 DEF FinishSlot, ended
<1>5. SweepInv'
  BY <1>3, <1>4, SweepersRead DEF Moved
<1>6. OnePlanPerSlot'
  BY <1>1, <1>2, <1>5, CommitsAgree DEF OnePlanPerSlot
<1> QED
  BY <1>1, <1>2, <1>4, <1>5, <1>6, ScheduleStays DEF TypeInv, Moved

LEMMA DiesIInv == ASSUME IInv, NEW w \in Sweepers, SweeperDies(w) PROVE IInv'
<1> USE ScheduleBounds DEF IInv
<1>1. PlansStay /\ UNCHANGED <<schedule, calls, now, slots, stored>>
  BY DEF SweeperDies, Environment, PlansStay
<1>2. Moved(w) /\ at'[w] = "idle" /\ work'[w] = NothingHeld
  BY GoMoves, IdleIsWork DEF SweepSteps, Moved, SweeperDies
<1>3. SweepInv'
  <2>1. ReadsTruly(w)'
    BY <1>2 DEF ReadsTruly, NothingHeld
  <2> QED
    BY <1>1, <1>2, <2>1, SweepersRead DEF Moved
<1>4. OnePlanPerSlot'
  BY <1>1, <1>3, CommitsAgree DEF OnePlanPerSlot
<1> QED
  BY <1>1, <1>2, <1>3, <1>4, ScheduleStays DEF TypeInv, Moved, SweeperDies, Trouble

(* External.                                                                *)
LEMMA MinuteIInv == ASSUME IInv, Minute PROVE IInv'
<1> USE ScheduleBounds DEF IInv
<1>1. SweepInv'
  BY NobodyMoved DEF Minute, PlansStay
<1>2. OnePlanPerSlot'
  BY <1>1, CommitsAgree DEF Minute, OnePlanPerSlot
<1> QED
  BY <1>1, <1>2, ScheduleStays DEF Minute, TypeInv

LEMMA LeaseExpiresIInv == ASSUME IInv, LeaseExpires PROVE IInv'
<1> USE ScheduleBounds DEF IInv
<1>1. /\ slots' \in [Slots -> SlotRows]
      /\ \A t \in Slots : slots'[t].plan = slots[t].plan /\ slots'[t].status = slots[t].status
  <2>1. PICK t \in Slots : slots' = [slots EXCEPT ![t].locked = FALSE]
    BY DEF LeaseExpires
  <2> QED
    BY <2>1 DEF TypeInv, SlotRows
<1>2. SweepInv'
  BY <1>1, NobodyMoved DEF LeaseExpires, PlansStay
<1>3. OnePlanPerSlot'
  BY <1>1, <1>2, CommitsAgree DEF LeaseExpires, OnePlanPerSlot
<1> QED
  BY <1>1, <1>2, <1>3, ScheduleStays DEF LeaseExpires, Environment, TypeInv

-----------------------------------------------------------------------------
LEMMA NextIInv == IInv /\ [ScheduleNext]_scheduleVars => IInv'
<1> SUFFICES ASSUME IInv, [ScheduleNext]_scheduleVars PROVE IInv'
  OBVIOUS
<1>1. CASE \E r \in Registrants : BeginRegistration(r) \/ Register(r)
  BY <1>1, BeginRegistrationIInv, RegisterIInv
<1>2. CASE Stop \/ ResumeSchedule
  BY <1>2, StopIInv, ResumeIInv
<1>3. CASE \E w \in Sweepers : BeginSweep(w) \/ Sweeping(w) \/ SweeperDies(w)
  BY <1>3, BeginSweepIInv, EnqueueIInv, SelectIInv, ClaimIInv, LoadIInv, SavePreparationIInv, CommitIInv,
     FinishSlotIInv, DiesIInv DEF Sweeping
<1>4. CASE Minute \/ LeaseExpires
  BY <1>4, MinuteIInv, LeaseExpiresIInv
<1>5. CASE UNCHANGED scheduleVars
  BY <1>5 DEF scheduleVars, IInv, TypeInv, CursorInv, RegistrationsAgree, SweepInv, ReadsTruly, OnePlanPerSlot, Slot
<1> QED
  BY <1>1, <1>2, <1>3, <1>4, <1>5 DEF ScheduleNext

LEMMA Invariance == ScheduleSpec => []IInv
<1> QED
  BY InitIInv, NextIInv, PTL DEF ScheduleSpec

\* However registrations race and sweepers overlap, die or outlive their leases: one call makes
\* the schedule, who is told it is theirs registered what it does, and whoever commits a slot
\* commits the plan its row has, which is the plan its request was stored with.
THEOREM SchedulesStaySound == ScheduleSpec => []SchedulesAreSound
<1>1. IInv => SchedulesAreSound
  BY DEF IInv, TypeInv, SchedulesAreSound, TypeOK, CallRecords
<1> QED
  BY <1>1, Invariance, PTL

-----------------------------------------------------------------------------
(* The steps of slots and of the cursor.                                    *)
SlotStep ==
    /\ \A t \in Slots : slots[t].status \in Settled => slots'[t].status = slots[t].status
    /\ \A t \in Slots : slots[t].status = "none" /\ slots'[t].status # "none" =>
          schedule.status = "active" /\ schedule.next = t /\ schedule'.next = t + 1
    /\ schedule.status = "active" /\ schedule'.status = "active" =>
          \/ schedule'.next = schedule.next \/ ResumeSchedule
          \/ schedule'.next = schedule.next + 1 /\ slots'[schedule.next].status # "none"

LEMMA QuietStep == ASSUME UNCHANGED <<schedule, slots>> PROVE SlotStep
BY DEF SlotStep, Settled

LEMMA OwnersStep ==
    ASSUME IInv, (\E r \in Registrants : BeginRegistration(r) \/ Register(r)) \/ Stop \/ ResumeSchedule
    PROVE  SlotStep
<1>1. ASSUME NEW r \in Registrants, BeginRegistration(r) PROVE SlotStep
  BY <1>1, QuietStep DEF BeginRegistration
<1>2. ASSUME NEW r \in Registrants, Register(r) PROVE SlotStep
  BY <1>2 DEF Register, KeyIsFree, SlotStep, Settled
<1>3. ASSUME Stop PROVE SlotStep
  BY <1>3 DEF Stop, SlotStep, Settled, IInv, TypeInv, Schedules, SlotRows
<1>4. ASSUME ResumeSchedule PROVE SlotStep
  <2>1. UNCHANGED slots
    BY Zenon, <1>4 DEF ResumeSchedule
  <2> QED BY <1>4, <2>1 DEF SlotStep, Settled
<1> QED
  BY <1>1, <1>2, <1>3, <1>4

LEMMA SweepersStep ==
    ASSUME IInv, NEW w \in Sweepers, BeginSweep(w) \/ Sweeping(w) \/ SweeperDies(w) PROVE SlotStep
<1>0. ReadsTruly(w)
  BY DEF IInv, SweepInv
<1>1. ASSUME Enqueue(w) PROVE SlotStep
  <2>1. work[w].next \in Slots
    BY <1>0, <1>1 DEF Enqueue, ReadsTruly
  <2>2. CASE CursorIs(work[w].next)
    <3>1. schedule' = [schedule EXCEPT !.next = work[w].next + 1] /\ schedule.next = work[w].next /\ schedule.status = "active"
      BY <1>1, <2>2 DEF Enqueue, CursorIs
    <3>2. schedule'.next = schedule.next + 1
      BY <3>1 DEF IInv, TypeInv, Schedules
    <3>3. slots' = IF slots[work[w].next].status # "none" THEN slots
                   ELSE [slots EXCEPT ![work[w].next].status = "pending"]
      BY <1>1, <2>2 DEF Enqueue
    <3> QED
      BY <2>1, <3>1, <3>2, <3>3 DEF SlotStep, Settled, IInv, TypeInv, SlotRows
  <2>3. CASE ~CursorIs(work[w].next)
    BY <1>1, <2>3, QuietStep DEF Enqueue
  <2> QED
    BY <2>2, <2>3
<1>2. ASSUME Claim(w) PROVE SlotStep
  <2> DEFINE claimed == [slots EXCEPT ![Slot(w)].status = "running", ![Slot(w)].locked = TRUE]
  <2>1. UNCHANGED schedule /\ Slot(w) \in Slots
    BY <1>0, <1>2 DEF Claim, ReadsTruly
  <2>2. slots' = slots \/ (MayClaim(slots[Slot(w)]) /\ slots' = claimed)
    BY <1>2 DEF Claim, PassesOver
  <2> QED
    BY <2>1, <2>2, QuietStep DEF MayClaim, SlotStep, Settled, IInv, TypeInv, SlotRows
<1>3. ASSUME SavePreparation(w) PROVE SlotStep
  <2> DEFINE saved == [slots EXCEPT ![Slot(w)].plan = work[w].plan]
  <2>1. UNCHANGED schedule /\ Slot(w) \in Slots
    BY <1>0, <1>3 DEF SavePreparation, ReadsTruly
  <2>2. slots' = slots \/ slots' = saved
    BY <1>3 DEF SavePreparation, PassesOver
  <2> QED
    BY <2>1, <2>2, QuietStep DEF SlotStep, Settled, IInv, TypeInv, SlotRows
<1>4. ASSUME FinishSlot(w) PROVE SlotStep
  <2> DEFINE ended == [slots EXCEPT ![Slot(w)].status = work[w].finish, ![Slot(w)].locked = FALSE]
  <2>1. UNCHANGED schedule /\ Slot(w) \in Slots
    BY <1>0, <1>4 DEF FinishSlot, ReadsTruly
  <2>2. slots' = slots \/ (StillRunning(slots[Slot(w)]) /\ slots' = ended)
    BY <1>4 DEF FinishSlot, PassesOver
  <2> QED
    BY <2>1, <2>2, QuietStep DEF StillRunning, SlotStep, Settled, IInv, TypeInv, SlotRows
<1>5. ASSUME BeginSweep(w) \/ Select(w) \/ Load(w) \/ Commit(w) \/ SweeperDies(w) PROVE SlotStep
  BY <1>5, QuietStep DEF BeginSweep, Select, Load, Commit, SweeperDies
<1> QED
  BY <1>1, <1>2, <1>3, <1>4, <1>5 DEF Sweeping

\* The end of a slot is final, whatever a slow sweeper still writes; only the cursor that passes a
\* slot makes it, it passes none it does not make, and only a resumption sets it elsewhere.
THEOREM SlotsStayFinal == ScheduleSpec => SlotsAreFinal
<1>1. IInv /\ [ScheduleNext]_scheduleVars => [SlotStep]_scheduleVars
  <2> SUFFICES ASSUME IInv, ScheduleNext PROVE SlotStep
    OBVIOUS
  <2>1. CASE Minute
    BY <2>1, QuietStep DEF Minute
  <2>2. CASE LeaseExpires
    <3>1. PICK t \in Slots : slots' = [slots EXCEPT ![t].locked = FALSE]
      BY <2>2 DEF LeaseExpires
    <3> QED
      BY <2>2, <3>1 DEF LeaseExpires, SlotStep, IInv, TypeInv, SlotRows
  <2> QED
    BY <2>1, <2>2, OwnersStep, SweepersStep DEF ScheduleNext
<1>2. SlotsAreFinal <=> [][SlotStep]_scheduleVars
  BY DEF SlotsAreFinal, SlotStep
<1> QED
  BY <1>1, <1>2, Invariance, PTL DEF ScheduleSpec
=============================================================================
