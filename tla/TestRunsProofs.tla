--------------------------- MODULE TestRunsProofs ---------------------------
(***************************************************************************)
(* Proofs about TestRuns, for every finite set of entries, every set of    *)
(* calls and attempts, every cap on a batch, and any number of others.     *)
(***************************************************************************)
EXTENDS TestRuns, FiniteSetTheorems, TLAPS

(* A call goes out.                                                        *)
Sends(c, q) ==
  /\ outcome[c] = "idle" /\ q \in Requests
  /\ q.op \in {"create", "report", "complete", "abort"}
  /\ q.op # "create" => q.run \in Runs
  /\ q.op = "create" => Mine = {} /\ Pending("create") = {} /\ q.by = "reporter"
  /\ q.op = "report" => q.run \in Mine /\ q.batch \cap (Acknowledged \cup OnTheWay) = {}
  /\ q.op = "complete" /\ q.by = "reporter" => q.run \in Mine /\ Acknowledged = Entries
  /\ outcome' = [outcome EXCEPT ![c] = "open"]
  /\ request' = [request EXCEPT ![c] = q]
  /\ UNCHANGED <<effects, told, server>>

(* A call is answered: with ok or an error when it is known to have taken  *)
(* effect, and never with ok otherwise.                                    *)
Answered(c, o, a) ==
  /\ outcome[c] = "open" /\ a \in Answers
  /\ o = "applied" => \E t \in Tokens : effects[c] = {t}
  /\ o = "atLeastOnce" => effects[c] # {}
  /\ o = "refused" => effects[c] = {}
  /\ a.said \in (IF o \in {"applied", "atLeastOnce"} THEN {"ok", "error"}
                 ELSE {"error", "nothingWritten"})
  /\ a.said = "ok" /\ request[c].op = "create" =>
       a.run = None \/ \E t \in effects[c] : a.run = <<c, t>>
  /\ a.said = "ok" /\ request[c].op # "create" => a.run = request[c].run
  /\ outcome' = [outcome EXCEPT ![c] = o]
  /\ told' = [told EXCEPT ![c] = a]
  /\ UNCHANGED <<effects, request, server>>

(* A run the reporter was told of is a run.                                *)
CallInv ==
  \A c \in Calls :
    /\ outcome[c] = "idle" <=> request[c].op = "none"
    /\ outcome[c] = "idle" => effects[c] = {}
    /\ outcome[c] = "applied" => \E t \in Tokens : effects[c] = {t}
    /\ outcome[c] = "atLeastOnce" => effects[c] # {}
    /\ outcome[c] = "refused" => effects[c] = {}
    /\ Ok(c) => outcome[c] \in {"applied", "atLeastOnce"}
    /\ outcome[c] \in {"applied", "atLeastOnce"} => told[c].said \in {"ok", "error"}
    /\ Ok(c) /\ request[c].op = "create" =>
         told[c].run = None \/ \E t \in effects[c] : told[c].run = <<c, t>>
    /\ Ok(c) /\ request[c].op # "create" => told[c].run = request[c].run
    /\ request[c].op \notin {"none", "create"} => request[c].run \in Runs
    /\ request[c].op = "create" => request[c].by = "reporter"

LEMMA MineAreRuns ==
  ASSUME TypeOK, CallInv
  PROVE  Mine \subseteq Runs
<1> SUFFICES ASSUME NEW r \in Mine PROVE r \in Runs
  OBVIOUS
<1>1. PICK c \in Asked("create") : Ok(c) /\ r = told[c].run /\ r # None
  BY DEF Mine
<1>2. c \in Calls /\ request[c].op = "create"
  BY DEF Asked, CallsBy
<1>3. PICK t \in effects[c] : r = <<c, t>>
  BY <1>1, <1>2 DEF CallInv
<1> QED
  BY <1>2, <1>3 DEF TypeOK, ContractTypeOK, Runs, Attempts

LEMMA BatchFits ==
  ASSUME NEW batch \in SUBSET Entries, ~BadBatch(batch)
  PROVE  batch \in Batches
<1>1. IsFiniteSet(batch)
  BY TestRunsAssumption, FS_Subset
<1>2. Cardinality(batch) \in Nat /\ MaxBatch \in Nat
  BY <1>1, FS_CardinalityType, TestRunsAssumption
<1> QED
  BY <1>2 DEF BadBatch, Batches

LEMMA SendIsASend ==
  ASSUME TypeOK, CallInv, NEW c \in Calls,
         CreateRun(c) \/ ReportResults(c) \/ CompleteRun(c) \/ EndByOthers(c)
  PROVE  \E q \in Requests : Sends(c, q)
<1>1. CASE CreateRun(c)
  <2> DEFINE q == Ask("reporter", "create", None, {})
  <2>1. q \in Requests /\ q.op = "create" /\ q.by = "reporter"
    BY DEF Requests, Ask
  <2>2. Mine = {} /\ Pending("create") = {} /\ Send(c, q)
    BY <1>1 DEF CreateRun
  <2> HIDE DEF q
  <2> QED
    BY <2>1, <2>2 DEF Sends, Send, Open
<1>2. CASE ReportResults(c)
  <2>1. PICK r \in Mine, batch \in SUBSET (Entries \ (Acknowledged \cup OnTheWay)) :
          SendReport(c, r, batch)
    BY <1>2 DEF ReportResults
  <2> DEFINE q == Ask("reporter", "report", r, batch)
  <2>2. batch \in Batches /\ Send(c, q)
    BY <2>1, BatchFits DEF SendReport
  <2>3. r \in Runs
    BY MineAreRuns
  <2>4. q \in Requests /\ q.op = "report" /\ q.by = "reporter" /\ q.run = r /\ q.batch = batch
    BY <2>2, <2>3 DEF Requests, Ask
  <2> HIDE DEF q
  <2> QED
    BY <2>1, <2>2, <2>3, <2>4 DEF Sends, Send, Open
<1>3. CASE CompleteRun(c)
  <2>1. PICK r \in Mine : Send(c, Ask("reporter", "complete", r, {}))
    BY <1>3 DEF CompleteRun
  <2> DEFINE q == Ask("reporter", "complete", r, {})
  <2>2. r \in Runs
    BY MineAreRuns
  <2>3. q \in Requests /\ q.op = "complete" /\ q.by = "reporter" /\ q.run = r
    BY <2>2 DEF Requests, Ask
  <2>4. Send(c, q) /\ Acknowledged = Entries
    BY <1>3, <2>1 DEF CompleteRun
  <2> HIDE DEF q
  <2> QED
    BY <2>1, <2>2, <2>3, <2>4 DEF Sends, Send, Open
<1>4. CASE EndByOthers(c)
  <2>1. PICK r \in Runs, op \in {"complete", "abort"} : Send(c, Ask("other", op, r, {}))
    BY <1>4 DEF EndByOthers
  <2> DEFINE q == Ask("other", op, r, {})
  <2>2. q \in Requests /\ q.op \in {"complete", "abort"} /\ q.by = "other" /\ q.run = r
    BY DEF Requests, Ask
  <2>3. Send(c, q)
    BY <2>1
  <2> HIDE DEF q
  <2> QED
    BY <2>1, <2>2, <2>3 DEF Sends, Send, Open
<1> QED
  BY <1>1, <1>2, <1>3, <1>4

LEMMA AnswerIsAnAnswer ==
  ASSUME TypeOK, NEW c \in Calls, Succeed(c) \/ Misread(c) \/ Reject(c) \/ Fail(c)
  PROVE  \E o \in Ends, a \in Answers : Answered(c, o, a)
<1>1. CASE Succeed(c)
  <2>1. PICK o \in {"applied", "atLeastOnce"} : End(c, o)
    BY <1>1 DEF Succeed
  <2>2. PICK r \in RunsInAnswer(c) : Tell(c, "ok", r)
    BY <1>1 DEF Succeed
  <2> DEFINE a == [said |-> "ok", run |-> r]
  <2>3. /\ request[c].op = "create" => r = None \/ \E t \in effects[c] : r = <<c, t>>
        /\ request[c].op # "create" => r = request[c].run
    BY <2>2 DEF RunsInAnswer
  <2>4. r \in Runs \cup {None}
    BY <2>3 DEF TypeOK, ContractTypeOK, Requests, Runs, Attempts
  <2>5. a \in Answers /\ a.said = "ok" /\ a.run = r /\ told' = [told EXCEPT ![c] = a]
    BY <2>2, <2>4 DEF Answers, Tell
  <2> HIDE DEF a
  <2>6. Answered(c, o, a)
    BY <1>1, <2>1, <2>3, <2>5 DEF Succeed, Answered, End, Justified
  <2> QED
    BY <2>1, <2>5, <2>6 DEF Ends
<1>2. CASE Reject(c) \/ Fail(c)
  <2>1. PICK o \in {"refused", "unknown"} : End(c, o)
    BY <1>2 DEF Reject, Fail
  <2>2. PICK said \in {"error", "nothingWritten"} : Tell(c, said, None)
    BY <1>2 DEF Reject, Fail
  <2> DEFINE a == [said |-> said, run |-> None]
  <2>3. a \in Answers /\ a.said \in {"error", "nothingWritten"} /\ told' = [told EXCEPT ![c] = a]
    BY <2>2 DEF Answers, Tell
  <2> HIDE DEF a
  <2>4. Answered(c, o, a)
    BY <1>2, <2>1, <2>3 DEF Reject, Fail, Answered, End, Justified
  <2> QED
    BY <2>1, <2>3, <2>4 DEF Ends
<1>3. CASE Misread(c)
  <2>1. PICK o \in {"applied", "atLeastOnce"} : End(c, o)
    BY <1>3 DEF Misread
  <2> DEFINE a == [said |-> "error", run |-> None]
  <2>2. a \in Answers /\ a.said = "error" /\ told' = [told EXCEPT ![c] = a]
    BY <1>3 DEF Misread, Answers, Tell
  <2> HIDE DEF a
  <2>3. Answered(c, o, a)
    BY <1>3, <2>1, <2>2 DEF Misread, Answered, End, Justified
  <2> QED
    BY <2>1, <2>2, <2>3 DEF Ends
<1> QED
  BY <1>1, <1>2, <1>3

(* A step sends a call, answers one, carries one out or takes a test case  *)
(* away.                                                                   *)
LEMMA EveryStep ==
  ASSUME TypeOK, CallInv, [Next]_vars
  PROVE  \/ \E c \in Calls, q \in Requests : Sends(c, q)
         \/ \E c \in Calls, o \in Ends, a \in Answers : Answered(c, o, a)
         \/ \E c \in Calls, t \in Tokens : Carry(c, t)
         \/ \E e \in Named : Invalidate(e)
         \/ UNCHANGED vars
BY SendIsASend, AnswerIsAnAnswer DEF Next

-----------------------------------------------------------------------------
LEMMA TypeInvariant ==
  ASSUME TypeOK, CallInv, [Next]_vars
  PROVE  TypeOK'
<1>1. ASSUME NEW c \in Calls, NEW q \in Requests, Sends(c, q) PROVE TypeOK'
  BY <1>1 DEF Sends, TypeOK, ContractTypeOK, server
<1>2. ASSUME NEW c \in Calls, NEW o \in Ends, NEW a \in Answers, Answered(c, o, a) PROVE TypeOK'
  BY <1>2 DEF Answered, TypeOK, ContractTypeOK, server
<1>3. ASSUME NEW c \in Calls, NEW t \in Tokens, Carry(c, t) PROVE TypeOK'
  <2>1. outcome' = outcome /\ effects' \in [Calls -> SUBSET Tokens]
    BY <1>3 DEF Carry, Effect, TypeOK, ContractTypeOK
  <2>2. status' \in [Runs -> {"none", "new", "inProgress", "completed", "aborted"}]
    BY <1>3 DEF Carry, Create, Report, Become, TypeOK
  <2>3. written' \in [Runs -> [Entries -> SUBSET Attempts]]
    <3>1. CASE written' = written
      BY <3>1 DEF TypeOK
    <3>2. CASE Report(<<c, t>>, request[c].run, request[c].batch)
      <4>1. <<c, t>> \in Attempts
        BY DEF Attempts
      <4>2. ASSUME request[c].run \in Runs
            PROVE  [e \in Entries |->
                      IF e \in request[c].batch /\ ~Recognised(e, request[c].run)
                      THEN written[request[c].run][e] \cup {<<c, t>>}
                      ELSE written[request[c].run][e]] \in [Entries -> SUBSET Attempts]
        BY <4>1, <4>2 DEF TypeOK
      <4>3. CASE request[c].run \in Runs
        BY <3>2, <4>2, <4>3 DEF Report, TypeOK
      <4>4. CASE request[c].run \notin Runs
        BY <3>2, <4>4 DEF Report, TypeOK
      <4> QED
        BY <4>3, <4>4
    <3> QED
      BY <1>3, <3>1, <3>2 DEF Carry, Create, Become
  <2> QED
    BY <1>3, <2>1, <2>2, <2>3 DEF Carry, TypeOK, ContractTypeOK
<1>4. ASSUME NEW e \in Named, Invalidate(e) PROVE TypeOK'
  BY <1>4 DEF Invalidate, TypeOK, ContractTypeOK, contractVars
<1>5. CASE UNCHANGED vars
  BY <1>5 DEF vars, server, contractVars, TypeOK, ContractTypeOK
<1> QED
  BY EveryStep, <1>1, <1>2, <1>3, <1>4, <1>5

LEMMA CallInvariant ==
  ASSUME TypeOK, CallInv, [Next]_vars
  PROVE  CallInv'
<1>1. ASSUME NEW c \in Calls, NEW q \in Requests, Sends(c, q) PROVE CallInv'
  BY <1>1 DEF Sends, CallInv, Ok, TypeOK, ContractTypeOK
<1>2. ASSUME NEW c \in Calls, NEW o \in Ends, NEW a \in Answers, Answered(c, o, a) PROVE CallInv'
  BY <1>2 DEF Answered, CallInv, Ok, TypeOK, ContractTypeOK, Ends
<1>3. ASSUME NEW c \in Calls, NEW t \in Tokens, Carry(c, t) PROVE CallInv'
  <2>1. /\ outcome' = outcome /\ request' = request /\ told' = told
        /\ outcome[c] \in {"open", "atLeastOnce", "unknown"}
        /\ effects' = [effects EXCEPT ![c] = @ \cup {t}]
    BY <1>3 DEF Carry, Effect
  <2> QED
    BY <2>1 DEF CallInv, Ok, TypeOK, ContractTypeOK
<1>4. ASSUME UNCHANGED <<outcome, effects, request, told>> PROVE CallInv'
  BY <1>4 DEF CallInv, Ok
<1> QED
  BY EveryStep, <1>1, <1>2, <1>3, <1>4 DEF Invalidate, vars, contractVars

LEMMA Beginning == Init => TypeOK /\ CallInv
<1> SUFFICES ASSUME Init PROVE TypeOK /\ CallInv
  OBVIOUS
<1>1. Ask("nobody", "none", None, {}) \in Requests /\ NoAnswer \in Answers
  BY DEF Ask, Requests, NoAnswer, Answers
<1>2. TypeOK
  BY <1>1 DEF Init, ContractInit, TypeOK, ContractTypeOK
<1>3. CallInv
  BY DEF Init, ContractInit, Ask, NoAnswer, CallInv, Ok
<1> QED
  BY <1>2, <1>3

LEMMA Basics == Spec => [](TypeOK /\ CallInv)
BY Beginning, TypeInvariant, CallInvariant, PTL DEF Spec

(* Every variable keeps its type; in particular every batch that is sent   *)
(* is one the server takes, and every run that is worked on is a run.      *)
THEOREM TypeCorrect == Spec => []TypeOK
BY Basics, PTL

-----------------------------------------------------------------------------
(* What became of a run                                                    *)

StatusInv ==
  /\ \A r \in Runs : status[r] # "none" => r[2] \in effects[r[1]] /\ request[r[1]].op = "create"
  /\ \A c \in Calls : request[c].op = "complete" /\ effects[c] # {} =>
       status[request[c].run] = "completed"
  /\ \A c \in Calls : request[c].op = "abort" /\ effects[c] # {} =>
       status[request[c].run] = "aborted"

LEMMA StatusInvariant ==
  ASSUME TypeOK, CallInv, StatusInv, [Next]_vars
  PROVE  StatusInv'
<1>1. ASSUME NEW c \in Calls, NEW q \in Requests, Sends(c, q) PROVE StatusInv'
  BY <1>1 DEF Sends, StatusInv, CallInv, TypeOK, ContractTypeOK, Runs, Attempts, server
<1>2. ASSUME UNCHANGED <<effects, request, status>> PROVE StatusInv'
  BY <1>2 DEF StatusInv
<1>3. ASSUME NEW c \in Calls, NEW t \in Tokens, Carry(c, t) PROVE StatusInv'
  <2>1. /\ request' = request /\ t \notin effects[c]
        /\ effects' = [effects EXCEPT ![c] = @ \cup {t}]
        /\ \A d \in Calls : effects[d] \subseteq effects'[d]
        /\ \A d \in Calls \ {c} : effects'[d] = effects[d]
    BY <1>3 DEF Carry, Effect, TypeOK, ContractTypeOK
  <2>2. CASE request[c].op = "create" /\ Create(<<c, t>>)
    <3>1. <<c, t>> \in Runs /\ status[<<c, t>>] = "none"
      BY <2>1 DEF Runs, Attempts, StatusInv
    <3>2. \A r \in Runs : r[1] \in Calls
      BY DEF Runs, Attempts
    <3>3. status' = [status EXCEPT ![<<c, t>>] = "new"]
      BY <2>2 DEF Create
    <3>4. /\ status'[<<c, t>>] = "new"
          /\ \A r \in Runs : r # <<c, t>> => status'[r] = status[r]
      BY <3>1, <3>3 DEF TypeOK
    <3>5. t \in effects'[c]
      BY <2>1 DEF TypeOK, ContractTypeOK
    <3>6. \A r \in Runs : status'[r] # "none" => r[2] \in effects'[r[1]] /\ request[r[1]].op = "create"
      BY <2>1, <2>2, <3>2, <3>4, <3>5 DEF StatusInv
    <3>7. ASSUME NEW d \in Calls, request[d].op \in {"complete", "abort"}, effects'[d] # {}
          PROVE  effects[d] # {} /\ status'[request[d].run] = status[request[d].run]
      BY <2>1, <2>2, <3>1, <3>4, <3>7 DEF CallInv, StatusInv
    <3> QED
      BY <2>1, <3>6, <3>7 DEF StatusInv
  <2>3. ASSUME NEW s \in {"inProgress", "completed", "aborted"}, NEW r \in Runs,
               r = request[c].run, status' = [status EXCEPT ![r] = s],
               Unfinished(r) \/ status[r] = s,
               request[c].op = "complete" => s = "completed",
               request[c].op = "abort" => s = "aborted",
               request[c].op # "create"
        PROVE  StatusInv'
    <3>1. status'[r] = s /\ \A x \in Runs : x # r => status'[x] = status[x]
      BY <2>3 DEF TypeOK
    <3>2. \A x \in Runs : status'[x] # "none" => status[x] # "none"
      BY <2>3, <3>1 DEF Unfinished
    <3>3. \A x \in Runs : status[x] \in {"completed", "aborted"} => status'[x] = status[x]
      BY <2>3, <3>1 DEF Unfinished
    <3>4. \A x \in Runs : x[1] \in Calls
      BY DEF Runs, Attempts
    <3>5. \A d \in Calls : request[d].op \in {"complete", "abort"} => request[d].run \in Runs
      BY DEF CallInv
    <3> QED
      BY <2>1, <2>3, <3>1, <3>2, <3>3, <3>4, <3>5 DEF StatusInv
  <2>4. CASE request[c].op # "create"
    <3>1. request[c].run \in Runs /\ Possible(request[c])
      BY <1>3, <2>4 DEF Carry, CallInv
    <3> QED
      BY <1>3, <2>3, <2>4, <3>1 DEF Carry, Report, Become, Possible, Unfinished
  <2> QED
    BY <1>3, <2>2, <2>4 DEF Carry
<1> QED
  BY EveryStep, <1>1, <1>2, <1>3 DEF Answered, Invalidate, vars, contractVars, server

LEMMA Statuses == Spec => []StatusInv
<1>1. Init => StatusInv
  BY DEF Init, ContractInit, Ask, StatusInv
<1> QED
  BY <1>1, StatusInvariant, Basics, PTL DEF Spec

(* A run nobody was told of comes from a create_test_run that was not      *)
(* settled by its answer: the call is in doubt, or its 2xx could not be    *)
(* read or named no run.                                                   *)
THEOREM StrayRunsAreFromUnsettledCalls == Spec => []StrayRunsAreUnsettled
<1>1. TypeOK /\ CallInv /\ StatusInv => StrayRunsAreUnsettled
  <2> SUFFICES ASSUME TypeOK, CallInv, StatusInv, NEW r \in Runs, status[r] # "none",
                      ~Unsettled(r[1])
               PROVE  Ok(r[1]) /\ told[r[1]].run = r
    BY DEF StrayRunsAreUnsettled
  <2>1. r[1] \in Calls /\ r = <<r[1], r[2]>>
    BY DEF Runs, Attempts
  <2>2. r[2] \in effects[r[1]] /\ request[r[1]].op = "create"
    BY DEF StatusInv
  <2>3. outcome[r[1]] = "applied"
    BY <2>1, <2>2 DEF Unsettled, InDoubt, CallInv, TypeOK, ContractTypeOK, Ends
  <2>4. Ok(r[1]) /\ told[r[1]].run # None
    BY <2>1, <2>3 DEF CallInv, Unsettled, Ok
  <2>5. \E t \in effects[r[1]] : told[r[1]].run = <<r[1], t>>
    BY <2>1, <2>2, <2>4 DEF CallInv
  <2>6. \A t \in effects[r[1]] : t = r[2]
    BY <2>1, <2>2, <2>3 DEF CallInv
  <2> QED
    BY <2>1, <2>4, <2>5, <2>6
<1> QED
  BY <1>1, Basics, Statuses, PTL

(* No run is both told completed and told aborted.                         *)
THEOREM RunsHaveOneEnd == Spec => []OneEnd
<1>1. CallInv /\ StatusInv => OneEnd
  BY DEF CallInv, StatusInv, OneEnd
<1> QED
  BY <1>1, Basics, Statuses, PTL

-----------------------------------------------------------------------------
(* What the reporter goes by                                               *)

(* A call that has ended and left the reporter without what it asked for.  *)
Failed(c) == outcome[c] \in Ends /\ (Ok(c) => told[c].run = None)

ReporterInv ==
  /\ \A c, d \in Asked("create") : c # d => Failed(c) \/ Failed(d)
  /\ \A c, d \in Asked("report") :
       c # d /\ request[c].batch \cap request[d].batch # {} => Failed(c) \/ Failed(d)
  /\ \A c \in Asked("report") \cup Asked("complete") : request[c].run \in Mine
  /\ \A c \in Asked("complete") : Acknowledged = Entries

(* What the reporter asked for and was told stays.                         *)
LEMMA History ==
  ASSUME TypeOK, CallInv, [Next]_vars
  PROVE  /\ \A c \in Calls : request[c].op # "none" =>
              /\ request'[c] = request[c]
              /\ Ok(c) => Ok(c)' /\ told'[c] = told[c]
              /\ Failed(c) => Failed(c)'
         /\ Mine \subseteq Mine'
         /\ Acknowledged \subseteq Acknowledged'
<1>1. ASSUME NEW c \in Calls, request[c].op # "none"
      PROVE  /\ request'[c] = request[c]
             /\ Ok(c) => Ok(c)' /\ told'[c] = told[c]
             /\ Failed(c) => Failed(c)'
  <2>1. ASSUME NEW d \in Calls, NEW q \in Requests, Sends(d, q)
        PROVE  request'[c] = request[c] /\ outcome'[c] = outcome[c] /\ told'[c] = told[c]
    BY <1>1, <2>1 DEF Sends, CallInv, TypeOK, ContractTypeOK
  <2>2. ASSUME NEW d \in Calls, NEW o \in Ends, NEW a \in Answers, Answered(d, o, a)
        PROVE  /\ request'[c] = request[c]
               /\ outcome[c] # "open" => outcome'[c] = outcome[c] /\ told'[c] = told[c]
    BY <1>1, <2>2 DEF Answered, TypeOK, ContractTypeOK
  <2>3. ASSUME UNCHANGED <<outcome, request, told>>
        PROVE  request'[c] = request[c] /\ outcome'[c] = outcome[c] /\ told'[c] = told[c]
    BY <2>3
  <2>4. /\ request'[c] = request[c]
        /\ outcome[c] # "open" => outcome'[c] = outcome[c] /\ told'[c] = told[c]
    BY EveryStep, <2>1, <2>2, <2>3 DEF Carry, Effect, Invalidate, vars, contractVars
  <2>5. Ok(c) => outcome[c] # "open"
    BY DEF CallInv
  <2> QED
    BY <2>4, <2>5 DEF Ok, Failed, Ends
<1>2. Mine \subseteq Mine'
  <2> SUFFICES ASSUME NEW r \in Mine PROVE r \in Mine'
    OBVIOUS
  <2>1. PICK c \in Asked("create") : Ok(c) /\ r = told[c].run /\ r # None
    BY DEF Mine
  <2>2. c \in Calls /\ request[c].op # "none"
    BY DEF Asked, CallsBy
  <2>3. c \in Asked("create")' /\ Ok(c)' /\ r = told'[c].run
    BY <1>1, <2>1, <2>2 DEF Asked, CallsBy
  <2> QED
    BY <2>3 DEF Mine
<1>3. Acknowledged \subseteq Acknowledged'
  <2> SUFFICES ASSUME NEW e \in Acknowledged PROVE e \in Acknowledged'
    OBVIOUS
  <2>1. PICK c \in Asked("report") : Ok(c) /\ e \in request[c].batch
    BY DEF Acknowledged
  <2>2. c \in Calls /\ request[c].op # "none"
    BY DEF Asked, CallsBy
  <2>3. c \in Asked("report")' /\ Ok(c)' /\ e \in request'[c].batch
    BY <1>1, <2>1, <2>2 DEF Asked, CallsBy
  <2> QED
    BY <2>3 DEF Acknowledged
<1> QED
  BY <1>1, <1>2, <1>3

(* Reports are the reporter's.                                             *)
LEMMA OnlyTheReporterReports ==
  ASSUME TypeOK, NEW c \in Calls, request[c].op = "report"
  PROVE  /\ c \in Asked("report")
         /\ request[c].batch \in SUBSET Entries /\ request[c].batch # {}
         /\ request[c].run \in Runs
BY DEF TypeOK, Requests, Batches, Asked, CallsBy

LEMMA ReporterInvariant ==
  ASSUME TypeOK, CallInv, ReporterInv, [Next]_vars
  PROVE  ReporterInv'
<1>1. ASSUME NEW e \in Acknowledged' PROVE e \in Entries
  <2>1. PICK c \in Asked("report")' : e \in request'[c].batch
    BY DEF Acknowledged
  <2>2. request'[c] \in Requests /\ request'[c].op = "report"
    BY <2>1, TypeInvariant DEF Asked, CallsBy, TypeOK
  <2> QED
    BY <2>1, <2>2 DEF Requests, Batches
<1>2. Acknowledged = Entries => Acknowledged' = Entries
  BY <1>1, History
<1>3. ASSUME request' = request PROVE ReporterInv'
  <2>1. \A op : Asked(op)' = Asked(op)
    BY <1>3 DEF Asked, CallsBy
  <2>2. \A op \in {"create", "report"} : \A c \in Asked(op) : Failed(c) => Failed(c)'
    BY History DEF Asked, CallsBy
  <2> QED
    BY <1>2, <1>3, <2>1, <2>2, History DEF ReporterInv
<1>4. ASSUME NEW d \in Calls, NEW q \in Requests, Sends(d, q) PROVE ReporterInv'
  <2>1. /\ outcome' = [outcome EXCEPT ![d] = "open"] /\ request' = [request EXCEPT ![d] = q]
        /\ request[d].op = "none"
    BY <1>4 DEF Sends, CallInv
  <2>2. /\ request'[d] = q /\ told' = told
        /\ \A c \in Calls \ {d} : request'[c] = request[c] /\ outcome'[c] = outcome[c]
    BY <1>4, <2>1 DEF Sends, TypeOK, ContractTypeOK
  <2>3. \A op, c : c \in Asked(op)' /\ c # d => c \in Asked(op) /\ c \in Calls
    BY <2>2 DEF Asked, CallsBy
  <2>4. ASSUME NEW c \in Asked("create")', c # d, d \in Asked("create")' PROVE Failed(c)'
    <3>1. Mine = {} /\ Pending("create") = {} /\ c \in Asked("create") /\ c \in Calls
      BY <1>4, <2>2, <2>3, <2>4 DEF Sends, Asked, CallsBy
    <3>2. (Ok(c) => told[c].run = None) /\ outcome[c] # "open" /\ outcome[c] # "idle"
      BY <3>1 DEF Mine, Pending, Asked, CallsBy, CallInv
    <3>3. Failed(c)
      BY <3>1, <3>2 DEF CallInv, TypeOK, ContractTypeOK, Ends, Failed
    <3> QED
      BY <2>2, <2>4, <3>1, <3>3 DEF Failed, Ok
  <2>5. ASSUME NEW c \in Asked("report")', c # d, d \in Asked("report")',
               request'[c].batch \cap request'[d].batch # {}
        PROVE  Failed(c)'
    <3>1. q.batch \cap (Acknowledged \cup OnTheWay) = {} /\ c \in Asked("report") /\ c \in Calls
      BY <1>4, <2>2, <2>3, <2>5 DEF Sends, Asked, CallsBy
    <3>2. request[c].batch \cap q.batch # {}
      BY <2>2, <2>5, <3>1
    <3>3. ~Ok(c) /\ outcome[c] # "open" /\ outcome[c] # "idle"
      BY <3>1, <3>2 DEF Acknowledged, OnTheWay, Pending, Asked, CallsBy, CallInv
    <3>4. Failed(c)
      BY <3>1, <3>3 DEF CallInv, TypeOK, ContractTypeOK, Ends, Failed
    <3> QED
      BY <2>2, <2>5, <3>1, <3>4 DEF Failed, Ok
  <2>6. \A c \in Asked("report")' \cup Asked("complete")' : request'[c].run \in Mine'
    <3>1. d \in Asked("report")' \cup Asked("complete")' => q.run \in Mine
      BY <1>4, <2>2 DEF Sends, Asked, CallsBy
    <3> QED
      BY <2>2, <2>3, <3>1, History DEF ReporterInv
  <2>7. \A c \in Asked("complete")' : Acknowledged = Entries
    BY <1>4, <2>2, <2>3 DEF ReporterInv, Sends, Asked, CallsBy
  <2>8. \A op \in {"create", "report"} : \A c \in Asked(op)' :
          c # d => c \in Asked(op) /\ request'[c] = request[c] /\ (Failed(c) => Failed(c)')
    BY <2>2, <2>3 DEF Failed, Ok
  <2> QED
    BY <1>2, <2>4, <2>5, <2>6, <2>7, <2>8 DEF ReporterInv
<1> QED
  BY EveryStep, <1>3, <1>4 DEF Answered, Carry, Invalidate, vars, server

LEMMA Reporting == Spec => []ReporterInv
<1>1. Init => ReporterInv
  BY DEF Init, Ask, Asked, CallsBy, ReporterInv
<1> QED
  BY <1>1, ReporterInvariant, Basics, PTL DEF Spec

(* The reporter works with one run.                                        *)
LEMMA OneRunIsMine ==
  ASSUME CallInv, ReporterInv, NEW r \in Mine, NEW s \in Mine
  PROVE  r = s
<1>1. PICK c \in Asked("create") : Ok(c) /\ r = told[c].run /\ r # None
  BY DEF Mine
<1>2. PICK d \in Asked("create") : Ok(d) /\ s = told[d].run /\ s # None
  BY DEF Mine
<1>3. c \in Calls /\ d \in Calls
  BY DEF Asked, CallsBy
<1> QED
  BY <1>1, <1>2, <1>3 DEF ReporterInv, CallInv, Failed

-----------------------------------------------------------------------------
(* What is written in a run                                                *)

WrittenInv ==
  /\ \A r \in Runs, e \in Entries : \A a \in written[r][e] :
       /\ a[2] \in effects[a[1]]
       /\ request[a[1]].op = "report" /\ e \in request[a[1]].batch
  /\ \A c \in Calls : request[c].op = "report" /\ effects[c] # {} =>
       \A e \in request[c].batch : written[request[c].run][e] # {}
  /\ \A r \in Runs, e \in Stable : \A a, b \in written[r][e] : a = b

(* A batch adds its attempt to the entries it has, but to none that the    *)
(* server recognises.                                                      *)
LEMMA ReportWrites ==
  ASSUME TypeOK, NEW c \in Calls, NEW t \in Tokens, request[c].op = "report",
         Report(<<c, t>>, request[c].run, request[c].batch)
  PROVE  \A r \in Runs, e \in Entries :
           IF r = request[c].run /\ e \in request[c].batch /\ ~Recognised(e, r)
           THEN written'[r][e] = written[r][e] \cup {<<c, t>>}
           ELSE written'[r][e] = written[r][e]
BY OnlyTheReporterReports DEF Report, TypeOK

LEMMA WrittenInvariant ==
  ASSUME TypeOK, CallInv, WrittenInv, [Next]_vars
  PROVE  WrittenInv'
<1>1. \A r \in Runs, e \in Entries : \A a \in written[r][e] : a[1] \in Calls
  BY DEF TypeOK, Attempts
<1>2. ASSUME NEW c \in Calls, NEW q \in Requests, Sends(c, q) PROVE WrittenInv'
  <2>1. /\ effects' = effects /\ written' = written /\ effects[c] = {}
        /\ \A d \in Calls \ {c} : request'[d] = request[d]
    BY <1>2 DEF Sends, server, CallInv, TypeOK
  <2>2. \A d \in Calls : effects[d] # {} => request'[d] = request[d]
    BY <2>1
  <2> QED
    BY <1>1, <2>1, <2>2 DEF WrittenInv
<1>3. ASSUME UNCHANGED <<effects, request, written>> PROVE WrittenInv'
  BY <1>3 DEF WrittenInv
<1>4. ASSUME NEW c \in Calls, NEW t \in Tokens, Carry(c, t) PROVE WrittenInv'
  <2>1. /\ request' = request /\ t \in effects'[c]
        /\ \A d \in Calls : effects[d] \subseteq effects'[d]
        /\ \A d \in Calls \ {c} : effects'[d] = effects[d]
    BY <1>4 DEF Carry, Effect, TypeOK, ContractTypeOK
  <2>2. CASE request[c].op # "report"
    <3>1. written' = written
      BY <1>4, <2>2 DEF Carry, Create, Become
    <3>2. \A d \in Calls : request[d].op = "report" => effects'[d] = effects[d]
      BY <2>1, <2>2
    <3> QED
      BY <1>1, <2>1, <3>1, <3>2 DEF WrittenInv
  <2>3. CASE request[c].op = "report"
    <3>1. Report(<<c, t>>, request[c].run, request[c].batch)
      BY <1>4, <2>3 DEF Carry
    <3>2. \A r \in Runs, e \in Entries :
            IF r = request[c].run /\ e \in request[c].batch /\ ~Recognised(e, r)
            THEN written'[r][e] = written[r][e] \cup {<<c, t>>}
            ELSE written'[r][e] = written[r][e]
      BY <2>3, <3>1, ReportWrites
    <3>3. ASSUME NEW r \in Runs, NEW e \in Entries, NEW a \in written'[r][e]
          PROVE  /\ a[2] \in effects'[a[1]]
                 /\ request'[a[1]].op = "report" /\ e \in request'[a[1]].batch
      <4>1. a \in written[r][e] \/ (a = <<c, t>> /\ e \in request[c].batch)
        BY <3>2, <3>3
      <4> QED
        BY <1>1, <2>1, <2>3, <4>1 DEF WrittenInv
    <3>4. ASSUME NEW d \in Calls, request'[d].op = "report", effects'[d] # {},
                 NEW e \in request'[d].batch
          PROVE  written'[request'[d].run][e] # {}
      <4>1. request[d].run \in Runs /\ e \in Entries /\ e \in request[d].batch
        BY <2>1, <3>4, OnlyTheReporterReports
      <4>2. CASE d = c
        BY <2>1, <3>2, <4>1, <4>2 DEF Recognised
      <4>3. CASE d # c
        <5>1. written[request[d].run][e] # {}
          BY <2>1, <3>4, <4>3 DEF WrittenInv
        <5> QED
          BY <2>1, <3>2, <4>1, <5>1
      <4> QED
        BY <4>2, <4>3
    <3>5. ASSUME NEW r \in Runs, NEW e \in Stable, NEW a \in written'[r][e], NEW b \in written'[r][e]
          PROVE  a = b
      <4>1. e \in Entries
        BY TestRunsAssumption
      <4>2. written'[r][e] = written[r][e]
            \/ (written[r][e] = {} /\ written'[r][e] = {<<c, t>>})
        BY <3>2, <4>1 DEF Recognised
      <4> QED
        BY <3>5, <4>2 DEF WrittenInv
    <3> QED
      BY <3>3, <3>4, <3>5 DEF WrittenInv
  <2> QED
    BY <2>2, <2>3
<1> QED
  BY EveryStep, <1>2, <1>3, <1>4 DEF Answered, Invalidate, vars, contractVars, server

LEMMA Writing == Spec => []WrittenInv
<1>1. Init => WrittenInv
  BY TestRunsAssumption DEF Init, ContractInit, WrittenInv
<1> QED
  BY <1>1, WrittenInvariant, Basics, PTL DEF Spec

(* An entry is counted twice only if it has no stable id, and one of the   *)
(* calls that reported it was not settled by its answer.                   *)
THEOREM CountedTwiceIsUnsettled == Spec => []CountedTwiceOnlyUnsettled
<1>1. TypeOK /\ CallInv /\ ReporterInv /\ WrittenInv => CountedTwiceOnlyUnsettled
  <2> SUFFICES ASSUME TypeOK, CallInv, ReporterInv, WrittenInv,
                      NEW r \in Runs, NEW e \in Entries,
                      NEW a \in written[r][e], NEW b \in written[r][e], a # b
               PROVE  e \notin Stable /\ (Unsettled(a[1]) \/ Unsettled(b[1]))
    BY DEF CountedTwiceOnlyUnsettled
  <2>1. e \notin Stable
    BY DEF WrittenInv
  <2>2. \A x \in {a, b} :
          /\ x[1] \in Calls /\ x = <<x[1], x[2]>>
          /\ x[2] \in effects[x[1]]
          /\ request[x[1]].op = "report" /\ e \in request[x[1]].batch
    BY DEF WrittenInv, TypeOK, Attempts
  <2>3. \A x \in {a, b} : Unsettled(x[1]) \/ outcome[x[1]] = "applied"
    BY <2>2 DEF Unsettled, InDoubt, CallInv, TypeOK, ContractTypeOK, Ends
  <2>4. CASE a[1] = b[1]
    <3>1. a[2] # b[2]
      BY <2>2, <2>4
    <3>2. outcome[a[1]] # "applied"
      BY <2>2, <2>4, <3>1 DEF CallInv
    <3> QED
      BY <2>1, <2>3, <3>2
  <2>5. CASE a[1] # b[1]
    <3>1. a[1] \in Asked("report") /\ b[1] \in Asked("report")
      BY <2>2, OnlyTheReporterReports
    <3>2. request[a[1]].batch \cap request[b[1]].batch # {}
      BY <2>2
    <3>3. Failed(a[1]) \/ Failed(b[1])
      BY <2>5, <3>1, <3>2 DEF ReporterInv
    <3>4. \A x \in {a, b} : outcome[x[1]] = "applied" /\ Failed(x[1]) => Unsettled(x[1])
      BY <2>2 DEF CallInv, Failed, Unsettled, Ok
    <3> QED
      BY <2>1, <2>3, <3>3, <3>4
  <2> QED
    BY <2>4, <2>5
<1> QED
  BY <1>1, Basics, Reporting, Writing, PTL

(* When complete_test_run has said ok, the run's verdict is of every entry *)
(* and of each one with a stable id exactly once.                          *)
THEOREM VerdictsAreOfEverything == Spec => []VerdictIsOfEverything
<1>1. TypeOK /\ CallInv /\ StatusInv /\ ReporterInv /\ WrittenInv => VerdictIsOfEverything
  <2> SUFFICES ASSUME TypeOK, CallInv, StatusInv, ReporterInv, WrittenInv,
                      NEW c \in Asked("complete"), Ok(c)
               PROVE  /\ status[request[c].run] = "completed"
                      /\ \A e \in Entries :
                           /\ written[request[c].run][e] # {}
                           /\ e \in Stable => \A a, b \in written[request[c].run][e] : a = b
    BY DEF VerdictIsOfEverything
  <2>1. /\ c \in Calls /\ request[c].op = "complete"
        /\ effects[c] # {} /\ request[c].run \in Runs
    BY DEF Asked, CallsBy, CallInv
  <2>2. status[request[c].run] = "completed"
    BY <2>1 DEF StatusInv
  <2>3. ASSUME NEW e \in Entries PROVE written[request[c].run][e] # {}
    <3>1. e \in Acknowledged
      BY DEF ReporterInv
    <3>2. PICK d \in Asked("report") : Ok(d) /\ e \in request[d].batch
      BY <3>1 DEF Acknowledged
    <3>3. d \in Calls /\ request[d].op = "report" /\ effects[d] # {}
      BY <3>2 DEF Asked, CallsBy, CallInv
    <3>4. request[d].run = request[c].run
      BY OneRunIsMine DEF ReporterInv
    <3> QED
      BY <3>2, <3>3, <3>4 DEF WrittenInv
  <2> QED
    BY <2>1, <2>2, <2>3 DEF WrittenInv
<1> QED
  BY <1>1, Basics, Statuses, Reporting, Writing, PTL

-----------------------------------------------------------------------------
(* What a call is told, and what it did                                    *)

(* The comment of ReportResults: "either every entry is accepted or nothing*)
(* is written".  So it is of what a call did, however often it was carried *)
(* out: all its entries are in the run it names, or none is there by it.   *)
BatchesAreWhole ==
  \A c \in Calls : request[c].op = "report" =>
    \/ \A e \in request[c].batch : written[request[c].run][e] # {}
    \/ \A r \in Runs, e \in Entries : \A a \in written[r][e] : a[1] # c

(* What a call did not do when it was told ok or turned down without doubt *)
(* it does not do later, and a run that has ended stays as it is.          *)
NothingComesLate ==
  [][/\ \A c \in Calls : outcome[c] # "idle" /\ ~InDoubt(c) => effects'[c] = effects[c]
     /\ \A r \in Runs : status[r] \in {"completed", "aborted"} =>
          status'[r] = status[r] /\ written'[r] = written[r]]_vars

(* A batch is written as a whole, whatever is retried, lost or late.       *)
THEOREM BatchesAreWritten == Spec => []BatchesAreWhole
<1>1. TypeOK /\ WrittenInv => BatchesAreWhole
  <2> SUFFICES ASSUME TypeOK, WrittenInv, NEW c \in Calls, request[c].op = "report",
                      effects[c] = {}
               PROVE  \A r \in Runs, e \in Entries : \A a \in written[r][e] : a[1] # c
    BY DEF BatchesAreWhole, WrittenInv
  <2> QED BY DEF WrittenInv
<1> QED BY <1>1, Basics, Writing, PTL

(* "Nothing was written" is true of a call that is not in doubt, and an    *)
(* error hides at most one effect of it.                                   *)
THEOREM RefusalsAreTrue == Spec => []ErrorsAreTrue
<1>1. TypeOK /\ CallInv /\ StatusInv /\ WrittenInv => ErrorsAreTrue
  <2> SUFFICES ASSUME TypeOK, CallInv, StatusInv, WrittenInv, NEW c \in Calls, ~InDoubt(c)
               PROVE  /\ told[c].said = "nothingWritten" => DidNothing(c)
                      /\ told[c].said = "error" =>
                           DidNothing(c) \/ \E t \in Tokens : effects[c] = {t}
    BY DEF ErrorsAreTrue
  <2>1. effects[c] = {} => DidNothing(c)
    <3> SUFFICES ASSUME effects[c] = {} PROVE DidNothing(c)
      OBVIOUS
    <3>1. \A t \in Tokens : <<c, t>> \in Runs
      BY DEF Runs, Attempts
    <3>2. \A t \in Tokens : status[<<c, t>>] = "none"
      BY <3>1 DEF StatusInv
    <3>3. \A r \in Runs, e \in Entries : \A a \in written[r][e] : a[1] # c
      BY DEF WrittenInv
    <3> QED BY <3>2, <3>3 DEF DidNothing
  <2>2. outcome[c] \in {"idle", "applied", "refused"}
    BY DEF TypeOK, ContractTypeOK, Ends, InDoubt
  <2>3. outcome[c] = "applied" =>
          told[c].said # "nothingWritten" /\ \E t \in Tokens : effects[c] = {t}
    BY DEF CallInv
  <2>4. outcome[c] # "applied" => effects[c] = {}
    BY <2>2 DEF CallInv
  <2> QED BY <2>1, <2>3, <2>4
<1> QED BY <1>1, Basics, Statuses, Writing, PTL

(* The truth of an answer lasts, and so does a run's verdict.              *)
THEOREM AnswersLast == Spec => NothingComesLate
<1> DEFINE Late == /\ \A c \in Calls : outcome[c] # "idle" /\ ~InDoubt(c) => effects'[c] = effects[c]
                   /\ \A r \in Runs : status[r] \in {"completed", "aborted"} =>
                        status'[r] = status[r] /\ written'[r] = written[r]
<1>1. ASSUME TypeOK, CallInv, StatusInv, [Next]_vars
      PROVE  Late
  <2>1. ASSUME UNCHANGED <<effects, status, written>> PROVE Late
    BY <2>1
  <2>2. ASSUME NEW c \in Calls, NEW t \in Tokens, Carry(c, t) PROVE Late
    <3>1. /\ InDoubt(c) /\ effects' = [effects EXCEPT ![c] = @ \cup {t}]
          /\ t \notin effects[c] /\ Possible(request[c])
      BY <2>2 DEF Carry, Effect, InDoubt
    <3>2. \A d \in Calls : outcome[d] # "idle" /\ ~InDoubt(d) => effects'[d] = effects[d]
      BY <1>1, <3>1 DEF TypeOK, ContractTypeOK
    <3>3. ASSUME NEW r \in Runs, status[r] \in {"completed", "aborted"}
          PROVE  status'[r] = status[r] /\ written'[r] = written[r]
      <4>1. CASE request[c].op = "create" /\ Create(<<c, t>>)
        <5>1. <<c, t>> \in Runs
          BY DEF Runs, Attempts
        <5>2. status[<<c, t>>] = "none"
          BY <1>1, <3>1, <5>1 DEF StatusInv
        <5>3. r # <<c, t>>
          BY <3>3, <5>2
        <5> QED BY <1>1, <4>1, <5>1, <5>3 DEF Create, TypeOK
      <4>2. CASE request[c].op = "report" /\ Report(<<c, t>>, request[c].run, request[c].batch)
        <5>1. request[c].run \in Runs
          BY <1>1, <4>2 DEF CallInv
        <5>2. Unfinished(request[c].run)
          BY <3>1, <4>2 DEF Possible
        <5>3. r # request[c].run
          BY <3>3, <5>2 DEF Unfinished
        <5> QED BY <1>1, <4>2, <5>1, <5>3 DEF Report, TypeOK
      <4>3. CASE request[c].op = "complete" /\ Become(request[c].run, "completed")
        <5>1. r # request[c].run \/ status[r] = "completed"
          BY <3>1, <3>3, <4>3 DEF Possible, Unfinished
        <5> QED BY <1>1, <3>3, <4>3, <5>1 DEF Become, TypeOK, CallInv
      <4>4. CASE request[c].op = "abort" /\ Become(request[c].run, "aborted")
        <5>1. r # request[c].run
          BY <3>1, <3>3, <4>4 DEF Possible, Unfinished
        <5> QED BY <1>1, <4>4, <5>1 DEF Become, TypeOK, CallInv
      <4> QED BY <2>2, <4>1, <4>2, <4>3, <4>4 DEF Carry
    <3> QED BY <3>2, <3>3
  <2> QED
    BY <1>1, <2>1, <2>2, EveryStep
       DEF Sends, Answered, Invalidate, vars, contractVars, server
<1>2. TypeOK /\ CallInv /\ StatusInv /\ [Next]_vars => [Late]_vars
  BY <1>1, Zenon
<1> QED
  BY <1>2, Basics, Statuses, PTL DEF Spec, NothingComesLate

(* The tools, the reporter and the server stay within the contract that    *)
(* api.Client implements: a call is opened once and answered once, and the *)
(* server acts on it only while its answer leaves room for that.           *)
THEOREM CallsKeepTheContract == Spec => ContractSpec
<1>1. Init => ContractInit
  BY DEF Init
<1>2. TypeOK /\ CallInv /\ [Next]_vars => [ContractNext]_contractVars
  <2> SUFFICES ASSUME TypeOK, CallInv, [Next]_vars PROVE [ContractNext]_contractVars
    OBVIOUS
  <2>1. ASSUME NEW c \in Calls, NEW q \in Requests, Sends(c, q) PROVE ContractNext
    <3>1. Open(c)
      BY <2>1 DEF Sends, Open
    <3> QED BY <3>1 DEF ContractNext
  <2>2. ASSUME NEW c \in Calls, NEW o \in Ends, NEW a \in Answers, Answered(c, o, a)
        PROVE  ContractNext
    <3>1. End(c, o)
      BY <2>2 DEF Answered, End, Justified
    <3> QED BY <3>1 DEF ContractNext
  <2>3. ASSUME NEW c \in Calls, NEW t \in Tokens, Carry(c, t) PROVE ContractNext
    <3>1. Effect(c, t)
      BY <2>3 DEF Carry
    <3> QED BY <3>1 DEF ContractNext
  <2>4. ASSUME (\E e \in Named : Invalidate(e)) \/ UNCHANGED vars
        PROVE  UNCHANGED contractVars
    BY <2>4 DEF Invalidate, vars
  <2> QED BY EveryStep, <2>1, <2>2, <2>3, <2>4
<1> QED
  BY <1>1, <1>2, Basics, PTL DEF Spec, ContractSpec
=============================================================================
