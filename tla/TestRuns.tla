------------------------------ MODULE TestRuns ------------------------------
(***************************************************************************)
(* A test run from create_test_run to complete_test_run                    *)
(* (internal/mcpserver/testrun_tools.go, internal/api/testrun.go).  A      *)
(* reporter creates a run, reports its entries in batches, several at a    *)
(* time, again when it was not told ok, and completes the run when every   *)
(* entry has been acknowledged; others may complete or abort a run at any  *)
(* time.                                                                   *)
(*                                                                         *)
(* Every tool sends one POST through api.Client.  What the client makes of *)
(* attempts, retries and late arrivals is CallContract, which HttpClient   *)
(* implements: a call takes effect once, several times, or not at all,     *)
(* perhaps after it was answered, and its outcome, which the tool does not *)
(* tell the reporter, says which.                                          *)
(*                                                                         *)
(* The server is outside the repository: it checks a batch and then writes *)
(* it, recognises an entry that carries a stable id, completes and aborts  *)
(* a run that is new or in progress, and lets a completed run be completed *)
(* again.  Left out: names, environments, statistics.                      *)
(***************************************************************************)
EXTENDS CallContract, Integers, FiniteSets

CONSTANTS
  Entries,     (* what the reporter has to report                          *)
  Stable,      (* entries that carry a stable id                           *)
  Named,       (* entries that name a test case by its number              *)
  MaxBatch,    (* entries in a batch, 2000 in the code                     *)
  MaxOthers,   (* bound: calls that are not the reporter's                 *)
  None

(* What carried a request out: an attempt of a call.  A run is known by    *)
(* the attempt that created it.                                            *)
Attempts == Calls \X Tokens
Runs == Attempts

ASSUME TestRunsAssumption ==
  /\ IsFiniteSet(Entries)
  /\ Stable \subseteq Entries /\ Named \subseteq Entries
  /\ {MaxBatch, MaxOthers} \subseteq Nat
  /\ None \notin Runs

VARIABLES
  request,  (* what each call asks for                                     *)
  told,     (* what the tool has answered                                  *)
  status,   (* of each run                                                 *)
  written,  (* in each run, the attempts that wrote an entry               *)
  valid     (* entries that pass the server's checks now                   *)

server == <<status, written, valid>>
vars == <<contractVars, request, told, server>>

Batches == {b \in SUBSET Entries : b # {} /\ Cardinality(b) <= MaxBatch}

Requests ==
  [by : {"nobody", "reporter", "other"}, op : {"none", "create", "complete", "abort"},
   run : Runs \cup {None}, batch : {{}}]
  \cup [by : {"reporter"}, op : {"report"}, run : Runs, batch : Batches]

Ask(by, op, run, batch) == [by |-> by, op |-> op, run |-> run, batch |-> batch]

Answers == [said : {"nothing", "ok", "error", "nothingWritten"},
            run : Runs \cup {None}]

NoAnswer == [said |-> "nothing", run |-> None]

TypeOK ==
  /\ ContractTypeOK
  /\ request \in [Calls -> Requests]
  /\ told \in [Calls -> Answers]
  /\ status \in [Runs -> {"none", "new", "inProgress", "completed", "aborted"}]
  /\ written \in [Runs -> [Entries -> SUBSET Attempts]]
  /\ valid \in SUBSET Entries

Init ==
  /\ ContractInit
  /\ request = [c \in Calls |-> Ask("nobody", "none", None, {})]
  /\ told = [c \in Calls |-> NoAnswer]
  /\ status = [r \in Runs |-> "none"]
  /\ written = [r \in Runs |-> [e \in Entries |-> {}]]
  /\ valid = Entries

-----------------------------------------------------------------------------
(* The server                                                              *)

Unfinished(r) == status[r] \in {"new", "inProgress"}

Recognised(e, r) == e \in Stable /\ written[r][e] # {}

(* Whether the server, as it is now, carries the request out.              *)
Possible(q) ==
  CASE q.op = "create"   -> TRUE
    [] q.op = "report"   -> Unfinished(q.run) /\ q.batch \subseteq valid
    [] q.op = "complete" -> Unfinished(q.run) \/ status[q.run] = "completed"
    [] q.op = "abort"    -> Unfinished(q.run)
    [] OTHER             -> FALSE

Create(a) ==
  /\ status' = [status EXCEPT ![a] = "new"]
  /\ UNCHANGED written

Report(a, r, batch) ==
  /\ status' = [status EXCEPT ![r] = "inProgress"]
  /\ written' = [written EXCEPT ![r] =
       [e \in Entries |->
          IF e \in batch /\ ~Recognised(e, r) THEN @[e] \cup {a} ELSE @[e]]]

Become(r, s) ==
  /\ status' = [status EXCEPT ![r] = s]
  /\ UNCHANGED written

(* An attempt of the call reaches the server, in time or late.             *)
Carry(c, t) ==
  LET q == request[c] IN
  /\ Effect(c, t)
  /\ Possible(q)
  /\ \/ q.op = "create"   /\ Create(<<c, t>>)
     \/ q.op = "report"   /\ Report(<<c, t>>, q.run, q.batch)
     \/ q.op = "complete" /\ Become(q.run, "completed")
     \/ q.op = "abort"    /\ Become(q.run, "aborted")
  /\ UNCHANGED <<request, told, valid>>

(* The test case an entry names is deleted or merged away.                 *)
Invalidate(e) ==
  /\ e \in valid
  /\ valid' = valid \ {e}
  /\ UNCHANGED <<contractVars, request, told, status, written>>

-----------------------------------------------------------------------------
(* The tools                                                               *)

Tell(c, said, r) == told' = [told EXCEPT ![c] = [said |-> said, run |-> r]]

(* One request goes out.                                                   *)
Send(c, q) ==
  /\ Open(c)
  /\ request' = [request EXCEPT ![c] = q]
  /\ UNCHANGED <<told, server>>

(* A wrong BadBatch, that only looks for the cap.                          *)
TooLarge(batch) == Cardinality(batch) > MaxBatch

(* report_test_results looks at the batch first; a call it refuses itself  *)
(* sends nothing and changes nothing.                                      *)
BadBatch(batch) == batch = {} \/ Cardinality(batch) > MaxBatch

SendReport(c, r, batch) ==
  /\ ~BadBatch(batch)
  /\ Send(c, Ask("reporter", "report", r, batch))

(* A wrong Succeed, which looks the run up among those there are.          *)
SucceedWithAny(c) ==
  /\ outcome[c] = "open"
  /\ \E o \in {"applied", "atLeastOnce"} : End(c, o)
  /\ \E r \in Runs : status[r] # "none" /\ Tell(c, "ok", r)
  /\ UNCHANGED <<request, server>>

(* The run an answer names.  Another POST than the last one may have been  *)
(* carried out, so that of a create may be one of several it has made; and *)
(* an empty body, which Do takes as it is, gives the run the number 0.     *)
RunsInAnswer(c) ==
  IF request[c].op = "create" THEN {<<c, t>> : t \in effects[c]} \cup {None}
  ELSE {request[c].run}

(* A wrong Succeed, which goes by the errors an answer lists and not by its*)
(* status.                                                                 *)
SucceedByErrors(c) ==
  /\ outcome[c] = "open"
  /\ \E o \in {"applied", "atLeastOnce"} : End(c, o)
  /\ \E r \in RunsInAnswer(c), listed \in BOOLEAN :
       Tell(c, IF request[c].op = "report" /\ listed THEN "nothingWritten" ELSE "ok", r)
  /\ UNCHANGED <<request, server>>

Succeed(c) ==
  /\ outcome[c] = "open"
  /\ \E o \in {"applied", "atLeastOnce"} : End(c, o)
  /\ \E r \in RunsInAnswer(c) : Tell(c, "ok", r)
  /\ UNCHANGED <<request, server>>

(* A wrong Misread, which takes any error of a report for a rejection.     *)
MisreadAsRejected(c) ==
  /\ outcome[c] = "open"
  /\ \E o \in {"applied", "atLeastOnce"} : End(c, o)
  /\ Tell(c, IF request[c].op = "report" THEN "nothingWritten" ELSE "error", None)
  /\ UNCHANGED <<request, server>>

(* A 2xx whose body is cut off or does not decode: Do returns an error, and*)
(* the tool tells it, although the request was carried out.                *)
Misread(c) ==
  /\ outcome[c] = "open"
  /\ \E o \in {"applied", "atLeastOnce"} : End(c, o)
  /\ Tell(c, "error", None)
  /\ UNCHANGED <<request, server>>

EntriesRejected(q) == q.op = "report" /\ Unfinished(q.run) /\ ~(q.batch \subseteq valid)

(* A wrong Reject, that takes a run in another state for one in the state  *)
(* asked for.                                                              *)
RejectAsDone(c) ==
  /\ outcome[c] = "open"
  /\ ~Possible(request[c])
  /\ \E o \in {"refused", "unknown"} : End(c, o)
  /\ Tell(c, "ok", request[c].run)
  /\ UNCHANGED <<request, server>>

(* The last attempt was turned down for what the server found; an earlier  *)
(* one may have been carried out behind a 5xx.  The tool reads the entries *)
(* of a rejected report out of the error and says that nothing was written.*)
Reject(c) ==
  /\ outcome[c] = "open"
  /\ ~Possible(request[c])
  /\ \E o \in {"refused", "unknown"} : End(c, o)
  /\ Tell(c, IF EntriesRejected(request[c]) THEN "nothingWritten" ELSE "error", None)
  /\ UNCHANGED <<request, server>>

(* A wrong Fail, whose error is not looked at but for a create.            *)
FailUnnoticed(c) ==
  /\ outcome[c] = "open"
  /\ \E o \in {"refused", "unknown"} : End(c, o)
  /\ Tell(c, IF request[c].op = "create" THEN "error" ELSE "ok", request[c].run)
  /\ UNCHANGED <<request, server>>

(* No answer, or one that has nothing to do with the run.                  *)
Fail(c) ==
  /\ outcome[c] = "open"
  /\ \E o \in {"refused", "unknown"} : End(c, o)
  /\ Tell(c, "error", None)
  /\ UNCHANGED <<request, server>>

-----------------------------------------------------------------------------
(* The reporter, and the others                                            *)

CallsBy(who) == {c \in Calls : request[c].by = who}

Asked(op) == {c \in CallsBy("reporter") : request[c].op = op}
Pending(op) == {c \in Asked(op) : outcome[c] = "open"}
Ok(c) == told[c].said = "ok"

(* The runs it was told of; it works with one, from the first one on.  A   *)
(* run without a number is none: every tool refuses run_seq 0.             *)
Mine == {told[c].run : c \in {d \in Asked("create") : Ok(d)}} \ {None}

Acknowledged == UNION {request[c].batch : c \in {d \in Asked("report") : Ok(d)}}
OnTheWay == UNION {request[c].batch : c \in Pending("report")}

CreateRun(c) ==
  /\ Mine = {} /\ Pending("create") = {}
  /\ Send(c, Ask("reporter", "create", None, {}))

ReportResults(c) ==
  \E r \in Mine, batch \in SUBSET (Entries \ (Acknowledged \cup OnTheWay)) :
    SendReport(c, r, batch)

CompleteRun(c) ==
  /\ Acknowledged = Entries
  /\ Pending("complete") = {} /\ ~\E d \in Asked("complete") : Ok(d)
  /\ \E r \in Mine : Send(c, Ask("reporter", "complete", r, {}))

EndByOthers(c) ==
  /\ Cardinality(CallsBy("other")) < MaxOthers
  /\ \E r \in Runs, op \in {"complete", "abort"} :
    /\ status[r] # "none" /\ r \in Mine
    /\ Send(c, Ask("other", op, r, {}))

Next ==
  \/ \E c \in Calls : CreateRun(c) \/ ReportResults(c) \/ CompleteRun(c) \/ EndByOthers(c)
  \/ \E c \in Calls : Succeed(c) \/ Misread(c) \/ Reject(c) \/ Fail(c)
  \/ \E c \in Calls, t \in Tokens : Carry(c, t)
  \/ \E e \in Named : Invalidate(e)

Spec == Init /\ [][Next]_vars

-----------------------------------------------------------------------------
(* Properties                                                              *)

(* A call that may have been carried out more often than its answer says.  *)
InDoubt(c) == outcome[c] \in {"open", "atLeastOnce", "unknown"}

(* A call whose answer does not settle what it did: it is in doubt, or it  *)
(* was carried out and the reporter was told of an error, or of no run.    *)
Unsettled(c) ==
  \/ InDoubt(c)
  \/ outcome[c] = "applied" /\ told[c].said = "error"
  \/ outcome[c] = "applied" /\ Ok(c) /\ told[c].run = None

(* When complete_test_run has said ok to the reporter, the run's verdict   *)
(* is of every entry, and of an entry with a stable id exactly once,       *)
(* although calls were repeated and arrived late, and whoever else worked  *)
(* on the run.                                                             *)
VerdictIsOfEverything ==
  \A c \in Asked("complete") : Ok(c) =>
    /\ status[request[c].run] = "completed"
    /\ \A e \in Entries :
         /\ written[request[c].run][e] # {}
         /\ e \in Stable => \A a, b \in written[request[c].run][e] : a = b

(* An entry is counted twice only if it has no stable id, and one of the   *)
(* calls that reported it was not settled by its answer.  So a reporter    *)
(* that was told "nothing was written" may report again, unless the call   *)
(* was in doubt.                                                           *)
CountedTwiceOnlyUnsettled ==
  \A r \in Runs, e \in Entries :
    \A a, b \in written[r][e] :
      a # b => e \notin Stable /\ (Unsettled(a[1]) \/ Unsettled(b[1]))

(* A run nobody was told of comes from a create_test_run that was not      *)
(* settled by its answer.                                                  *)
StrayRunsAreUnsettled ==
  \A r \in Runs : status[r] # "none" => (Ok(r[1]) /\ told[r[1]].run = r) \/ Unsettled(r[1])

DidNothing(c) ==
  /\ \A r \in Runs, e \in Entries : \A a \in written[r][e] : a[1] # c
  /\ \A t \in Tokens : status[<<c, t>>] = "none"

(* Of a call that is not in doubt: when the tool says that nothing was     *)
(* written, the call has written nothing; when it tells an error, the call *)
(* did nothing, or was carried out once and its answer could not be read.  *)
(* So a rejected batch is reported wrongly only by a call in doubt.        *)
ErrorsAreTrue ==
  \A c \in Calls : ~InDoubt(c) =>
    /\ told[c].said = "nothingWritten" => DidNothing(c)
    /\ told[c].said = "error" => DidNothing(c) \/ \E t \in Tokens : effects[c] = {t}

(* No run is both told completed and told aborted.                         *)
OneEnd ==
  \A c, d \in Calls :
    ~(/\ Ok(c) /\ request[c].op = "complete"
      /\ Ok(d) /\ request[d].op = "abort"
      /\ request[c].run = request[d].run)

(* What report_test_results says of a rejected batch: "nothing was         *)
(* written".                                                               *)
NothingWasWritten ==
  \A c \in Calls : told[c].said = "nothingWritten" =>
    \A r \in Runs, e \in Entries : \A a \in written[r][e] : a[1] # c
=============================================================================
