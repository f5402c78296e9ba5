----------------------------- MODULE HttpClient -----------------------------
(***************************************************************************)
(* api.Client.Do (internal/api/client.go) against the REST server.         *)
(*                                                                         *)
(* Calls run concurrently: the MCP server handles each tool call in a      *)
(* goroutine of its own, with a context of its own, over one shared        *)
(* Client, which Do never changes.  A call makes up to MaxRetries + 1      *)
(* attempts.  An attempt is a request on the wire; the server may process  *)
(* it late, lose it, or answer into a connection nobody reads any more.    *)
(*                                                                         *)
(* The server is outside the repository.  It is modelled from what Do      *)
(* relies on: a 2xx says the request was carried out; 401, 403, 404, 429,  *)
(* 501 and the other 4xx say it was not and never will be; another 5xx,    *)
(* which a gateway may send while the request is still being worked on     *)
(* behind it, says nothing.                                                *)
(*                                                                         *)
(* Left out: the durations of the backoff and of the timeout (a sleep ends *)
(* some time, an attempt times out some time), headers and bodies.         *)
(***************************************************************************)
EXTENDS Integers

CONSTANTS
  Calls,       (* invocations of Client.Do                                 *)
  Method,      (* the HTTP method of each call                             *)
  MaxRetries,  (* Client.maxRetries                                        *)
  None         (* no answer, no result, no write                           *)

Methods == {"GET", "HEAD", "PUT", "DELETE", "POST"}

(* 401, 403, 404, 501 and the statuses of the default case each have an    *)
(* error of their own, and the same effect: Do returns it at once.         *)
Retryable == {"rateLimited", "serverError"}

Statuses == {"ok", "refused"} \cup Retryable

(* What Do returns: nil, a broken 2xx body, a refusal, a retryable status  *)
(* after the last attempt, a transport error, the context's error, or an   *)
(* error before the first request.                                         *)
Results ==
  Statuses \cup {"badReply", "requestFailed", "cancelled", "localError"}

ASSUME ConstantsAssumption ==
  /\ Method \in [Calls -> Methods]
  /\ MaxRetries \in Nat
  /\ None \notin Calls \cup Results

Attempts == 0..MaxRetries

VARIABLES
  pc,         (* where each call is in the loop of Do                      *)
  attempt,    (* the loop's counter                                        *)
  cancelled,  (* calls whose context is done                               *)
  inflight,   (* attempts of each call the server may still process        *)
  applied,    (* attempts of each call the server has carried out          *)
  answer,     (* status on its way to the call's current attempt           *)
  seen,       (* what each attempt came to, as the client saw it           *)
  result,     (* what Do returned                                          *)
  holder,     (* the call whose write the server holds                     *)
  before      (* the calls that had returned when a call began             *)

clientVars == <<pc, attempt, result, seen>>
serverVars == <<inflight, applied, holder>>
vars == <<pc, attempt, cancelled, inflight, applied, answer, seen, result,
          holder, before>>

TypeOK ==
  /\ pc \in [Calls -> {"idle", "send", "wait", "sleep", "done"}]
  /\ attempt \in [Calls -> Attempts]
  /\ cancelled \in SUBSET Calls
  /\ inflight \in [Calls -> SUBSET Attempts]
  /\ applied \in [Calls -> SUBSET Attempts]
  /\ answer \in [Calls -> Statuses \cup {None}]
  /\ seen \in [Calls -> [Attempts -> Statuses \cup {"unsent", "sent", "lost"}]]
  /\ result \in [Calls -> Results \cup {None}]
  /\ holder \in Calls \cup {None}
  /\ before \in [Calls -> SUBSET Calls]

Init ==
  /\ pc = [c \in Calls |-> "idle"]
  /\ attempt = [c \in Calls |-> 0]
  /\ cancelled = {}
  /\ inflight = [c \in Calls |-> {}]
  /\ applied = [c \in Calls |-> {}]
  /\ answer = [c \in Calls |-> None]
  /\ seen = [c \in Calls |-> [a \in Attempts |-> "unsent"]]
  /\ result = [c \in Calls |-> None]
  /\ holder = None
  /\ before = [c \in Calls |-> {}]

-----------------------------------------------------------------------------
(* The client                                                              *)

Idempotent(c) == Method[c] \in {"GET", "HEAD", "PUT", "DELETE"}

Goto(c, label) == pc' = [pc EXCEPT ![c] = label]

Return(c, r) ==
  /\ Goto(c, "done")
  /\ result' = [result EXCEPT ![c] = r]

(* Do is entered: the body is marshalled.                                  *)
Start(c) ==
  /\ pc[c] = "idle"
  /\ Goto(c, "send")
  /\ before' = [before EXCEPT ![c] = {d \in Calls : pc[d] = "done"}]
  /\ UNCHANGED <<attempt, result, seen, serverVars, answer, cancelled>>

(* The body does not marshal, or no request can be built from the URL.     *)
RejectLocally(c) ==
  /\ pc[c] = "idle"
  /\ Return(c, "localError")
  /\ UNCHANGED <<attempt, seen, serverVars, answer, cancelled, before>>

(* A wrong Send, on a request built without the context.                   *)
SendIgnoringContext(c) ==
  /\ pc[c] = "send"
  /\ Goto(c, "wait")
  /\ inflight' = [inflight EXCEPT ![c] = @ \cup {attempt[c]}]
  /\ seen' = [seen EXCEPT ![c][attempt[c]] = "sent"]
  /\ UNCHANGED <<attempt, result, applied, holder, answer, cancelled, before>>

(* http.Client.Do with a live context: the attempt is on the wire.         *)
Send(c) ==
  /\ pc[c] = "send"
  /\ c \notin cancelled
  /\ Goto(c, "wait")
  /\ inflight' = [inflight EXCEPT ![c] = @ \cup {attempt[c]}]
  /\ seen' = [seen EXCEPT ![c][attempt[c]] = "sent"]
  /\ UNCHANGED <<attempt, result, applied, holder, answer, cancelled, before>>

(* With the context done, http.Client.Do fails before it sends, and Do     *)
(* returns ctx.Err().                                                      *)
SendCancelled(c) ==
  /\ pc[c] = "send"
  /\ c \in cancelled
  /\ Return(c, "cancelled")
  /\ UNCHANGED <<attempt, seen, serverVars, answer, cancelled, before>>

(* Wrong guards of the retry: without the bound, without the method.       *)
RetryTransportUnbounded(c) == Idempotent(c)
RetryTransportAnyMethod(c) == attempt[c] < MaxRetries

RetryTransport(c) == attempt[c] < MaxRetries /\ Idempotent(c)

(* A transport error: the connection broke, the timeout of the attempt     *)
(* passed, or the context ended.  An answer under way is lost.             *)
TransportError(c) ==
  /\ pc[c] = "wait"
  /\ seen' = [seen EXCEPT ![c][attempt[c]] = "lost"]
  /\ \/ /\ c \in cancelled
        /\ Return(c, "cancelled")
     \/ /\ c \notin cancelled
        /\ RetryTransport(c)
        /\ Goto(c, "sleep")
        /\ UNCHANGED result
     \/ /\ c \notin cancelled
        /\ ~RetryTransport(c)
        /\ Return(c, "requestFailed")
  /\ answer' = [answer EXCEPT ![c] = None]
  /\ UNCHANGED <<attempt, serverVars, cancelled, before>>

(* A wrong Receive, which retries a call whose 2xx body does not decode.   *)
ReceiveRetryingBadReply(c) ==
  /\ pc[c] = "wait"
  /\ answer[c] # None
  /\ seen' = [seen EXCEPT ![c][attempt[c]] = answer[c]]
  /\ \/ /\ answer[c] = "ok"
        /\ Return(c, "ok")
     \/ /\ answer[c] \in Retryable \cup {"ok"}
        /\ attempt[c] # MaxRetries
        /\ Goto(c, "sleep")
        /\ UNCHANGED result
  /\ answer' = [answer EXCEPT ![c] = None]
  /\ UNCHANGED <<attempt, serverVars, cancelled, before>>

(* An answer is read and dispatched on its status.                         *)
Receive(c) ==
  /\ pc[c] = "wait"
  /\ answer[c] # None
  /\ seen' = [seen EXCEPT ![c][attempt[c]] = answer[c]]
  /\ \/ /\ answer[c] = "ok"
        /\ \E r \in {"ok", "badReply"} : Return(c, r)
     \/ /\ answer[c] = "refused"
        /\ Return(c, answer[c])
     \/ /\ answer[c] \in Retryable
        /\ attempt[c] = MaxRetries
        /\ Return(c, answer[c])
     \/ /\ answer[c] \in Retryable
        /\ attempt[c] # MaxRetries
        /\ Goto(c, "sleep")
        /\ UNCHANGED result
  /\ answer' = [answer EXCEPT ![c] = None]
  /\ UNCHANGED <<attempt, serverVars, cancelled, before>>

(* A wrong SleepDone, which forgets attempt++.                             *)
SleepDoneUncounted(c) ==
  /\ pc[c] = "sleep"
  /\ Goto(c, "send")
  /\ UNCHANGED <<attempt, result, seen, serverVars, answer, cancelled, before>>

(* sleepCtx: the timer fires.  When the context is done too, select may    *)
(* still take the timer.                                                   *)
SleepDone(c) ==
  /\ pc[c] = "sleep"
  /\ attempt' = [attempt EXCEPT ![c] = @ + 1]
  /\ Goto(c, "send")
  /\ UNCHANGED <<result, seen, serverVars, answer, cancelled, before>>

SleepCancelled(c) ==
  /\ pc[c] = "sleep"
  /\ c \in cancelled
  /\ Return(c, "cancelled")
  /\ UNCHANGED <<attempt, seen, serverVars, answer, cancelled, before>>

-----------------------------------------------------------------------------
(* The environment: the MCP client cancels a tool call or the process gets *)
(* a signal; the server and the network.                                   *)

Cancel(c) ==
  /\ pc[c] # "done"
  /\ c \notin cancelled
  /\ cancelled' = cancelled \cup {c}
  /\ UNCHANGED <<clientVars, serverVars, answer, before>>

(* Attempt a of c still has a connection with no answer on it.             *)
Listening(c, a) == pc[c] = "wait" /\ attempt[c] = a /\ answer[c] = None

(* The server answers a with s, if anybody listens.                        *)
Answer(c, a, s) ==
  answer' = IF Listening(c, a) THEN [answer EXCEPT ![c] = s] ELSE answer

Writes(c) == Method[c] \notin {"GET", "HEAD"}

(* The server carries a out; it says so, or fails afterwards.              *)
Apply(c, a) ==
  /\ a \in inflight[c]
  /\ inflight' = [inflight EXCEPT ![c] = @ \ {a}]
  /\ applied' = [applied EXCEPT ![c] = @ \cup {a}]
  /\ holder' = IF Writes(c) THEN c ELSE holder
  /\ \E s \in {"ok", "serverError"} : Answer(c, a, s)
  /\ UNCHANGED <<clientVars, cancelled, before>>

(* A server that answers 429 or 4xx and carries the request out later.     *)
RefuseLater(c, a) ==
  /\ a \in inflight[c]
  /\ \E s \in {"refused", "rateLimited"} : Answer(c, a, s)
  /\ UNCHANGED <<clientVars, serverVars, cancelled, before>>

(* The server turns a down, once and for all.                              *)
Refuse(c, a) ==
  /\ a \in inflight[c]
  /\ inflight' = [inflight EXCEPT ![c] = @ \ {a}]
  /\ \E s \in {"refused", "rateLimited"} : Answer(c, a, s)
  /\ UNCHANGED <<clientVars, applied, holder, cancelled, before>>

(* A gateway answers 5xx and leaves the request to the server behind it.   *)
Stall(c, a) ==
  /\ a \in inflight[c]
  /\ Listening(c, a)
  /\ Answer(c, a, "serverError")
  /\ UNCHANGED <<clientVars, serverVars, cancelled, before>>

(* The request never reaches the server, or the server drops it.           *)
Lose(c, a) ==
  /\ a \in inflight[c]
  /\ inflight' = [inflight EXCEPT ![c] = @ \ {a}]
  /\ UNCHANGED <<clientVars, applied, holder, answer, cancelled, before>>

-----------------------------------------------------------------------------
ClientStep(c) ==
  \/ Send(c) \/ SendCancelled(c)
  \/ TransportError(c) \/ Receive(c)
  \/ SleepDone(c) \/ SleepCancelled(c)

ServerStep(c) ==
  \E a \in Attempts : Apply(c, a) \/ Refuse(c, a) \/ Stall(c, a) \/ Lose(c, a)

Next ==
  \E c \in Calls :
    Start(c) \/ RejectLocally(c) \/ ClientStep(c) \/ Cancel(c) \/ ServerStep(c)

Spec == Init /\ [][Next]_vars

(* The goroutine of a call is scheduled, its timers fire, and an attempt   *)
(* does not outlast http.Client.Timeout.  Nothing is assumed of the server.*)
FairSpec == Spec /\ \A c \in Calls : WF_vars(ClientStep(c))

-----------------------------------------------------------------------------
(* Properties                                                              *)

(* An attempt is followed by another one only if it was answered 429 or    *)
(* 5xx, or if it met a transport error and the method is idempotent.  This *)
(* is the retry rule of Do's comment, over the whole history of a call.    *)
RetryOnlyWhenAllowed ==
  \A c \in Calls : \A a, b \in Attempts :
    /\ a < b
    /\ seen[c][b] # "unsent"
    => \/ seen[c][a] \in Retryable
       \/ seen[c][a] = "lost" /\ Idempotent(c)

(* A POST takes effect twice only if the server answered 5xx to the        *)
(* attempt that took effect first: never because of a timeout, a lost      *)
(* reply, a cancelled context or an answered error.                        *)
DuplicateOnlyAfterServerError ==
  \A c \in Calls : \A a, b \in applied[c] :
    ~Idempotent(c) /\ a < b => seen[c][a] = "serverError"

(* The client does not know what became of an attempt of c.                *)
Doubt(c) == \E a \in Attempts : seen[c][a] \in {"lost", "serverError"}

(* A write that returned nil stands against every call that had returned   *)
(* before it began, unless that earlier call left an attempt in doubt: a   *)
(* delayed attempt of an earlier call is the only thing of the past that   *)
(* can overwrite it.                                                       *)
NoSilentRevert ==
  \A d \in Calls : \A c \in before[d] :
    result[d] = "ok" /\ holder = c => Doubt(c) \/ ~Writes(d)

(* Once a call's context is done, the client puts nothing more on the wire *)
(* for it, whatever timer or answer it was waiting for.                    *)
NothingSentAfterCancel ==
  [][\A c \in Calls : c \in cancelled => inflight'[c] \subseteq inflight[c]]_vars

(* Every call that starts returns, even from a server that never answers:  *)
(* the timeout ends each attempt, and there are finitely many.             *)
EveryCallReturns == \A c \in Calls : pc[c] = "send" ~> pc[c] = "done"

(* What the results of Do mean, and that they mean it: see CallContract.   *)
OutcomeOf(c) ==
  CASE pc[c] = "idle" -> "idle"
    [] pc[c] \in {"send", "wait", "sleep"} -> "open"
    [] pc[c] = "done" /\ result[c] \in {"ok", "badReply"} ->
         IF Doubt(c) THEN "atLeastOnce" ELSE "applied"
    [] OTHER -> IF Doubt(c) THEN "unknown" ELSE "refused"

Contract == INSTANCE CallContract
  WITH Tokens <- Attempts,
       outcome <- [c \in Calls |-> OutcomeOf(c)],
       effects <- applied

(* Do implements the contract: a nil error of a call none of whose attempts*)
(* was lost or answered 5xx means exactly one effect, an error of such a   *)
(* call means none ever, and a doubtful call that returns nil had at least *)
(* one.                                                                    *)
ImplementsContract == Contract!ContractSpec
=============================================================================
