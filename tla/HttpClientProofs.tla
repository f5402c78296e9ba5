-------------------------- MODULE HttpClientProofs --------------------------
(***************************************************************************)
(* Proofs about HttpClient, for every set of calls, every assignment of    *)
(* methods and every number of retries.                                    *)
(*                                                                         *)
(* RetryOnlyWhenAllowed and the contract are not inductive: both speak of  *)
(* what the client saw, and say nothing of what is still on its way.       *)
(* HistoryInv ties the history of a call to its place in the loop,         *)
(* ServerInv ties it to what the server may still do, and PastInv carries  *)
(* the order of the calls over to the write the server holds.              *)
(***************************************************************************)
EXTENDS HttpClient, TLAPS

(* The loop sleeps only when it has an attempt left.                       *)
AttemptLeft == \A c \in Calls : pc[c] = "sleep" => attempt[c] < MaxRetries

(* What may be followed by another attempt.                                *)
MayRetry(c, s) == s \in Retryable \/ (s = "lost" /\ Idempotent(c))

HistoryInv(c) ==
  /\ \A a \in Attempts : a < attempt[c] => MayRetry(c, seen[c][a])
  /\ \A a \in Attempts : a > attempt[c] => seen[c][a] = "unsent"
  /\ pc[c] = "idle" => attempt[c] = 0
  /\ pc[c] \in {"idle", "send"} => seen[c][attempt[c]] = "unsent"
  /\ pc[c] = "wait" => seen[c][attempt[c]] = "sent"
  /\ pc[c] = "sleep" => /\ attempt[c] < MaxRetries
                        /\ MayRetry(c, seen[c][attempt[c]])
  /\ pc[c] = "done" =>
       /\ seen[c][attempt[c]] # "sent"
       /\ result[c] \in {"ok", "badReply"} <=> seen[c][attempt[c]] = "ok"
  /\ pc[c] # "done" => result[c] = None
  /\ pc[c] # "wait" => answer[c] = None

ServerInv(c) ==
  /\ \A a \in inflight[c] : seen[c][a] \in {"sent", "lost", "serverError"}
  /\ \A a \in applied[c] : seen[c][a] \in {"sent", "lost", "serverError", "ok"}
  /\ \A a \in inflight[c] : a \notin applied[c]
  /\ \A a \in Attempts : seen[c][a] = "ok" => a \in applied[c]
  /\ answer[c] = "ok" => attempt[c] \in applied[c]
  /\ answer[c] \in {"refused", "rateLimited"} =>
       attempt[c] \notin inflight[c] /\ attempt[c] \notin applied[c]

PastInv ==
  \A d \in Calls :
    /\ d \notin before[d]
    /\ \A c \in before[d] :
         /\ pc[c] = "done"
         /\ applied[d] # {} /\ Writes(d) /\ ~Doubt(c) => holder # c

CallInv(c) == HistoryInv(c) /\ ServerInv(c)

IInv == TypeOK /\ AttemptLeft /\ (\A c \in Calls : CallInv(c)) /\ PastInv

-----------------------------------------------------------------------------
(* The state of the client and of the server keeps its type: in particular *)
(* the loop counter never exceeds maxRetries, so a call makes at most      *)
(* maxRetries + 1 attempts.                                                *)
THEOREM TypeCorrect == Spec => [](TypeOK /\ AttemptLeft)
<1>1. Init => TypeOK /\ AttemptLeft
  BY ConstantsAssumption DEF Init, TypeOK, Attempts, AttemptLeft
<1>2. TypeOK /\ AttemptLeft /\ [Next]_vars => TypeOK' /\ AttemptLeft'
  <2> SUFFICES ASSUME TypeOK, AttemptLeft, [Next]_vars
               PROVE TypeOK' /\ AttemptLeft'
    OBVIOUS
  <2> USE ConstantsAssumption DEF TypeOK, AttemptLeft, Attempts, Statuses,
          Retryable, Results, Goto, Return, Answer, clientVars, serverVars
  <2> DEFINE Goal == TypeOK' /\ AttemptLeft'
  <2>1. CASE UNCHANGED vars
    BY <2>1 DEF vars
  <2>2. ASSUME NEW c \in Calls, Start(c) PROVE Goal
    BY <2>2 DEF Start
  <2>3. ASSUME NEW c \in Calls, RejectLocally(c) PROVE Goal
    BY <2>3 DEF RejectLocally
  <2>4. ASSUME NEW c \in Calls, Send(c) PROVE Goal
    BY <2>4 DEF Send
  <2>5. ASSUME NEW c \in Calls, SendCancelled(c) PROVE Goal
    BY <2>5 DEF SendCancelled
  <2>6. ASSUME NEW c \in Calls, TransportError(c) PROVE Goal
    <3>1. seen' \in [Calls -> [Attempts -> Statuses \cup {"unsent", "sent", "lost"}]]
      BY <2>6 DEF TransportError
    <3>2. CASE pc' = [pc EXCEPT ![c] = "done"]
      BY <2>6, <3>1, <3>2 DEF TransportError
    <3>3. CASE ~RetryTransport(c)
      BY <2>6, <3>2, <3>3 DEF TransportError
    <3>4. CASE RetryTransport(c) /\ pc' # [pc EXCEPT ![c] = "done"]
      BY <2>6, <3>1, <3>4, ZenonT(60) DEF TransportError, RetryTransport
    <3> QED BY <3>2, <3>3, <3>4
  <2>7. ASSUME NEW c \in Calls, Receive(c) PROVE Goal
    <3>1. seen' \in [Calls -> [Attempts -> Statuses \cup {"unsent", "sent", "lost"}]]
      BY <2>7 DEF Receive
    <3>2. CASE answer[c] = "ok"
      <4>1. PICK r \in {"ok", "badReply"} : Return(c, r)
        BY <2>7, <3>2 DEF Receive
      <4> QED BY <2>7, <3>1, <4>1 DEF Receive
    <3>3. CASE answer[c] = "refused"
      BY <2>7, <3>1, <3>3 DEF Receive
    <3>4. CASE answer[c] \in Retryable /\ attempt[c] = MaxRetries
      BY <2>7, <3>1, <3>4 DEF Receive
    <3>5. CASE answer[c] \in Retryable /\ attempt[c] # MaxRetries
      BY <2>7, <3>1, <3>5, SMTT(40) DEF Receive
    <3> QED BY <2>7, <3>2, <3>3, <3>4, <3>5 DEF Receive
  <2>8. ASSUME NEW c \in Calls, SleepDone(c) PROVE Goal
    BY <2>8 DEF SleepDone
  <2>9. ASSUME NEW c \in Calls, SleepCancelled(c) PROVE Goal
    BY <2>9 DEF SleepCancelled
  <2>10. ASSUME NEW c \in Calls, Cancel(c) PROVE Goal
    BY <2>10 DEF Cancel
  <2>11. ASSUME NEW c \in Calls, NEW a \in Attempts, Apply(c, a) PROVE Goal
    BY <2>11 DEF Apply
  <2>12. ASSUME NEW c \in Calls, NEW a \in Attempts, Refuse(c, a) PROVE Goal
    BY <2>12 DEF Refuse
  <2>13. ASSUME NEW c \in Calls, NEW a \in Attempts, Stall(c, a) PROVE Goal
    BY <2>13 DEF Stall
  <2>14. ASSUME NEW c \in Calls, NEW a \in Attempts, Lose(c, a) PROVE Goal
    BY <2>14 DEF Lose
  <2> QED
    BY <2>1, <2>2, <2>3, <2>4, <2>5, <2>6, <2>7, <2>8, <2>9, <2>10, <2>11,
       <2>12, <2>13, <2>14 DEF Next, ClientStep, ServerStep
<1> QED BY <1>1, <1>2, PTL DEF Spec

-----------------------------------------------------------------------------
(* The history the client saw stays tied to the place of the call in the   *)
(* loop of Do, whatever step is taken.                                     *)
LEMMA HistoryStep ==
  ASSUME IInv, TypeOK', [Next]_vars
  PROVE  \A d \in Calls : HistoryInv(d)'
<1> USE ConstantsAssumption DEF IInv, TypeOK, AttemptLeft, CallInv, HistoryInv, MayRetry,
       Attempts, Retryable, Statuses, Results, Goto, Return, Answer, Listening,
       clientVars, serverVars
<1>1. CASE UNCHANGED vars
  BY <1>1 DEF vars
<1>2. ASSUME NEW c \in Calls, Start(c), NEW d \in Calls
      PROVE  HistoryInv(d)'
  <2>1. CASE d # c
    BY <1>2, <2>1 DEF Start
  <2>2. CASE d = c
    BY <1>2, <2>2 DEF Start
  <2> QED BY <2>1, <2>2
<1>3. ASSUME NEW c \in Calls, RejectLocally(c), NEW d \in Calls
      PROVE  HistoryInv(d)'
  <2>1. CASE d # c
    BY <1>3, <2>1 DEF RejectLocally
  <2>2. CASE d = c
    BY <1>3, <2>2 DEF RejectLocally
  <2> QED BY <2>1, <2>2
<1>4. ASSUME NEW c \in Calls, Send(c), NEW d \in Calls
      PROVE  HistoryInv(d)'
  <2>1. CASE d # c
    BY <1>4, <2>1 DEF Send
  <2>2. CASE d = c
    BY <1>4, <2>2 DEF Send
  <2> QED BY <2>1, <2>2
<1>5. ASSUME NEW c \in Calls, SendCancelled(c), NEW d \in Calls
      PROVE  HistoryInv(d)'
  <2>1. CASE d # c
    BY <1>5, <2>1 DEF SendCancelled
  <2>2. CASE d = c
    BY <1>5, <2>2 DEF SendCancelled
  <2> QED BY <2>1, <2>2
<1>6. ASSUME NEW c \in Calls, TransportError(c), NEW d \in Calls
      PROVE  HistoryInv(d)'
  <2>1. CASE d # c
    BY <1>6, <2>1 DEF TransportError
  <2>2. CASE d = c
    BY <1>6, <2>2 DEF TransportError, RetryTransport
  <2> QED BY <2>1, <2>2
<1>7. ASSUME NEW c \in Calls, Receive(c), NEW d \in Calls
      PROVE  HistoryInv(d)'
  <2>1. CASE d # c
    BY <1>7, <2>1 DEF Receive
  <2>2. CASE d = c
    <3>1. /\ pc[c] = "wait" /\ attempt'[c] = attempt[c] /\ answer'[c] = None
          /\ seen'[c] = [seen[c] EXCEPT ![attempt[c]] = answer[c]]
          /\ result[c] = None
      BY <1>7 DEF Receive
    <3>2. CASE answer[c] = "ok"
      <4>1. PICK r \in {"ok", "badReply"} : Return(c, r)
        BY <1>7, <3>2 DEF Receive
      <4> QED BY <2>2, <3>1, <3>2, <4>1
    <3>3. CASE answer[c] = "refused"
      BY <1>7, <2>2, <3>1, <3>3 DEF Receive
    <3>4. CASE answer[c] \in Retryable /\ attempt[c] = MaxRetries
      <4>1. pc'[c] = "done" /\ result'[c] = answer[c]
        BY <1>7, <3>4 DEF Receive
      <4> QED BY <2>2, <3>1, <3>4, <4>1
    <3>5. CASE answer[c] \in Retryable /\ attempt[c] # MaxRetries
      <4>1. pc'[c] = "sleep" /\ result'[c] = None /\ attempt[c] < MaxRetries
        BY <1>7, <3>1, <3>5 DEF Receive
      <4> QED BY <2>2, <3>1, <3>5, <4>1
    <3> QED BY <1>7, <3>2, <3>3, <3>4, <3>5 DEF Receive
  <2> QED BY <2>1, <2>2
<1>8. ASSUME NEW c \in Calls, SleepDone(c), NEW d \in Calls
      PROVE  HistoryInv(d)'
  <2>1. CASE d # c
    BY <1>8, <2>1 DEF SleepDone
  <2>2. CASE d = c
    BY <1>8, <2>2 DEF SleepDone
  <2> QED BY <2>1, <2>2
<1>9. ASSUME NEW c \in Calls, SleepCancelled(c), NEW d \in Calls
      PROVE  HistoryInv(d)'
  <2>1. CASE d # c
    BY <1>9, <2>1 DEF SleepCancelled
  <2>2. CASE d = c
    <3>1. /\ pc[c] = "sleep" /\ pc'[c] = "done" /\ result'[c] = "cancelled"
          /\ UNCHANGED <<attempt, seen, answer>>
      BY <1>9 DEF SleepCancelled
    <3>2. seen[c][attempt[c]] \in {"rateLimited", "serverError", "lost"}
      BY <3>1
    <3> QED BY <2>2, <3>1, <3>2
  <2> QED BY <2>1, <2>2
<1>10. ASSUME NEW c \in Calls, Cancel(c), NEW d \in Calls
      PROVE  HistoryInv(d)'
  <2>1. CASE d # c
    BY <1>10, <2>1 DEF Cancel
  <2>2. CASE d = c
    BY <1>10, <2>2 DEF Cancel
  <2> QED BY <2>1, <2>2
<1>11. ASSUME NEW c \in Calls, NEW a \in Attempts, Apply(c, a), NEW d \in Calls
      PROVE  HistoryInv(d)'
  <2>1. CASE d # c
    BY <1>11, <2>1 DEF Apply
  <2>2. CASE d = c
    BY <1>11, <2>2 DEF Apply
  <2> QED BY <2>1, <2>2
<1>12. ASSUME NEW c \in Calls, NEW a \in Attempts, Refuse(c, a), NEW d \in Calls
      PROVE  HistoryInv(d)'
  <2>1. CASE d # c
    BY <1>12, <2>1 DEF Refuse
  <2>2. CASE d = c
    BY <1>12, <2>2 DEF Refuse
  <2> QED BY <2>1, <2>2
<1>13. ASSUME NEW c \in Calls, NEW a \in Attempts, Stall(c, a), NEW d \in Calls
      PROVE  HistoryInv(d)'
  <2>1. CASE d # c
    BY <1>13, <2>1 DEF Stall
  <2>2. CASE d = c
    BY <1>13, <2>2 DEF Stall
  <2> QED BY <2>1, <2>2
<1>14. ASSUME NEW c \in Calls, NEW a \in Attempts, Lose(c, a), NEW d \in Calls
      PROVE  HistoryInv(d)'
  <2>1. CASE d # c
    BY <1>14, <2>1 DEF Lose
  <2>2. CASE d = c
    BY <1>14, <2>2 DEF Lose
  <2> QED BY <2>1, <2>2
<1> QED
  BY <1>1, <1>2, <1>3, <1>4, <1>5, <1>6, <1>7,
     <1>8, <1>9, <1>10, <1>11, <1>12, <1>13, <1>14
     DEF Next, ClientStep, ServerStep

(* What the server has done, and what it may still do, stays tied to what  *)
(* the client saw: a refused attempt is neither applied nor on its way.    *)
LEMMA ServerInvStep ==
  ASSUME IInv, TypeOK', [Next]_vars
  PROVE  \A d \in Calls : ServerInv(d)'
<1> USE ConstantsAssumption DEF IInv, TypeOK, AttemptLeft, CallInv, HistoryInv,
       ServerInv, MayRetry, Attempts, Retryable, Statuses, Results, Goto, Return,
       Answer, Listening, clientVars, serverVars
<1>1. CASE UNCHANGED vars
  BY <1>1 DEF vars
<1>2. ASSUME NEW c \in Calls, Start(c), NEW d \in Calls
      PROVE  ServerInv(d)'
  <2>1. CASE d # c
    BY <1>2, <2>1 DEF Start
  <2>2. CASE d = c
    BY <1>2, <2>2 DEF Start
  <2> QED BY <2>1, <2>2
<1>3. ASSUME NEW c \in Calls, RejectLocally(c), NEW d \in Calls
      PROVE  ServerInv(d)'
  <2>1. CASE d # c
    BY <1>3, <2>1 DEF RejectLocally
  <2>2. CASE d = c
    BY <1>3, <2>2 DEF RejectLocally
  <2> QED BY <2>1, <2>2
<1>4. ASSUME NEW c \in Calls, Send(c), NEW d \in Calls
      PROVE  ServerInv(d)'
  <2>1. CASE d # c
    BY <1>4, <2>1 DEF Send
  <2>2. CASE d = c
    <3>1. /\ pc[c] = "send" /\ UNCHANGED <<attempt, applied, answer>>
          /\ seen'[c] = [seen[c] EXCEPT ![attempt[c]] = "sent"]
          /\ inflight'[c] = inflight[c] \cup {attempt[c]}
      BY <1>4 DEF Send
    <3>2. seen[c][attempt[c]] = "unsent" /\ answer[c] = None
      BY <3>1
    <3>3. attempt[c] \notin applied[c] /\ attempt[c] \notin inflight[c]
      BY <3>2
    <3> QED BY <2>2, <3>1, <3>2, <3>3
  <2> QED BY <2>1, <2>2
<1>5. ASSUME NEW c \in Calls, SendCancelled(c), NEW d \in Calls
      PROVE  ServerInv(d)'
  <2>1. CASE d # c
    BY <1>5, <2>1 DEF SendCancelled
  <2>2. CASE d = c
    BY <1>5, <2>2 DEF SendCancelled
  <2> QED BY <2>1, <2>2
<1>6. ASSUME NEW c \in Calls, TransportError(c), NEW d \in Calls
      PROVE  ServerInv(d)'
  <2>1. CASE d # c
    BY <1>6, <2>1 DEF TransportError
  <2>2. CASE d = c
    BY <1>6, <2>2 DEF TransportError, RetryTransport
  <2> QED BY <2>1, <2>2
<1>7. ASSUME NEW c \in Calls, Receive(c), NEW d \in Calls
      PROVE  ServerInv(d)'
  <2>1. CASE d # c
    BY <1>7, <2>1 DEF Receive
  <2>2. CASE d = c
    BY <1>7, <2>2 DEF Receive
  <2> QED BY <2>1, <2>2
<1>8. ASSUME NEW c \in Calls, SleepDone(c), NEW d \in Calls
      PROVE  ServerInv(d)'
  <2>1. CASE d # c
    BY <1>8, <2>1 DEF SleepDone
  <2>2. CASE d = c
    BY <1>8, <2>2 DEF SleepDone
  <2> QED BY <2>1, <2>2
<1>9. ASSUME NEW c \in Calls, SleepCancelled(c), NEW d \in Calls
      PROVE  ServerInv(d)'
  <2>1. CASE d # c
    BY <1>9, <2>1 DEF SleepCancelled
  <2>2. CASE d = c
    BY <1>9, <2>2 DEF SleepCancelled
  <2> QED BY <2>1, <2>2
<1>10. ASSUME NEW c \in Calls, Cancel(c), NEW d \in Calls
      PROVE  ServerInv(d)'
  <2>1. CASE d # c
    BY <1>10, <2>1 DEF Cancel
  <2>2. CASE d = c
    BY <1>10, <2>2 DEF Cancel
  <2> QED BY <2>1, <2>2
<1>11. ASSUME NEW c \in Calls, NEW a \in Attempts, Apply(c, a), NEW d \in Calls
      PROVE  ServerInv(d)'
  <2>1. CASE d # c
    BY <1>11, <2>1 DEF Apply
  <2>2. CASE d = c
    BY <1>11, <2>2 DEF Apply
  <2> QED BY <2>1, <2>2
<1>12. ASSUME NEW c \in Calls, NEW a \in Attempts, Refuse(c, a), NEW d \in Calls
      PROVE  ServerInv(d)'
  <2>1. CASE d # c
    BY <1>12, <2>1 DEF Refuse
  <2>2. CASE d = c
    BY <1>12, <2>2 DEF Refuse
  <2> QED BY <2>1, <2>2
<1>13. ASSUME NEW c \in Calls, NEW a \in Attempts, Stall(c, a), NEW d \in Calls
      PROVE  ServerInv(d)'
  <2>1. CASE d # c
    BY <1>13, <2>1 DEF Stall
  <2>2. CASE d = c
    BY <1>13, <2>2 DEF Stall
  <2> QED BY <2>1, <2>2
<1>14. ASSUME NEW c \in Calls, NEW a \in Attempts, Lose(c, a), NEW d \in Calls
      PROVE  ServerInv(d)'
  <2>1. CASE d # c
    BY <1>14, <2>1 DEF Lose
  <2>2. CASE d = c
    BY <1>14, <2>2 DEF Lose
  <2> QED BY <2>1, <2>2
<1> QED
  BY <1>1, <1>2, <1>3, <1>4, <1>5, <1>6, <1>7,
     <1>8, <1>9, <1>10, <1>11, <1>12, <1>13, <1>14
     DEF Next, ClientStep, ServerStep

(* What a call that has returned showed its caller does not change.        *)
LEMMA DoneStable ==
  ASSUME TypeOK, [Next]_vars, NEW c \in Calls, pc[c] = "done"
  PROVE  pc'[c] = "done" /\ seen'[c] = seen[c] /\ result'[c] = result[c]
<1> USE DEF TypeOK, Goto, Return, clientVars, serverVars
<1>1. CASE UNCHANGED vars
  BY <1>1 DEF vars
<1>2. ASSUME NEW e \in Calls,
             \/ Start(e) \/ RejectLocally(e) \/ Send(e) \/ SendCancelled(e)
             \/ TransportError(e) \/ SleepDone(e) \/ SleepCancelled(e)
             \/ Cancel(e) \/ ServerStep(e)
      PROVE  pc'[c] = "done" /\ seen'[c] = seen[c] /\ result'[c] = result[c]
  BY <1>2 DEF Start, RejectLocally, Send, SendCancelled, TransportError,
     SleepDone, SleepCancelled, Cancel, ServerStep, Apply, Refuse, Stall, Lose
<1>3. ASSUME NEW e \in Calls, Receive(e)
      PROVE  pc'[c] = "done" /\ seen'[c] = seen[c] /\ result'[c] = result[c]
  BY <1>3 DEF Receive
<1> QED BY <1>1, <1>2, <1>3 DEF Next, ClientStep

(* An attempt of a returned call that is still on its way was in doubt.    *)
LEMMA InflightDoubt ==
  ASSUME IInv, NEW c \in Calls, pc[c] = "done", NEW a \in inflight[c]
  PROVE  Doubt(c)
<1>1. a \in Attempts /\ CallInv(c) /\ attempt[c] \in Attempts
  BY DEF IInv, TypeOK
<1>2. seen[c][a] \in {"sent", "lost", "serverError"}
  BY <1>1 DEF CallInv, ServerInv
<1>3. seen[c][a] # "sent"
  BY <1>1, ConstantsAssumption
     DEF CallInv, HistoryInv, MayRetry, Retryable, Attempts
<1> QED BY <1>1, <1>2, <1>3 DEF Doubt

(* The server has done nothing for a call that has not begun.              *)
LEMMA IdleUntouched ==
  ASSUME IInv, NEW c \in Calls, pc[c] = "idle"
  PROVE  applied[c] = {} /\ inflight[c] = {}
<1>1. CallInv(c) /\ applied[c] \subseteq Attempts /\ inflight[c] \subseteq Attempts
  BY DEF IInv, TypeOK
<1>2. \A a \in Attempts : seen[c][a] = "unsent"
  BY <1>1, ConstantsAssumption DEF CallInv, HistoryInv, Attempts
<1> QED BY <1>1, <1>2 DEF CallInv, ServerInv

(* A write on its way for a call that had returned before another began    *)
(* is a doubtful one, so no other can take the place of the later write.   *)
LEMMA PastStep ==
  ASSUME IInv, [Next]_vars
  PROVE  PastInv'
<1> SUFFICES ASSUME NEW d \in Calls
             PROVE  /\ d \notin before'[d]
                    /\ \A c \in before'[d] :
                         /\ pc'[c] = "done"
                         /\ applied'[d] # {} /\ Writes(d) /\ ~Doubt(c)'
                              => holder' # c
  BY DEF PastInv
<1> USE DEF IInv, clientVars, serverVars
<1>1. \A c \in Calls : pc[c] = "done" => pc'[c] = "done" /\ (Doubt(c)' <=> Doubt(c))
  BY DoneStable DEF Doubt
<1>2. \A c \in before[d] : c \in Calls /\ pc[c] = "done"
  BY DEF PastInv, TypeOK
<1>3. CASE UNCHANGED vars
  BY <1>3, <1>1, <1>2 DEF vars, PastInv
<1>4. ASSUME NEW e \in Calls, Start(e)
      PROVE  /\ d \notin before'[d]
             /\ \A c \in before'[d] :
                  /\ pc'[c] = "done"
                  /\ applied'[d] # {} /\ Writes(d) /\ ~Doubt(c)'
                       => holder' # c
  <2>1. CASE d = e
    BY <1>4, <2>1, <1>1, IdleUntouched DEF Start, Goto, TypeOK
  <2>2. CASE d # e
    BY <1>4, <2>2, <1>1, <1>2 DEF Start, PastInv, TypeOK
  <2> QED BY <2>1, <2>2
<1>5. ASSUME NEW e \in Calls, NEW a \in Attempts, Apply(e, a)
      PROVE  /\ d \notin before'[d]
             /\ \A c \in before'[d] :
                  /\ pc'[c] = "done"
                  /\ applied'[d] # {} /\ Writes(d) /\ ~Doubt(c)'
                       => holder' # c
  <2>1. before' = before /\ a \in inflight[e]
        /\ holder' = (IF Writes(e) THEN e ELSE holder)
    BY <1>5 DEF Apply
  <2>2. d # e => applied'[d] = applied[d]
    BY <1>5 DEF Apply, TypeOK
  <2>3. \A c \in before[d] : ~Doubt(c) => c # e
    BY <1>2, <2>1, InflightDoubt
  <2>4. CASE d = e
    BY <2>1, <2>4, <1>1, <1>2 DEF PastInv
  <2>5. CASE d # e
    BY <2>1, <2>2, <2>3, <2>5, <1>1, <1>2 DEF PastInv
  <2> QED BY <2>4, <2>5
<1>6. CASE UNCHANGED <<applied, holder, before>>
  BY <1>6, <1>1, <1>2 DEF PastInv
<1>7. ASSUME NEW e \in Calls,
             \/ RejectLocally(e) \/ Send(e) \/ SendCancelled(e)
             \/ TransportError(e) \/ Receive(e) \/ SleepDone(e)
             \/ SleepCancelled(e) \/ Cancel(e)
             \/ \E a \in Attempts : Refuse(e, a) \/ Stall(e, a) \/ Lose(e, a)
      PROVE  UNCHANGED <<applied, holder, before>>
  BY <1>7, Zenon DEF RejectLocally, Send, SendCancelled, TransportError, Receive,
     SleepDone, SleepCancelled, Cancel, Refuse, Stall, Lose
<1> QED
  BY <1>3, <1>4, <1>5, <1>6, <1>7 DEF Next, ClientStep, ServerStep

(* The three invariants together are inductive.                            *)
THEOREM InductiveInvariant == Spec => []IInv
<1>1. Init => IInv
  <2> SUFFICES ASSUME Init PROVE IInv
    OBVIOUS
  <2>1. TypeOK /\ AttemptLeft /\ PastInv
    BY ConstantsAssumption DEF Init, TypeOK, AttemptLeft, PastInv, Attempts
  <2>2. ASSUME NEW c \in Calls PROVE HistoryInv(c)
    BY ConstantsAssumption DEF Init, HistoryInv, Attempts, Results
  <2>3. ASSUME NEW c \in Calls PROVE ServerInv(c)
    BY ConstantsAssumption DEF Init, ServerInv, Results, Statuses
  <2> QED BY <2>1, <2>2, <2>3 DEF IInv, CallInv
<1>2. IInv /\ TypeOK' /\ AttemptLeft' /\ [Next]_vars => IInv'
  BY HistoryStep, ServerInvStep, PastStep DEF IInv, CallInv
<1> QED BY <1>1, <1>2, TypeCorrect, PTL DEF Spec

-----------------------------------------------------------------------------
(* The loop of Do sends an attempt after another one only if that one was  *)
(* answered 429 or 5xx, or met a transport error with an idempotent method.*)
THEOREM RetryRule == Spec => []RetryOnlyWhenAllowed
<1>1. IInv => RetryOnlyWhenAllowed
  <2> SUFFICES ASSUME IInv, NEW c \in Calls, NEW a \in Attempts, NEW b \in Attempts,
                      a < b, seen[c][b] # "unsent"
               PROVE  MayRetry(c, seen[c][a])
    BY DEF RetryOnlyWhenAllowed, MayRetry
  <2>1. HistoryInv(c) /\ attempt[c] \in Attempts
    BY DEF IInv, TypeOK, CallInv
  <2>2. ~(b > attempt[c])
    BY <2>1 DEF HistoryInv
  <2>3. a < attempt[c]
    BY <2>1, <2>2, ConstantsAssumption DEF Attempts
  <2> QED BY <2>1, <2>3 DEF HistoryInv
<1> QED BY <1>1, InductiveInvariant, PTL

(* A POST takes effect twice only behind an attempt the server answered    *)
(* with a 5xx.                                                             *)
THEOREM DuplicateRule == Spec => []DuplicateOnlyAfterServerError
<1>1. IInv => DuplicateOnlyAfterServerError
  <2> SUFFICES ASSUME IInv, NEW c \in Calls, NEW a \in applied[c], NEW b \in applied[c],
                      ~Idempotent(c), a < b
               PROVE  seen[c][a] = "serverError"
    BY DEF DuplicateOnlyAfterServerError
  <2>1. /\ HistoryInv(c) /\ ServerInv(c) /\ attempt[c] \in Attempts
        /\ a \in Attempts /\ b \in Attempts
    BY DEF IInv, TypeOK, CallInv
  <2>2. seen[c][b] # "unsent"
    BY <2>1 DEF ServerInv
  <2>3. a < attempt[c]
    BY <2>1, <2>2, ConstantsAssumption DEF HistoryInv, Attempts
  <2>4. seen[c][a] \in Retryable
    BY <2>1, <2>3 DEF HistoryInv, MayRetry
  <2> QED BY <2>1, <2>4 DEF ServerInv, Retryable
<1> QED BY <1>1, InductiveInvariant, PTL

(* A write that returned nil is never overwritten by a call that had       *)
(* returned before it began, unless an attempt of that call was in doubt.  *)
THEOREM NoSilentRevertHolds == Spec => []NoSilentRevert
<1>1. IInv => NoSilentRevert
  <2> SUFFICES ASSUME IInv, NEW d \in Calls, NEW c \in before[d],
                      result[d] = "ok", holder = c, Writes(d)
               PROVE  Doubt(c)
    BY DEF NoSilentRevert
  <2>1. HistoryInv(d) /\ ServerInv(d) /\ attempt[d] \in Attempts
    BY DEF IInv, TypeOK, CallInv
  <2>2. pc[d] = "done"
    BY <2>1, ConstantsAssumption DEF HistoryInv, Results, Statuses
  <2>3. applied[d] # {}
    BY <2>1, <2>2 DEF HistoryInv, ServerInv
  <2> QED BY <2>3 DEF IInv, PastInv
<1> QED BY <1>1, InductiveInvariant, PTL

(* After the cancellation of a call no request of it is sent.              *)
THEOREM CancelStopsSending == Spec => NothingSentAfterCancel
<1> DEFINE Quiet == \A c \in Calls : c \in cancelled => inflight'[c] \subseteq inflight[c]
<1>1. TypeOK /\ [Next]_vars => [Quiet]_vars
  <2> SUFFICES ASSUME TypeOK, Next, NEW d \in Calls, d \in cancelled
               PROVE  inflight'[d] \subseteq inflight[d]
    BY Zenon
  <2> USE DEF TypeOK, clientVars, serverVars
  <2>1. ASSUME NEW c \in Calls, Send(c) PROVE inflight'[d] \subseteq inflight[d]
    BY <2>1 DEF Send
  <2>2. ASSUME NEW c \in Calls, NEW a \in Attempts,
               Apply(c, a) \/ Refuse(c, a) \/ Lose(c, a) \/ Stall(c, a)
        PROVE  inflight'[d] \subseteq inflight[d]
    BY <2>2 DEF Apply, Refuse, Lose, Stall
  <2>3. ASSUME NEW c \in Calls,
               \/ Start(c) \/ RejectLocally(c) \/ SendCancelled(c)
               \/ TransportError(c) \/ Receive(c) \/ SleepDone(c)
               \/ SleepCancelled(c) \/ Cancel(c)
        PROVE  inflight' = inflight
    BY <2>3, Zenon DEF Start, RejectLocally, SendCancelled, TransportError, Receive,
       SleepDone, SleepCancelled, Cancel
  <2> QED BY <2>1, <2>2, <2>3 DEF Next, ClientStep, ServerStep
<1> QED BY <1>1, TypeCorrect, PTL DEF Spec, NothingSentAfterCancel

-----------------------------------------------------------------------------
(* Do implements the contract of a remote call.                            *)

(* When a call has returned, its outcome in the contract is justified.     *)
LEMMA OutcomeJustified ==
  ASSUME IInv', NEW c \in Calls, pc'[c] = "done"
  PROVE  /\ OutcomeOf(c)' \in {"applied", "refused", "atLeastOnce", "unknown"}
         /\ OutcomeOf(c)' = "applied" => applied'[c] = {attempt'[c]}
         /\ OutcomeOf(c)' = "refused" => applied'[c] = {}
         /\ OutcomeOf(c)' = "atLeastOnce" => applied'[c] # {}
<1>1. /\ HistoryInv(c)' /\ ServerInv(c)' /\ attempt'[c] \in Attempts
      /\ applied'[c] \subseteq Attempts
  BY DEF IInv, TypeOK, CallInv
<1>2. \A a \in applied'[c] : a # attempt'[c] => Doubt(c)'
  <2> SUFFICES ASSUME NEW a \in applied'[c], a # attempt'[c] PROVE Doubt(c)'
    OBVIOUS
  <2>1. a \in Attempts /\ seen'[c][a] \in {"sent", "lost", "serverError", "ok"}
    BY <1>1 DEF ServerInv
  <2>2. a < attempt'[c]
    BY <1>1, <2>1, ConstantsAssumption DEF HistoryInv, Attempts
  <2>3. seen'[c][a] \in {"lost", "serverError"}
    BY <1>1, <2>1, <2>2 DEF HistoryInv, MayRetry, Retryable
  <2> QED BY <2>1, <2>3 DEF Doubt
<1>3. attempt'[c] \in applied'[c] => Doubt(c)' \/ result'[c] \in {"ok", "badReply"}
  BY <1>1 DEF HistoryInv, ServerInv, Doubt
<1>4. result'[c] \in {"ok", "badReply"} => attempt'[c] \in applied'[c]
  BY <1>1 DEF HistoryInv, ServerInv
<1>5. OutcomeOf(c)' = IF result'[c] \in {"ok", "badReply"}
                      THEN IF Doubt(c)' THEN "atLeastOnce" ELSE "applied"
                      ELSE IF Doubt(c)' THEN "unknown" ELSE "refused"
  BY DEF OutcomeOf
<1> QED BY <1>2, <1>3, <1>4, <1>5

(* A step that touches neither a call's place between begun and returned,  *)
(* nor its history after it returned, keeps its outcome.                   *)
LEMMA OutcomeKept ==
  ASSUME TypeOK, [Next]_vars, NEW c \in Calls,
         pc[c] = "idle" <=> pc'[c] = "idle",
         pc'[c] \in {"idle", "send", "wait", "sleep", "done"},
         pc'[c] = "done" => pc[c] = "done"
  PROVE  OutcomeOf(c)' = OutcomeOf(c)
<1>1. CASE pc[c] = "done"
  <2>1. pc'[c] = "done" /\ seen'[c] = seen[c] /\ result'[c] = result[c]
    BY <1>1, DoneStable
  <2> QED BY <1>1, <2>1 DEF OutcomeOf, Doubt
<1>2. CASE pc[c] = "idle"
  BY <1>2 DEF OutcomeOf
<1>3. CASE pc[c] \in {"send", "wait", "sleep"}
  BY <1>3 DEF OutcomeOf
<1> QED BY <1>1, <1>2, <1>3 DEF TypeOK

(* Every step of Do, of its caller and of the server is a step of the      *)
(* contract or leaves the contract's state alone.                          *)
THEOREM Refinement == Spec => ImplementsContract
<1> DEFINE out == [c \in Calls |-> OutcomeOf(c)]
<1>1. Init => Contract!ContractInit
  BY DEF Init, Contract!ContractInit, OutcomeOf
<1>2. IInv /\ IInv' /\ [Next]_vars
        => [Contract!ContractNext]_(Contract!contractVars)
  <2> SUFFICES ASSUME IInv, IInv', [Next]_vars
               PROVE  [Contract!ContractNext]_(Contract!contractVars)
    OBVIOUS
  <2> USE DEF clientVars, serverVars, Goto, Return
  <2>0. TypeOK /\ TypeOK'
    BY DEF IInv
  <2>1. CASE out' = out /\ applied' = applied
    BY <2>1 DEF Contract!contractVars
  <2>2. CASE UNCHANGED vars
    BY <2>2, <2>1 DEF vars, OutcomeOf, Doubt
  <2>3. ASSUME NEW e \in Calls, applied' = applied, out' # out,
               \A c \in Calls \ {e} : OutcomeOf(c)' = OutcomeOf(c),
               OutcomeOf(e) \in {"idle", "open"}, pc'[e] = "done"
        PROVE  Contract!ContractNext
    <3>1. out' = [out EXCEPT ![e] = OutcomeOf(e)']
      BY <2>3
    <3>2. Contract!Justified(e, OutcomeOf(e)')
      BY <2>3, <2>0, OutcomeJustified DEF Contract!Justified, TypeOK
    <3>3. OutcomeOf(e)' \in Contract!Ends
      BY <2>3, OutcomeJustified DEF Contract!Ends
    <3>4. Contract!End(e, OutcomeOf(e)')
      BY <2>3, <3>1, <3>2 DEF Contract!End
    <3> QED BY <3>3, <3>4 DEF Contract!ContractNext
  <2>4. ASSUME NEW e \in Calls, Start(e) PROVE Contract!ContractNext
    <3>1. OutcomeOf(e) = "idle" /\ OutcomeOf(e)' = "open" /\ applied' = applied
      BY <2>4, <2>0 DEF Start, OutcomeOf, TypeOK
    <3>2. ASSUME NEW c \in Calls \ {e} PROVE OutcomeOf(c)' = OutcomeOf(c)
      BY <2>4, <2>0, OutcomeKept DEF Start, TypeOK
    <3>3. Contract!Open(e)
      BY <3>1, <3>2 DEF Contract!Open
    <3> QED BY <3>3 DEF Contract!ContractNext
  <2>5. ASSUME NEW e \in Calls,
               RejectLocally(e) \/ SendCancelled(e) \/ SleepCancelled(e)
        PROVE  [Contract!ContractNext]_(Contract!contractVars)
    <3>1. applied' = applied /\ pc'[e] = "done"
          /\ OutcomeOf(e) \in {"idle", "open"}
      BY <2>5, <2>0 DEF RejectLocally, SendCancelled, SleepCancelled, OutcomeOf, TypeOK
    <3>2. ASSUME NEW c \in Calls \ {e} PROVE OutcomeOf(c)' = OutcomeOf(c)
      BY <2>5, <2>0, OutcomeKept
         DEF RejectLocally, SendCancelled, SleepCancelled, TypeOK
    <3> QED BY <2>1, <2>3, <3>1, <3>2
  <2>6. ASSUME NEW e \in Calls, TransportError(e) \/ Receive(e)
        PROVE  [Contract!ContractNext]_(Contract!contractVars)
    <3>1. /\ applied' = applied /\ pc[e] = "wait" /\ OutcomeOf(e) = "open"
          /\ \E l \in {"sleep", "done"} : pc' = [pc EXCEPT ![e] = l]
      BY <2>6, <2>0 DEF TransportError, Receive, OutcomeOf, TypeOK
    <3>2. pc'[e] \in {"sleep", "done"} /\ \A c \in Calls \ {e} : pc'[c] = pc[c]
      BY <3>1, <2>0 DEF TypeOK
    <3>3. ASSUME NEW c \in Calls \ {e} PROVE OutcomeOf(c)' = OutcomeOf(c)
      BY <3>2, <2>0, OutcomeKept DEF TypeOK
    <3>4. CASE pc'[e] = "done"
      BY <2>1, <2>3, <3>1, <3>3, <3>4
    <3>5. CASE pc'[e] = "sleep"
      BY <2>0, <2>1, <3>1, <3>3, <3>5, OutcomeKept
    <3> QED BY <3>2, <3>4, <3>5
  <2>7. ASSUME NEW e \in Calls,
               \/ Send(e) \/ SleepDone(e) \/ Cancel(e)
               \/ \E a \in Attempts : Refuse(e, a) \/ Stall(e, a) \/ Lose(e, a)
        PROVE  [Contract!ContractNext]_(Contract!contractVars)
    <3>1. /\ applied' = applied
          /\ \A c \in Calls :
               \/ pc'[c] = pc[c]
               \/ pc[c] = "send" /\ pc'[c] = "wait"
               \/ pc[c] = "sleep" /\ pc'[c] = "send"
      <4>1. CASE Send(e)
        BY <4>1, <2>0 DEF Send, TypeOK
      <4>2. CASE SleepDone(e)
        BY <4>2, <2>0 DEF SleepDone, TypeOK
      <4>3. CASE Cancel(e)
        BY <4>3 DEF Cancel
      <4>4. CASE \E a \in Attempts : Refuse(e, a) \/ Stall(e, a) \/ Lose(e, a)
        BY <4>4 DEF Refuse, Stall, Lose
      <4> QED BY <2>7, <4>1, <4>2, <4>3, <4>4
    <3>2. ASSUME NEW c \in Calls PROVE OutcomeOf(c)' = OutcomeOf(c)
      BY <2>0, <3>1, OutcomeKept DEF TypeOK
    <3> QED BY <2>1, <3>1, <3>2
  <2>8. ASSUME NEW e \in Calls, NEW a \in Attempts, Apply(e, a)
        PROVE  Contract!ContractNext
    <3>1. /\ a \in inflight[e] /\ pc' = pc /\ seen' = seen /\ result' = result
          /\ applied' = [applied EXCEPT ![e] = @ \cup {a}]
      BY <2>8 DEF Apply
    <3>2. out' = out
      BY <3>1 DEF OutcomeOf, Doubt
    <3>3. OutcomeOf(e) \in {"open", "atLeastOnce", "unknown"}
      <4>1. pc[e] # "idle"
        BY <3>1, IdleUntouched
      <4>2. pc[e] = "done" => Doubt(e)
        BY <3>1, InflightDoubt
      <4> QED BY <4>1, <4>2, <2>0 DEF OutcomeOf, TypeOK
    <3>4. a \notin applied[e]
      BY <3>1 DEF IInv, CallInv, ServerInv
    <3>5. Contract!Effect(e, a)
      BY <3>1, <3>2, <3>3, <3>4 DEF Contract!Effect
    <3> QED BY <3>5 DEF Contract!ContractNext
  <2> QED
    BY <2>2, <2>4, <2>5, <2>6, <2>7, <2>8 DEF Next, ClientStep, ServerStep
<1> QED
  BY <1>1, <1>2, InductiveInvariant, PTL
  DEF Spec, ImplementsContract, Contract!ContractSpec

-----------------------------------------------------------------------------
(* What the results of Do say about the server.                            *)

(* A call that returned nil, or a reply it could not read, took effect.    *)
(* With no attempt in doubt it took effect once, and a call that returned  *)
(* any other error took none.                                              *)
ResultsTrue ==
  \A c \in Calls : pc[c] = "done" =>
    /\ result[c] \in {"ok", "badReply"} => applied[c] # {}
    /\ ~Doubt(c) =>
         applied[c] = IF result[c] \in {"ok", "badReply"} THEN {attempt[c]} ELSE {}

(* What a call with no attempt in doubt did is settled when it returns: no *)
(* request of it is carried out later.                                     *)
ResultsFinal ==
  [][\A c \in Calls : pc[c] = "done" /\ ~Doubt(c) => applied'[c] = applied[c]]_vars

(* The error values of Do mean what CallContract says, for any number of   *)
(* calls, attempts and late, lost or repeated deliveries.                  *)
THEOREM ResultsTrueHolds == Spec => []ResultsTrue
<1>1. IInv => ResultsTrue
  <2> SUFFICES ASSUME IInv, NEW c \in Calls, pc[c] = "done"
               PROVE  /\ result[c] \in {"ok", "badReply"} => applied[c] # {}
                      /\ ~Doubt(c) =>
                           applied[c] = IF result[c] \in {"ok", "badReply"}
                                        THEN {attempt[c]} ELSE {}
    BY Zenon DEF ResultsTrue
  <2>1. /\ HistoryInv(c) /\ ServerInv(c) /\ attempt[c] \in Attempts
        /\ applied[c] \subseteq Attempts
    BY DEF IInv, TypeOK, CallInv
  <2>2. ASSUME NEW a \in applied[c], ~Doubt(c)
        PROVE  a = attempt[c] /\ result[c] \in {"ok", "badReply"}
    <3>1. a \in Attempts /\ seen[c][a] \in {"sent", "ok"}
      BY <2>1, <2>2 DEF ServerInv, Doubt
    <3>2. ~(a < attempt[c])
      BY <2>1, <3>1 DEF HistoryInv, MayRetry, Retryable
    <3>3. ~(a > attempt[c])
      BY <2>1, <3>1 DEF HistoryInv
    <3>4. a = attempt[c]
      BY <2>1, <3>1, <3>2, <3>3, ConstantsAssumption DEF Attempts
    <3> QED BY <2>1, <3>1, <3>4 DEF HistoryInv
  <2>3. result[c] \in {"ok", "badReply"} => attempt[c] \in applied[c]
    BY <2>1 DEF HistoryInv, ServerInv
  <2> QED BY <2>2, <2>3
<1> QED BY <1>1, InductiveInvariant, PTL

(* Nothing a returned call was not in doubt about is carried out late.     *)
THEOREM ResultsFinalHolds == Spec => ResultsFinal
<1> DEFINE Final == \A c \in Calls : pc[c] = "done" /\ ~Doubt(c) => applied'[c] = applied[c]
<1>1. IInv /\ [Next]_vars => [Final]_vars
  <2> SUFFICES ASSUME IInv, Next, NEW d \in Calls, pc[d] = "done", ~Doubt(d)
               PROVE  applied'[d] = applied[d]
    BY Zenon
  <2>1. ASSUME NEW c \in Calls, NEW a \in Attempts, Apply(c, a)
        PROVE  applied'[d] = applied[d]
    <3>1. c # d
      BY <2>1, InflightDoubt DEF Apply
    <3> QED BY <2>1, <3>1 DEF Apply, IInv, TypeOK
  <2>2. ASSUME NEW c \in Calls,
               \/ Start(c) \/ RejectLocally(c) \/ ClientStep(c) \/ Cancel(c)
               \/ \E a \in Attempts : Refuse(c, a) \/ Stall(c, a) \/ Lose(c, a)
        PROVE  applied' = applied
    BY <2>2, Zenon DEF Start, RejectLocally, ClientStep, Send, SendCancelled,
       TransportError, Receive, SleepDone, SleepCancelled, Cancel, Refuse, Stall,
       Lose, serverVars, clientVars
  <2> QED BY <2>1, <2>2 DEF Next, ServerStep
<1> QED BY <1>1, InductiveInvariant, PTL DEF Spec, ResultsFinal

-----------------------------------------------------------------------------
(* Do ends: the part of EveryCallReturns that needs no fairness.           *)

(* The steps a call has left, at most: four for every attempt not begun,   *)
(* and those of the attempt it is at.                                      *)
Left(c) ==
  4 * (MaxRetries - attempt[c]) +
  CASE pc[c] = "idle" -> 4 [] pc[c] = "send" -> 3 [] pc[c] = "wait" -> 2
    [] pc[c] = "sleep" -> 1 [] OTHER -> 0

(* Every step of a call brings it nearer to its end, and nothing the       *)
(* server, the network, its caller or another call does takes it back.     *)
CallsGetNearer ==
  [][\A c \in Calls :
       /\ Left(c)' <= Left(c)
       /\ ClientStep(c) => Left(c)' < Left(c)]_vars

(* Do makes finitely many steps, whatever the server answers: with the     *)
(* goroutine scheduled, it returns.                                        *)
THEOREM CallsGetNearerHolds ==
  /\ Spec => [](\A c \in Calls : Left(c) \in 0..(4 * MaxRetries + 4))
  /\ Spec => CallsGetNearer
<1> DEFINE Bounded == \A c \in Calls : Left(c) \in 0..(4 * MaxRetries + 4)
           Nearer == \A c \in Calls : /\ Left(c)' <= Left(c)
                                      /\ ClientStep(c) => Left(c)' < Left(c)
<1>1. TypeOK => Bounded
  BY ConstantsAssumption DEF TypeOK, Left, Attempts
<1>2. TypeOK /\ TypeOK' /\ [Next]_vars => [Nearer]_vars
  <2> SUFFICES ASSUME TypeOK, TypeOK', Next, NEW d \in Calls
               PROVE  /\ Left(d)' <= Left(d)
                      /\ ClientStep(d) => Left(d)' < Left(d)
    BY Zenon
  <2>1. /\ pc[d] \in {"idle", "send", "wait", "sleep", "done"}
        /\ attempt[d] \in 0..MaxRetries /\ attempt'[d] \in 0..MaxRetries
        /\ MaxRetries \in Nat
    BY ConstantsAssumption DEF TypeOK, Attempts
  <2>2. ASSUME ClientStep(d) PROVE Left(d)' < Left(d)
    <3>1. \/ /\ attempt'[d] = attempt[d]
             /\ \/ pc[d] = "send" /\ pc'[d] \in {"wait", "done"}
                \/ pc[d] = "wait" /\ pc'[d] \in {"sleep", "done"}
                \/ pc[d] = "sleep" /\ pc'[d] = "done"
          \/ attempt'[d] = attempt[d] + 1 /\ pc[d] = "sleep" /\ pc'[d] = "send"
      BY <2>2 DEF ClientStep, Send, SendCancelled, TransportError, Receive,
         SleepDone, SleepCancelled, Goto, Return, TypeOK
    <3> QED BY <2>1, <3>1 DEF Left
  <2>3. CASE pc'[d] = pc[d] /\ attempt'[d] = attempt[d]
    BY <2>1, <2>2, <2>3 DEF Left
  <2>4. ASSUME Start(d) \/ RejectLocally(d) PROVE Left(d)' < Left(d)
    <3>1. attempt'[d] = attempt[d] /\ pc[d] = "idle" /\ pc'[d] \in {"send", "done"}
      BY <2>4 DEF Start, RejectLocally, Goto, Return, TypeOK
    <3> QED BY <2>1, <3>1 DEF Left
  <2>5. ASSUME NEW c \in Calls, c # d,
               Start(c) \/ RejectLocally(c) \/ ClientStep(c)
        PROVE  pc'[d] = pc[d] /\ attempt'[d] = attempt[d]
    BY <2>5 DEF Start, RejectLocally, ClientStep, Send, SendCancelled,
       TransportError, Receive, SleepDone, SleepCancelled, Goto, Return, TypeOK
  <2>6. ASSUME NEW c \in Calls, Cancel(c) \/ ServerStep(c)
        PROVE  pc' = pc /\ attempt' = attempt
    BY <2>6, Zenon DEF Cancel, ServerStep, Apply, Refuse, Stall, Lose, clientVars
  <2>7. Left(d)' < Left(d) => Left(d)' <= Left(d)
    BY <2>1 DEF Left, TypeOK
  <2> QED BY <2>2, <2>3, <2>4, <2>5, <2>6, <2>7 DEF Next
<1>3. Spec => []Bounded
  BY <1>1, TypeCorrect, PTL
<1>4. Spec => CallsGetNearer
  BY <1>2, TypeCorrect, PTL DEF Spec, CallsGetNearer
<1> QED BY <1>3, <1>4
=============================================================================
