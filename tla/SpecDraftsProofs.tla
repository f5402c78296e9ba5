-------------------------- MODULE SpecDraftsProofs --------------------------
(***************************************************************************)
(* Proofs about SpecDrafts, for every set of agents, keys, calls and       *)
(* attempts, and any number of calls that are repeated.                    *)
(***************************************************************************)
EXTENDS SpecDrafts, TLAPS

(* A call goes out: its request is fixed from then on.                     *)
Sends(c, a, q) ==
  /\ outcome[c] = "idle" /\ ~Busy(a)
  /\ q \in Requests /\ q.op # "none" /\ q.by = a /\ q.after = Over
  /\ q.op = "update" /\ q.sources # None =>
       fetched[a] # None /\ q.sources = WithOwn(c, fetched[a])
  /\ outcome' = [outcome EXCEPT ![c] = "open"]
  /\ request' = [request EXCEPT ![c] = q]
  /\ fetched' = [fetched EXCEPT ![a] = None]
  /\ UNCHANGED <<effects, rows>>

(* A call is answered.                                                     *)
Answers(c, o) ==
  /\ outcome[c] = "open"
  /\ o \in {"applied", "atLeastOnce"} => effects[c] # {}
  /\ Justified(c, o)
  /\ outcome' = [outcome EXCEPT ![c] = o]
  /\ UNCHANGED <<effects, request, rows, fetched>>

LEMMA SendIsASend ==
  ASSUME TypeOK, NEW c \in Calls, NEW a \in Agents,
         RecordRiskAcceptances(c, a) \/ UpdateSources(c, a) \/ UpdateOtherFields(c, a)
  PROVE  \E q \in Requests : Sends(c, a, q)
<1>1. CASE RecordRiskAcceptances(c, a)
  <2>1. PICK p \in Places, keys \in (SUBSET Keys) \ {{}} : Send(c, a, "record", p, keys, None)
    BY <1>1 DEF RecordRiskAcceptances
  <2> DEFINE q == [op |-> "record", by |-> a, place |-> p, keys |-> keys,
                   sources |-> None, after |-> Over]
  <2>2. q \in Requests
    BY DEF Requests, Over
  <2>3. Sends(c, a, q)
    BY <2>1, <2>2 DEF Sends, Send, Open
  <2> QED
    BY <2>2, <2>3
<1>2. CASE UpdateSources(c, a)
  <2> DEFINE q == [op |-> "update", by |-> a, place |-> "draft", keys |-> {},
                   sources |-> WithOwn(c, fetched[a]), after |-> Over]
  <2>1. fetched[a] # None /\ Send(c, a, "update", "draft", {}, WithOwn(c, fetched[a]))
    BY <1>2 DEF UpdateSources
  <2>2. WithOwn(c, fetched[a]) \in SUBSET Rows
    BY <2>1 DEF TypeOK, WithOwn, Rows
  <2>3. q \in Requests
    BY <2>2 DEF Requests, Over
  <2>4. Sends(c, a, q)
    BY <2>1, <2>3 DEF Sends, Send, Open
  <2> QED
    BY <2>3, <2>4
<1>3. CASE UpdateOtherFields(c, a)
  <2> DEFINE q == [op |-> "update", by |-> a, place |-> "draft", keys |-> {},
                   sources |-> None, after |-> Over]
  <2>1. q \in Requests
    BY DEF Requests, Over
  <2>2. Sends(c, a, q)
    BY <1>3, <2>1 DEF UpdateOtherFields, Sends, Send, Open
  <2> QED
    BY <2>1, <2>2
<1> QED
  BY <1>1, <1>2, <1>3

LEMMA AnswerIsAnAnswer ==
  ASSUME NEW c \in Calls, Succeed(c) \/ Fail(c)
  PROVE  \E o \in Ends : Answers(c, o)
BY DEF Succeed, Fail, End, Justified, Answers, Ends

(* A step sends a call, reads the draft, answers a call or carries one out.*)
LEMMA EveryStep ==
  ASSUME TypeOK, Next
  PROVE  \/ \E c \in Calls, a \in Agents, q \in Requests : Sends(c, a, q)
         \/ \E a \in Agents : GetSpec(a)
         \/ \E c \in Calls, o \in Ends : Answers(c, o)
         \/ \E c \in Calls, t \in Tokens : Carry(c, t)
BY SendIsASend, AnswerIsAnAnswer DEF Next

-----------------------------------------------------------------------------
(* Every variable keeps its type; in particular no call of                 *)
(* record_risk_acceptances goes out without rows.                          *)
THEOREM TypeCorrect == Spec => []TypeOK
<1>1. Init => TypeOK
  <2> SUFFICES ASSUME Init PROVE TypeOK
    OBVIOUS
  <2>1. \A c \in Calls : request[c] \in Requests
    BY DEF Init, Requests
  <2> QED
    BY <2>1 DEF Init, TypeOK, ContractInit, ContractTypeOK, Places
<1>2. TypeOK /\ [Next]_vars => TypeOK'
  <2> SUFFICES ASSUME TypeOK, [Next]_vars PROVE TypeOK'
    OBVIOUS
  <2>1. ASSUME NEW c \in Calls, NEW a \in Agents, NEW q \in Requests, Sends(c, a, q)
        PROVE  TypeOK'
    BY <2>1 DEF TypeOK, ContractTypeOK, Sends
  <2>2. ASSUME NEW a \in Agents, GetSpec(a) PROVE TypeOK'
    BY <2>2 DEF TypeOK, ContractTypeOK, GetSpec, Places, contractVars
  <2>3. ASSUME NEW c \in Calls, NEW o \in Ends, Answers(c, o) PROVE TypeOK'
    BY <2>3 DEF TypeOK, ContractTypeOK, Answers
  <2>4. ASSUME NEW c \in Calls, NEW t \in Tokens, Carry(c, t) PROVE TypeOK'
    <3>1. rows' \in [Places -> SUBSET Rows]
      <4>1. CASE request[c].op = "record" /\ Record(c, request[c].place, request[c].keys)
        <5>1. request[c].keys \subseteq Keys /\ request[c].place \in Places
          BY <4>1 DEF TypeOK, Requests
        <5>2. request[c].keys \X {c} \subseteq Rows
          BY <5>1 DEF Rows
        <5> QED
          BY <4>1, <5>1, <5>2 DEF TypeOK, Record
      <4>2. CASE request[c].op = "update" /\ WriteSources(request[c].sources)
        <5>1. request[c].sources \in {None} \cup SUBSET Rows
          BY <4>2 DEF TypeOK, Requests
        <5> QED
          BY <4>2, <5>1 DEF TypeOK, WriteSources, Places
      <4> QED
        BY <2>4, <4>1, <4>2 DEF Carry
    <3>2. effects' \in [Calls -> SUBSET Tokens] /\ outcome' = outcome
      BY <2>4 DEF TypeOK, ContractTypeOK, Carry, Effect
    <3> QED
      BY <2>4, <3>1, <3>2 DEF TypeOK, ContractTypeOK, Carry
  <2>5. CASE UNCHANGED vars
    BY <2>5 DEF TypeOK, ContractTypeOK, vars, contractVars
  <2> QED
    BY EveryStep, <2>1, <2>2, <2>3, <2>4, <2>5
<1> QED
  BY <1>1, <1>2, PTL DEF Spec

-----------------------------------------------------------------------------
(* What a call leaves behind                                               *)

CallInv ==
  \A c \in Calls :
    /\ outcome[c] = "idle" <=> request[c].op = "none"
    /\ outcome[c] = "idle" => effects[c] = {}
    /\ Ok(c) => effects[c] # {}
    /\ outcome[c] = "refused" => effects[c] = {}
    /\ request[c].after \subseteq Over

LEMMA CallInvariant ==
  ASSUME TypeOK, CallInv, [Next]_vars
  PROVE  CallInv'
<1>1. ASSUME NEW c \in Calls, NEW a \in Agents, NEW q \in Requests, Sends(c, a, q)
      PROVE  CallInv'
  <2>1. Over' = Over
    BY <1>1 DEF Sends, Over, TypeOK, ContractTypeOK
  <2> QED
    BY <1>1, <2>1 DEF Sends, CallInv, Ok, TypeOK, ContractTypeOK
<1>2. ASSUME NEW a \in Agents, GetSpec(a) PROVE CallInv'
  BY <1>2 DEF GetSpec, CallInv, Ok, Over, contractVars
<1>3. ASSUME NEW c \in Calls, NEW o \in Ends, Answers(c, o) PROVE CallInv'
  <2>1. Over \subseteq Over'
    BY <1>3 DEF Answers, Over, TypeOK, ContractTypeOK
  <2>2. o # "idle"
    BY DEF Ends
  <2> QED
    BY <1>3, <2>1, <2>2 DEF Answers, Justified, CallInv, Ok, TypeOK, ContractTypeOK
<1>4. ASSUME NEW c \in Calls, NEW t \in Tokens, Carry(c, t) PROVE CallInv'
  <2>1. /\ outcome' = outcome /\ request' = request
        /\ outcome[c] \in {"open", "atLeastOnce", "unknown"}
        /\ effects' = [effects EXCEPT ![c] = @ \cup {t}]
    BY <1>4 DEF Carry, Effect
  <2> QED
    BY <2>1 DEF CallInv, Ok, Over, TypeOK, ContractTypeOK
<1>5. CASE UNCHANGED vars
  BY <1>5 DEF vars, contractVars, CallInv, Ok, Over
<1> QED
  BY EveryStep, <1>1, <1>2, <1>3, <1>4, <1>5

(* What a call asks for, and which calls may have had an effect after it,  *)
(* is never taken back.                                                    *)
LEMMA History ==
  ASSUME TypeOK, CallInv, [Next]_vars, NEW c \in Calls, request[c].op # "none"
  PROVE  /\ request'[c] = request[c]
         /\ effects[c] \subseteq effects'[c]
         /\ \A d \in Calls : MayFollow(d, c) => MayFollow(d, c)'
         /\ outcome[c] # "open" => outcome'[c] = outcome[c]
<1>1. \A d \in Calls : effects[d] \subseteq effects'[d]
  <2>1. ASSUME NEW d \in Calls, NEW t \in Tokens, Carry(d, t)
        PROVE  \A e \in Calls : effects[e] \subseteq effects'[e]
    BY <2>1 DEF Carry, Effect, TypeOK, ContractTypeOK
  <2> QED
    BY EveryStep, <2>1 DEF Sends, GetSpec, Answers, vars, contractVars
<1>2. /\ request'[c] = request[c]
      /\ outcome[c] # "open" => outcome'[c] = outcome[c]
  <2> DEFINE Kept == /\ request'[c] = request[c]
                     /\ outcome[c] # "open" => outcome'[c] = outcome[c]
  <2>1. ASSUME NEW d \in Calls, NEW a \in Agents, NEW q \in Requests, Sends(d, a, q)
        PROVE  Kept
    BY <2>1 DEF Sends, CallInv, TypeOK, ContractTypeOK
  <2>2. ASSUME NEW d \in Calls, NEW o \in Ends, Answers(d, o) PROVE Kept
    BY <2>2 DEF Answers, TypeOK, ContractTypeOK
  <2> QED
    BY EveryStep, <2>1, <2>2 DEF GetSpec, Carry, Effect, vars, contractVars
<1> QED
  BY <1>1, <1>2 DEF MayFollow

(* A call that has an effect now is none that was over before another.     *)
LEMMA CarriedMayFollow ==
  ASSUME TypeOK, CallInv, NEW d \in Calls, NEW t \in Tokens, Carry(d, t)
  PROVE  \A c \in Calls : MayFollow(d, c)'
<1>1. /\ outcome[d] # "applied"
      /\ effects'[d] # {}
      /\ request' = request
  BY DEF Carry, Effect, TypeOK, ContractTypeOK
<1> QED
  BY <1>1 DEF MayFollow, CallInv, Over

-----------------------------------------------------------------------------
(* The sources an agent wrote                                              *)

Rewritten(u) == \E v \in SourceWrites \ {u} : MayFollow(v, u)

SourceInv ==
  \A u \in SourceWrites :
    /\ <<Source, u>> \in request[u].sources
    /\ effects[u] # {} => <<Source, u>> \in rows["draft"] \/ Rewritten(u)

LEMMA SourceInvariant ==
  ASSUME TypeOK, CallInv, SourceInv, [Next]_vars
  PROVE  SourceInv'
<1> SUFFICES ASSUME NEW u \in Calls, u \in SourceWrites'
             PROVE  (/\ <<Source, u>> \in request[u].sources
                     /\ effects[u] # {} =>
                          <<Source, u>> \in rows["draft"] \/ Rewritten(u))'
  BY DEF SourceInv, SourceWrites
<1>1. ASSUME u \in SourceWrites, Rewritten(u) PROVE Rewritten(u)'
  <2>1. PICK v \in SourceWrites \ {u} : MayFollow(v, u)
    BY <1>1 DEF Rewritten
  <2>2. v \in SourceWrites' /\ MayFollow(v, u)'
    BY <1>1, <2>1, History DEF SourceWrites
  <2> QED
    BY <2>1, <2>2 DEF Rewritten
<1>2. ASSUME NEW c \in Calls, NEW a \in Agents, NEW q \in Requests, Sends(c, a, q)
      PROVE  (/\ <<Source, u>> \in request[u].sources
              /\ effects[u] # {} =>
                   <<Source, u>> \in rows["draft"] \/ Rewritten(u))'
  <2>1. CASE u = c
    <3>1. effects'[u] = {} /\ request'[u] = q
      BY <1>2, <2>1 DEF Sends, CallInv, TypeOK
    <3>2. <<Source, u>> \in q.sources
      BY <1>2, <2>1, <3>1 DEF Sends, SourceWrites, WithOwn
    <3> QED
      BY <3>1, <3>2
  <2>2. CASE u # c
    <3>1. u \in SourceWrites /\ request'[u] = request[u]
      BY <1>2, <2>2 DEF Sends, SourceWrites, TypeOK
    <3> QED
      BY <1>2, <1>1, <3>1 DEF Sends, SourceInv
  <2> QED
    BY <2>1, <2>2
<1>3. ASSUME request' = request, effects' = effects, rows' = rows
      PROVE  (/\ <<Source, u>> \in request[u].sources
              /\ effects[u] # {} =>
                   <<Source, u>> \in rows["draft"] \/ Rewritten(u))'
  BY <1>1, <1>3 DEF SourceInv, SourceWrites
<1>4. ASSUME NEW c \in Calls, NEW t \in Tokens, Carry(c, t)
      PROVE  (/\ <<Source, u>> \in request[u].sources
              /\ effects[u] # {} =>
                   <<Source, u>> \in rows["draft"] \/ Rewritten(u))'
  <2>1. request' = request /\ u \in SourceWrites
    BY <1>4 DEF Carry, SourceWrites
  <2>2. CASE c \in SourceWrites
    <3>1. rows'["draft"] = request[c].sources
      BY <1>4, <2>2 DEF Carry, SourceWrites, WriteSources, TypeOK, Places
    <3>2. c # u => Rewritten(u)'
      BY <1>4, <2>1, <2>2, CarriedMayFollow DEF Rewritten, SourceWrites
    <3> QED
      BY <2>1, <3>1, <3>2 DEF SourceInv
  <2>3. CASE c \notin SourceWrites
    <3>1. effects'[u] = effects[u]
      BY <1>4, <2>1, <2>3 DEF Carry, Effect, TypeOK, ContractTypeOK
    <3>2. <<Source, u>> \in rows["draft"] => <<Source, u>> \in rows'["draft"]
      <4>1. CASE request[c].op = "record" /\ Record(c, request[c].place, request[c].keys)
        <5>1. Source \notin request[c].keys
          BY <4>1, SpecDraftsAssumption DEF TypeOK, Requests
        <5> QED
          BY <4>1, <5>1 DEF Record, TypeOK, Places
      <4>2. CASE request[c].op = "update" /\ WriteSources(request[c].sources)
        BY <2>3, <4>2 DEF WriteSources, SourceWrites, TypeOK, Places
      <4> QED
        BY <1>4, <4>1, <4>2 DEF Carry
    <3> QED
      BY <1>1, <2>1, <3>1, <3>2 DEF SourceInv
  <2> QED
    BY <2>2, <2>3
<1> QED
  BY EveryStep, <1>2, <1>3, <1>4 DEF GetSpec, Answers, vars, contractVars

(* Sources an agent was told are written stay until sources are written    *)
(* again: no record, and no update of another field, erases them.          *)
THEOREM WrittenSourcesStay == Spec => []SourcesStay
<1>1. Init => CallInv /\ SourceInv
  BY DEF Init, ContractInit, CallInv, SourceInv, SourceWrites, Ok
<1>2. CallInv /\ SourceInv => SourcesStay
  BY DEF CallInv, SourceInv, SourcesStay, SourceWrites, Rewritten
<1> QED
  BY <1>1, <1>2, CallInvariant, SourceInvariant, TypeCorrect, PTL DEF Spec

-----------------------------------------------------------------------------
(* The rows an agent recorded                                              *)

Replaced(k, c) ==
  \E d \in Records \ {c} :
    MayFollow(d, c) /\ request[d].place = request[c].place /\ k \in request[d].keys

(* A call that is answered and will be in doubt for ever.                  *)
Doubtful(u) == outcome[u] \in {"atLeastOnce", "unknown"}

Erased(k, c) ==
  /\ request[c].place = "draft"
  /\ \E u \in SourceWrites :
       /\ MayFollow(u, c) /\ <<k, c>> \notin request[u].sources
       /\ request[u].by # request[c].by \/ Doubtful(u)

Gone(k, c) == Replaced(k, c) \/ Erased(k, c)

(* A write of the same agent that will not reach the server unnoticed after*)
(* the record: it was over before, or was answered and is in doubt.        *)
Earlier(u, c) == u \in request[c].after \/ outcome[u] = "refused" \/ Doubtful(u)

OwnWrites(c) == {u \in SourceWrites : request[u].by = request[c].by}

(* While an agent waits for a record it has fetched nothing, and the writes*)
(* it sent are earlier ones.                                               *)
WhileOpen(c) ==
  outcome[c] = "open" =>
    /\ fetched[request[c].by] = None
    /\ \A u \in OwnWrites(c) : Earlier(u, c)

(* The server has the rows of a call that has had an effect and that is    *)
(* open or was told ok.                                                    *)
AtTheServer(c) ==
  (Ok(c) \/ outcome[c] = "open") /\ effects[c] # {} =>
    \A k \in request[c].keys : <<k, c>> \in rows[request[c].place] \/ Gone(k, c)

(* So what the agent fetches later, and what it then sends, has them too.  *)
WithTheAgent(c) ==
  Ok(c) /\ request[c].place = "draft" => \A k \in request[c].keys :
    /\ fetched[request[c].by] # None =>
         <<k, c>> \in fetched[request[c].by] \/ Gone(k, c)
    /\ \A u \in OwnWrites(c) : <<k, c>> \in request[u].sources \/ Gone(k, c) \/ Earlier(u, c)

AcceptanceInv ==
  \A c \in Records : WhileOpen(c) /\ AtTheServer(c) /\ WithTheAgent(c)

LEMMA RecordsHaveAgents ==
  ASSUME TypeOK, NEW c \in Records
  PROVE  /\ c \in Calls /\ request[c].by \in Agents /\ request[c].place \in Places
         /\ \A k \in request[c].keys : k # Source
BY SpecDraftsAssumption DEF Records, TypeOK, Requests

(* What has become of a row stays so.                                      *)
LEMMA GoneForGood ==
  ASSUME TypeOK, CallInv, [Next]_vars, NEW c \in Records, NEW k, Gone(k, c)
  PROVE  Gone(k, c)'
<1>1. request[c].op # "none" /\ request'[c] = request[c]
  BY History DEF Records
<1>2. CASE Replaced(k, c)
  <2>1. PICK d \in Records \ {c} :
          MayFollow(d, c) /\ request[d].place = request[c].place /\ k \in request[d].keys
    BY <1>2 DEF Replaced
  <2>2. d \in Records' /\ MayFollow(d, c)' /\ request'[d] = request[d]
    BY <1>1, <2>1, History DEF Records
  <2> QED
    BY <1>1, <2>1, <2>2 DEF Replaced, Gone
<1>3. CASE Erased(k, c)
  <2>1. PICK u \in SourceWrites :
          /\ MayFollow(u, c) /\ <<k, c>> \notin request[u].sources
          /\ request[u].by # request[c].by \/ Doubtful(u)
    BY <1>3 DEF Erased
  <2>2. /\ u \in SourceWrites' /\ MayFollow(u, c)' /\ request'[u] = request[u]
        /\ Doubtful(u) => Doubtful(u)'
    BY <1>1, <2>1, History DEF SourceWrites, Records, Doubtful
  <2> QED
    BY <1>1, <1>3, <2>1, <2>2 DEF Erased, Gone
<1> QED
  BY <1>2, <1>3 DEF Gone

(* A write that is earlier stays so.                                       *)
LEMMA EarlierForGood ==
  ASSUME TypeOK, CallInv, [Next]_vars, NEW c \in Records, NEW u \in SourceWrites, Earlier(u, c)
  PROVE  Earlier(u, c)'
BY History DEF Records, SourceWrites, Earlier, Doubtful

LEMMA SendKeepsAcceptances ==
  ASSUME TypeOK, CallInv, AcceptanceInv, [Next]_vars,
         NEW d \in Calls, NEW a \in Agents, NEW q \in Requests, Sends(d, a, q)
  PROVE  AcceptanceInv'
<1> SUFFICES ASSUME NEW c \in Calls, c \in Records'
             PROVE  (WhileOpen(c) /\ AtTheServer(c) /\ WithTheAgent(c))'
  BY DEF AcceptanceInv, Records
<1>1. CASE c = d
  <2>1. /\ request'[c] = q /\ outcome'[c] = "open" /\ effects'[c] = {}
        /\ fetched'[a] = None /\ q.by = a /\ q.after = Over
    BY <1>1 DEF Sends, CallInv, TypeOK, ContractTypeOK
  <2>2. ASSUME NEW u \in OwnWrites(c)' PROVE Earlier(u, c)'
    <3>1. u \in Calls /\ u # c
      BY <1>1, <2>1 DEF OwnWrites, Records, SourceWrites
    <3>2. /\ request[u].op # "none" /\ request[u].by = a /\ outcome'[u] = outcome[u]
      BY <1>1, <2>1, <3>1 DEF Sends, OwnWrites, SourceWrites, TypeOK, ContractTypeOK
    <3>3. outcome[u] \in Ends
      BY <3>1, <3>2 DEF Sends, Busy, CallInv, TypeOK, ContractTypeOK
    <3> QED
      BY <2>1, <3>1, <3>2, <3>3 DEF Ends, Over, Earlier, Doubtful
  <2> QED
    BY <2>1, <2>2 DEF Ok, WhileOpen, AtTheServer, WithTheAgent
<1>2. CASE c # d
  <2>1. /\ c \in Records /\ request'[c] = request[c] /\ outcome'[c] = outcome[c]
        /\ effects' = effects /\ rows' = rows
    BY <1>2 DEF Sends, Records, TypeOK, ContractTypeOK
  <2>2. \A k : Gone(k, c) => Gone(k, c)'
    BY <2>1, GoneForGood
  <2>3. /\ a = request[c].by => fetched'[request[c].by] = None /\ outcome[c] # "open"
        /\ a # request[c].by => fetched'[request[c].by] = fetched[request[c].by]
    BY <2>1, RecordsHaveAgents DEF Sends, Busy, TypeOK
  <2>4. ASSUME NEW u \in OwnWrites(c)', u # d
        PROVE  /\ u \in OwnWrites(c) /\ request'[u] = request[u]
               /\ Earlier(u, c) => Earlier(u, c)'
    <3>1. u \in OwnWrites(c) /\ request'[u] = request[u]
      BY <2>1, <2>4 DEF Sends, OwnWrites, SourceWrites, TypeOK
    <3> QED
      BY <2>1, <3>1, EarlierForGood DEF OwnWrites
  <2>5. d \in OwnWrites(c)' => a = request[c].by
    BY <2>1 DEF Sends, OwnWrites, TypeOK
  <2>6. ASSUME NEW k \in request[c].keys, Ok(c), request[c].place = "draft", d \in OwnWrites(c)'
        PROVE  <<k, c>> \in request'[d].sources \/ Gone(k, c)
    <3>1. /\ fetched[a] # None
          /\ request'[d].sources = WithOwn(d, fetched[a])
      BY <2>6 DEF Sends, OwnWrites, SourceWrites, TypeOK
    <3>2. <<k, c>> \in fetched[a] \/ Gone(k, c)
      BY <2>1, <2>5, <2>6, <3>1 DEF AcceptanceInv, WithTheAgent
    <3> QED
      BY <2>1, <2>6, <3>1, <3>2, RecordsHaveAgents DEF WithOwn
  <2>7. WhileOpen(c)'
    BY <2>1, <2>3, <2>4, <2>5 DEF AcceptanceInv, WhileOpen
  <2>8. AtTheServer(c)'
    BY <2>1, <2>2 DEF AcceptanceInv, AtTheServer, Ok
  <2>9. WithTheAgent(c)'
    BY <2>1, <2>2, <2>3, <2>4, <2>6 DEF AcceptanceInv, WithTheAgent, Ok
  <2> QED
    BY <2>7, <2>8, <2>9
<1> QED
  BY <1>1, <1>2

LEMMA GetSpecKeepsAcceptances ==
  ASSUME TypeOK, CallInv, AcceptanceInv, [Next]_vars, NEW a \in Agents, GetSpec(a)
  PROVE  AcceptanceInv'
<1> SUFFICES ASSUME NEW c \in Records
             PROVE  (WhileOpen(c) /\ AtTheServer(c) /\ WithTheAgent(c))'
  BY DEF AcceptanceInv, Records, GetSpec
<1>1. outcome' = outcome /\ effects' = effects /\ request' = request /\ rows' = rows
  BY DEF GetSpec, contractVars
<1>2. /\ a = request[c].by => /\ fetched'[request[c].by] = rows["draft"]
                              /\ outcome[c] # "open"
      /\ a # request[c].by => fetched'[request[c].by] = fetched[request[c].by]
  BY RecordsHaveAgents DEF GetSpec, Busy, TypeOK
<1>3. \A k : Gone(k, c) => Gone(k, c)'
  BY GoneForGood
<1>4. Ok(c) => effects[c] # {}
  BY RecordsHaveAgents DEF CallInv
<1>5. WhileOpen(c)' /\ AtTheServer(c)'
  BY <1>1, <1>2, <1>3 DEF AcceptanceInv, WhileOpen, AtTheServer, Ok, OwnWrites, SourceWrites,
                          Earlier, Doubtful
<1>6. WithTheAgent(c)'
  BY <1>1, <1>2, <1>3, <1>4 DEF AcceptanceInv, AtTheServer, WithTheAgent, Ok, OwnWrites,
                                SourceWrites, Earlier, Doubtful
<1> QED
  BY <1>5, <1>6

LEMMA AnswerKeepsAcceptances ==
  ASSUME TypeOK, CallInv, AcceptanceInv, [Next]_vars,
         NEW d \in Calls, NEW o \in Ends, Answers(d, o)
  PROVE  AcceptanceInv'
<1> SUFFICES ASSUME NEW c \in Records
             PROVE  (WhileOpen(c) /\ AtTheServer(c) /\ WithTheAgent(c))'
  BY DEF AcceptanceInv, Records, Answers
<1>1. effects' = effects /\ request' = request /\ rows' = rows /\ fetched' = fetched
  BY DEF Answers
<1>2. /\ c = d => outcome[c] = "open" /\ outcome'[c] = o /\ o # "open"
      /\ c # d => outcome'[c] = outcome[c]
  BY RecordsHaveAgents DEF Answers, TypeOK, ContractTypeOK, Ends
<1>3. \A k : Gone(k, c) => Gone(k, c)'
  BY GoneForGood
<1>4. \A u \in OwnWrites(c) : Earlier(u, c) => Earlier(u, c)'
  BY EarlierForGood DEF OwnWrites
<1>5. OwnWrites(c)' = OwnWrites(c)
  BY <1>1 DEF OwnWrites, SourceWrites
<1>6. WhileOpen(c)'
  BY <1>1, <1>2, <1>4, <1>5 DEF AcceptanceInv, WhileOpen
<1>7. AtTheServer(c)'
  BY <1>1, <1>2, <1>3 DEF AcceptanceInv, AtTheServer, Ok
<1>8. WithTheAgent(c)'
  BY <1>1, <1>2, <1>3, <1>4, <1>5 DEF AcceptanceInv, WhileOpen, WithTheAgent, Ok
<1> QED
  BY <1>6, <1>7, <1>8

LEMMA CarryKeepsAcceptances ==
  ASSUME TypeOK, CallInv, AcceptanceInv, [Next]_vars,
         NEW d \in Calls, NEW t \in Tokens, Carry(d, t)
  PROVE  AcceptanceInv'
<1> SUFFICES ASSUME NEW c \in Records
             PROVE  (WhileOpen(c) /\ AtTheServer(c) /\ WithTheAgent(c))'
  BY DEF AcceptanceInv, Records, Carry
<1>1. outcome' = outcome /\ request' = request /\ fetched' = fetched
  BY DEF Carry, Effect
<1>2. \A k : Gone(k, c) => Gone(k, c)'
  BY GoneForGood
<1>3. OwnWrites(c)' = OwnWrites(c)
  BY <1>1 DEF OwnWrites, SourceWrites
<1>4. WhileOpen(c)' /\ WithTheAgent(c)'
  BY <1>1, <1>2, <1>3 DEF AcceptanceInv, WhileOpen, WithTheAgent, Ok, Earlier, Doubtful
<1>5. AtTheServer(c)'
  <2> SUFFICES ASSUME Ok(c) \/ outcome[c] = "open", effects'[c] # {}, NEW k \in request[c].keys
               PROVE  <<k, c>> \in rows'[request[c].place] \/ Gone(k, c)'
    BY <1>1 DEF AtTheServer, Ok
  <2>1. /\ c \in Calls /\ request[c].place \in Places
    BY RecordsHaveAgents
  <2>2. MayFollow(d, c)'
    BY <2>1, CarriedMayFollow
  <2>3. c # d => effects[c] # {}
    BY <2>1 DEF Carry, Effect, TypeOK, ContractTypeOK
  <2>4. CASE request[d].op = "record" /\ Record(d, request[d].place, request[d].keys)
    <3>1. c = d => <<k, c>> \in rows'[request[c].place]
      BY <2>1, <2>4 DEF Record, TypeOK
    <3>2. c # d /\ request[d].place = request[c].place /\ k \in request[d].keys => Replaced(k, c)'
      BY <1>1, <2>2, <2>4 DEF Replaced, Records
    <3>3. request[d].place # request[c].place \/ k \notin request[d].keys =>
            (<<k, c>> \in rows[request[c].place] => <<k, c>> \in rows'[request[c].place])
      BY <2>1, <2>4 DEF Record, TypeOK
    <3> QED
      BY <1>2, <2>3, <3>1, <3>2, <3>3 DEF AcceptanceInv, AtTheServer, Gone
  <2>5. CASE request[d].op = "update" /\ WriteSources(request[d].sources)
    <3>1. c # d
      BY <2>5 DEF Records
    <3>2. CASE request[d].sources = None \/ request[c].place # "draft"
      <4>1. rows'[request[c].place] = rows[request[c].place]
        BY <2>1, <2>5, <3>2 DEF WriteSources, TypeOK
      <4> QED
        BY <1>2, <2>3, <3>1, <4>1 DEF AcceptanceInv, AtTheServer
    <3>3. CASE request[d].sources # None /\ request[c].place = "draft"
      <4>1. rows'["draft"] = request[d].sources /\ d \in SourceWrites
        BY <2>1, <2>5, <3>3 DEF WriteSources, TypeOK, SourceWrites
      <4>2. request[d].by # request[c].by \/ Doubtful(d) =>
              <<k, c>> \in request[d].sources \/ Erased(k, c)'
        BY <1>1, <2>2, <3>3, <4>1 DEF Erased, SourceWrites, Doubtful
      <4>3. request[d].by = request[c].by /\ ~Doubtful(d) =>
              <<k, c>> \in request[d].sources \/ Gone(k, c)
        <5>1. SUFFICES ASSUME d \in OwnWrites(c), ~Doubtful(d)
                       PROVE  <<k, c>> \in request[d].sources \/ Gone(k, c)
          BY <4>1 DEF OwnWrites
        <5>2. ~Earlier(d, c)
          <6>1. outcome[d] \notin {"applied", "refused"}
            BY DEF Carry, Effect
          <6> QED
            BY <2>1, <5>1, <6>1 DEF Earlier, CallInv, Over
        <5> QED
          BY <3>3, <5>1, <5>2 DEF AcceptanceInv, WhileOpen, WithTheAgent
      <4> QED
        BY <1>2, <3>3, <4>1, <4>2, <4>3 DEF Gone
    <3> QED
      BY <3>2, <3>3
  <2> QED
    BY <2>4, <2>5 DEF Carry
<1> QED
  BY <1>4, <1>5

LEMMA AcceptanceInvariant ==
  ASSUME TypeOK, CallInv, AcceptanceInv, [Next]_vars
  PROVE  AcceptanceInv'
<1>1. CASE UNCHANGED vars
  <2>1. \A c, k : Gone(k, c)' = Gone(k, c)
    BY <1>1 DEF vars, contractVars, Gone, Replaced, Erased, Records, SourceWrites, MayFollow,
                Doubtful
  <2> QED
    BY <1>1, <2>1 DEF vars, contractVars, AcceptanceInv, Records, WhileOpen, AtTheServer,
                      WithTheAgent, OwnWrites, SourceWrites, Earlier, Doubtful, Ok
<1> QED
  BY <1>1, EveryStep, SendKeepsAcceptances, GetSpecKeepsAcceptances, AnswerKeepsAcceptances,
     CarryKeepsAcceptances

(* The row of a key that an agent was told is recorded stays, although the *)
(* draft's sources are written again and again: only another record of the *)
(* key takes its place, and only a write of another agent, or one of its   *)
(* own that is in doubt, erases it.                                        *)
THEOREM RecordedRowsStay == Spec => []AcceptancesStay
<1>1. Init => CallInv /\ AcceptanceInv
  BY DEF Init, ContractInit, CallInv, AcceptanceInv, Records, Ok
<1>2. TypeOK /\ CallInv /\ AcceptanceInv => AcceptancesStay
  <2> SUFFICES ASSUME TypeOK, CallInv, AcceptanceInv, NEW c \in Records, Ok(c),
                      NEW k \in request[c].keys
               PROVE  \/ <<k, c>> \in rows[request[c].place]
                      \/ \E d \in Records \ {c} :
                           MayFollow(d, c) /\ request[d].place = request[c].place
                           /\ k \in request[d].keys
                      \/ /\ request[c].place = "draft"
                         /\ \E u \in SourceWrites :
                              /\ MayFollow(u, c) /\ <<k, c>> \notin request[u].sources
                              /\ request[u].by # request[c].by \/ InDoubt(u)
    BY DEF AcceptancesStay
  <2>1. <<k, c>> \in rows[request[c].place] \/ Gone(k, c)
    BY RecordsHaveAgents DEF CallInv, AcceptanceInv, AtTheServer
  <2> QED
    BY <2>1 DEF Gone, Replaced, Erased, Doubtful, InDoubt
<1> QED
  BY <1>1, <1>2, CallInvariant, AcceptanceInvariant, TypeCorrect, PTL DEF Spec

-----------------------------------------------------------------------------
(* Where a row comes from                                                  *)

(* A call that took effect, at that place, asked for the row.              *)
Asked(r, p) ==
  /\ effects[r[2]] # {} /\ request[r[2]].place = p
  /\ IF r[1] = Source THEN r[2] \in SourceWrites
     ELSE r[2] \in Records /\ r[1] \in request[r[2]].keys

(* Every row at the server was asked for there, and by a call that took    *)
(* effect: never by one that was refused, nor for the other place, though  *)
(* agents write back arrays they fetched long ago and calls come late.     *)
RowsAreOfTheirCalls ==
  \A p \in Places : \A r \in rows[p] : Asked(r, p) /\ outcome[r[2]] # "refused"

(* So does every row an agent has fetched, or sends back.                  *)
AuthorInv ==
  /\ \A p \in Places : \A r \in rows[p] : Asked(r, p)
  /\ \A a \in Agents : fetched[a] # None => \A r \in fetched[a] : Asked(r, "draft")
  /\ \A u \in SourceWrites : \A r \in request[u].sources :
       Asked(r, "draft") \/ r = <<Source, u>>

LEMMA AskedForGood ==
  ASSUME TypeOK, CallInv, [Next]_vars, NEW r \in Rows, NEW p \in Places, Asked(r, p)
  PROVE  Asked(r, p)'
<1>1. r[2] \in Calls
  BY DEF Rows
<1>2. request[r[2]].op # "none"
  BY <1>1 DEF Asked, CallInv, SourceWrites, Records
<1>3. request'[r[2]] = request[r[2]] /\ effects[r[2]] \subseteq effects'[r[2]]
  BY <1>1, <1>2, History
<1> QED BY <1>1, <1>3 DEF Asked, SourceWrites, Records

LEMMA AuthorInvariant ==
  ASSUME TypeOK, TypeOK', CallInv, AuthorInv, [Next]_vars
  PROVE  AuthorInv'
<1>1. /\ rows \in [Places -> SUBSET Rows] /\ fetched \in [Agents -> {None} \cup SUBSET Rows]
      /\ \A u \in SourceWrites : u \in Calls /\ request[u].sources \subseteq Rows
                                /\ request[u].place = "draft"
  BY DEF TypeOK, SourceWrites, Requests
<1>2. "draft" \in Places /\ SourceWrites' \subseteq Calls
  BY DEF Places, SourceWrites
<1>3. \A r \in Rows, p \in Places : Asked(r, p) => Asked(r, p)'
  BY AskedForGood
<1>4. ASSUME NEW c \in Calls, NEW a \in Agents, NEW q \in Requests, Sends(c, a, q)
      PROVE  AuthorInv'
  <2>1. /\ rows' = rows /\ fetched' = [fetched EXCEPT ![a] = None]
        /\ request' = [request EXCEPT ![c] = q] /\ request[c].op = "none"
    BY <1>4 DEF Sends, CallInv
  <2>2. \A b \in Agents : fetched'[b] # None => fetched'[b] = fetched[b]
    BY <1>1, <2>1
  <2>3. ASSUME NEW u \in SourceWrites', NEW r \in request'[u].sources
        PROVE  Asked(r, "draft")' \/ r = <<Source, u>>
    <3>1. CASE u # c
      <4>1. u \in SourceWrites /\ request'[u] = request[u]
        BY <2>1, <3>1 DEF SourceWrites, TypeOK
      <4> QED BY <1>1, <1>2, <1>3, <2>3, <4>1 DEF AuthorInv
    <3>2. CASE u = c
      <4>1. request'[u] = q /\ q.op = "update" /\ q.sources # None
        BY <2>1, <3>2 DEF SourceWrites, TypeOK
      <4>2. fetched[a] # None /\ q.sources = WithOwn(c, fetched[a])
        BY <1>4, <4>1 DEF Sends
      <4>3. r \in fetched[a] \/ r = <<Source, c>>
        BY <2>3, <4>1, <4>2 DEF WithOwn
      <4>4. fetched[a] \subseteq Rows
        BY <1>1, <4>2
      <4> QED BY <1>2, <1>3, <3>2, <4>2, <4>3, <4>4 DEF AuthorInv
    <3> QED BY <3>1, <3>2
  <2> QED BY <1>1, <1>2, <1>3, <2>1, <2>2, <2>3 DEF AuthorInv
<1>5. ASSUME NEW a \in Agents, GetSpec(a) PROVE AuthorInv'
  <2>1. /\ rows' = rows /\ request' = request /\ fetched' = [fetched EXCEPT ![a] = rows["draft"]]
    BY <1>5 DEF GetSpec
  <2>2. \A b \in Agents : fetched'[b] \in {fetched[b], rows["draft"]}
    BY <1>1, <2>1
  <2> QED BY <1>1, <1>2, <1>3, <2>1, <2>2 DEF AuthorInv, SourceWrites
<1>6. ASSUME NEW c \in Calls, NEW o \in Ends, Answers(c, o) PROVE AuthorInv'
  <2>1. UNCHANGED <<rows, request, fetched>>
    BY <1>6 DEF Answers
  <2> QED BY <1>1, <1>2, <1>3, <2>1 DEF AuthorInv, SourceWrites
<1>7. ASSUME NEW c \in Calls, NEW t \in Tokens, Carry(c, t) PROVE AuthorInv'
  <2>1. /\ request' = request /\ fetched' = fetched /\ effects'[c] # {}
        /\ SourceWrites' = SourceWrites /\ Records' = Records
    BY <1>7 DEF Carry, Effect, TypeOK, ContractTypeOK, SourceWrites, Records
  <2>2. ASSUME NEW p \in Places, NEW r \in rows'[p] PROVE Asked(r, p)'
    <3>0. r \in Rows
      BY <2>2 DEF TypeOK
    <3>1. CASE r \in rows[p]
      BY <1>3, <3>0, <3>1 DEF AuthorInv
    <3>2. CASE request[c].op = "record" /\ Record(c, request[c].place, request[c].keys)
      <4>1. c \in Records /\ request[c].place \in Places
            /\ \A k \in request[c].keys : k # Source
        BY <3>2, RecordsHaveAgents DEF Records
      <4>2. r \in rows[p] \/ (p = request[c].place /\ r \in request[c].keys \X {c})
        BY <1>1, <2>2, <3>2, <4>1 DEF Record
      <4>3. CASE p = request[c].place /\ r \in request[c].keys \X {c}
        <5>1. r[1] \in request[c].keys /\ r[2] = c
          BY <4>3
        <5> QED BY <2>1, <4>1, <4>3, <5>1 DEF Asked
      <4> QED BY <3>1, <4>2, <4>3
    <3>3. CASE request[c].op = "update" /\ WriteSources(request[c].sources)
      <4>1. r \in rows[p] \/ (/\ p = "draft" /\ request[c].sources # None
                               /\ r \in request[c].sources)
        BY <1>1, <2>2, <3>3 DEF WriteSources
      <4>2. CASE p = "draft" /\ request[c].sources # None /\ r \in request[c].sources
        <5>1. c \in SourceWrites
          BY <3>3, <4>2 DEF SourceWrites
        <5>2. Asked(r, "draft") \/ r = <<Source, c>>
          BY <4>2, <5>1 DEF AuthorInv
        <5>3. Asked(<<Source, c>>, "draft")'
          BY <1>1, <2>1, <5>1 DEF Asked
        <5> QED BY <1>2, <1>3, <3>0, <4>2, <5>2, <5>3
      <4> QED BY <3>1, <4>1, <4>2
    <3> QED BY <1>7, <3>2, <3>3 DEF Carry
  <2> QED BY <1>1, <1>2, <1>3, <2>1, <2>2 DEF AuthorInv
<1>8. CASE UNCHANGED vars
  BY <1>8 DEF vars, contractVars, AuthorInv, Asked, SourceWrites, Records
<1> QED BY EveryStep, <1>4, <1>5, <1>6, <1>7, <1>8

(* What is recorded is what was asked for: a refused record or write of    *)
(* sources leaves no row behind, in the draft or in the session.           *)
THEOREM RowsComeFromTheirCalls == Spec => []RowsAreOfTheirCalls
<1>1. Init => CallInv /\ AuthorInv
  BY DEF Init, ContractInit, CallInv, Ok, AuthorInv, SourceWrites
<1>2. TypeOK /\ TypeOK' /\ CallInv /\ AuthorInv /\ [Next]_vars => CallInv' /\ AuthorInv'
  BY CallInvariant, AuthorInvariant
<1>3. TypeOK /\ CallInv /\ AuthorInv => RowsAreOfTheirCalls
  BY DEF TypeOK, Rows, CallInv, AuthorInv, Asked, RowsAreOfTheirCalls
<1> QED
  BY <1>1, <1>2, <1>3, TypeCorrect, PTL DEF Spec

(* The tools, the agents and the server stay within the contract that      *)
(* api.Client implements.                                                  *)
THEOREM CallsKeepTheContract == Spec => ContractSpec
<1>1. Init => ContractInit
  BY DEF Init
<1>2. TypeOK /\ [Next]_vars => [ContractNext]_contractVars
  <2> SUFFICES ASSUME TypeOK, [Next]_vars PROVE [ContractNext]_contractVars
    OBVIOUS
  <2>1. ASSUME NEW c \in Calls, NEW a \in Agents, NEW q \in Requests, Sends(c, a, q)
        PROVE  ContractNext
    <3>1. Open(c)
      BY <2>1 DEF Sends, Open
    <3> QED BY <3>1 DEF ContractNext
  <2>2. ASSUME NEW c \in Calls, NEW o \in Ends, Answers(c, o) PROVE ContractNext
    <3>1. End(c, o)
      BY <2>2 DEF Answers, End
    <3> QED BY <3>1 DEF ContractNext
  <2>3. ASSUME NEW c \in Calls, NEW t \in Tokens, Carry(c, t) PROVE ContractNext
    <3>1. Effect(c, t)
      BY <2>3 DEF Carry
    <3> QED BY <3>1 DEF ContractNext
  <2>4. ASSUME (\E a \in Agents : GetSpec(a)) \/ UNCHANGED vars
        PROVE  UNCHANGED contractVars
    BY <2>4 DEF GetSpec, vars
  <2> QED BY EveryStep, <2>1, <2>2, <2>3, <2>4
<1> QED
  BY <1>1, <1>2, TypeCorrect, PTL DEF Spec, ContractSpec
=============================================================================
