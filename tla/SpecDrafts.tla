----------------------------- MODULE SpecDrafts -----------------------------
(***************************************************************************)
(* The draft spec of an intent session and the rows in its sources         *)
(* (internal/mcpserver/acceptance_tools.go, tools.go get_spec and          *)
(* update_spec, internal/api/acceptance.go, requirement.go).               *)
(*                                                                         *)
(* Two tools write the same array.  record_risk_acceptances has the server *)
(* put in the rows of a call, each in place of the row with the same key;  *)
(* update_spec with sources_update replaces the array by what the agent    *)
(* built from its last get_spec.  The ordering note of the first tool asks *)
(* an agent to record first, fetch the spec again, and only then to write  *)
(* sources; the agents of this module follow it.  Without spec_id the rows *)
(* go to the judgements of the session, which update_spec does not touch.  *)
(*                                                                         *)
(* Each write is one request through api.Client, of which CallContract     *)
(* says how often and how late it takes effect.  Left out: criteria and    *)
(* evidence, the rest of a spec; what a row says is the call it is from.   *)
(***************************************************************************)
EXTENDS CallContract, Integers, FiniteSets

CONSTANTS
  Agents,
  Keys,      (* sets of specs a session's row is for                       *)
  Source,    (* the rows an agent writes through update_spec               *)
  MaxRepeated, (* bound: calls that take effect more than once             *)
  None

Rows == (Keys \cup {Source}) \X Calls
Places == {"draft", "session"}

ASSUME SpecDraftsAssumption ==
  /\ Source \notin Keys
  /\ MaxRepeated \in Nat
  /\ None \notin Agents
  /\ \A s \in SUBSET Rows : s # None

VARIABLES
  request,   (* what each call asks for                                    *)
  rows,      (* what the server holds in either place                      *)
  fetched    (* the sources each agent has from its last get_spec          *)

vars == <<contractVars, request, rows, fetched>>

Requests ==
  [op : {"none"}, by : {None}, place : {"draft"}, keys : {{}}, sources : {None}, after : {{}}]
  \cup [op : {"record"}, by : Agents, place : Places, keys : (SUBSET Keys) \ {{}},
        sources : {None}, after : SUBSET Calls]
  \cup [op : {"update"}, by : Agents, place : {"draft"}, keys : {{}},
        sources : {None} \cup SUBSET Rows, after : SUBSET Calls]

TypeOK ==
  /\ ContractTypeOK
  /\ request \in [Calls -> Requests]
  /\ rows \in [Places -> SUBSET Rows]
  /\ fetched \in [Agents -> {None} \cup SUBSET Rows]

Init ==
  /\ ContractInit
  /\ request = [c \in Calls |-> [op |-> "none", by |-> None, place |-> "draft",
                                 keys |-> {}, sources |-> None, after |-> {}]]
  /\ rows = [p \in Places |-> {}]
  /\ fetched = [a \in Agents |-> None]

-----------------------------------------------------------------------------
(* The server                                                              *)

Record(c, p, keys) ==
  rows' = [rows EXCEPT ![p] = {r \in @ : r[1] \notin keys} \cup (keys \X {c})]

(* A wrong WriteSources, that takes an omitted set for an empty one.       *)
WriteOmittedSources(sources) ==
  rows' = [rows EXCEPT !["draft"] = IF sources = None THEN {} ELSE sources]

(* The whole set is replaced; an omitted one leaves the sources alone.     *)
WriteSources(sources) ==
  rows' = [rows EXCEPT !["draft"] = IF sources = None THEN @ ELSE sources]

(* An attempt of the call reaches the server, in time or late.  The server *)
(* may refuse any of them, a record without spec_id because the session    *)
(* has no record of its own yet.                                           *)
Carry(c, t) ==
  LET q == request[c] IN
  /\ Effect(c, t)
  /\ Cardinality({d \in Calls : Cardinality(effects'[d]) > 1}) <= MaxRepeated
  /\ \/ q.op = "record" /\ Record(c, q.place, q.keys)
     \/ q.op = "update" /\ WriteSources(q.sources)
  /\ UNCHANGED <<request, fetched>>

-----------------------------------------------------------------------------
(* The tools                                                               *)

(* Carried out, which is what the properties go by.  A 2xx that cannot be  *)
(* read is an error to the agent, who does the same after either answer.   *)
Succeed(c) ==
  /\ outcome[c] = "open"
  /\ \E o \in {"applied", "atLeastOnce"} : End(c, o)
  /\ UNCHANGED <<request, rows, fetched>>

Fail(c) ==
  /\ outcome[c] = "open"
  /\ \E o \in {"refused", "unknown"} : End(c, o)
  /\ UNCHANGED <<request, rows, fetched>>

Ok(c) == outcome[c] \in {"applied", "atLeastOnce"}

(* The calls that took effect and will not again.                          *)
Over == {c \in Calls : outcome[c] = "applied"}
Busy(a) == \E c \in Calls : outcome[c] = "open" /\ request[c].by = a

(* A wrong Send, by an agent that keeps what it had fetched before.        *)
SendKeepingFetched(c, a, op, p, keys, sources) ==
  /\ ~Busy(a)
  /\ Open(c)
  /\ request' = [request EXCEPT ![c] =
       [op |-> op, by |-> a, place |-> p, keys |-> keys, sources |-> sources, after |-> Over]]
  /\ UNCHANGED <<rows, fetched>>

(* One request goes out.  What the agent fetched before is not used again. *)
Send(c, a, op, p, keys, sources) ==
  /\ ~Busy(a)
  /\ Open(c)
  /\ request' = [request EXCEPT ![c] =
       [op |-> op, by |-> a, place |-> p, keys |-> keys, sources |-> sources, after |-> Over]]
  /\ fetched' = [fetched EXCEPT ![a] = None]
  /\ UNCHANGED rows

(* A wrong RecordRiskAcceptances, that sends a call without rows.          *)
RecordAnything(c, a) ==
  \E p \in Places, keys \in SUBSET Keys : Send(c, a, "record", p, keys, None)

(* record_risk_acceptances refuses a call without rows itself, and sends   *)
(* nothing; spec_id says where the rows go.                                *)
RecordRiskAcceptances(c, a) ==
  \E p \in Places, keys \in (SUBSET Keys) \ {{}} : Send(c, a, "record", p, keys, None)

(* The read is that of the attempt whose answer the agent has; the agent   *)
(* may use it much later.                                                  *)
GetSpec(a) ==
  /\ ~Busy(a)
  /\ fetched' = [fetched EXCEPT ![a] = rows["draft"]]
  /\ UNCHANGED <<contractVars, request, rows>>

(* The array for update_spec: everything fetched, with the agent's own     *)
(* sources in place of the earlier ones.                                   *)
WithOwn(c, sources) == {r \in sources : r[1] # Source} \cup {<<Source, c>>}

UpdateSources(c, a) ==
  /\ fetched[a] # None
  /\ Send(c, a, "update", "draft", {}, WithOwn(c, fetched[a]))

UpdateOtherFields(c, a) == Send(c, a, "update", "draft", {}, None)

Next ==
  \/ \E c \in Calls, a \in Agents :
       RecordRiskAcceptances(c, a) \/ UpdateSources(c, a) \/ UpdateOtherFields(c, a)
  \/ \E a \in Agents : GetSpec(a)
  \/ \E c \in Calls : Succeed(c) \/ Fail(c)
  \/ \E c \in Calls, t \in Tokens : Carry(c, t)

Spec == Init /\ [][Next]_vars

-----------------------------------------------------------------------------
(* Properties                                                              *)

InDoubt(c) == outcome[c] \in {"open", "atLeastOnce", "unknown"}

(* The effects of d may come after those of c.                             *)
MayFollow(d, c) == effects[d] # {} /\ d \notin request[c].after

Records == {c \in Calls : request[c].op = "record"}
SourceWrites == {c \in Calls : request[c].op = "update" /\ request[c].sources # None}

(* The row of a key that an agent was told is recorded stays, although     *)
(* the draft's sources are written again and again.  Only another record   *)
(* of the same key that comes after it, in order or late, takes its place, *)
(* and only a write of another agent, or an earlier one of its own that is *)
(* in doubt, erases it; one in the session's judgements nothing erases.    *)
AcceptancesStay ==
  \A c \in Records : Ok(c) => \A k \in request[c].keys :
    \/ <<k, c>> \in rows[request[c].place]
    \/ \E d \in Records \ {c} :
         MayFollow(d, c) /\ request[d].place = request[c].place /\ k \in request[d].keys
    \/ /\ request[c].place = "draft"
       /\ \E u \in SourceWrites :
            /\ MayFollow(u, c) /\ <<k, c>> \notin request[u].sources
            /\ request[u].by # request[c].by \/ InDoubt(u)

(* The sources an agent was told are written stay until sources are        *)
(* written again, whatever is recorded and whatever other field is updated.*)
SourcesStay ==
  \A u \in SourceWrites : Ok(u) =>
    \/ <<Source, u>> \in rows["draft"]
    \/ \E v \in SourceWrites \ {u} : MayFollow(v, u)
=============================================================================
