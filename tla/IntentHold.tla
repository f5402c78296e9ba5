----------------------------- MODULE IntentHold -----------------------------
(***************************************************************************)
(* hold_intent (internal/mcpserver/tools.go, internal/api/branch.go): the  *)
(* hold on the automatic merge of an intent branch.  The tool works out    *)
(* when a hold ends and sends one POST, which CallContract carries out     *)
(* once, again, late or never; the server merges, or gives up, an open     *)
(* branch that is not held at a time of its own choosing.                  *)
(*                                                                         *)
(* Left out: the reason for a hold, and a difference between the clocks of *)
(* the agent and the server.                                               *)
(***************************************************************************)
EXTENDS CallContract, Integers, FiniteSets

CONSTANTS
  Day,          (* units of time in a day                                  *)
  DefaultHold,  (* how long a hold lasts when the caller does not say      *)
  Longest,      (* the longest hold the server accepts                     *)
  Width,        (* values of a time.Duration, 2^64 in the code             *)
  MaxTime,      (* bound: how long the branch is watched                   *)
  MaxDays,      (* bound: the days a caller asks for                       *)
  MaxRepeated   (* bound: calls that take effect more than once            *)

ASSUME IntentHoldAssumption ==
  /\ {Day, DefaultHold, Longest} \subseteq Nat \ {0}
  /\ Width \in Nat /\ Width % 2 = 0 /\ Day < Width \div 2
  /\ {MaxTime, MaxDays, MaxRepeated} \subseteq Nat

VARIABLES
  hold,      (* what each call asks of the hold                            *)
  now,
  branch,    (* "open", "merged" or "abandoned"                            *)
  endedAt,   (* when it was merged or given up                             *)
  heldUntil  (* when the latest hold ends, 0 for a released one            *)

holdVars == <<hold, now, branch, endedAt, heldUntil>>

(* until is what the tool sends, asked what the caller means, 0 for a      *)
(* release; after is a record of the calls that were over when this began. *)
HoldRequests ==
  [op : {"none", "hold", "clear"}, until : Nat, asked : Nat, after : SUBSET Calls]

Request(op, until, asked, after) ==
  [op |-> op, until |-> until, asked |-> asked, after |-> after]

HoldTypeOK ==
  /\ hold \in [Calls -> HoldRequests]
  /\ now \in 0..MaxTime
  /\ branch \in {"open", "merged", "abandoned"}
  /\ endedAt \in 0..MaxTime
  /\ heldUntil \in 0..(MaxTime + Longest)

HoldInit ==
  /\ hold = [c \in Calls |-> Request("none", 0, 0, {})]
  /\ now = 0
  /\ branch = "open"
  /\ endedAt = 0
  /\ heldUntil = 0

-----------------------------------------------------------------------------
(* The length of a hold                                                    *)

(* The largest number of days that is still a duration.                    *)
maxHoldDays == (Width \div 2 - 1) \div Day

(* An integer as a signed one of the width.                                *)
Signed(i) == ((i + Width \div 2) % Width) - Width \div 2

(* A wrong ParseHoldDuration, without the limit.                           *)
ParseAnyDuration(days) == {Signed(n * Day) : n \in {d \in {days} : d > 0}}

(* The duration of a number of days, if it is accepted.                    *)
ParseHoldDuration(days) ==
  {Signed(n * Day) : n \in {d \in {days} : d > 0 /\ d <= maxHoldDays}}

-----------------------------------------------------------------------------
(* The server                                                              *)

Held == heldUntil > now

HoldAccepted(until) == branch # "merged" /\ until > now /\ until <= now + Longest

(* No more calls than the bound says are carried out more than once.       *)
Repeats(c, t) ==
  /\ Effect(c, t)
  /\ Cardinality({d \in Calls : Cardinality(effects'[d]) > 1}) <= MaxRepeated

(* A hold that is set opens an abandoned branch again.                     *)
SetHold(c) ==
  /\ hold[c].op = "hold" /\ HoldAccepted(hold[c].until)
  /\ heldUntil' = hold[c].until
  /\ branch' = "open"

ClearHold(c) ==
  /\ hold[c].op = "clear" /\ branch # "merged"
  /\ heldUntil' = 0
  /\ UNCHANGED branch

(* An attempt of the call reaches the server, in time or late.             *)
CarryHold(c, t) ==
  /\ Repeats(c, t)
  /\ SetHold(c) \/ ClearHold(c)
  /\ UNCHANGED <<hold, now, endedAt>>

(* One of the timers of the automatic merge runs out; a hold stops them.   *)
EndBranch(how) ==
  /\ branch = "open" /\ ~Held
  /\ branch' = how
  /\ endedAt' = now
  /\ UNCHANGED <<contractVars, hold, now, heldUntil>>

Tick ==
  /\ now < MaxTime
  /\ now' = now + 1
  /\ UNCHANGED <<contractVars, hold, branch, endedAt, heldUntil>>

-----------------------------------------------------------------------------
(* The tool                                                                *)

(* The calls that took effect and will not again.                          *)
Over == {c \in Calls : outcome[c] = "applied"}

SendHold(c, op, until, asked) ==
  /\ Open(c)
  /\ hold' = [hold EXCEPT ![c] = Request(op, until, asked, Over)]
  /\ UNCHANGED <<now, branch, endedAt, heldUntil>>

(* For days, for a shorter duration, until a time, or for the default; a   *)
(* call with both for and until is refused and sends nothing.              *)
HoldIntent(c) ==
  \/ \E n \in 0..MaxDays : \E d \in ParseHoldDuration(n) :
       SendHold(c, "hold", now + d, now + n * Day)
  \/ \E d \in 1..Day : SendHold(c, "hold", now + d, now + d)
  \/ \E t \in 1..MaxTime : SendHold(c, "hold", t, t)
  \/ SendHold(c, "hold", now + DefaultHold, now + DefaultHold)

(* A wrong ReleaseIntent, that sends the time of the call for an end.      *)
ReleaseByHolding(c) == SendHold(c, "hold", now + 1, 0)

ReleaseIntent(c) == SendHold(c, "clear", 0, 0)

(* The POST was carried out.  A 2xx whose body cannot be read is told as an*)
(* error; the properties go by what was carried out, told or not.          *)
Succeed(c) ==
  /\ outcome[c] = "open"
  /\ \E o \in {"applied", "atLeastOnce"} : End(c, o)

Fail(c) ==
  /\ outcome[c] = "open"
  /\ \E o \in {"refused", "unknown"} : End(c, o)

HoldNext ==
  \/ \E c \in Calls : HoldIntent(c) \/ ReleaseIntent(c)
  \/ \E c \in Calls : (Succeed(c) \/ Fail(c)) /\ UNCHANGED holdVars
  \/ \E c \in Calls, t \in Tokens : CarryHold(c, t)
  \/ \E how \in {"merged", "abandoned"} : EndBranch(how)
  \/ Tick

-----------------------------------------------------------------------------
(* Properties                                                              *)

Ok(c) == outcome[c] \in {"applied", "atLeastOnce"}

(* The effects of d may come after those of c.                             *)
MayFollow(d, c) == effects[d] # {} /\ d \notin hold[c].after

Asked == {c \in Calls : hold[c].op # "none"}

(* A branch that hold_intent has said is held is neither merged nor given  *)
(* up before the time the caller asked for, unless another call, a later   *)
(* one or one that came late, released the hold or shortened it.           *)
HoldIsKept ==
  \A c \in Asked : hold[c].asked > 0 /\ Ok(c) /\ branch # "open" =>
    \/ endedAt >= hold[c].asked
    \/ \E d \in Asked \ {c} : MayFollow(d, c) /\ hold[d].until <= endedAt

(* A hold that was released comes back only by a call that sets one, later *)
(* or late.                                                                *)
ReleaseIsKept ==
  \A c \in Asked : hold[c].asked = 0 /\ Ok(c) /\ Held =>
    \E d \in Asked \ {c} : MayFollow(d, c) /\ hold[d].until = heldUntil
=============================================================================
