-------------------------- MODULE IssueLinksProofs --------------------------
(***************************************************************************)
(* Proofs about IntentHold and IssueLinks, for every set of calls, issues  *)
(* and specs, every width of a duration, and any number of calls that are  *)
(* repeated.                                                               *)
(***************************************************************************)
EXTENDS IssueLinks, FiniteSetTheorems, TLAPS

(* The length that is sent is the length that was asked for: no number of  *)
(* days that is accepted wraps around.                                     *)
THEOREM DurationFits ==
  ASSUME NEW n \in Nat, NEW d \in ParseHoldDuration(n)
  PROVE  d = n * Day /\ d \in Nat \ {0}
<1> DEFINE half == Width \div 2
<1>1. half \in Nat /\ Width = 2 * half /\ Day < half /\ Day \in Nat \ {0}
  BY IntentHoldAssumption
<1> HIDE DEF half
<1>2. n > 0 /\ n <= (half - 1) \div Day /\ d = Signed(n * Day)
  BY DEF ParseHoldDuration, maxHoldDays, half
<1>3. n * Day <= half - 1
  <2> DEFINE m == (half - 1) \div Day
  <2>1. m \in Nat /\ m * Day <= half - 1
    BY <1>1
  <2> HIDE DEF m
  <2>2. n <= m
    BY <1>2 DEF m
  <2>3. n * Day <= m * Day
    BY <1>1, <2>1, <2>2
  <2>4. n * Day \in Nat /\ m * Day \in Nat
    BY <1>1, <2>1
  <2> QED
    BY <1>1, <2>1, <2>3, <2>4
<1>4. n * Day \in Nat \ {0}
  BY <1>1, <1>2
<1>5. (n * Day + half) % Width = n * Day + half
  <2> DEFINE k == n * Day
  <2>1. k \in Nat /\ k <= half - 1
    BY <1>3, <1>4
  <2> HIDE DEF k
  <2>2. k + half \in Nat /\ k + half < Width /\ Width \in Nat \ {0}
    BY <1>1, <2>1
  <2>3. (k + half) % Width = k + half
    BY <2>2
  <2> QED
    BY <2>3 DEF k
<1>6. d = (n * Day + half) - half
  <2>1. Signed(n * Day) = ((n * Day + half) % Width) - half
    BY DEF Signed, half
  <2>2. d = Signed(n * Day)
    BY <1>2
  <2> QED
    BY <1>5, <2>1, <2>2
<1> QED
  BY <1>1, <1>4, <1>6

-----------------------------------------------------------------------------
(* The steps                                                               *)

(* hold_intent sends its request.                                          *)
SendsHold(c, q) ==
  /\ outcome[c] = "idle" /\ change[c].op = "none"
  /\ q \in HoldRequests /\ q.op # "none" /\ q.after = Over
  /\ q.op = "hold" => q.until = q.asked /\ q.asked > 0
  /\ q.op = "clear" => q.until = 0 /\ q.asked = 0
  /\ outcome' = [outcome EXCEPT ![c] = "open"]
  /\ hold' = [hold EXCEPT ![c] = q]
  /\ UNCHANGED <<effects, now, branch, endedAt, heldUntil, linkVars>>

(* A link tool has looked its refs up, all of them.                        *)
Builds(c, q) ==
  /\ outcome[c] = "idle" /\ hold[c].op = "none" /\ change[c].op = "none"
  /\ q \in Changes /\ q.op # "none" /\ q.after = {}
  /\ Canonical(q.pairs) = q.refs
  /\ change' = [change EXCEPT ![c] = q]
  /\ UNCHANGED <<contractVars, holdVars, live, links>>

Answers(c, o) ==
  /\ outcome[c] = "open"
  /\ Justified(c, o)
  /\ outcome' = [outcome EXCEPT ![c] = o]
  /\ UNCHANGED <<effects, holdVars, linkVars>>

(* What every step finds: a call is of one of the tools, and asks for what *)
(* its caller named.                                                       *)
CallInv ==
  \A c \in Calls :
    /\ outcome[c] = "idle" => effects[c] = {} /\ hold[c].op = "none"
    /\ hold[c].op # "none" => change[c].op = "none"
    /\ hold[c].after \subseteq Over /\ change[c].after \subseteq Over
    /\ Ok(c) => effects[c] # {}
    /\ outcome[c] = "refused" => effects[c] = {}
    /\ hold[c].op = "hold" => hold[c].until = hold[c].asked /\ hold[c].asked > 0
    /\ hold[c].op = "clear" => hold[c].until = 0 /\ hold[c].asked = 0
    /\ change[c].op # "none" => Canonical(change[c].pairs) = change[c].refs

LEMMA SendHoldIsASend ==
  ASSUME TypeOK, CallInv, NEW c \in Calls,
         HoldIntent(c) \/ ReleaseIntent(c),
         UNCHANGED linkVars, hold'[c] # hold[c] => c \in Free
  PROVE  \E q \in HoldRequests : SendsHold(c, q)
<1>1. ASSUME NEW op \in {"hold", "clear"}, NEW until \in Nat,
             SendHold(c, op, until, until),
             op = "hold" => until > 0, op = "clear" => until = 0
      PROVE  \E q \in HoldRequests : SendsHold(c, q)
  <2> DEFINE q == Request(op, until, until, Over)
  <2>1. q \in HoldRequests /\ q.op = op /\ q.until = until /\ q.asked = until /\ q.after = Over
    BY <1>1 DEF Request, HoldRequests, Over
  <2>2. outcome[c] = "idle" /\ hold' = [hold EXCEPT ![c] = q]
    BY <1>1 DEF SendHold, Open
  <2>3. hold[c].op = "none" /\ hold'[c] # hold[c]
    BY <1>1, <2>1, <2>2 DEF CallInv, TypeOK, HoldTypeOK
  <2>4. change[c].op = "none"
    BY <2>3 DEF Free
  <2> HIDE DEF q
  <2>5. SendsHold(c, q)
    BY <1>1, <2>1, <2>2, <2>4 DEF SendHold, Open, SendsHold
  <2> QED
    BY <2>1, <2>5
<1>2. now \in Nat /\ MaxTime \in Nat /\ MaxDays \in Nat
  BY IntentHoldAssumption DEF TypeOK, HoldTypeOK
<1>3. CASE ReleaseIntent(c)
  BY <1>1, <1>3 DEF ReleaseIntent
<1>4. ASSUME NEW n \in 0..MaxDays, NEW d \in ParseHoldDuration(n),
             SendHold(c, "hold", now + d, now + n * Day)
      PROVE  \E q \in HoldRequests : SendsHold(c, q)
  <2>1. d = n * Day /\ d \in Nat \ {0}
    BY <1>2, DurationFits
  <2>2. now + d \in Nat /\ now + d > 0
    BY <1>2, <2>1
  <2> QED
    BY <1>1, <1>4, <2>1, <2>2
<1>5. ASSUME NEW d \in Nat \ {0}, SendHold(c, "hold", now + d, now + d)
      PROVE  \E q \in HoldRequests : SendsHold(c, q)
  <2>1. now + d \in Nat /\ now + d > 0
    BY <1>2
  <2> QED
    BY <1>1, <1>5, <2>1
<1>6. ASSUME NEW t \in 1..MaxTime, SendHold(c, "hold", t, t)
      PROVE  \E q \in HoldRequests : SendsHold(c, q)
  <2>1. t \in Nat /\ t > 0
    BY <1>2
  <2> QED
    BY <1>1, <1>6, <2>1
<1>7. DefaultHold \in Nat \ {0} /\ \A d \in 1..Day : d \in Nat \ {0}
  BY IntentHoldAssumption
<1> QED
  BY <1>3, <1>4, <1>5, <1>6, <1>7 DEF HoldIntent

(* When every ref is resolved, the pairs that are sent stand for those the *)
(* caller named.                                                           *)
LEMMA BuildIsABuild ==
  ASSUME TypeOK, NEW c \in Free, NEW op \in {"add", "remove"}, NEW refs \in SUBSET Pairs,
         NEW form, BuildIssueSpecPairs(c, op, refs, form)
  PROVE  \E q \in Changes : Builds(c, q)
<1> DEFINE pairs == UNION {{p[1]} \X ResolveSpecRef(p[2], form) : p \in refs}
           q == [op |-> op, refs |-> refs, after |-> {}, pairs |-> pairs]
<1>1. \A s \in Specs : \A id \in ResolveSpecRef(s, form) : id \in Ids /\ id[2] = s
  BY DEF ResolveSpecRef, Ids
<1>2. \A p \in refs : p[1] \in Issues /\ p[2] \in Specs /\ p = <<p[1], p[2]>>
  BY DEF Pairs
<1>3. \A x \in pairs : /\ x \in Issues \X Ids
                        /\ <<x[1], x[2][2]>> \in refs
  BY <1>1, <1>2
<1>4. \A p \in refs : \E x \in pairs : p = <<x[1], x[2][2]>>
  <2> TAKE p \in refs
  <2>1. PICK id \in ResolveSpecRef(p[2], form) : TRUE
    BY DEF BuildIssueSpecPairs
  <2>2. <<p[1], id>> \in pairs
    BY <2>1
  <2>3. id[2] = p[2]
    BY <1>1, <1>2
  <2> QED
    BY <1>2, <2>2, <2>3
<1>5. Canonical(pairs) = refs
  BY <1>3, <1>4 DEF Canonical
<1>6. q \in Changes
  <2>1. refs # {}
    BY FS_EmptySet DEF BuildIssueSpecPairs
  <2>2. pairs # {}
    BY <1>4, <2>1
  <2> HIDE DEF pairs
  <2>3. pairs \in (SUBSET (Issues \X Ids)) \ {{}} /\ refs \in (SUBSET Pairs) \ {{}}
    BY <1>3, <2>1, <2>2
  <2>4. q \in [op : {"add", "remove"}, refs : (SUBSET Pairs) \ {{}},
               pairs : (SUBSET (Issues \X Ids)) \ {{}}, after : SUBSET Calls]
    BY <2>3
  <2> QED
    BY <2>4 DEF Changes
<1>7. change' = [change EXCEPT ![c] = q]
  BY DEF BuildIssueSpecPairs
<1> HIDE DEF pairs
<1>8. q.op # "none" /\ q.after = {} /\ q.pairs = pairs /\ q.refs = refs
  OBVIOUS
<1> HIDE DEF q
<1>9. Builds(c, q)
  BY <1>5, <1>6, <1>7, <1>8 DEF Builds, BuildIssueSpecPairs, Free
<1> QED
  BY <1>6, <1>9

EveryKind ==
  \/ \E c \in Calls, q \in HoldRequests : SendsHold(c, q)
  \/ \E c \in Calls, q \in Changes : Builds(c, q)
  \/ \E c \in Calls, o \in Ends : Answers(c, o)
  \/ \E c \in Calls, t \in Tokens : CarryHold(c, t) /\ UNCHANGED linkVars
  \/ \E how \in {"merged", "abandoned"} : EndBranch(how) /\ UNCHANGED linkVars
  \/ Tick /\ UNCHANGED linkVars
  \/ \E c \in Calls : UpdateIssueSpecLinks(c)
  \/ \E c \in Calls, t \in Tokens : CarryLinks(c, t)
  \/ \E s \in Specs : DeleteSpec(s)
  \/ UNCHANGED vars

LEMMA EveryStep ==
  ASSUME TypeOK, CallInv, [Next]_vars
  PROVE  EveryKind
<1>1. ASSUME NEW c \in Calls, Succeed(c) \/ Fail(c), UNCHANGED holdVars, UNCHANGED linkVars
      PROVE  \E o \in Ends : Answers(c, o)
  BY <1>1 DEF Succeed, Fail, End, Answers, Ends
<1>2. CASE HoldNext /\ UNCHANGED linkVars /\ \A c \in Calls : hold'[c] # hold[c] => c \in Free
  BY <1>1, <1>2, SendHoldIsASend DEF HoldNext, EveryKind
<1>3. CASE LinkNext
  <2>1. \A c \in Free : c \in Calls
    BY DEF Free
  <2> QED
    BY <1>3, <2>1, BuildIsABuild DEF LinkNext, EveryKind
<1>4. CASE UNCHANGED vars
  BY <1>4 DEF EveryKind
<1> QED
  BY <1>2, <1>3, <1>4 DEF Next

LEMMA TypeInvariant ==
  ASSUME TypeOK, CallInv, [Next]_vars
  PROVE  TypeOK'
<1>1. ASSUME NEW c \in Calls, NEW q \in HoldRequests, SendsHold(c, q) PROVE TypeOK'
  BY <1>1 DEF SendsHold, TypeOK, ContractTypeOK, HoldTypeOK, linkVars
<1>2. ASSUME NEW c \in Calls, NEW q \in Changes, Builds(c, q) PROVE TypeOK'
  BY <1>2 DEF Builds, TypeOK, ContractTypeOK, HoldTypeOK, contractVars, holdVars
<1>3. ASSUME NEW c \in Calls, NEW o \in Ends, Answers(c, o) PROVE TypeOK'
  BY <1>3 DEF Answers, TypeOK, ContractTypeOK, HoldTypeOK, linkVars, holdVars
<1>4. ASSUME NEW c \in Calls, NEW t \in Tokens, CarryHold(c, t), UNCHANGED linkVars
      PROVE  TypeOK'
  <2>1. outcome' = outcome /\ effects' \in [Calls -> SUBSET Tokens]
    BY <1>4 DEF CarryHold, Repeats, Effect, TypeOK, ContractTypeOK
  <2>2. heldUntil' \in 0..(MaxTime + Longest)
    <3>1. now \in 0..MaxTime /\ MaxTime \in Nat /\ Longest \in Nat /\ hold[c].until \in Nat
      BY IntentHoldAssumption DEF TypeOK, HoldTypeOK, HoldRequests
    <3> QED
      BY <1>4, <3>1 DEF CarryHold, SetHold, ClearHold, HoldAccepted
  <2>3. branch' \in {"open", "merged", "abandoned"}
    BY <1>4 DEF CarryHold, SetHold, ClearHold, TypeOK, HoldTypeOK
  <2> QED
    BY <1>4, <2>1, <2>2, <2>3 DEF CarryHold, TypeOK, ContractTypeOK, HoldTypeOK, linkVars
<1>5. ASSUME NEW how \in {"merged", "abandoned"}, EndBranch(how), UNCHANGED linkVars PROVE TypeOK'
  BY <1>5 DEF EndBranch, TypeOK, ContractTypeOK, HoldTypeOK, linkVars, contractVars
<1>6. ASSUME Tick, UNCHANGED linkVars PROVE TypeOK'
  BY <1>6, IntentHoldAssumption
  DEF Tick, TypeOK, ContractTypeOK, HoldTypeOK, linkVars, contractVars
<1>7. ASSUME NEW c \in Calls, UpdateIssueSpecLinks(c) PROVE TypeOK'
  <2>1. [change[c] EXCEPT !.after = Over] \in Changes
    <3>1. change[c] \in Changes /\ change[c].op # "none"
      BY <1>7 DEF TypeOK, UpdateIssueSpecLinks
    <3> QED
      BY <3>1 DEF Changes, Over
  <2>2. change' = [change EXCEPT ![c] = [change[c] EXCEPT !.after = Over]]
    BY <1>7 DEF UpdateIssueSpecLinks
  <2> QED
    BY <1>7, <2>1, <2>2
    DEF UpdateIssueSpecLinks, Open, TypeOK, ContractTypeOK, HoldTypeOK, holdVars
<1>8. ASSUME NEW c \in Calls, NEW t \in Tokens, CarryLinks(c, t) PROVE TypeOK'
  <2>1. outcome' = outcome /\ effects' \in [Calls -> SUBSET Tokens]
    BY <1>8 DEF CarryLinks, Repeats, Effect, TypeOK, ContractTypeOK
  <2>2. links' \in SUBSET Pairs
    <3>1. Canonical(change[c].pairs) \subseteq Pairs
      BY DEF TypeOK, Changes, Canonical, Ids, Pairs
    <3> QED
      BY <1>8, <3>1 DEF CarryLinks, UpdateLinks, TypeOK
  <2> QED
    BY <1>8, <2>1, <2>2 DEF CarryLinks, TypeOK, ContractTypeOK, HoldTypeOK, holdVars
<1>9. ASSUME NEW s \in Specs, DeleteSpec(s) PROVE TypeOK'
  BY <1>9 DEF DeleteSpec, TypeOK, ContractTypeOK, HoldTypeOK, holdVars, contractVars
<1>10. CASE UNCHANGED vars
  BY <1>10 DEF vars, contractVars, holdVars, linkVars, TypeOK, ContractTypeOK, HoldTypeOK
<1> QED
  BY EveryStep, <1>1, <1>2, <1>3, <1>4, <1>5, <1>6, <1>7, <1>8, <1>9, <1>10 DEF EveryKind

LEMMA CallInvariant ==
  ASSUME TypeOK, CallInv, [Next]_vars
  PROVE  CallInv'
<1>1. ASSUME NEW c \in Calls, NEW q \in HoldRequests, SendsHold(c, q) PROVE CallInv'
  <2>1. Over' = Over
    BY <1>1 DEF SendsHold, Over, TypeOK, ContractTypeOK
  <2> QED
    BY <1>1, <2>1 DEF SendsHold, CallInv, Ok, TypeOK, ContractTypeOK, HoldTypeOK, linkVars
<1>2. ASSUME NEW c \in Calls, NEW q \in Changes, Builds(c, q) PROVE CallInv'
  BY <1>2 DEF Builds, CallInv, Ok, Over, TypeOK, contractVars, holdVars
<1>3. ASSUME NEW c \in Calls, NEW o \in Ends, Answers(c, o) PROVE CallInv'
  <2>1. Over \subseteq Over' /\ o # "idle"
    BY <1>3 DEF Answers, Over, TypeOK, ContractTypeOK, Ends
  <2>2. /\ o \in {"applied", "atLeastOnce"} => effects[c] # {}
        /\ o = "refused" => effects[c] = {}
    BY <1>3 DEF Answers, Justified
  <2> QED
    BY <1>3, <2>1, <2>2 DEF Answers, CallInv, Ok, TypeOK, ContractTypeOK, holdVars, linkVars
<1>4. ASSUME NEW c \in Calls, NEW t \in Tokens, Repeats(c, t), hold' = hold, change' = change
      PROVE  CallInv'
  <2>1. /\ outcome' = outcome /\ outcome[c] \notin {"idle", "refused"}
        /\ effects' = [effects EXCEPT ![c] = @ \cup {t}]
    BY <1>4 DEF Repeats, Effect
  <2> QED
    BY <1>4, <2>1 DEF CallInv, Ok, Over, TypeOK, ContractTypeOK
<1>5. ASSUME NEW c \in Calls, UpdateIssueSpecLinks(c) PROVE CallInv'
  <2>1. Over' = Over
    BY <1>5 DEF UpdateIssueSpecLinks, Open, Over, TypeOK, ContractTypeOK
  <2>2. /\ hold' = hold /\ effects' = effects
        /\ outcome' = [outcome EXCEPT ![c] = "open"]
    BY <1>5 DEF UpdateIssueSpecLinks, Open, holdVars
  <2>3. \A d \in Calls : /\ change'[d].op = change[d].op
                         /\ change'[d].pairs = change[d].pairs /\ change'[d].refs = change[d].refs
                         /\ change'[d].after \in {change[d].after, Over}
    BY <1>5 DEF UpdateIssueSpecLinks, TypeOK, Changes
  <2> QED
    BY <2>1, <2>2, <2>3 DEF CallInv, Ok, TypeOK, ContractTypeOK
<1>6. ASSUME UNCHANGED <<contractVars, hold, change>> PROVE CallInv'
  BY <1>6 DEF CallInv, Ok, Over, contractVars
<1> QED
  BY EveryStep, <1>1, <1>2, <1>3, <1>4, <1>5, <1>6
  DEF EveryKind, CarryHold, EndBranch, Tick, CarryLinks, DeleteSpec, vars, holdVars, linkVars

LEMMA Beginning == Init => TypeOK /\ CallInv
<1> SUFFICES ASSUME Init PROVE TypeOK /\ CallInv
  OBVIOUS
<1>1. MaxTime \in Nat /\ Longest \in Nat
  BY IntentHoldAssumption
<1>2. \A c \in Calls : hold[c] \in HoldRequests /\ change[c] \in Changes
  BY DEF Init, HoldInit, Request, HoldRequests, Changes
<1>3. TypeOK
  BY <1>1, <1>2
  DEF Init, ContractInit, HoldInit, TypeOK, ContractTypeOK, HoldTypeOK
<1>4. CallInv
  BY DEF Init, ContractInit, HoldInit, Request, CallInv, Ok
<1> QED
  BY <1>3, <1>4

LEMMA Basics == Spec => [](TypeOK /\ CallInv)
BY Beginning, TypeInvariant, CallInvariant, PTL DEF Spec

(* Every variable keeps its type: no hold that hold_intent asks for ends   *)
(* before time began, however many days its caller wants.                  *)
THEOREM TypeCorrect == Spec => []TypeOK
BY Basics, PTL

-----------------------------------------------------------------------------
(* What a call asks for and the order of the calls                         *)

(* A call that has been sent asks for the same from then on, and no effect *)
(* is taken back.                                                          *)
LEMMA History ==
  ASSUME TypeOK, CallInv, [Next]_vars, NEW c \in Calls, outcome[c] # "idle"
  PROVE  /\ outcome'[c] # "idle"
         /\ hold'[c] = hold[c] /\ change'[c] = change[c]
         /\ \A d \in Calls : effects[d] \subseteq effects'[d]
<1>1. \A d \in Calls : effects[d] \subseteq effects'[d]
  <2>1. ASSUME NEW d \in Calls, NEW t \in Tokens, Repeats(d, t)
        PROVE  \A e \in Calls : effects[e] \subseteq effects'[e]
    BY <2>1 DEF Repeats, Effect, TypeOK, ContractTypeOK
  <2> QED
    BY EveryStep, <2>1
    DEF EveryKind, SendsHold, Builds, Answers, CarryHold, EndBranch, Tick, UpdateIssueSpecLinks,
        Open, CarryLinks, DeleteSpec, vars, contractVars
<1>2. outcome'[c] # "idle"
  <2>1. ASSUME NEW d \in Calls, NEW o \in Ends, Answers(d, o) PROVE outcome'[c] # "idle"
    BY <2>1 DEF Answers, TypeOK, ContractTypeOK, Ends
  <2> QED
    BY EveryStep, <2>1
    DEF EveryKind, SendsHold, Builds, CarryHold, Repeats, Effect, EndBranch, Tick,
        UpdateIssueSpecLinks, Open, CarryLinks, DeleteSpec, vars, contractVars, TypeOK,
        ContractTypeOK
<1>3. hold'[c] = hold[c] /\ change'[c] = change[c]
  BY EveryStep
  DEF EveryKind, SendsHold, Builds, Answers, CarryHold, EndBranch, Tick, UpdateIssueSpecLinks,
      Open, CarryLinks, DeleteSpec, vars, holdVars, linkVars, TypeOK, HoldTypeOK
<1> QED
  BY <1>1, <1>2, <1>3

(* A call that takes effect now is none that was over before another.      *)
LEMMA CarriedIsNotOver ==
  ASSUME TypeOK, CallInv, NEW d \in Calls, NEW t \in Tokens, Repeats(d, t)
  PROVE  /\ effects'[d] # {}
         /\ \A c \in Calls : d \notin hold[c].after /\ d \notin change[c].after
         /\ \A c \in Calls : c # d => effects'[c] = effects[c]
<1>1. outcome[d] # "applied" /\ effects' = [effects EXCEPT ![d] = @ \cup {t}]
  BY DEF Repeats, Effect
<1> QED
  BY <1>1 DEF CallInv, Over, TypeOK, ContractTypeOK

-----------------------------------------------------------------------------
(* A hold is kept                                                          *)

(* Another call that may have come after c set the end of the hold.        *)
SetByAnother(c) ==
  \E d \in Asked \ {c} : MayFollow(d, c) /\ hold[d].until = heldUntil

(* While the branch is open a hold that took effect still stands or has    *)
(* been changed by another call, and when the branch ends it has run out.  *)
KeptInv ==
  \A c \in Asked : hold[c].op = "hold" /\ effects[c] # {} =>
    IF branch = "open"
    THEN hold[c].until <= heldUntil \/ SetByAnother(c)
    ELSE \/ hold[c].until <= endedAt
         \/ \E d \in Asked \ {c} : MayFollow(d, c) /\ hold[d].until <= endedAt

(* The same of a released hold.                                            *)
ReleasedInv ==
  \A c \in Asked : hold[c].op = "clear" /\ effects[c] # {} =>
    heldUntil = 0 \/ SetByAnother(c)

(* A call that had an effect before keeps what it asked for and who may    *)
(* have come after it.                                                     *)
LEMMA HistoryOfHolds ==
  ASSUME TypeOK, CallInv, [Next]_vars, NEW c \in Asked', effects[c] # {}
  PROVE  /\ c \in Asked /\ hold'[c] = hold[c]
         /\ \A d \in Asked : MayFollow(d, c) =>
              d \in Asked' /\ hold'[d] = hold[d] /\ MayFollow(d, c)'
<1>1. c \in Calls /\ outcome[c] # "idle"
  BY DEF Asked, CallInv
<1>2. hold'[c] = hold[c]
  BY <1>1, History
<1>3. ASSUME NEW d \in Asked, MayFollow(d, c)
      PROVE  d \in Asked' /\ hold'[d] = hold[d] /\ MayFollow(d, c)'
  <2>1. d \in Calls /\ outcome[d] # "idle"
    BY DEF Asked, CallInv
  <2> QED
    BY <1>2, <1>3, <2>1, History DEF Asked, MayFollow
<1> QED
  BY <1>1, <1>2, <1>3 DEF Asked

LEMMA KeptInvariant ==
  ASSUME TypeOK, CallInv, KeptInv, ReleasedInv, [Next]_vars
  PROVE  KeptInv' /\ ReleasedInv'
<1>1. ASSUME NEW c \in Asked', UNCHANGED <<branch, endedAt, heldUntil>>,
             effects'[c] # {} => effects[c] # {}
      PROVE  /\ (hold[c].op = "hold" /\ effects[c] # {} =>
                   IF branch = "open"
                   THEN hold[c].until <= heldUntil \/ SetByAnother(c)
                   ELSE \/ hold[c].until <= endedAt
                        \/ \E d \in Asked \ {c} : MayFollow(d, c) /\ hold[d].until <= endedAt)'
             /\ (hold[c].op = "clear" /\ effects[c] # {} => heldUntil = 0 \/ SetByAnother(c))'
  BY <1>1, HistoryOfHolds DEF KeptInv, ReleasedInv, SetByAnother
<1>2. ASSUME NEW e \in Calls, NEW t \in Tokens, CarryHold(e, t)
      PROVE  KeptInv' /\ ReleasedInv'
  <2>1. /\ hold' = hold /\ endedAt' = endedAt /\ Asked' = Asked
        /\ e \in Asked
    BY <1>2 DEF CarryHold, SetHold, ClearHold, Asked
  <2>2. \A c \in Asked : MayFollow(e, c)'
    BY <1>2, <2>1, CarriedIsNotOver DEF CarryHold, MayFollow, Asked
  <2>3. \A c \in Asked \ {e} : SetByAnother(c)' \/ heldUntil' # hold[e].until
    BY <2>1, <2>2 DEF SetByAnother
  <2>4. CASE SetHold(e)
    <3>1. heldUntil' = hold[e].until /\ branch' = "open" /\ hold[e].op = "hold"
          /\ hold[e].until \in Nat
      BY <2>4 DEF SetHold, TypeOK, HoldTypeOK, HoldRequests
    <3> QED
      BY <2>1, <2>3, <3>1 DEF KeptInv, ReleasedInv
  <2>5. CASE ClearHold(e)
    <3>1. heldUntil' = 0 /\ branch' = branch /\ hold[e].op = "clear" /\ hold[e].until = 0
      BY <2>5 DEF ClearHold, CallInv
    <3>2. \A c \in Asked \ {e} : effects'[c] = effects[c]
      BY <1>2, CarriedIsNotOver DEF CarryHold, Asked
    <3>3. \A c \in Asked, d \in Asked : effects[c] # {} /\ MayFollow(d, c) => MayFollow(d, c)'
      BY <2>1, HistoryOfHolds
    <3>4. KeptInv'
      BY <2>1, <2>3, <3>1, <3>2, <3>3 DEF KeptInv
    <3> QED
      BY <2>1, <3>1, <3>4 DEF ReleasedInv
  <2> QED
    BY <1>2, <2>4, <2>5 DEF CarryHold
<1>3. ASSUME NEW how \in {"merged", "abandoned"}, EndBranch(how), UNCHANGED linkVars
      PROVE  KeptInv' /\ ReleasedInv'
  <2>1. /\ hold' = hold /\ effects' = effects /\ heldUntil' = heldUntil
        /\ branch = "open" /\ branch' # "open" /\ endedAt' = now /\ ~(heldUntil > now)
    BY <1>3 DEF EndBranch, Held, contractVars
  <2>2. now \in Nat /\ heldUntil \in Nat /\ \A d \in Calls : hold[d].until \in Nat
    BY IntentHoldAssumption DEF TypeOK, HoldTypeOK, HoldRequests
  <2>3. \A c \in Asked : SetByAnother(c)' = SetByAnother(c)
    BY <2>1 DEF SetByAnother, Asked, MayFollow
  <2>4. ReleasedInv'
    BY <2>1, <2>3 DEF ReleasedInv, Asked
  <2>5. ASSUME NEW c \in Asked, hold[c].op = "hold", effects[c] # {}
        PROVE  \/ hold[c].until <= now
               \/ \E d \in Asked \ {c} : MayFollow(d, c) /\ hold[d].until <= now
    <3>1. hold[c].until <= heldUntil \/ SetByAnother(c)
      BY <2>1, <2>5 DEF KeptInv
    <3> QED
      BY <2>1, <2>2, <3>1 DEF SetByAnother, Asked
  <2> QED
    BY <2>1, <2>4, <2>5 DEF KeptInv, Asked, MayFollow
<1>4. ASSUME NEW e \in Calls, NEW t \in Tokens, CarryLinks(e, t)
      PROVE  \A c \in Asked' : effects'[c] = effects[c]
  BY <1>4, CarriedIsNotOver DEF CarryLinks, Asked, holdVars, CallInv
<1>5. (\A c \in Asked' : effects'[c] # {} => effects[c] # {}) /\ UNCHANGED <<branch, endedAt, heldUntil>>
      => KeptInv' /\ ReleasedInv'
  BY <1>1 DEF KeptInv, ReleasedInv
<1> QED
  BY EveryStep, <1>2, <1>3, <1>4, <1>5
  DEF EveryKind, SendsHold, Builds, Answers, Tick, UpdateIssueSpecLinks, Open, CarryLinks,
      DeleteSpec, vars, contractVars, holdVars

LEMMA Holds == Spec => [](KeptInv /\ ReleasedInv)
<1>1. Init => KeptInv /\ ReleasedInv
  BY DEF Init, ContractInit, HoldInit, Request, Asked, KeptInv, ReleasedInv
<1> QED
  BY <1>1, KeptInvariant, Basics, PTL DEF Spec

(* A branch that hold_intent has said is held is not merged, and not given *)
(* up, before the time its caller asked for, unless another call released  *)
(* or shortened the hold.                                                  *)
THEOREM HoldsAreKept == Spec => []HoldIsKept
<1>1. TypeOK /\ CallInv /\ KeptInv => HoldIsKept
  <2> SUFFICES ASSUME TypeOK, CallInv, KeptInv, NEW c \in Asked, hold[c].asked > 0, Ok(c),
                      branch # "open"
               PROVE  \/ endedAt >= hold[c].asked
                      \/ \E d \in Asked \ {c} : MayFollow(d, c) /\ hold[d].until <= endedAt
    BY DEF HoldIsKept
  <2>1. hold[c].op = "hold" /\ hold[c].until = hold[c].asked /\ effects[c] # {}
    BY DEF Asked, CallInv, TypeOK, HoldTypeOK, HoldRequests
  <2>2. endedAt \in Nat /\ hold[c].asked \in Nat
    BY IntentHoldAssumption DEF Asked, TypeOK, HoldTypeOK, HoldRequests
  <2> QED
    BY <2>1, <2>2 DEF KeptInv
<1> QED
  BY <1>1, Basics, Holds, PTL

(* A hold that was released comes back only by another call that sets one. *)
THEOREM ReleasesAreKept == Spec => []ReleaseIsKept
<1>1. TypeOK /\ CallInv /\ ReleasedInv => ReleaseIsKept
  <2> SUFFICES ASSUME TypeOK, CallInv, ReleasedInv, NEW c \in Asked, hold[c].asked = 0, Ok(c), Held
               PROVE  \E d \in Asked \ {c} : MayFollow(d, c) /\ hold[d].until = heldUntil
    BY DEF ReleaseIsKept
  <2>1. hold[c].op = "clear" /\ effects[c] # {}
    BY DEF Asked, CallInv, TypeOK, HoldTypeOK, HoldRequests
  <2>2. heldUntil # 0
    BY IntentHoldAssumption DEF Held, TypeOK, HoldTypeOK
  <2> QED
    BY <2>1, <2>2 DEF ReleasedInv, SetByAnother
<1> QED
  BY <1>1, Basics, Holds, PTL

-----------------------------------------------------------------------------
(* Links are as told                                                       *)

Linking == {c \in Calls : change[c].op # "none"}

(* Another call that may have come after c changes the pair back.          *)
ChangedBack(p, c) ==
  \E d \in Linking :
    /\ change[d].op # change[c].op /\ p \in change[d].refs
    /\ effects[d] # {} /\ d \notin change[c].after

LinkInv ==
  \A c \in Linking : effects[c] # {} => \A p \in change[c].refs :
    (p \in links) = (change[c].op = "add") \/ ChangedBack(p, c)

LEMMA HistoryOfLinks ==
  ASSUME TypeOK, CallInv, [Next]_vars, NEW c \in Linking', effects[c] # {}
  PROVE  /\ c \in Linking /\ change'[c] = change[c]
         /\ \A p : ChangedBack(p, c) => ChangedBack(p, c)'
<1>1. c \in Calls /\ outcome[c] # "idle"
  BY DEF Linking, CallInv
<1>2. change'[c] = change[c]
  BY <1>1, History
<1>3. ASSUME NEW p, ChangedBack(p, c) PROVE ChangedBack(p, c)'
  <2>1. PICK d \in Linking :
          /\ change[d].op # change[c].op /\ p \in change[d].refs
          /\ effects[d] # {} /\ d \notin change[c].after
    BY <1>3 DEF ChangedBack
  <2>2. d \in Calls /\ outcome[d] # "idle"
    BY <2>1 DEF Linking, CallInv
  <2>3. change'[d] = change[d] /\ effects'[d] # {} /\ d \in Linking'
    BY <2>1, <2>2, History DEF Linking
  <2> QED
    BY <1>2, <2>1, <2>3 DEF ChangedBack
<1> QED
  BY <1>1, <1>2, <1>3 DEF Linking

LEMMA LinkInvariant ==
  ASSUME TypeOK, CallInv, LinkInv, [Next]_vars
  PROVE  LinkInv'
<1>1. ASSUME links' = links, \A c \in Linking' : effects'[c] # {} => effects[c] # {}
      PROVE  LinkInv'
  BY <1>1, HistoryOfLinks DEF LinkInv
<1>2. ASSUME NEW e \in Calls, NEW t \in Tokens, CarryLinks(e, t) PROVE LinkInv'
  <2> SUFFICES ASSUME NEW c \in Linking', effects'[c] # {}, NEW p \in change'[c].refs
               PROVE  (p \in links') = (change'[c].op = "add") \/ ChangedBack(p, c)'
    BY DEF LinkInv
  <2>1. /\ change' = change /\ Linking' = Linking
        /\ e \in Linking /\ c \in Calls
    BY <1>2 DEF CarryLinks, Linking
  <2>2. /\ effects'[e] # {} /\ e \notin change[c].after
        /\ c # e => effects'[c] = effects[c]
    BY <1>2, <2>1, CarriedIsNotOver DEF CarryLinks
  <2>3. change[e].op \in {"add", "remove"} /\ change[c].op \in {"add", "remove"}
    BY <2>1 DEF Linking, TypeOK, Changes
  <2>4. links' = IF change[e].op = "add" THEN links \cup change[e].refs
                 ELSE links \ change[e].refs
    BY <1>2, <2>1 DEF CarryLinks, UpdateLinks, CallInv, Linking
  <2>5. CASE p \notin change[e].refs
    <3>1. c # e /\ (p \in links' <=> p \in links)
      BY <2>1, <2>4, <2>5
    <3>2. (p \in links) = (change[c].op = "add") \/ ChangedBack(p, c)
      BY <2>1, <2>2, <3>1 DEF LinkInv
    <3>3. ChangedBack(p, c) => ChangedBack(p, c)'
      BY <2>2, <3>1, HistoryOfLinks
    <3> QED
      BY <2>1, <3>1, <3>2, <3>3
  <2>6. CASE p \in change[e].refs /\ change[e].op = change[c].op
    <3>1. p \in links' <=> change[c].op = "add"
      BY <2>3, <2>4, <2>6
    <3> QED
      BY <2>1, <3>1
  <2>7. CASE p \in change[e].refs /\ change[e].op # change[c].op
    BY <2>1, <2>2, <2>7 DEF ChangedBack
  <2> QED
    BY <2>5, <2>6, <2>7
<1>3. ASSUME NEW e \in Calls, NEW t \in Tokens, CarryHold(e, t), UNCHANGED linkVars
      PROVE  \A c \in Linking' : effects'[c] = effects[c]
  BY <1>3, CarriedIsNotOver DEF CarryHold, SetHold, ClearHold, Linking, linkVars, CallInv
<1> QED
  BY EveryStep, <1>1, <1>2, <1>3
  DEF EveryKind, SendsHold, Builds, Answers, EndBranch, Tick, UpdateIssueSpecLinks, Open,
      DeleteSpec, vars, contractVars, holdVars, linkVars

(* When a link tool has said ok, every pair its caller named is as asked   *)
(* until another call changes it back: no pair is left out, whatever was   *)
(* merged or deleted between the lookup and the update.                    *)
THEOREM LinksAreAsTold == Spec => []LinksAsTold
<1>1. Init => LinkInv
  BY DEF Init, ContractInit, LinkInv, Linking
<1>2. TypeOK /\ CallInv /\ LinkInv => LinksAsTold
  <2> SUFFICES ASSUME TypeOK, CallInv, LinkInv, NEW c \in Calls, change[c].op # "none", Ok(c),
                      NEW p \in change[c].refs
               PROVE  \/ (p \in links) = (change[c].op = "add")
                      \/ \E d \in Calls :
                           /\ change[d].op \notin {"none", change[c].op} /\ p \in change[d].refs
                           /\ effects[d] # {} /\ d \notin change[c].after
    BY DEF LinksAsTold
  <2>1. c \in Linking /\ effects[c] # {}
    BY DEF Linking, CallInv
  <2>2. (p \in links) = (change[c].op = "add") \/ ChangedBack(p, c)
    BY <2>1 DEF LinkInv
  <2> QED
    BY <2>2 DEF ChangedBack, Linking
<1> QED
  BY <1>1, <1>2, LinkInvariant, Basics, PTL DEF Spec

-----------------------------------------------------------------------------
(* Nothing is changed that no call asked for                               *)

(* Every pair that is linked was added, and every hold that stands was set,*)
(* by a call that asked for just that and was not told that it failed.     *)
NothingUnasked ==
  /\ \A p \in links : \E c \in Linking :
       /\ change[c].op = "add" /\ p \in change[c].refs
       /\ effects[c] # {} /\ outcome[c] # "refused"
  /\ heldUntil > 0 => \E c \in Asked :
       /\ hold[c].op = "hold" /\ hold[c].until = heldUntil
       /\ effects[c] # {} /\ outcome[c] # "refused"

(* The calls that are the reason for a link, and for the hold.             *)
Added(p) == {c \in Linking : change[c].op = "add" /\ p \in change[c].refs /\ effects[c] # {}}
Holding == {c \in Asked : hold[c].op = "hold" /\ hold[c].until = heldUntil /\ effects[c] # {}}

ReasonInv ==
  /\ \A p \in links : Added(p) # {}
  /\ heldUntil > 0 => Holding # {}

LEMMA ReasonInvariant ==
  ASSUME TypeOK, CallInv, ReasonInv, [Next]_vars
  PROVE  ReasonInv'
<1>1. ASSUME NEW p, Added(p) # {} PROVE Added(p)' # {}
  <2>1. PICK c \in Added(p) : c \in Calls /\ effects[c] # {} /\ outcome[c] # "idle"
    BY <1>1 DEF Added, Linking, CallInv
  <2>2. change'[c] = change[c] /\ effects'[c] # {}
    BY <2>1, History
  <2>3. c \in Added(p)'
    BY <2>1, <2>2 DEF Added, Linking
  <2> QED
    BY <2>3
<1>2. ASSUME Holding # {}, heldUntil' = heldUntil PROVE Holding' # {}
  <2>1. PICK c \in Holding : c \in Calls /\ effects[c] # {} /\ outcome[c] # "idle"
    BY <1>2 DEF Holding, Asked, CallInv
  <2>2. hold'[c] = hold[c] /\ effects'[c] # {}
    BY <2>1, History
  <2>3. c \in Holding'
    BY <1>2, <2>1, <2>2 DEF Holding, Asked
  <2> QED
    BY <2>3
<1>3. ASSUME NEW c \in Calls, NEW t \in Tokens, CarryHold(c, t), UNCHANGED linkVars
      PROVE  ReasonInv'
  <2>1. \A p \in links' : Added(p)' # {}
    BY <1>1, <1>3 DEF ReasonInv, linkVars
  <2>2. CASE SetHold(c)
    <3>1. c \in Holding'
      BY <1>3, <2>2, CarriedIsNotOver DEF CarryHold, SetHold, Holding, Asked
    <3> QED
      BY <2>1, <3>1 DEF ReasonInv
  <2>3. CASE ClearHold(c)
    BY <2>1, <2>3 DEF ReasonInv, ClearHold
  <2> QED
    BY <1>3, <2>2, <2>3 DEF CarryHold
<1>4. ASSUME NEW c \in Calls, NEW t \in Tokens, CarryLinks(c, t) PROVE ReasonInv'
  <2>1. heldUntil' > 0 => Holding' # {}
    BY <1>2, <1>4 DEF ReasonInv, CarryLinks, holdVars
  <2>2. ASSUME NEW p \in links', p \notin links PROVE Added(p)' # {}
    <3>1. p \in change[c].refs /\ change[c].op = "add"
      BY <1>4, <2>2 DEF CarryLinks, UpdateLinks, CallInv
    <3>2. c \in Added(p)'
      BY <1>4, <3>1, CarriedIsNotOver DEF CarryLinks, Added, Linking
    <3> QED
      BY <3>2
  <2> QED
    BY <1>1, <2>1, <2>2 DEF ReasonInv
<1>5. ASSUME links' = links, heldUntil' = heldUntil PROVE ReasonInv'
  BY <1>1, <1>2, <1>5 DEF ReasonInv
<1> QED
  BY EveryStep, <1>3, <1>4, <1>5
  DEF EveryKind, SendsHold, Builds, Answers, EndBranch, Tick, UpdateIssueSpecLinks, Open,
      DeleteSpec, vars, contractVars, holdVars, linkVars

(* A call that hold_intent or a link tool reports as refused is the reason *)
(* for no hold and no link, and neither is there without a call that asked *)
(* for it: what the refused and the unresolved calls named is left alone.  *)
THEOREM NothingComesUnasked == Spec => []NothingUnasked
<1>1. Init => ReasonInv
  BY DEF Init, HoldInit, ReasonInv
<1>2. CallInv /\ ReasonInv => NothingUnasked
  BY DEF CallInv, ReasonInv, Added, Holding, Linking, Asked, NothingUnasked
<1> QED
  BY <1>1, <1>2, ReasonInvariant, Basics, PTL DEF Spec

(* hold_intent, the link tools and the server stay within the contract     *)
(* that api.Client implements.                                             *)
THEOREM CallsKeepTheContract == Spec => ContractSpec
<1>1. Init => ContractInit
  BY DEF Init
<1>2. TypeOK /\ CallInv /\ [Next]_vars => [ContractNext]_contractVars
  <2> SUFFICES ASSUME TypeOK, CallInv, [Next]_vars PROVE [ContractNext]_contractVars
    OBVIOUS
  <2>1. ASSUME NEW c \in Calls, Open(c) PROVE ContractNext
    BY <2>1 DEF ContractNext
  <2>2. ASSUME NEW c \in Calls, NEW q \in HoldRequests, SendsHold(c, q) PROVE Open(c)
    BY <2>2 DEF SendsHold, Open
  <2>3. ASSUME NEW c \in Calls, NEW o \in Ends, Answers(c, o) PROVE ContractNext
    <3>1. End(c, o)
      BY <2>3 DEF Answers, End
    <3> QED
      BY <3>1 DEF ContractNext
  <2>4. ASSUME NEW c \in Calls, NEW t \in Tokens, Repeats(c, t) PROVE ContractNext
    BY <2>4 DEF Repeats, ContractNext
  <2> QED
    BY EveryStep, <2>1, <2>2, <2>3, <2>4
    DEF EveryKind, Builds, CarryHold, EndBranch, Tick, UpdateIssueSpecLinks, CarryLinks,
        DeleteSpec, vars
<1> QED
  BY <1>1, <1>2, Basics, PTL DEF Spec, ContractSpec
=============================================================================
