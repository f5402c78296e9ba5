----------------------------- MODULE IssueLinks -----------------------------
(***************************************************************************)
(* link_issue_specs and unlink_issue_specs                                 *)
(* (internal/mcpserver/issue_link_tools.go, internal/api/issue_links.go),  *)
(* beside the branch of IntentHold.  A call looks its spec refs up on main *)
(* or on the branch with one request, and changes all its pairs with       *)
(* another; in between the branch may be merged, so that its rows are gone,*)
(* a spec may be deleted, and other calls may change the same pairs.       *)
(*                                                                         *)
(* The server knows the spec a branch's row stands for, and refuses a call *)
(* with a row that is not there any more.  Left out: titles, and the list  *)
(* of a spec's issues.                                                     *)
(***************************************************************************)
EXTENDS IntentHold

CONSTANTS
  Issues,
  Specs,
  OnBranch,    (* specs the branch has a row of its own of                 *)
  MaxPairs     (* pairs in a call, 200 in the code                         *)

ASSUME IssueLinksAssumption ==
  /\ OnBranch \subseteq Specs
  /\ MaxPairs \in Nat

VARIABLES
  change,    (* what each call asks for, once its refs are looked up       *)
  live,      (* specs that are there                                       *)
  links      (* pairs the server holds                                     *)

linkVars == <<change, live, links>>
vars == <<contractVars, holdVars, linkVars>>

Pairs == Issues \X Specs

(* The id of a spec's row on main, and on the branch.                      *)
Ids == {"main", "branch"} \X Specs

(* refs is what the caller names, pairs what the tool sends; no call goes  *)
(* out without a pair.                                                     *)
Changes ==
  [op : {"none"}, refs : {{}}, pairs : {{}}, after : {{}}]
  \cup [op : {"add", "remove"}, refs : (SUBSET Pairs) \ {{}},
        pairs : (SUBSET (Issues \X Ids)) \ {{}}, after : SUBSET Calls]

TypeOK ==
  /\ ContractTypeOK
  /\ HoldTypeOK
  /\ change \in [Calls -> Changes]
  /\ live \in SUBSET Specs
  /\ links \in SUBSET Pairs

Init ==
  /\ ContractInit
  /\ HoldInit
  /\ change = [c \in Calls |-> [op |-> "none", refs |-> {}, pairs |-> {}, after |-> {}]]
  /\ live = Specs
  /\ links = {}

-----------------------------------------------------------------------------
(* The server                                                              *)

RowIsThere(id) ==
  id[2] \in live /\ (id[1] = "branch" => branch # "merged" /\ id[2] \in OnBranch)

(* The pairs of specs that pairs of ids stand for.                         *)
Canonical(pairs) == {<<p[1], p[2][2]>> : p \in pairs}

UpdateLinks(c) ==
  /\ \A p \in change[c].pairs : RowIsThere(p[2])
  /\ links' = IF change[c].op = "add" THEN links \cup Canonical(change[c].pairs)
              ELSE links \ Canonical(change[c].pairs)

CarryLinks(c, t) ==
  /\ change[c].op # "none"
  /\ Repeats(c, t)
  /\ UpdateLinks(c)
  /\ UNCHANGED <<change, live, holdVars>>

DeleteSpec(s) ==
  /\ s \in live
  /\ live' = live \ {s}
  /\ UNCHANGED <<change, links, contractVars, holdVars>>

-----------------------------------------------------------------------------
(* The tools                                                               *)

(* The id a ref is resolved to, if it is; an id is not looked up.          *)
ResolveSpecRef(s, form) ==
  LET id == <<IF form = "branch" /\ s \in OnBranch THEN "branch" ELSE "main", s>> IN
  IF form = "id" \/ (RowIsThere(id) /\ (form = "branch" => branch # "merged"))
  THEN {id} ELSE {}

(* A wrong BuildIssueSpecPairs, that goes on without what is not resolved. *)
BuildPairsOfResolved(c, op, refs, form) ==
  /\ outcome[c] = "idle" /\ Cardinality(refs) \in 1..MaxPairs
  /\ change' = [change EXCEPT ![c] =
       [op |-> op, refs |-> refs, after |-> {},
        pairs |-> UNION {{p[1]} \X ResolveSpecRef(p[2], form) : p \in refs}]]
  /\ UNCHANGED <<live, links, contractVars, holdVars>>

(* Another, that only looks for the limit.                                 *)
BuildPairsOfNone(c, op, refs, form) ==
  /\ outcome[c] = "idle" /\ Cardinality(refs) <= MaxPairs
  /\ \A p \in refs : ResolveSpecRef(p[2], form) # {}
  /\ change' = [change EXCEPT ![c] =
       [op |-> op, refs |-> refs, after |-> {},
        pairs |-> UNION {{p[1]} \X ResolveSpecRef(p[2], form) : p \in refs}]]
  /\ UNCHANGED <<live, links, contractVars, holdVars>>

(* All refs of a call are read in one go, before anything is written; one  *)
(* that is not resolved ends the call.                                     *)
BuildIssueSpecPairs(c, op, refs, form) ==
  /\ outcome[c] = "idle" /\ Cardinality(refs) \in 1..MaxPairs
  /\ \A p \in refs : ResolveSpecRef(p[2], form) # {}
  /\ change' = [change EXCEPT ![c] =
       [op |-> op, refs |-> refs, after |-> {},
        pairs |-> UNION {{p[1]} \X ResolveSpecRef(p[2], form) : p \in refs}]]
  /\ UNCHANGED <<live, links, contractVars, holdVars>>

(* The second request goes out.                                            *)
UpdateIssueSpecLinks(c) ==
  /\ change[c].op # "none"
  /\ Open(c)
  /\ change' = [change EXCEPT ![c].after = Over]
  /\ UNCHANGED <<live, links, holdVars>>

(* The calls not yet used for anything.                                    *)
Free == {c \in Calls : change[c].op = "none" /\ hold[c].op = "none"}

LinkNext ==
  \/ \E c \in Free, op \in {"add", "remove"}, refs \in SUBSET Pairs,
        form \in {"main", "branch", "id"} : BuildIssueSpecPairs(c, op, refs, form)
  \/ \E c \in Calls : UpdateIssueSpecLinks(c)
  \/ \E c \in Calls, t \in Tokens : CarryLinks(c, t)
  \/ \E s \in Specs : DeleteSpec(s)

(* A call is one of hold_intent or one of the link tools.                  *)
Next ==
  \/ HoldNext /\ UNCHANGED linkVars /\ \A c \in Calls : hold'[c] # hold[c] => c \in Free
  \/ LinkNext

Spec == Init /\ [][Next]_vars

-----------------------------------------------------------------------------
(* Properties                                                              *)

(* When a link tool has said ok, every pair the caller named is linked, or *)
(* is not, and stays so until another call, a later one or one that came   *)
(* late, changes that pair back; no pair was left out because the branch   *)
(* was merged or a spec deleted between the two requests.                  *)
LinksAsTold ==
  \A c \in Calls : change[c].op # "none" /\ Ok(c) => \A p \in change[c].refs :
    \/ (p \in links) = (change[c].op = "add")
    \/ \E d \in Calls :
         /\ change[d].op \notin {"none", change[c].op} /\ p \in change[d].refs
         /\ effects[d] # {} /\ d \notin change[c].after
=============================================================================
