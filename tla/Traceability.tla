---------------------------- MODULE Traceability ----------------------------
(***************************************************************************)
(* get_traceability (internal/mcpserver/traceability_view.go,              *)
(* gate_tools.go, internal/api/gate.go): the rows of a product's specs, of *)
(* a release, of a branch or of main, cut down to one spec with its        *)
(* descendants or to one component, with or without the tests of each.     *)
(*                                                                         *)
(* A server that does not know the view or the filter asked for ignores it *)
(* and answers with the whole matrix, so the tool filters every answer     *)
(* again, whether it was filtered or not.  On a branch a spec the branch   *)
(* has touched is a copy with an id of its own; the parent of a row names  *)
(* the spec on main all the same.  A summary row says which spec it copies *)
(* (canonicalId), a matrix row does not.                                   *)
(*                                                                         *)
(* One call is followed from its arguments to its answer.  Left out: what  *)
(* a row says beyond ids and coverage, and the order of rows.              *)
(***************************************************************************)
EXTENDS Integers, FiniteSets, FiniteSetsExt

CONSTANTS
  Specs,
  Components,
  MaxDepth,     (* ancestors looked at, 1000 in the code                   *)
  MaxListed,    (* unverified specs listed of a component, 50 in the code  *)
  None

(* A spec's id on main, and that of the branch's copy.                     *)
Ids == {"main", "copy"} \X Specs
SpecOf(id) == id[2]

ASSUME TraceabilityAssumption ==
  /\ IsFiniteSet(Specs) /\ IsFiniteSet(Components)
  /\ MaxDepth \in Nat \ {0} /\ MaxListed \in Nat
  /\ None \notin Specs /\ None \notin Components /\ None \notin Ids

VARIABLES
  parent,    (* the tree of specs: Specs -> Specs or None                  *)
  component, (* Specs -> Components                                        *)
  copied,    (* specs the branch has a copy of                             *)
  verified,  (* specs whose coverage is "verified"                         *)
  server,    (* what the server knows of the query                         *)
  ask,       (* the arguments of the call, or None                         *)
  answer,    (* the server's, or None                                      *)
  out        (* the tool's, or None                                        *)

product == <<parent, component, copied, verified, server>>
vars == <<product, ask, answer, out>>

-----------------------------------------------------------------------------
(* The product                                                             *)

(* A spec and its ancestors: what every set with the spec that is closed   *)
(* under parents has.                                                      *)
Lineage(s) ==
  LET Closed(S) == \A x \in S : parent[x] # None => parent[x] \in S
  IN {p \in Specs : \A S \in SUBSET Specs : s \in S /\ Closed(S) => p \in S}

Subtree(s) == {d \in Specs : s \in Lineage(d)}

Scopes == {"release", "branch", "main"}

IdOn(scope, s) == <<IF scope = "branch" /\ s \in copied THEN "copy" ELSE "main", s>>
IdsOn(scope, specs) == {IdOn(scope, s) : s \in specs}

-----------------------------------------------------------------------------
(* The arguments                                                           *)

Asks == [release : BOOLEAN, branch : BOOLEAN, feature : Ids \cup {None},
         form : {"uuid", "otherCase", "display"}, component : Components \cup {None},
         tests : BOOLEAN]

(* A wrong scopeFor, for which a branch comes first.                       *)
ScopeOfBranchFirst(a) ==
  IF a.branch THEN "branch" ELSE IF a.release THEN "release" ELSE "main"

ScopeFor(a) == IF a.release THEN "release" ELSE IF a.branch THEN "branch" ELSE "main"

Scoped(a) == a.feature # None \/ a.component # None

(* A display reference is not an id.                                       *)
ValidSubject(a) == Scoped(a) => a.form # "display"

Refused(a) ==
  \/ ~ValidSubject(a)
  \/ a.feature # None /\ a.component # None
  \/ a.tests /\ ~Scoped(a)

-----------------------------------------------------------------------------
(* The server                                                              *)

Servers == [view : BOOLEAN, filter : BOOLEAN, empty : BOOLEAN]

Wanted(a) ==
  IF a.feature # None THEN Subtree(SpecOf(a.feature))
  ELSE {s \in Specs : a.component # None => component[s] = a.component}

Sent(a) == IF server.filter THEN Wanted(a) ELSE Specs

(* The rows, and the components they are in; a server may send a component *)
(* without rows, too.                                                      *)
Answered(a) ==
  [view |-> IF server.view /\ ~a.tests THEN "summary" ELSE "matrix",
   rows |-> IdsOn(ScopeFor(a), Sent(a)),
   components |-> IF server.empty /\ ~(server.filter /\ a.component # None)
                  THEN Components ELSE {component[s] : s \in Sent(a)}]

-----------------------------------------------------------------------------
(* The filters                                                             *)

(* A wrong Names, that does not look at what a row is a copy of.           *)
NamesOfItsOwn(row, view) == {row}

(* The ids a row is found by: its own, and the one it is a copy of, if the *)
(* view says so.                                                           *)
Names(row, view) == {row} \cup IF view = "summary" THEN {<<"main", SpecOf(row)>>} ELSE {}

ParentId(row) ==
  IF parent[SpecOf(row)] = None THEN None ELSE <<"main", parent[SpecOf(row)]>>

ParentRow(row, rows, view) == {p \in rows : ParentId(row) \in Names(p, view)}

(* A wrong InSubtree, that goes up from the parents of a row only.         *)
InSubtreeByParent(row, subject, rows, view) ==
  ParentId(row) = subject \/ \E p \in ParentRow(row, rows, view) : ParentId(p) = subject

(* Up from a row, n parents, no more than the limit allows.                *)
Climbs(row, n, rows, view) ==
  {path \in [0..n -> rows] :
     /\ path[0] = row
     /\ \A i \in 1..n : path[i] \in ParentRow(path[i - 1], rows, view)}

(* A climb ends at the subject, or at a row whose parent is the subject and*)
(* not in the answer.                                                      *)
InSubtree(row, subject, rows, view) ==
  \E n \in 0..(MaxDepth - 1) : \E path \in Climbs(row, n, rows, view) :
    \/ subject \in Names(path[n], view)
    \/ ParentRow(path[n], rows, view) = {} /\ ParentId(path[n]) = subject

(* A wrong FilterToFeature, that trusts a server that knows the view.      *)
FilterToFeatureOfMatrix(r, a) ==
  LET kept == IF a.form = "otherCase" THEN {}
              ELSE {row \in r.rows : r.view = "summary" \/ InSubtree(row, a.feature, r.rows, r.view)}
  IN [rows |-> kept, components |-> {component[SpecOf(row)] : row \in kept}]

(* An id written in another case is no row's id.                           *)
FilterToFeature(r, a) ==
  LET kept == IF a.form = "otherCase" THEN {}
              ELSE {row \in r.rows : InSubtree(row, a.feature, r.rows, r.view)}
  IN [rows |-> kept, components |-> {component[SpecOf(row)] : row \in kept}]

FilterToComponent(r, a) ==
  LET kept == IF a.form = "otherCase" THEN {} ELSE r.components \cap {a.component}
  IN [rows |-> {row \in r.rows : component[SpecOf(row)] \in kept}, components |-> kept]

Filtered(r, a) ==
  IF a.feature # None THEN FilterToFeature(r, a)
  ELSE IF a.component # None THEN FilterToComponent(r, a)
  ELSE [rows |-> r.rows, components |-> r.components]

Gaps(r, c) == {row \in r.rows : component[SpecOf(row)] = c /\ SpecOf(row) \notin verified}
InComponent(r, c) == {row \in r.rows : component[SpecOf(row)] = c}

Listed(gaps) ==
  IF Cardinality(gaps) > MaxListed THEN CHOOSE l \in kSubset(MaxListed, gaps) : TRUE ELSE gaps

(* A wrong Rollup, that takes the cap for the length of the list.          *)
RollupOfFullLists(r) ==
  [c \in r.components |->
     [specs |-> Cardinality(InComponent(r, c)), listed |-> Listed(Gaps(r, c)),
      more |-> Cardinality(Gaps(r, c)) - MaxListed]]

(* A wrong Rollup, that does not count what it does not list.              *)
RollupOfListed(r) ==
  [c \in r.components |->
     [specs |-> Cardinality(InComponent(r, c)), listed |-> Listed(Gaps(r, c)), more |-> 0]]

Rollup(r) ==
  [c \in r.components |->
     [specs |-> Cardinality(InComponent(r, c)), listed |-> Listed(Gaps(r, c)),
      more |-> Cardinality(Gaps(r, c)) - Cardinality(Listed(Gaps(r, c)))]]

-----------------------------------------------------------------------------
(* The call                                                                *)

Plain(kind) == [kind |-> kind, rows |-> {}, rollup |-> <<>>, note |-> FALSE]

Init ==
  /\ parent \in [Specs -> Specs \cup {None}]
  /\ \A s \in Specs : parent[s] # None => s \notin Lineage(parent[s])
  /\ component \in [Specs -> Components]
  /\ copied \in SUBSET Specs
  /\ verified \in SUBSET Specs
  /\ server \in Servers
  /\ ask = None /\ answer = None /\ out = None

(* Only the ids of the scope asked for are at hand.                        *)
Ask ==
  /\ ask = None
  /\ \E a \in Asks :
       /\ a.feature \in IdsOn(ScopeFor(a), Specs) \cup ({"main"} \X Specs) \cup {None}
       /\ Scoped(a) \/ a.form = "uuid"
       /\ ask' = a
       /\ out' = IF Refused(a) THEN Plain("error") ELSE None
  /\ UNCHANGED <<product, answer>>

Answer ==
  /\ ask # None /\ answer = None /\ out = None
  /\ answer' = Answered(ask)
  /\ UNCHANGED <<product, ask, out>>

(* The request fails; of a release whose build has no settled results yet  *)
(* the refusal is told as a state.                                         *)
Fail ==
  /\ ask # None /\ answer = None /\ out = None
  /\ \E pending \in BOOLEAN :
       out' = Plain(IF pending /\ ask.release THEN "pending" ELSE "error")
  /\ UNCHANGED <<product, ask, answer>>

(* The tool says that it has filtered when it has dropped something.       *)
Tell ==
  /\ answer # None /\ out = None
  /\ LET f == Filtered(answer, ask)
         kind == IF ask.tests THEN "detail" ELSE IF Scoped(ask) THEN "summary" ELSE "rollup"
     IN out' = [kind |-> kind, rows |-> f.rows,
                rollup |-> IF kind = "rollup" THEN Rollup(f) ELSE <<>>,
                note |-> f.rows # answer.rows \/ f.components # answer.components]
  /\ UNCHANGED <<product, ask, answer>>

Next == Ask \/ Answer \/ Fail \/ Tell

Spec == Init /\ [][Next]_vars

-----------------------------------------------------------------------------
(* Properties                                                              *)

TypeOK ==
  /\ ask \in Asks \cup {None}
  /\ answer # None => answer.rows \in SUBSET Ids /\ answer.components \in SUBSET Components
  /\ out # None =>
       /\ out.kind \in {"error", "pending", "rollup", "summary", "detail"}
       /\ out.rows \in SUBSET Ids
       /\ \A c \in DOMAIN out.rollup : out.rollup[c].more \in Nat
       /\ out.note \in BOOLEAN

Told(kinds) == out # None /\ out.kind \in kinds

AskedScope == IF ask.release THEN "release" ELSE IF ask.branch THEN "branch" ELSE "main"
Due == IdsOn(AskedScope, Wanted(ask))

(* Whatever the server ignores, an answer about one spec or one component  *)
(* holds no row outside it, and only rows of the release or branch asked.  *)
NothingOutside == Told({"summary", "detail"}) => out.rows \subseteq Due

(* The copies on the way from a row up to the subject, which a matrix does *)
(* not tell from specs of the branch's own.                                *)
CopiesOnTheWay(row) ==
  {s \in Lineage(SpecOf(row)) \cap Subtree(SpecOf(ask.feature)) : s \in copied}

(* A row of the subtree that is not in the answer is missing because it    *)
(* lies too deep, because the id asked for is written in another case, or  *)
(* because the server sent a matrix and a spec on the way up to the subject*)
(* is a branch's copy.                                                     *)
MissingRowsExplained ==
  Told({"summary", "detail"}) /\ ask.feature # None =>
    \A row \in Due \ out.rows :
      \/ ask.form = "otherCase"
      \/ Cardinality(Lineage(SpecOf(row)) \cap Subtree(SpecOf(ask.feature))) > MaxDepth
      \/ answer.view = "matrix" /\ AskedScope = "branch" /\ CopiesOnTheWay(row) # {}

(* What a server that knows the query has filtered is passed on as it is,  *)
(* and not said to be filtered by the tool, unless it is in one of the     *)
(* cases above or holds a component without rows.                          *)
FilteredOnce ==
  Told({"summary"}) /\ server.view /\ server.filter /\ ~server.empty /\ ask.form = "uuid" =>
    \/ out.rows = Due /\ ~out.note
    \/ ask.feature # None /\ \E s \in Wanted(ask) :
         Cardinality(Lineage(s) \cap Wanted(ask)) > MaxDepth

(* The rollup accounts for every spec of the product once: it is counted in*)
(* its component, and every gap is listed there or counted as one more.    *)
RollupAddsUp ==
  Told({"rollup"}) =>
    \A c \in Components :
      LET specs == {s \in Specs : component[s] = c}
          gaps == specs \ verified
      IN IF c \notin DOMAIN out.rollup THEN specs = {}
         ELSE /\ out.rollup[c].specs = Cardinality(specs)
              /\ out.rollup[c].listed \subseteq IdsOn(AskedScope, gaps)
              /\ Cardinality(out.rollup[c].listed) + out.rollup[c].more = Cardinality(gaps)
              /\ out.rollup[c].more > 0 => Cardinality(out.rollup[c].listed) = MaxListed

(* What the tool's description says of include_tests: the detail view, with*)
(* the tests of every spec in scope.                                       *)
DetailIsTheScope ==
  Told({"detail"}) /\ ask.form = "uuid" =>
    \/ out.rows = Due
    \/ ask.feature # None /\ \E s \in Wanted(ask) :
         Cardinality(Lineage(s) \cap Wanted(ask)) > MaxDepth
=============================================================================
