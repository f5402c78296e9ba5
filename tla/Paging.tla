------------------------------- MODULE Paging -------------------------------
(***************************************************************************)
(* Lists read page by page while others change them: the traversals of     *)
(* internal/api (release.go, requirement.go, test.go), which follow the    *)
(* tokens themselves, and the single pages, validated or not, whose tokens *)
(* an agent follows through list_specs, list_tests, list_test_runs and     *)
(* get_run_results.                                                        *)
(*                                                                         *)
(* A token is the number of a page (list_specs: "tokens are page offsets"),*)
(* so a row that goes away before the reader's place moves the rest up,    *)
(* and a new one moves it down.  The server is outside the repository; it  *)
(* may be of an age, or behind a gateway, that ignores a part of a query,  *)
(* and what of that the checks must catch is the quirk of a behaviour.     *)
(* Left out: filters, and every field of a row but whether it is valid.    *)
(***************************************************************************)
EXTENDS Integers, Sequences, FiniteSets, SequencesExt

CONSTANTS
  Servers,     (* the list when the traversal begins, and what may be      *)
               (* wrong with the server                                    *)
  Arguments,   (* what an agent may call the tools with                    *)
  Sizes,       (* the page sizes it may give, 0 for none                   *)
  DefaultSize, (* of each way of reading; of the loops, their only size    *)
  MaxSize,     (* the largest page, 200 in the code                        *)
  MaxPages,    (* pages a loop reads, 100 in the code                      *)
  FirstNew,    (* rows from here on are the inserted ones                  *)
  ServerSize,  (* the page of a gateway that ignores the size it is given  *)
  MaxChanges   (* bound: insertions and deletions during a traversal       *)

Loops == {"releases", "allSpecs", "allTests"}
Identities == {"specIdentities", "testIdentities"}
Projections == {"caseOverviews", "combos"}
Checked == Identities \cup Projections
Plain == {"specs", "tests", "runs", "results"}
Readings == Loops \cup Checked \cup Plain

Tools == {"list_specs", "list_tests", "list_releases", "list_test_runs", "get_run_results"}

None == 0   (* the empty token: before the first page, or after the last   *)

Quirks == {"none", "ignoresView", "ignoresSize", "ignoresToken", "endless",
           "sendsTwice", "foreignRow"}

ASSUME PagingAssumption ==
  /\ FirstNew \in Nat
  /\ Servers \subseteq [list : Seq(0..(FirstNew - 1)), quirk : Quirks]
  /\ \A s \in Servers : \A i, j \in 1..Len(s.list) : s.list[i] = s.list[j] => i = j
  /\ Arguments \subseteq [tool : Tools, view : STRING, all : BOOLEAN, paged : BOOLEAN]
  /\ DefaultSize \in [Readings -> 1..MaxSize]
  /\ {MaxSize, MaxPages, ServerSize} \subseteq Nat \ {0}
  /\ Sizes \subseteq Nat
  /\ MaxChanges \in Nat

VARIABLES
  list,        (* the rows at the server, in its order                     *)
  quirk,       (* what is wrong with this server                           *)
  reading,     (* how the list is read                                     *)
  size,        (* the page size asked for                                  *)
  token,       (* of the page to read next                                 *)
  pages,       (* pages a loop has read                                    *)
  got,         (* rows returned so far                                     *)
  end,         (* how the traversal ended, "reading" while it has not      *)
  throughout,  (* rows that have been in the list since the traversal began*)
  moved,       (* deletions before the reader's place, insertions before   *)
               (* it, and rows it returned again                           *)
  steady,      (* the page size has not been changed on the way            *)
  changes      (* insertions and deletions so far                          *)

agent == <<reading, size, token, pages, got, end, steady>>
vars == <<list, quirk, agent, throughout, moved, changes>>

Ends == {"reading", "complete", "incomplete", "error", "rejected", "stopped"}

TypeOK ==
  /\ list \in Seq(Nat)
  /\ quirk \in Quirks
  /\ reading \in Readings \cup {"none"}
  /\ size \in 0..MaxSize
  /\ token \in Nat
  /\ pages \in 0..MaxPages
  /\ got \in SUBSET Nat
  /\ end \in Ends
  /\ throughout \in SUBSET Nat
  /\ moved \in [up : 0..MaxChanges, down : 0..MaxChanges, again : 0..(MaxChanges + 1)]
  /\ steady \in BOOLEAN
  /\ changes \in 0..MaxChanges

RowsOf(l) == {l[i] : i \in 1..Len(l)}

Init ==
  /\ \E s \in Servers : list = s.list /\ quirk = s.quirk
  /\ reading = "none"
  /\ size = 0
  /\ token = None
  /\ pages = 0
  /\ got = {}
  /\ end = "reading"
  /\ throughout = RowsOf(list)
  /\ moved = [up |-> 0, down |-> 0, again |-> 0]
  /\ steady = TRUE
  /\ changes = 0

-----------------------------------------------------------------------------
(* The server                                                              *)

Lesser(m, n) == IF m < n THEN m ELSE n

ServedSize(asked) == IF quirk = "ignoresSize" THEN ServerSize ELSE asked

(* The page with number k, of pages of n rows.                             *)
PageOf(k, n) == SubSeq(list, k * n + 1, Lesser((k + 1) * n, Len(list)))

(* foreign: a row is incomplete or of another product.                     *)
Answer(r, asked) ==
  LET n == ServedSize(asked)
      k == IF quirk = "ignoresToken" THEN 0 ELSE token
      rows == PageOf(k, n)
      twice == quirk = "sendsTwice" /\ rows # <<>>
  IN [view |-> IF quirk = "ignoresView" THEN "full" ELSE r,
      rows |-> IF twice THEN <<rows[1]>> \o SubSeq(rows, 1, Lesser(Len(rows), n - 1))
                        ELSE rows,
      foreign |-> quirk = "foreignRow",
      total |-> Len(list),
      next |-> IF (k + 1) * n < Len(list) \/ quirk = "endless" THEN k + 1 ELSE None]

(* Where the reader stands: the rows before it will not be read again.     *)
Place == token * ServedSize(size)

Change == changes < MaxChanges /\ changes' = changes + 1

Insert(i) ==
  /\ Change
  /\ list' = InsertAt(list, i, FirstNew + changes)
  /\ moved' = [moved EXCEPT !.down = IF i <= Place THEN @ + 1 ELSE @]
  /\ UNCHANGED <<quirk, agent, throughout>>

Delete(i) ==
  /\ Change
  /\ list' = RemoveAt(list, i)
  /\ throughout' = throughout \ {list[i]}
  /\ moved' = [moved EXCEPT !.up = IF i <= Place THEN @ + 1 ELSE @]
  /\ UNCHANGED <<quirk, agent>>

Others ==
  /\ reading # "none" /\ end = "reading"
  /\ \/ \E i \in 1..(Len(list) + 1) : Insert(i)
     \/ \E i \in 1..Len(list) : Delete(i)

-----------------------------------------------------------------------------
(* The calls                                                               *)

(* How list_specs and list_tests read, from what they are called with.     *)
SpecsOrTests(a, kind) ==
  IF \/ a.all /\ a.paged
     \/ a.view \notin {"", "detail", "identity"}
     \/ a.view = "identity" /\ a.all
  THEN "rejected"
  ELSE IF a.view = "identity" THEN kind.identities
  ELSE IF a.all THEN kind.all ELSE kind.detail

ListSpecs(a) ==
  SpecsOrTests(a, [identities |-> "specIdentities", all |-> "allSpecs", detail |-> "specs"])

ListTests(a) ==
  SpecsOrTests(a, [identities |-> "testIdentities", all |-> "allTests", detail |-> "tests"])

(* get_run_results: the overview and the full tree are no pages.           *)
RunResults(a) ==
  CASE a.view = "cases" -> "caseOverviews"
    [] a.view = "combos" -> "combos"
    [] a.view = "" -> "results"
    [] OTHER -> "rejected"

ReadingFor(a) ==
  CASE a.tool = "list_specs" -> ListSpecs(a)
    [] a.tool = "list_tests" -> ListTests(a)
    [] a.tool = "list_releases" -> "releases"
    [] a.tool = "list_test_runs" -> "runs"
    [] a.tool = "get_run_results" -> RunResults(a)

(* A wrong SizeFor, that passes any size on.                               *)
SizeForUnlimited(r, n) == IF r \in Loops \/ n = 0 THEN DefaultSize[r] ELSE n

(* The size of the page that is requested; None when the call is refused.  *)
(* Runs and results are cut to the largest page instead.                   *)
SizeFor(r, n) ==
  IF r \in Loops \/ n = 0 THEN DefaultSize[r]
  ELSE IF n <= MaxSize THEN n
  ELSE IF r \in {"runs", "results"} THEN MaxSize ELSE None

Begin(a, n) ==
  /\ reading = "none" /\ end = "reading"
  /\ a.paged <=> n # 0
  /\ LET r == ReadingFor(a) IN
     IF r = "rejected" \/ SizeFor(r, n) = None
     THEN /\ end' = "rejected"
          /\ UNCHANGED <<reading, size>>
     ELSE /\ reading' = r
          /\ size' = SizeFor(r, n)
          /\ UNCHANGED end
  /\ UNCHANGED <<list, quirk, token, pages, got, steady, throughout, moved, changes>>

Asking(r) == reading \in r /\ end = "reading"

Took(rows) ==
  LET again == Len(rows) - Cardinality(RowsOf(rows) \ got) IN
  /\ got' = got \cup RowsOf(rows)
  /\ moved' = [moved EXCEPT !.again = Lesser(@ + again, MaxChanges + 1)]

Finish(how) == end' = how /\ UNCHANGED token

GoOn(next) == token' = next /\ UNCHANGED end

(* Any request may fail for good; a loop drops what it has read.           *)
RequestFails ==
  /\ Asking(Readings)
  /\ end' = "error"
  /\ got' = IF reading \in Loops THEN {} ELSE got
  /\ UNCHANGED <<list, quirk, reading, size, token, pages, steady, throughout,
                 moved, changes>>

(* A wrong loop, that clears the token when it gives up.                   *)
LoopHidingTheRest(stop, a) ==
  /\ Took(a.rows)
  /\ pages' = pages + 1
  /\ IF stop \/ pages' = MaxPages THEN Finish("complete") ELSE GoOn(a.next)
  /\ UNCHANGED <<list, quirk, reading, size, steady, throughout, changes>>

(* The body of a loop: all of the page is appended, then the loop ends     *)
(* with no token, goes on, or gives up with the token left in its answer.  *)
Loop(stop, a) ==
  /\ Took(a.rows)
  /\ pages' = pages + 1
  /\ CASE stop                       -> Finish("complete")
       [] ~stop /\ pages' = MaxPages -> /\ end' = "incomplete"
                                        /\ token' = a.next
       [] OTHER                      -> GoOn(a.next)
  /\ UNCHANGED <<list, quirk, reading, size, steady, throughout, changes>>

ReleasesPage ==
  /\ Asking({"releases"})
  /\ LET a == Answer(reading, size) IN Loop(a.next = None \/ a.rows = <<>>, a)

AllPage ==
  /\ Asking({"allSpecs", "allTests"})
  /\ LET a == Answer(reading, size) IN Loop(a.next = None, a)

(* Single pages: the token goes back to the agent, which calls again, and  *)
(* stops at an empty page.  It is told to keep the page size, and may not. *)
Resize(n) ==
  LET new == SizeFor(reading, n) IN
  /\ new # None
  /\ size' = new
  /\ steady' = (steady /\ new = size)

Page(a) ==
  /\ Took(a.rows)
  /\ IF a.next = None THEN Finish("complete") /\ UNCHANGED <<size, steady>>
     ELSE IF a.rows = <<>> THEN Finish("stopped") /\ UNCHANGED <<size, steady>>
     ELSE GoOn(a.next) /\ \E n \in Sizes : Resize(n)
  /\ UNCHANGED <<list, quirk, reading, pages, throughout, changes>>

Refuse ==
  /\ end' = "error"
  /\ UNCHANGED <<list, quirk, reading, size, token, pages, got, steady, throughout,
                 moved, changes>>

PlainPage ==
  /\ Asking(Plain)
  /\ Page(Answer(reading, size))

NoRowTwice(rows) == Cardinality(RowsOf(rows)) = Len(rows)

(* A wrong Progresses, that only asks for a row.                           *)
ProgressesWithAnyRow(a) == a.next = None \/ a.rows # <<>>

(* A page that leads on has a row, and another token than it was read with.*)
Progresses(a) == a.next = None \/ (a.rows # <<>> /\ a.next # token)

(* A wrong SpecIdentities, without its check of duplicates.                *)
SpecIdentitiesTwice(a) ==
  a.view = reading /\ Len(a.rows) <= size /\ Progresses(a) /\ ~a.foreign

SpecIdentities(a) ==
  /\ a.view = reading /\ Len(a.rows) <= size /\ Progresses(a)
  /\ NoRowTwice(a.rows) /\ ~a.foreign

TestIdentities(a) ==
  /\ a.view = reading /\ a.total >= 0 /\ Len(a.rows) <= size /\ Progresses(a)
  /\ NoRowTwice(a.rows) /\ ~a.foreign

RunSummary(a) ==
  /\ a.view = reading /\ NoRowTwice(a.rows) /\ ~a.foreign
  /\ a.total >= Len(a.rows) /\ Len(a.rows) <= size /\ Progresses(a)

CheckedPage ==
  /\ Asking(Checked)
  /\ LET a == Answer(reading, size)
         accepted == CASE reading = "specIdentities" -> SpecIdentities(a)
                       [] reading = "testIdentities" -> TestIdentities(a)
                       [] reading \in Projections    -> RunSummary(a)
     IN IF accepted THEN Page(a) ELSE Refuse

(* An agent that was told a traversal is incomplete may go on from its     *)
(* token with single pages; list_releases takes no token.                  *)
Continue ==
  /\ end = "incomplete" /\ reading \in {"allSpecs", "allTests"}
  /\ end' = "reading"
  /\ reading' = IF reading = "allSpecs" THEN "specs" ELSE "tests"
  /\ \E n \in Sizes : Resize(n)
  /\ UNCHANGED <<list, quirk, token, pages, got, throughout, moved, changes>>

Read ==
  \/ \E a \in Arguments, n \in Sizes : Begin(a, n)
  \/ ReleasesPage \/ AllPage \/ PlainPage \/ CheckedPage

Next == Read \/ RequestFails \/ Continue \/ Others

Spec == Init /\ [][Next]_vars /\ WF_vars(Read)

-----------------------------------------------------------------------------
(* Properties                                                              *)

(* The server heeds the tokens, and sends no row of a page twice, unless   *)
(* the reader checks that.                                                 *)
Trusted ==
  /\ quirk # "ignoresToken"
  /\ quirk = "sendsTwice" => reading \in Checked

(* A traversal that ends with no token left, at one page size, has         *)
(* returned every row that was there all the time, but at most one for     *)
(* each row that was deleted among those it had already passed.  In        *)
(* particular it is complete when nothing is deleted.                      *)
MissesExplained ==
  end = "complete" /\ Trusted /\ steady
    => Cardinality(throughout \ got) <= moved.up

(* A traversal at one page size returns a row again only for a row that    *)
(* was inserted among those it had already passed.                         *)
RepeatsExplained == Trusted /\ steady => moved.again <= moved.down

(* A loop, and an agent that follows the tokens of checked pages, come to  *)
(* an end, whatever is wrong with the server.                              *)
TraversalEnds == (reading \in Loops \cup Checked) ~> (end # "reading")
=============================================================================
