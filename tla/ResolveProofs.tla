--------------------------- MODULE ResolveProofs ---------------------------
(***************************************************************************)
(* Proofs about the resolution ladder, for every store, binding, override, *)
(* repository and membership of any size, whatever request fails.          *)
(***************************************************************************)
EXTENDS Resolve, FiniteSetTheorems, TLAPS

-----------------------------------------------------------------------------
(* The queries on a store                                                  *)

(* A query that answers with the first workspace answers with one of them: *)
(* of the intervals up to a workspace, one has no other within it.         *)
LEMMA FirstOfIsLeast ==
  ASSUME NEW W \in SUBSET Nat, W # {}
  PROVE  FirstOf(W) \in W /\ \A v \in W : FirstOf(W) <= v
<1> DEFINE T == {0..m : m \in W}
           R == StrictSubsetOrdering(Nat)
<1>1. IsWellFoundedOn(R, FiniteSubsetsOf(Nat))
  BY FS_StrictSubsetOrderingWellFounded
<1>2. T \subseteq FiniteSubsetsOf(Nat) /\ T # {}
  <2>1. \A m \in W : 0..m \in SUBSET Nat /\ IsFiniteSet(0..m)
    BY FS_Interval
  <2> QED
    BY <2>1 DEF FiniteSubsetsOf
<1> HIDE DEF R
<1>3. \E x \in T : \A y \in T : ~(<<y, x>> \in R)
  <2> HIDE DEF T
  <2> QED
    BY <1>1, <1>2, WFMin
<1>4. PICK x \in W : \A y \in W : ~(<<0..y, 0..x>> \in R)
  BY <1>3
<1>5. ASSUME NEW y \in W, y < x
      PROVE  <<0..y, 0..x>> \in R
  <2>1. 0..y \in SUBSET Nat /\ 0..x \in SUBSET Nat /\ 0..y \subseteq 0..x
    BY <1>5
  <2>2. x \in 0..x /\ x \notin 0..y
    BY <1>5
  <2> QED
    BY <2>1, <2>2 DEF R, StrictSubsetOrdering
<1>6. \A y \in W : ~(y < x)
  BY <1>4, <1>5, Zenon
<1>7. \A y \in W : x <= y
  BY <1>6
<1> QED
  BY <1>7 DEF FirstOf

(* A store as ParseStore leaves it: a loose login is the only one.         *)
Parsed(s) ==
  /\ s \in Store
  /\ s.loose # {} => Known(s) = {} /\ \A l, m \in s.loose : l = m

LEMMA FilesAreParsed ==
  ASSUME NEW f \in Files
  PROVE  Parsed(ParseStore(f))
<1>1. ParseStore(f) \in Store
  BY ResolveAssumption
<1>2. ASSUME f.workspaces # None
      PROVE  ParseStore(f).loose = {}
  BY <1>2 DEF ParseStore
<1>3. ASSUME f.workspaces = None, f.apiToken = None
      PROVE  ParseStore(f).loose = {}
  BY <1>3 DEF ParseStore, EmptyStore
<1>4. ASSUME f.workspaces = None, f.apiToken # None, f.workspaceID # None
      PROVE  ParseStore(f).loose = {}
  BY <1>4 DEF ParseStore
<1>5. ASSUME f.workspaces = None, f.apiToken # None, f.workspaceID = None
      PROVE  /\ ParseStore(f).workspaces = NoEntries
             /\ ParseStore(f).loose = {[baseURL |-> f.baseURL, apiToken |-> f.apiToken]}
  BY <1>5 DEF ParseStore
<1>6. DOMAIN NoEntries = {}
  BY DEF NoEntries
<1> QED
  BY <1>1, <1>2, <1>3, <1>4, <1>5, <1>6 DEF Parsed, Known

LEMMA StoreTypes ==
  ASSUME NEW s, Parsed(s)
  PROVE  /\ Known(s) \subseteq WorkspaceIDs /\ Known(s) \subseteq Nat
         /\ \A w \in Known(s) : s.workspaces[w] \in Entry
         /\ s.loose \subseteq Login
         /\ DistinctLogins(s) \subseteq Login
         /\ \A w \in Known(s) : LoginOf(s.workspaces[w]) \in DistinctLogins(s)
<1>1. PICK W \in SUBSET WorkspaceIDs : s.workspaces \in [W -> Entry]
  BY DEF Parsed, Store
<1>2. Known(s) = W /\ \A w \in Known(s) : s.workspaces[w] \in Entry
  BY <1>1 DEF Known
<1>3. s.loose \subseteq Login
  BY DEF Parsed, Store
<1>4. \A e \in Entry : LoginOf(e) \in Login
  BY DEF Entry, LoginOf, Login
<1> QED
  BY <1>2, <1>3, <1>4, StoreAssumption DEF DistinctLogins

(* First picks one of the logins it is given.                              *)
LEMMA FirstIsOne ==
  ASSUME NEW s, Parsed(s), NEW L \in SUBSET DistinctLogins(s), L # {}
  PROVE  First(s, L) \in L
<1>1. CASE s.loose # {}
  <2>1. \A l, m \in DistinctLogins(s) : l = m
    BY <1>1 DEF Parsed, DistinctLogins
  <2> QED
    BY <2>1 DEF First
<1>2. CASE s.loose = {}
  <2> DEFINE W == {w \in Known(s) : LoginOf(s.workspaces[w]) \in L}
  <2>1. W # {} /\ W \in SUBSET Nat
    BY <1>2, StoreTypes DEF DistinctLogins
  <2>2. PICK w \in W : \A v \in W : w <= v
    BY <2>1, FirstOfIsLeast
  <2>3. \A m \in L \ {LoginOf(s.workspaces[w])} : Precedes(s, LoginOf(s.workspaces[w]), m)
    BY <2>2 DEF Precedes
  <2> QED
    BY <2>2, <2>3 DEF First
<1> QED
  BY <1>1, <1>2

-----------------------------------------------------------------------------
(* The invariant                                                           *)

WorldInv ==
  world \in [store : {ParseStore(f) : f \in Files}, binding : Bindings,
             override : Overrides, repository : Repositories, member : Memberships]

Bound == world.binding # [workspaceID |-> None, productID |-> None]

Named ==
  IF Given("workspaceID") # None THEN Given("workspaceID") ELSE world.binding.workspaceID

(* Nothing decides locally, so that requests may be sent.                  *)
Undecided ==
  /\ WithoutToken
  /\ Named # None => (Named \in Known(store) => store.workspaces[Named].productID # None)
  /\ Named = None => (world.binding.productID # None =>
       \A w \in Known(store) : store.workspaces[w].productID # world.binding.productID)

Loops == {"probe", "lookup", "gather", "members"}

(* What is known in each loop.                                             *)
PlaceInv ==
  /\ pc \in Loops => Undecided
  /\ pc \in {"probe", "lookup", "gather"} => Named = None
  /\ pc = "probe" => world.binding.productID # None
  /\ pc \in {"lookup", "gather"} => ~Bound
  /\ pc = "lookup" => world.repository # None
  /\ pc \in {"gather", "members"} => \A l \in todo : ~IsProductLogin(l)
  /\ pc = "members" => target.workspaceID \in WorkspaceIDs /\ target.source \in Sources

(* What was sent so far.                                                   *)
RequestInv ==
  /\ requests # {} => Undecided
  /\ \A l \in Login : <<"ListWorkspaces", l>> \in requests => ~IsProductLogin(l)

Results == [baseURL : BaseURLs, apiToken : APITokens, workspaceID : Maybe(WorkspaceIDs),
            source : Sources, productID : Maybe(Products)]

Failures == [code : Codes, unreachable : BOOLEAN]

(* Whose credentials a workspace is served with.                           *)
Serves(o) ==
  LET login == [baseURL |-> o.baseURL, apiToken |-> o.apiToken] IN
  \/ o.workspaceID \in Known(store) /\ LoginOf(store.workspaces[o.workspaceID]) = login
  \/ login \in PersonalMembers(o.workspaceID)

(* A bound repository is on its way to a workspace it may run in.          *)
OnTheWay(w) == Bound => \E c \in Choices : w = c[1]

ResultInv ==
  /\ pc = "done" => outcome \in Results \cup Failures
  /\ pc = "members" => OnTheWay(target.workspaceID)
  /\ ResolvedOutcome /\ WithoutToken => Serves(outcome) /\ OnTheWay(outcome.workspaceID)

IInv == TypeOK /\ WorldInv /\ PlaceInv /\ RequestInv /\ ResultInv

(* The part of the invariant about how far the ladder is and what it has   *)
(* returned.                                                               *)
ProgressInv ==
  /\ pc \in {"start", "done"} \cup Loops
  /\ todo \in SUBSET DistinctLogins(store)
  /\ target \in [workspaceID : Maybe(WorkspaceIDs), source : Maybe(Sources),
                 productID : Maybe(Products)]
  /\ outcome \in {None} \cup Results \cup Failures
  /\ PlaceInv /\ ResultInv

-----------------------------------------------------------------------------
(* The world                                                               *)

LEMMA WorldTypes ==
  ASSUME WorldInv
  PROVE  /\ Parsed(store)
         /\ world.binding \in [workspaceID : Maybe(WorkspaceIDs), productID : Maybe(Products)]
         /\ world.repository \in Maybe(SUBSET Products)
         /\ world.member \in [Login -> SUBSET WorkspaceIDs]
         /\ Given("baseURL") \in Maybe(BaseURLs)
         /\ Given("apiToken") \in Maybe(APITokens)
         /\ Given("workspaceID") \in Maybe(WorkspaceIDs)
<1>1. \E f \in Files : store = ParseStore(f)
  BY DEF WorldInv, store
<1>2. Parsed(store)
  BY <1>1, FilesAreParsed
<1>3. world.override.flag \in Settings /\ world.override.env \in Settings
  BY ResolveAssumption DEF WorldInv
<1> QED
  BY <1>2, <1>3, ResolveAssumption DEF WorldInv, Given, Settings

(* What follows from the world alone stays as it is.                       *)
LEMMA WorldKept ==
  ASSUME world' = world
  PROVE  /\ store' = store /\ WorldInv' = WorldInv
         /\ Choices' = Choices /\ Named' = Named
         /\ WithoutToken' = WithoutToken /\ Bound' = Bound /\ Undecided' = Undecided
         /\ \A l : IsProductLogin(l)' = IsProductLogin(l)
         /\ \A w : PersonalMembers(w)' = PersonalMembers(w)
         /\ \A o : Serves(o)' = Serves(o)
         /\ \A w : OnTheWay(w)' = OnTheWay(w)
<1>1. store' = store
  BY DEF store
<1>2. \A l : IsProductLogin(l)' = IsProductLogin(l)
  BY <1>1 DEF IsProductLogin
<1>3. Given("workspaceID")' = Given("workspaceID") /\ Given("apiToken")' = Given("apiToken")
  BY DEF Given
<1>4. \A l, p : Sees(l, p)' = Sees(l, p)
  BY <1>1, <1>2 DEF Sees, TokenProduct
<1>5. \A l : RepositoryCandidates(l)' = RepositoryCandidates(l)
  BY <1>4 DEF RepositoryCandidates
<1>6. Choices' = Choices
  BY <1>1, <1>3, <1>4, <1>5, ZenonT(60) DEF Choices
<1>7. \A w : PersonalMembers(w)' = PersonalMembers(w)
  BY <1>1, <1>2 DEF PersonalMembers
<1>8. Named' = Named /\ WithoutToken' = WithoutToken /\ Bound' = Bound /\ WorldInv' = WorldInv
  BY <1>3 DEF Named, WithoutToken, Bound, WorldInv
<1>9. Undecided' = Undecided
  BY <1>1, <1>8 DEF Undecided
<1>10. \A o : Serves(o)' = Serves(o)
  BY <1>1, <1>7 DEF Serves
<1>11. \A w : OnTheWay(w)' = OnTheWay(w)
  BY <1>6, <1>8 DEF OnTheWay
<1> QED
  BY <1>1, <1>2, <1>6, <1>7, <1>8, <1>9, <1>10, <1>11

-----------------------------------------------------------------------------
(* What the parts of the steps do                                          *)

LEMMA ResolvedShape ==
  ASSUME NEW l \in Login, NEW w \in Maybe(WorkspaceIDs), NEW source \in Sources,
         NEW p \in Maybe(Products)
  PROVE  /\ Resolved(l, w, source, p) \in Results
         /\ Resolved(l, w, source, p).workspaceID = w
         /\ [baseURL |-> Resolved(l, w, source, p).baseURL,
             apiToken |-> Resolved(l, w, source, p).apiToken] = l
         /\ Resolved(l, w, source, p).productID = p
BY DEF Resolved, Results, Login

LEMMA FailureShape ==
  ASSUME NEW code, NEW u
  PROVE  "code" \in DOMAIN [code |-> code, unreachable |-> u]
OBVIOUS

(* The stored entry of a workspace serves it.                              *)
LEMMA EntryServes ==
  ASSUME IInv, world' = world, NEW w \in Known(store), NEW source \in Sources,
         ReturnEntry(w, source), OnTheWay(w),
         target' \in [workspaceID : Maybe(WorkspaceIDs), source : Maybe(Sources),
                      productID : Maybe(Products)]
  PROVE  ProgressInv'
<1> DEFINE e == store.workspaces[w]
           o == Resolved(LoginOf(e), w, source, e.productID)
<1>1. Parsed(store)
  BY WorldTypes DEF IInv
<1>2. e \in Entry /\ LoginOf(e) \in Login /\ w \in Maybe(WorkspaceIDs)
  BY <1>1, StoreTypes DEF Maybe
<1>3. e.productID \in Maybe(Products)
  BY <1>2 DEF Entry, Maybe
<1>4. pc' = "done" /\ todo' = {} /\ outcome' = o
  BY DEF ReturnEntry, Return
<1> HIDE DEF e
<1>5. o \in Results /\ o.workspaceID = w
      /\ [baseURL |-> o.baseURL, apiToken |-> o.apiToken] = LoginOf(e)
  BY <1>2, <1>3, ResolvedShape
<1> HIDE DEF o
<1>6. Serves(o) /\ OnTheWay(o.workspaceID)
  BY <1>5 DEF Serves, e
<1>7. ResultInv'
  BY <1>4, <1>5, <1>6, WorldKept DEF ResultInv
<1>8. PlaceInv'
  BY <1>4 DEF PlaceInv, Loops
<1> QED
  BY <1>4, <1>5, <1>7, <1>8 DEF ProgressInv

(* Once a workspace is decided on, its entry is taken, or every account is *)
(* asked.                                                                  *)
LEMMA TokenKeeps ==
  ASSUME IInv, world' = world, NEW w \in WorkspaceIDs, NEW source \in Sources,
         NEW p \in Maybe(Products), TokenForWorkspace(w, source, p), OnTheWay(w),
         ~Suits(w, p) => Undecided
  PROVE  ProgressInv'
<1>1. target' = [workspaceID |-> w, source |-> source, productID |-> p]
  BY DEF TokenForWorkspace
<1>2. target' \in [workspaceID : Maybe(WorkspaceIDs), source : Maybe(Sources),
                   productID : Maybe(Products)]
  BY <1>1 DEF Maybe
<1>3. CASE Suits(w, p) /\ ReturnEntry(w, source)
  <2>1. w \in Known(store)
    BY <1>3 DEF Suits
  <2> QED
    BY <1>2, <1>3, <2>1, EntryServes
<1>4. CASE ~Suits(w, p) /\ Enter("members", {l \in DistinctLogins(store) : ~IsProductLogin(l)})
  <2>1. pc' = "members" /\ outcome' = outcome
        /\ todo' = {l \in DistinctLogins(store) : ~IsProductLogin(l)}
    BY <1>4 DEF Enter
  <2>2. ~ResolvedOutcome'
    BY <2>1 DEF ResolvedOutcome
  <2>3. ResultInv'
    BY <1>1, <2>1, <2>2, WorldKept DEF ResultInv
  <2>4. PlaceInv'
    BY <1>1, <1>4, <2>1, WorldKept DEF PlaceInv, Loops
  <2>5. outcome \in {None} \cup Results \cup Failures
    BY DEF IInv, TypeOK, Results, Failures
  <2>6. todo' \in SUBSET DistinctLogins(store)
    BY <2>1
  <2> QED
    BY <1>2, <2>1, <2>3, <2>4, <2>5, <2>6, WorldKept DEF ProgressInv, Loops
<1> QED
  BY <1>3, <1>4 DEF TokenForWorkspace

LEMMA FailKeeps ==
  ASSUME IInv, world' = world, target' = target, NEW code \in Codes, Fail(code)
  PROVE  ProgressInv'
<1>1. pc' = "done" /\ todo' = {} /\ outcome' = [code |-> code, unreachable |-> unreachable]
  BY DEF Fail, Return
<1>2. unreachable \in BOOLEAN
  BY DEF IInv, TypeOK
<1>3. outcome' \in Failures
  BY <1>1, <1>2 DEF Failures
<1>4. ~ResolvedOutcome'
  BY <1>1, FailureShape DEF ResolvedOutcome
<1>5. ResultInv' /\ PlaceInv'
  BY <1>1, <1>3, <1>4 DEF ResultInv, PlaceInv, Loops
<1>6. target' \in [workspaceID : Maybe(WorkspaceIDs), source : Maybe(Sources),
                   productID : Maybe(Products)]
  BY DEF IInv, TypeOK
<1> QED
  BY <1>1, <1>3, <1>5, <1>6 DEF ProgressInv

LEMMA SkipKeeps ==
  ASSUME IInv, world' = world, NEW l, Skip(l)
  PROVE  ProgressInv'
<1>1. todo' \subseteq todo /\ pc' = pc /\ target' = target /\ outcome' = outcome
  BY DEF Skip
<1>2. PlaceInv'
  BY <1>1, WorldKept DEF IInv, PlaceInv
<1>3. ResolvedOutcome' = ResolvedOutcome
  BY <1>1 DEF ResolvedOutcome
<1>4. ResultInv'
  BY <1>1, <1>3, WorldKept DEF IInv, ResultInv
<1> QED
  BY <1>1, <1>2, <1>4, WorldKept DEF IInv, TypeOK, ProgressInv, Loops, Results, Failures

(* A loop over logins is entered when nothing has decided.                 *)
LEMMA EnterKeeps ==
  ASSUME IInv, world' = world, target' = target, Undecided, Named = None,
         NEW logins \in SUBSET DistinctLogins(store),
         \/ Enter("probe", logins) /\ world.binding.productID # None
         \/ Enter("lookup", logins) /\ ~Bound /\ world.repository # None
         \/ Enter("gather", logins) /\ ~Bound /\ logins = store.loose
  PROVE  ProgressInv'
<1>1. /\ pc' \in {"probe", "lookup", "gather"} /\ todo' = logins /\ outcome' = outcome
      /\ pc' = "probe" => world.binding.productID # None
      /\ pc' # "probe" => ~Bound
      /\ pc' = "lookup" => world.repository # None
      /\ pc' = "gather" => logins = store.loose
  BY DEF Enter
<1>2. ASSUME NEW l \in store.loose
      PROVE  ~IsProductLogin(l)
  <2>1. Known(store) = {}
    BY WorldTypes DEF IInv, Parsed
  <2> QED
    BY <2>1 DEF IsProductLogin, ProductTokenEntries
<1>3. PlaceInv'
  BY <1>1, <1>2, WorldKept DEF PlaceInv, Loops
<1>4. ~ResolvedOutcome' /\ pc' # "done" /\ pc' # "members"
  BY <1>1 DEF ResolvedOutcome
<1>5. ResultInv'
  BY <1>4 DEF ResultInv
<1> QED
  BY <1>1, <1>3, <1>5, WorldKept DEF IInv, TypeOK, ProgressInv, Loops, Results, Failures

-----------------------------------------------------------------------------
(* The steps                                                               *)

(* What Choices leaves, rule by rule, for a bound repository.              *)
LEMMA ChoicesWhenNamed ==
  /\ Given("workspaceID") # None => <<Given("workspaceID"), None>> \in Choices
  /\ Given("workspaceID") = None /\ world.binding.workspaceID # None
       => <<world.binding.workspaceID, None>> \in Choices
<1>1. Given("workspaceID") # None => Choices = {<<Given("workspaceID"), None>>}
  BY DEF Choices
<1>2. Given("workspaceID") = None /\ world.binding.workspaceID # None
        => Choices = {<<world.binding.workspaceID, None>>}
  BY DEF Choices
<1> QED
  BY <1>1, <1>2

LEMMA ChoicesOfProduct ==
  ASSUME Named = None, NEW p, p = world.binding.productID, p # None,
         NEW W, W = ProductTokenWorkspaces(store, p)
  PROVE  /\ W # {} => <<FirstOf(W), p>> \in Choices
         /\ W = {} => \A l \in DistinctLogins(store) :
                        Sees(l, p) => <<Home[p], p>> \in Choices
<1>1. Given("workspaceID") = None /\ world.binding.workspaceID = None
  BY DEF Named
<1>2. W # {} => Choices = {<<FirstOf(W), p>>}
  BY <1>1 DEF Choices
<1>3. W = {} => Choices = {<<Home[p], p>> : l \in {m \in DistinctLogins(store) : Sees(m, p)}}
  BY <1>1 DEF Choices
<1> QED
  BY <1>2, <1>3

LEMMA OverrideTokenKeeps ==
  ASSUME IInv, world' = world, OverrideToken
  PROVE  ProgressInv'
<1> DEFINE token == Given("apiToken")
           holders == {l \in DistinctLogins(store) : l.apiToken = token}
           login == [baseURL |-> IF Given("baseURL") = None /\ holders # {}
                                 THEN First(store, holders).baseURL
                                 ELSE Given("baseURL"),
                     apiToken |-> token]
           entries == ProductTokenEntries(store, login)
           w == CASE Given("workspaceID") # None -> Given("workspaceID")
                  [] Given("workspaceID") = None /\ world.binding.workspaceID # None ->
                       world.binding.workspaceID
                  [] OTHER -> IF entries # {} THEN FirstOf(entries) ELSE None
           p == IF entries # {} THEN store.workspaces[FirstOf(entries)].productID ELSE None
           by == GivenBy("apiToken")
<1>1. Parsed(store) /\ world.binding.workspaceID \in Maybe(WorkspaceIDs)
      /\ Given("baseURL") \in Maybe(BaseURLs) /\ token \in Maybe(APITokens)
      /\ Given("workspaceID") \in Maybe(WorkspaceIDs)
  BY WorldTypes DEF IInv
<1>2. token # None
  BY DEF OverrideToken
<1>3. target' = target
  BY DEF OverrideToken
<1>4. CASE login.baseURL = None
  <2>1. Fail("NO_BASE_URL")
    BY <1>4 DEF OverrideToken
  <2> QED
    BY <1>3, <2>1, FailKeeps DEF Codes
<1>5. CASE login.baseURL # None
  <2>1. Return(Resolved(login, w, by, p))
    BY <1>5 DEF OverrideToken
  <2>2. holders \in SUBSET DistinctLogins(store) /\ DistinctLogins(store) \subseteq Login
    BY <1>1, StoreTypes
  <2>3. login \in Login
    <3>1. holders # {} => First(store, holders).baseURL \in BaseURLs
      BY <1>1, <2>2, FirstIsOne DEF Login
    <3> QED
      BY <1>1, <1>2, <1>5, <3>1 DEF Login, Maybe
  <2> HIDE DEF login
  <2>4. entries \in SUBSET Nat /\ entries \subseteq Known(store) /\ Known(store) \subseteq WorkspaceIDs
    BY <1>1, StoreTypes DEF ProductTokenEntries
  <2> HIDE DEF entries
  <2>5. entries # {} => FirstOf(entries) \in WorkspaceIDs
                        /\ store.workspaces[FirstOf(entries)].productID \in Maybe(Products)
    <3> SUFFICES ASSUME entries # {}
                 PROVE  FirstOf(entries) \in WorkspaceIDs
                        /\ store.workspaces[FirstOf(entries)].productID \in Maybe(Products)
      OBVIOUS
    <3>1. FirstOf(entries) \in Known(store)
      BY <2>4, FirstOfIsLeast
    <3>2. store.workspaces[FirstOf(entries)] \in Entry
      BY <1>1, <3>1, StoreTypes
    <3> QED
      BY <2>4, <3>1, <3>2 DEF Entry, Maybe
  <2>6. w \in Maybe(WorkspaceIDs) /\ p \in Maybe(Products) /\ by \in Sources
    BY <1>1, <2>5 DEF Maybe, GivenBy, Sources
  <2> HIDE DEF w, p, by
  <2>7. pc' = "done" /\ todo' = {} /\ outcome' \in Results
    BY <2>1, <2>3, <2>6, ResolvedShape DEF Return
  <2>8. ~WithoutToken
    BY <1>2 DEF WithoutToken
  <2>9. ResultInv' /\ PlaceInv'
    BY <2>7, <2>8, WorldKept DEF ResultInv, PlaceInv, Loops
  <2>10. target' \in [workspaceID : Maybe(WorkspaceIDs), source : Maybe(Sources),
                      productID : Maybe(Products)]
    BY <1>3 DEF IInv, TypeOK
  <2> QED
    BY <2>7, <2>9, <2>10 DEF ProgressInv
<1> QED
  BY <1>4, <1>5

LEMMA StartKeeps ==
  ASSUME IInv, Start
  PROVE  ProgressInv' /\ candidates' \in SUBSET Products /\ found' \in SUBSET WorkspaceIDs
<1>1. world' = world /\ candidates \in SUBSET Products /\ found \in SUBSET WorkspaceIDs
  BY DEF Start, IInv, TypeOK
<1>2. /\ Parsed(store)
      /\ world.binding \in [workspaceID : Maybe(WorkspaceIDs), productID : Maybe(Products)]
      /\ Given("workspaceID") \in Maybe(WorkspaceIDs)
  BY WorldTypes DEF IInv
<1>3. Known(store) \subseteq WorkspaceIDs /\ Known(store) \subseteq Nat
  BY <1>2, StoreTypes
<1>4. \A w, p : ~Suits(w, p) /\ w \in Known(store) => store.workspaces[w].productID # None
  BY DEF Suits, IsProductToken
<1>5. CASE OverrideToken
  BY <1>1, <1>5, OverrideTokenKeeps DEF OverrideToken
<1>6. CASE OverrideWorkspace
  <2> DEFINE w == Given("workspaceID")
             p == world.binding.productID
  <2>1. w \in WorkspaceIDs /\ p \in Maybe(Products) /\ GivenBy("workspaceID") \in Sources
    BY <1>2, <1>6 DEF OverrideWorkspace, Maybe, GivenBy, Sources
  <2>2. OnTheWay(w)
    BY <1>6, ChoicesWhenNamed DEF OverrideWorkspace, OnTheWay
  <2>3. ~Suits(w, p) => Undecided
    BY <1>4, <1>6 DEF OverrideWorkspace, Undecided, Named, WithoutToken
  <2>4. TokenForWorkspace(w, GivenBy("workspaceID"), p)
    BY <1>6 DEF OverrideWorkspace
  <2> QED
    BY <1>1, <1>6, <2>1, <2>2, <2>3, <2>4, TokenKeeps DEF OverrideWorkspace
<1>7. CASE NotLoggedIn
  BY <1>1, <1>7, FailKeeps DEF NotLoggedIn, Codes
<1>8. CASE BoundToWorkspace
  <2> DEFINE w == world.binding.workspaceID
             p == world.binding.productID
  <2>1. w \in WorkspaceIDs /\ p \in Maybe(Products) /\ "repo-binding" \in Sources
    BY <1>2, <1>8 DEF BoundToWorkspace, Maybe, Sources
  <2>2. OnTheWay(w)
    BY <1>8, ChoicesWhenNamed DEF BoundToWorkspace, NoOverride, OnTheWay
  <2>3. ~Suits(w, p) => Undecided
    BY <1>4, <1>8 DEF BoundToWorkspace, NoOverride, Undecided, Named, WithoutToken
  <2>4. TokenForWorkspace(w, "repo-binding", p)
    BY <1>8 DEF BoundToWorkspace
  <2> QED
    BY <1>1, <1>8, <2>1, <2>2, <2>3, <2>4, TokenKeeps DEF BoundToWorkspace
<1>9. CASE BoundToProduct
  <2> DEFINE p == world.binding.productID
             W == ProductTokenWorkspaces(store, p)
  <2>1. p \in Maybe(Products) /\ p # None /\ Named = None /\ WithoutToken
    BY <1>2, <1>9 DEF BoundToProduct, NoOverride, Named, WithoutToken
  <2>2. W \in SUBSET Nat /\ W \subseteq Known(store)
        /\ \A w \in W : store.workspaces[w].productID = p
    BY <1>3 DEF ProductTokenWorkspaces
  <2>3. W = {} => Undecided
    BY <2>1 DEF Undecided, ProductTokenWorkspaces
  <2>4. CASE W # {} /\ TokenForWorkspace(FirstOf(W), "product-token", p)
    <3>1. FirstOf(W) \in W
      BY <2>2, <2>4, FirstOfIsLeast
    <3>2. Suits(FirstOf(W), p) /\ FirstOf(W) \in WorkspaceIDs
      BY <1>3, <2>2, <3>1 DEF Suits
    <3>3. OnTheWay(FirstOf(W))
      <4>1. <<FirstOf(W), p>> \in Choices
        <5> HIDE DEF p
        <5>1. p = world.binding.productID
          BY DEF p
        <5>2. W = ProductTokenWorkspaces(store, p)
          OBVIOUS
        <5> HIDE DEF W
        <5> QED
          BY <2>1, <2>4, <5>1, <5>2, ChoicesOfProduct
      <4>2. <<FirstOf(W), p>>[1] = FirstOf(W)
        OBVIOUS
      <4> QED
        BY <4>1, <4>2 DEF OnTheWay
    <3> QED
      BY <1>1, <1>9, <2>1, <2>4, <3>2, <3>3, TokenKeeps DEF BoundToProduct, Sources
  <2>5. CASE W = {} /\ Enter("probe", DistinctLogins(store)) /\ UNCHANGED target
    BY <1>1, <1>9, <2>1, <2>3, <2>5, EnterKeeps DEF BoundToProduct
  <2> QED
    BY <1>9, <2>4, <2>5 DEF BoundToProduct
<1>10. CASE Unbound
  <2>1. Named = None /\ ~Bound /\ Undecided
    BY <1>10 DEF Unbound, NoOverride, Named, Bound, Undecided, WithoutToken
  <2>2. CASE world.repository # None /\ Enter("lookup", DistinctLogins(store))
             /\ UNCHANGED <<target, found>>
    BY <1>1, <1>10, <2>1, <2>2, EnterKeeps DEF Unbound
  <2>3. CASE StartGather
    BY <1>1, <1>3, <1>10, <2>1, <2>3, EnterKeeps DEF Unbound, StartGather, DistinctLogins
  <2> QED
    BY <1>10, <2>2, <2>3 DEF Unbound
<1> QED
  BY <1>5, <1>6, <1>7, <1>8, <1>9, <1>10 DEF Start

LEMMA LoopKeeps ==
  ASSUME IInv, NEW l \in todo,
         ProbeProduct(l) \/ LookupRepository(l) \/ GatherWorkspaces(l) \/ AskMembership(l)
  PROVE  /\ ProgressInv' /\ candidates' \in SUBSET Products /\ found' \in SUBSET WorkspaceIDs
         /\ unreachable' \in BOOLEAN /\ faulty' \in BOOLEAN
<1>1. world' = world /\ candidates \in SUBSET Products /\ found \in SUBSET WorkspaceIDs
      /\ unreachable \in BOOLEAN /\ faulty \in BOOLEAN
  BY DEF ProbeProduct, LookupRepository, GatherWorkspaces, AskMembership, Asking, IInv, TypeOK
<1>2. /\ Parsed(store)
      /\ world.binding \in [workspaceID : Maybe(WorkspaceIDs), productID : Maybe(Products)]
      /\ world.member \in [Login -> SUBSET WorkspaceIDs]
      /\ world.repository \in Maybe(SUBSET Products)
  BY WorldTypes DEF IInv
<1>3. l \in DistinctLogins(store) /\ l \in Login
  BY <1>2, StoreTypes DEF IInv, TypeOK
<1>4. \A page \in FirstPages(l) : page \subseteq world.member[l] /\ page \subseteq WorkspaceIDs
  BY <1>2, <1>3 DEF FirstPages
<1>5. CASE ProbeProduct(l)
  <2> DEFINE p == world.binding.productID
  <2>1. CASE Skip(l)
    <3>1. faulty' \in BOOLEAN /\ unreachable' \in BOOLEAN
      <4>1. (faulty \/ Sees(l, p)) \in BOOLEAN
        OBVIOUS
      <4> QED
        BY <1>1, <1>5, <4>1 DEF ProbeProduct
    <3> QED
      BY <1>1, <1>5, <2>1, <3>1, SkipKeeps DEF ProbeProduct
  <2>2. CASE /\ Sees(l, p) /\ TokenForWorkspace(Home[p], "product-probe", p)
             /\ unreachable' = FALSE /\ UNCHANGED faulty
    <3>1. Named = None /\ p # None /\ Undecided
      BY <1>5 DEF ProbeProduct, IInv, PlaceInv, Loops
    <3>2. p \in Products /\ p \in Maybe(Products) /\ Home[p] \in WorkspaceIDs
      BY <1>2, <3>1, ResolveAssumption DEF Maybe
    <3>3. ProductTokenWorkspaces(store, p) = {}
      BY <3>1 DEF Undecided, ProductTokenWorkspaces
    <3>4. <<Home[p], p>> \in Choices
      <4> HIDE DEF p
      <4>1. p = world.binding.productID
        BY DEF p
      <4> QED
        BY <1>3, <2>2, <3>1, <3>3, <4>1, ChoicesOfProduct
    <3>5. OnTheWay(Home[p])
      <4>1. <<Home[p], p>>[1] = Home[p]
        OBVIOUS
      <4> QED
        BY <3>4, <4>1 DEF OnTheWay
    <3> QED
      BY <1>1, <1>5, <2>2, <3>1, <3>2, <3>5, TokenKeeps DEF ProbeProduct, Sources
  <2> QED
    BY <1>5, <2>1, <2>2 DEF ProbeProduct
<1>6. CASE LookupRepository(l)
  <2>1. Named = None /\ ~Bound /\ Undecided /\ world.repository # None
    BY <1>6 DEF LookupRepository, IInv, PlaceInv, Loops
  <2>2. RepositoryCandidates(l) \in SUBSET Products
    BY <1>2, <2>1 DEF RepositoryCandidates, Maybe
  <2>3. ASSUME Skip(l), UNCHANGED found, candidates' \in SUBSET Products, faulty' \in BOOLEAN
        PROVE  ProgressInv' /\ found' \in SUBSET WorkspaceIDs
    BY <1>1, <2>3, SkipKeeps
  <2>4. CASE StartGather /\ candidates' = {} /\ faulty' = TRUE
    <3>1. found' \in SUBSET WorkspaceIDs /\ store.loose \in SUBSET DistinctLogins(store)
      BY <1>2, <2>4, StoreTypes DEF StartGather, DistinctLogins
    <3> QED
      BY <1>1, <1>6, <2>1, <2>4, <3>1, EnterKeeps DEF LookupRepository, StartGather
  <2> QED
    BY <1>1, <1>6, <2>2, <2>3, <2>4 DEF LookupRepository
<1>7. CASE GatherWorkspaces(l)
  <2>1. Skip(l) /\ found' \in SUBSET WorkspaceIDs
    BY <1>1, <1>4, <1>7 DEF GatherWorkspaces
  <2> QED
    BY <1>1, <1>7, <2>1, SkipKeeps DEF GatherWorkspaces
<1>8. CASE AskMembership(l)
  <2>1. CASE Skip(l)
    BY <1>1, <1>8, <2>1, SkipKeeps DEF AskMembership
  <2>2. ASSUME NEW page \in FirstPages(l), target.workspaceID \in page,
               Return(Resolved(l, target.workspaceID, target.source, None)),
               UNCHANGED target, UNCHANGED faulty
        PROVE  ProgressInv'
    <3> DEFINE w == target.workspaceID
               o == Resolved(l, w, target.source, None)
    <3>1. w \in WorkspaceIDs /\ target.source \in Sources /\ OnTheWay(w) /\ ~IsProductLogin(l)
      BY <1>8 DEF AskMembership, IInv, PlaceInv, ResultInv
    <3>2. pc' = "done" /\ todo' = {} /\ outcome' = o
      BY <2>2 DEF Return
    <3>3. l \in PersonalMembers(w)
      BY <1>3, <1>4, <2>2, <3>1 DEF PersonalMembers
    <3> HIDE DEF w
    <3>4. /\ o \in Results /\ o.workspaceID = w
          /\ [baseURL |-> o.baseURL, apiToken |-> o.apiToken] = l
      BY <1>3, <3>1, ResolvedShape DEF Maybe
    <3> HIDE DEF o
    <3>5. Serves(o) /\ OnTheWay(o.workspaceID)
      BY <3>1, <3>3, <3>4 DEF Serves
    <3>6. ResultInv' /\ PlaceInv'
      BY <1>1, <3>2, <3>4, <3>5, WorldKept DEF ResultInv, PlaceInv, Loops
    <3>7. target' \in [workspaceID : Maybe(WorkspaceIDs), source : Maybe(Sources),
                       productID : Maybe(Products)]
      BY <2>2 DEF IInv, TypeOK
    <3> QED
      BY <3>2, <3>4, <3>6, <3>7 DEF ProgressInv
  <2> QED
    BY <1>1, <1>8, <2>1, <2>2 DEF AskMembership
<1> QED
  BY <1>5, <1>6, <1>7, <1>8

LEMMA LoopEndKeeps ==
  ASSUME IInv, ProductNotVisible \/ LookupDone \/ GatherDone \/ NobodyListsIt
  PROVE  /\ ProgressInv' /\ candidates' \in SUBSET Products /\ found' \in SUBSET WorkspaceIDs
         /\ unreachable' \in BOOLEAN /\ faulty' \in BOOLEAN
<1>1. /\ world' = world /\ candidates' \in SUBSET Products
      /\ unreachable' \in BOOLEAN /\ faulty' \in BOOLEAN
      /\ candidates \in SUBSET Products /\ found \in SUBSET WorkspaceIDs
  BY DEF ProductNotVisible, LookupDone, GatherDone, NobodyListsIt, IInv, TypeOK
<1>2. Parsed(store)
  BY WorldTypes DEF IInv
<1>3. Known(store) \subseteq WorkspaceIDs /\ store.loose \in SUBSET DistinctLogins(store)
  BY <1>2, StoreTypes DEF DistinctLogins
<1>4. CASE ProductNotVisible
  BY <1>1, <1>4, FailKeeps DEF ProductNotVisible, Codes
<1>5. CASE LookupDone
  <2>1. Named = None /\ ~Bound /\ Undecided
    BY <1>5 DEF LookupDone, IInv, PlaceInv, Loops
  <2>2. CASE StartGather
    <3>1. found' = Known(store) /\ Enter("gather", store.loose) /\ target' = target
      BY <2>2 DEF StartGather
    <3> QED
      BY <1>1, <1>3, <2>1, <3>1, EnterKeeps
  <2>3. ASSUME NEW p \in candidates, TokenForWorkspace(Home[p], "repository-lookup", p),
               UNCHANGED found
        PROVE  ProgressInv' /\ found' \in SUBSET WorkspaceIDs
    <3>1. p \in Maybe(Products) /\ Home[p] \in WorkspaceIDs /\ OnTheWay(Home[p])
      BY <1>1, <2>1, ResolveAssumption DEF OnTheWay, Maybe
    <3> QED
      BY <1>1, <2>1, <2>3, <3>1, TokenKeeps DEF Sources
  <2>4. CASE Fail("E3") /\ UNCHANGED <<target, found>>
    BY <1>1, <2>4, FailKeeps DEF Codes
  <2> QED
    BY <1>1, <1>5, <2>2, <2>3, <2>4 DEF LookupDone
<1>6. CASE GatherDone
  <2>1. Named = None /\ ~Bound /\ Undecided /\ found' \in SUBSET WorkspaceIDs
    BY <1>1, <1>6 DEF GatherDone, IInv, PlaceInv, Loops
  <2>2. ASSUME NEW w \in found, TokenForWorkspace(w, "single-login", None)
        PROVE  ProgressInv'
    BY <1>1, <2>1, <2>2, TokenKeeps DEF Sources, Maybe, OnTheWay
  <2>3. CASE Fail("NO_LOGIN") /\ UNCHANGED target
    BY <1>1, <2>1, <2>3, FailKeeps DEF Codes
  <2>4. CASE Fail("E3") /\ UNCHANGED target
    BY <1>1, <2>1, <2>4, FailKeeps DEF Codes
  <2> QED
    BY <1>1, <1>6, <2>1, <2>2, <2>3, <2>4 DEF GatherDone
<1>7. CASE NobodyListsIt
  <2>1. target' = target /\ found' \in SUBSET WorkspaceIDs
    BY <1>1, <1>7 DEF NobodyListsIt
  <2>2. target.source \in Sources /\ OnTheWay(target.workspaceID)
    BY <1>7 DEF NobodyListsIt, IInv, PlaceInv, ResultInv
  <2>3. target' \in [workspaceID : Maybe(WorkspaceIDs), source : Maybe(Sources),
                     productID : Maybe(Products)]
    BY <2>1 DEF IInv, TypeOK
  <2>4. CASE target.workspaceID \in Known(store)
    <3>1. ReturnEntry(target.workspaceID, target.source)
      BY <1>7, <2>4 DEF NobodyListsIt
    <3> QED
      BY <1>1, <2>1, <2>2, <2>3, <2>4, <3>1, EntryServes
  <2>5. CASE target.workspaceID \notin Known(store)
    <3>1. Fail("E1")
      BY <1>7, <2>5 DEF NobodyListsIt
    <3> QED
      BY <1>1, <2>1, <3>1, FailKeeps DEF Codes
  <2> QED
    BY <1>1, <2>1, <2>4, <2>5
<1> QED
  BY <1>4, <1>5, <1>6, <1>7

LEMMA RequestsKept ==
  ASSUME IInv, Next
  PROVE  /\ RequestInv'
         /\ requests' \in SUBSET ({"GetProduct", "ResolveRepository", "ListWorkspaces"}
                                    \X DistinctLogins(store))
<1>1. world' = world
  BY DEF Next, Start, AskLogin, ProbeProduct, LookupRepository, GatherWorkspaces,
         AskMembership, Asking, ProductNotVisible, LookupDone, GatherDone, NobodyListsIt
<1>2. requests \in SUBSET ({"GetProduct", "ResolveRepository", "ListWorkspaces"}
                              \X DistinctLogins(store))
      /\ todo \in SUBSET DistinctLogins(store)
  BY DEF IInv, TypeOK
<1>3. CASE Start \/ ProductNotVisible \/ LookupDone \/ GatherDone \/ NobodyListsIt
  <2>1. requests' = requests
    BY <1>3 DEF Start, ProductNotVisible, LookupDone, GatherDone, NobodyListsIt
  <2> QED
    BY <1>1, <1>2, <2>1, WorldKept DEF IInv, RequestInv
<1>4. ASSUME NEW l \in todo, NEW endpoint \in {"GetProduct", "ResolveRepository", "ListWorkspaces"},
             Asking(endpoint, l), pc \in Loops,
             endpoint = "ListWorkspaces" => pc \in {"gather", "members"}
      PROVE  /\ RequestInv'
             /\ requests' \in SUBSET ({"GetProduct", "ResolveRepository", "ListWorkspaces"}
                                        \X DistinctLogins(store))
  <2>1. requests' = requests \cup {<<endpoint, l>>}
    BY <1>4 DEF Asking
  <2>2. Undecided /\ (endpoint = "ListWorkspaces" => ~IsProductLogin(l))
    BY <1>4 DEF IInv, PlaceInv
  <2> QED
    BY <1>1, <1>2, <2>1, <2>2, WorldKept DEF IInv, RequestInv
<1>5. CASE AskLogin
  <2>1. PICK l \in todo : ProbeProduct(l) \/ LookupRepository(l)
                          \/ GatherWorkspaces(l) \/ AskMembership(l)
    BY <1>5 DEF AskLogin
  <2> QED
    BY <1>4, <2>1 DEF ProbeProduct, LookupRepository, GatherWorkspaces, AskMembership, Loops
<1> QED
  BY <1>3, <1>5 DEF Next

(* The invariant holds in every state of the ladder.                       *)
THEOREM InductiveInvariant == Spec => []IInv
<1>1. ASSUME Init
      PROVE  IInv
  <2>1. WorldInv
    BY <1>1 DEF Init, WorldInv
  <2>2. Parsed(store)
    BY <2>1, WorldTypes
  <2>3. TypeOK
    BY <1>1, <2>2 DEF Init, TypeOK, Parsed, Maybe
  <2>4. PlaceInv /\ RequestInv /\ ResultInv
    BY <1>1 DEF Init, PlaceInv, RequestInv, ResultInv, Loops, ResolvedOutcome
  <2> QED
    BY <2>1, <2>3, <2>4 DEF IInv
<1>2. ASSUME IInv, Next
      PROVE  IInv'
  <2>1. world' = world
    BY <1>2 DEF Next, Start, AskLogin, ProbeProduct, LookupRepository, GatherWorkspaces,
         AskMembership, Asking, ProductNotVisible, LookupDone, GatherDone, NobodyListsIt
  <2>2. /\ ProgressInv' /\ candidates' \in SUBSET Products /\ found' \in SUBSET WorkspaceIDs
        /\ unreachable' \in BOOLEAN /\ faulty' \in BOOLEAN
    <3>1. CASE Start
      <4>1. unreachable' \in BOOLEAN /\ faulty' \in BOOLEAN
        BY <1>2, <3>1 DEF Start, IInv, TypeOK
      <4> QED
        BY <1>2, <3>1, <4>1, StartKeeps
    <3>2. CASE AskLogin
      BY <1>2, <3>2, LoopKeeps DEF AskLogin
    <3>3. CASE ProductNotVisible \/ LookupDone \/ GatherDone \/ NobodyListsIt
      BY <1>2, <3>3, LoopEndKeeps
    <3> QED
      BY <1>2, <3>1, <3>2, <3>3 DEF Next
  <2>3. RequestInv'
        /\ requests' \in SUBSET ({"GetProduct", "ResolveRepository", "ListWorkspaces"}
                                   \X DistinctLogins(store))
    BY <1>2, RequestsKept
  <2>4. store' = store /\ store \in Store /\ WorldInv'
    BY <1>2, <2>1, WorldKept, WorldTypes DEF IInv, Parsed
  <2>5. TypeOK'
    BY <2>2, <2>3, <2>4 DEF TypeOK, ProgressInv, Results, Failures, Loops
  <2> QED
    BY <2>2, <2>3, <2>4, <2>5 DEF IInv, ProgressInv
<1>3. ASSUME IInv, UNCHANGED vars
      PROVE  IInv'
  <2>1. world' = world /\ store' = store
    BY <1>3, WorldKept DEF vars
  <2>2. TypeOK' /\ PlaceInv' /\ RequestInv' /\ WorldInv'
    BY <1>3, <2>1, WorldKept DEF IInv, vars, progress, TypeOK, PlaceInv, RequestInv
  <2>3. ResultInv'
    <3>1. ResolvedOutcome' = ResolvedOutcome
      BY <1>3 DEF vars, progress, ResolvedOutcome
    <3> QED
      BY <1>3, <2>1, <3>1, WorldKept DEF IInv, vars, progress, ResultInv
  <2> QED
    BY <2>2, <2>3 DEF IInv
<1> QED
  BY <1>1, <1>2, <1>3, PTL DEF Spec

-----------------------------------------------------------------------------
(* The theorems                                                            *)

(* The ladder keeps its types: in particular what it returns is a server,  *)
(* a token and a source of the right kinds, and only logins of the store   *)
(* are asked.                                                              *)
THEOREM TypeCorrect == Spec => []TypeOK
<1>1. IInv => TypeOK
  BY DEF IInv
<1> QED
  BY <1>1, InductiveInvariant, PTL

(* No loop of the ladder asks a product token which workspaces it sees.    *)
THEOREM ProductTokensAreNotProbed == Spec => []ProductTokenNotProbed
<1>1. IInv => ProductTokenNotProbed
  BY DEF IInv, RequestInv, ProductTokenNotProbed
<1> QED
  BY <1>1, InductiveInvariant, PTL

(* No request is sent for what flags, environment and files decide.        *)
THEOREM DecidesLocally == Spec => []LocalWhenPossible
<1>1. IInv => LocalWhenPossible
  BY DEF IInv, RequestInv, LocalWhenPossible, Undecided, Named
<1> QED
  BY <1>1, InductiveInvariant, PTL

(* Whatever requests fail, a bound repository never runs in a workspace    *)
(* that a healthy server would not lead to.                                *)
THEOREM BoundStays == Spec => []BoundRepositoryNeverMoves
<1>1. IInv => BoundRepositoryNeverMoves
  BY DEF IInv, ResultInv, BoundRepositoryNeverMoves, OnTheWay, Bound
<1> QED
  BY <1>1, InductiveInvariant, PTL

-----------------------------------------------------------------------------
(* Credentials                                                             *)

(* Every account's workspaces are on the page that is read (finding 1).    *)
OnePage == \A m \in Memberships : \A l \in Login : Cardinality(m[l]) <= PageSize

(* The logins that are not asked any more have been asked: they do not     *)
(* list the workspace, or have failed to answer.                           *)
AskedInv ==
  /\ pc = "members" =>
       \A l \in DistinctLogins(store) :
         ~IsProductLogin(l) /\ l \notin todo => faulty \/ target.workspaceID \notin world.member[l]
  /\ ResolvedOutcome /\ WithoutToken
     /\ outcome.productID \notin {None, target.productID} /\ target.productID # None
       => faulty \/ PersonalMembers(outcome.workspaceID) = {}

(* A stored entry that suits has no other product than the one asked for.  *)
LEMMA TokenAsked ==
  ASSUME IInv, world' = world, NEW w \in WorkspaceIDs, NEW source \in Sources,
         NEW p \in Maybe(Products), TokenForWorkspace(w, source, p)
  PROVE  AskedInv'
<1>1. target' = [workspaceID |-> w, source |-> source, productID |-> p]
  BY DEF TokenForWorkspace
<1>2. CASE Suits(w, p) /\ ReturnEntry(w, source)
  <2> DEFINE e == store.workspaces[w]
  <2>1. w \in Known(store) /\ (e.productID \in {None, p} \/ p = None)
    BY <1>2 DEF Suits, IsProductToken
  <2>2. e \in Entry /\ LoginOf(e) \in Login
    BY <2>1, WorldTypes, StoreTypes DEF IInv
  <2>3. e.productID \in Maybe(Products) /\ w \in Maybe(WorkspaceIDs)
    BY <2>2 DEF Entry, Maybe
  <2>4. pc' = "done" /\ outcome' = Resolved(LoginOf(e), w, source, e.productID)
    BY <1>2 DEF ReturnEntry, Return
  <2> HIDE DEF e
  <2>5. outcome'.productID = e.productID
    BY <2>2, <2>3, <2>4, ResolvedShape
  <2> QED
    BY <1>1, <2>1, <2>4, <2>5 DEF AskedInv
<1>3. CASE ~Suits(w, p) /\ Enter("members", {l \in DistinctLogins(store) : ~IsProductLogin(l)})
  <2>1. pc' = "members" /\ todo' = {l \in DistinctLogins(store) : ~IsProductLogin(l)}
    BY <1>3 DEF Enter
  <2>2. ~ResolvedOutcome'
    BY <2>1 DEF ResolvedOutcome
  <2> QED
    BY <2>1, <2>2, WorldKept DEF AskedInv
<1> QED
  BY <1>2, <1>3 DEF TokenForWorkspace

LEMMA NotDoneAsked ==
  ASSUME pc' \notin {"members", "done"} \/ \E code, u : outcome' = [code |-> code, unreachable |-> u],
         pc' # "members"
  PROVE  AskedInv'
BY FailureShape DEF AskedInv, ResolvedOutcome

LEMMA LoopAsked ==
  ASSUME IInv, AskedInv, OnePage, NEW l \in todo,
         ProbeProduct(l) \/ LookupRepository(l) \/ GatherWorkspaces(l) \/ AskMembership(l)
  PROVE  AskedInv'
<1>1. world' = world
  BY DEF ProbeProduct, LookupRepository, GatherWorkspaces, AskMembership, Asking
<1>2. CASE ProbeProduct(l)
  <2>1. CASE Skip(l)
    BY <1>2, <2>1, NotDoneAsked DEF ProbeProduct, Skip
  <2>2. CASE TokenForWorkspace(Home[world.binding.productID], "product-probe", world.binding.productID)
    <3>1. world.binding.productID # None
      BY <1>2 DEF ProbeProduct, IInv, PlaceInv
    <3>2. world.binding.productID \in Products
      BY <3>1, WorldTypes DEF IInv, Maybe
    <3> QED
      BY <1>1, <2>2, <3>2, ResolveAssumption, TokenAsked DEF Maybe, Sources
  <2> QED
    BY <1>2, <2>1, <2>2 DEF ProbeProduct
<1>3. CASE LookupRepository(l)
  BY <1>3, NotDoneAsked DEF LookupRepository, Skip, StartGather, Enter
<1>4. CASE GatherWorkspaces(l)
  BY <1>4, NotDoneAsked DEF GatherWorkspaces, Skip
<1>5. CASE AskMembership(l)
  <2>1. l \in Login /\ l \in DistinctLogins(store) /\ target.workspaceID \in WorkspaceIDs
        /\ target.source \in Sources
    BY <1>5, WorldTypes, StoreTypes DEF AskMembership, IInv, TypeOK, PlaceInv
  <2>2. FirstPages(l) = {world.member[l]}
    <3>1. Cardinality(world.member[l]) <= PageSize
      BY <2>1 DEF OnePage, IInv, WorldInv
    <3> QED
      BY <3>1 DEF FirstPages
  <2>3. CASE Return(Resolved(l, target.workspaceID, target.source, None))
    <3>1. pc' = "done" /\ outcome'.productID = None
      BY <2>1, <2>3, ResolvedShape DEF Return, Maybe
    <3> QED
      BY <3>1 DEF AskedInv
  <2>4. CASE /\ Skip(l)
             /\ faulty' = TRUE \/ (faulty' = faulty /\ target.workspaceID \notin world.member[l])
    <3>1. pc' = "members" /\ todo' = todo \ {l} /\ target' = target
      BY <1>5, <2>4 DEF AskMembership, Skip
    <3>2. ~ResolvedOutcome' /\ pc = "members"
      BY <1>5, <3>1 DEF ResolvedOutcome, AskMembership
    <3> QED
      BY <1>1, <2>4, <3>1, <3>2, WorldKept DEF AskedInv
  <2> QED
    BY <1>5, <2>2, <2>3, <2>4 DEF AskMembership
<1> QED
  BY <1>2, <1>3, <1>4, <1>5

LEMMA StartAsked ==
  ASSUME IInv, Start
  PROVE  AskedInv'
<1>1. world' = world
  BY DEF Start
<1>2. /\ Parsed(store)
      /\ world.binding \in [workspaceID : Maybe(WorkspaceIDs), productID : Maybe(Products)]
      /\ Given("workspaceID") \in Maybe(WorkspaceIDs)
  BY WorldTypes DEF IInv
<1>3. CASE OverrideToken
  <2>1. ~WithoutToken /\ pc' = "done"
    BY <1>3 DEF OverrideToken, WithoutToken, Fail, Return
  <2> QED
    BY <1>1, <2>1, WorldKept DEF AskedInv
<1>4. CASE OverrideWorkspace
  <2>1. Given("workspaceID") \in WorkspaceIDs /\ world.binding.productID \in Maybe(Products)
        /\ GivenBy("workspaceID") \in Sources
    BY <1>2, <1>4 DEF OverrideWorkspace, Maybe, GivenBy, Sources
  <2> QED
    BY <1>1, <1>4, <2>1, TokenAsked DEF OverrideWorkspace
<1>5. CASE NotLoggedIn
  BY <1>5, NotDoneAsked DEF NotLoggedIn, Fail, Return
<1>6. CASE BoundToWorkspace
  <2>1. world.binding.workspaceID \in WorkspaceIDs /\ world.binding.productID \in Maybe(Products)
    BY <1>2, <1>6 DEF BoundToWorkspace, Maybe
  <2> QED
    BY <1>1, <1>6, <2>1, TokenAsked DEF BoundToWorkspace, Sources
<1>7. CASE BoundToProduct
  <2> DEFINE p == world.binding.productID
             W == ProductTokenWorkspaces(store, p)
  <2>1. CASE W # {} /\ TokenForWorkspace(FirstOf(W), "product-token", p)
    <3>1. W \in SUBSET Nat /\ W \subseteq WorkspaceIDs
      BY <1>2, StoreTypes DEF ProductTokenWorkspaces
    <3>2. FirstOf(W) \in WorkspaceIDs
      BY <2>1, <3>1, FirstOfIsLeast
    <3>3. p \in Maybe(Products)
      BY <1>2
    <3> QED
      BY <1>1, <2>1, <3>2, <3>3, TokenAsked DEF Sources
  <2>2. CASE Enter("probe", DistinctLogins(store))
    BY <2>2, NotDoneAsked DEF Enter
  <2> QED
    BY <1>7, <2>1, <2>2 DEF BoundToProduct
<1>8. CASE Unbound
  BY <1>8, NotDoneAsked DEF Unbound, StartGather, Enter
<1> QED
  BY <1>3, <1>4, <1>5, <1>6, <1>7, <1>8 DEF Start

LEMMA LoopEndAsked ==
  ASSUME IInv, AskedInv, ProductNotVisible \/ LookupDone \/ GatherDone \/ NobodyListsIt
  PROVE  AskedInv'
<1>1. world' = world /\ faulty' = faulty
  BY DEF ProductNotVisible, LookupDone, GatherDone, NobodyListsIt
<1>2. candidates \in SUBSET Products /\ found \in SUBSET WorkspaceIDs
  BY DEF IInv, TypeOK
<1>3. CASE ProductNotVisible
  BY <1>3, NotDoneAsked DEF ProductNotVisible, Fail, Return
<1>4. CASE LookupDone
  <2>1. CASE StartGather \/ Fail("E3")
    BY <2>1, NotDoneAsked DEF StartGather, Enter, Fail, Return
  <2>2. ASSUME NEW p \in candidates, TokenForWorkspace(Home[p], "repository-lookup", p)
        PROVE  AskedInv'
    BY <1>1, <1>2, <2>2, ResolveAssumption, TokenAsked DEF Maybe, Sources
  <2> QED
    BY <1>4, <2>1, <2>2 DEF LookupDone
<1>5. CASE GatherDone
  <2>1. CASE Fail("NO_LOGIN") \/ Fail("E3")
    BY <2>1, NotDoneAsked DEF Fail, Return
  <2>2. ASSUME NEW w \in found, TokenForWorkspace(w, "single-login", None)
        PROVE  AskedInv'
    BY <1>1, <1>2, <2>2, TokenAsked DEF Maybe, Sources
  <2> QED
    BY <1>5, <2>1, <2>2 DEF GatherDone
<1>6. CASE NobodyListsIt
  <2> DEFINE w == target.workspaceID
  <2>1. CASE w \in Known(store) /\ ReturnEntry(w, target.source)
    <3> DEFINE e == store.workspaces[w]
    <3>1. e \in Entry /\ LoginOf(e) \in Login /\ w \in Maybe(WorkspaceIDs)
          /\ target.source \in Sources
      BY <1>6, <2>1, WorldTypes, StoreTypes DEF NobodyListsIt, IInv, PlaceInv, Maybe
    <3>2. e.productID \in Maybe(Products)
      BY <3>1 DEF Entry, Maybe
    <3>3. pc' = "done" /\ outcome' = Resolved(LoginOf(e), w, target.source, e.productID)
      BY <2>1 DEF ReturnEntry, Return
    <3> HIDE DEF e
    <3>4. outcome'.workspaceID = w
      BY <3>1, <3>2, <3>3, ResolvedShape
    <3>5. faulty \/ PersonalMembers(w) = {}
      BY <1>6 DEF NobodyListsIt, AskedInv, PersonalMembers
    <3> QED
      BY <1>1, <3>3, <3>4, <3>5, WorldKept DEF AskedInv
  <2>2. CASE Fail("E1")
    BY <2>2, NotDoneAsked DEF Fail, Return
  <2> QED
    BY <1>6, <2>1, <2>2 DEF NobodyListsIt
<1> QED
  BY <1>3, <1>4, <1>5, <1>6

LEMMA Asked ==
  ASSUME OnePage
  PROVE  Spec => []AskedInv
<1>1. Init => AskedInv
  BY DEF Init, AskedInv, ResolvedOutcome
<1>2. ASSUME IInv, AskedInv, [Next]_vars
      PROVE  AskedInv'
  <2>1. CASE Start
    BY <1>2, <2>1, StartAsked
  <2>2. CASE AskLogin
    BY <1>2, <2>2, LoopAsked DEF AskLogin
  <2>3. CASE ProductNotVisible \/ LookupDone \/ GatherDone \/ NobodyListsIt
    BY <1>2, <2>3, LoopEndAsked
  <2>4. CASE UNCHANGED vars
    <3>1. world' = world /\ pc' = pc /\ todo' = todo /\ target' = target /\ faulty' = faulty
          /\ outcome' = outcome
      BY <2>4 DEF vars, progress
    <3>2. ResolvedOutcome' = ResolvedOutcome
      BY <3>1 DEF ResolvedOutcome
    <3> QED
      BY <1>2, <3>1, <3>2, WorldKept DEF AskedInv
  <2> QED
    BY <1>2, <2>1, <2>2, <2>3, <2>4 DEF Next
<1> QED
  BY <1>1, <1>2, InductiveInvariant, PTL DEF Spec

(* When every account's workspaces fit on a page, a workspace is served    *)
(* with its stored credentials or those of a member, and with another      *)
(* product's token only when no account was found.                         *)
THEOREM CredentialsFit ==
  ASSUME OnePage
  PROVE  Spec => []CredentialFits
<1>1. IInv /\ AskedInv => CredentialFits
  BY DEF IInv, ResultInv, Serves, AskedInv, CredentialFits
<1> QED
  BY <1>1, Asked, InductiveInvariant, PTL

(* A step that ends without a failure, or with another one, says nothing   *)
(* of the accounts.                                                        *)
LEMMA NoE1 ==
  ASSUME \/ pc' # "done"
         \/ \E l, w, source, p : outcome' = Resolved(l, w, source, p)
         \/ \E code, u : code # "E1" /\ outcome' = [code |-> code, unreachable |-> u]
  PROVE  E1IsTrue'
<1>1. \A l, w, source, p : "code" \notin DOMAIN Resolved(l, w, source, p)
  BY DEF Resolved
<1> QED
  BY <1>1 DEF E1IsTrue, ResolvedOutcome

LEMMA TokenNoE1 ==
  ASSUME NEW w, NEW source, NEW p, TokenForWorkspace(w, source, p)
  PROVE  E1IsTrue'
BY NoE1 DEF TokenForWorkspace, ReturnEntry, Return, Enter

(* The text of E1, "none of your logged-in accounts is a member", is true  *)
(* when every request was answered and no account has more workspaces than *)
(* a page holds: what makes it false is only the page.                     *)
THEOREM E1IsTrueOnOnePage ==
  ASSUME OnePage
  PROVE  Spec => []E1IsTrue
<1>1. Init => E1IsTrue
  BY DEF Init, E1IsTrue
<1>2. ASSUME IInv, AskedInv, E1IsTrue, [Next]_vars
      PROVE  E1IsTrue'
  <2>1. CASE Start
    <3>1. CASE OverrideToken
      BY <3>1, NoE1 DEF OverrideToken, Fail, Return
    <3>2. CASE NotLoggedIn
      BY <3>2, NoE1 DEF NotLoggedIn, Fail, Return
    <3>3. CASE BoundToProduct \/ Unbound
      BY <3>3, NoE1, TokenNoE1 DEF BoundToProduct, Unbound, StartGather, Enter
    <3> QED
      BY <2>1, <3>1, <3>2, <3>3, TokenNoE1 DEF Start, OverrideWorkspace, BoundToWorkspace
  <2>2. ASSUME NEW l \in todo,
               ProbeProduct(l) \/ LookupRepository(l) \/ GatherWorkspaces(l) \/ AskMembership(l)
        PROVE  E1IsTrue'
    <3>1. \/ pc' # "done"
          \/ \E w, source, p : TokenForWorkspace(w, source, p)
          \/ \E w, source, p : Return(Resolved(l, w, source, p))
      BY <2>2 DEF ProbeProduct, LookupRepository, GatherWorkspaces, AskMembership, Skip,
                  StartGather, Enter
    <3> QED
      BY <3>1, NoE1, TokenNoE1 DEF Return
  <2>3. CASE ProductNotVisible
    BY <2>3, NoE1 DEF ProductNotVisible, Fail, Return
  <2>4. CASE LookupDone
    BY <2>4, NoE1, TokenNoE1 DEF LookupDone, StartGather, Enter, Fail, Return
  <2>5. CASE GatherDone
    BY <2>5, NoE1, TokenNoE1 DEF GatherDone, Fail, Return
  <2>6. CASE NobodyListsIt
    <3>1. CASE target.workspaceID \in Known(store)
      BY <2>6, <3>1, NoE1 DEF NobodyListsIt, ReturnEntry, Return
    <3>2. CASE target.workspaceID \notin Known(store)
      <4>1. world' = world /\ target' = target /\ faulty' = faulty
        BY <2>6 DEF NobodyListsIt
      <4>2. faulty \/ PersonalMembers(target.workspaceID) = {}
        BY <1>2, <2>6 DEF NobodyListsIt, AskedInv, PersonalMembers
      <4> QED
        BY <4>1, <4>2, WorldKept DEF E1IsTrue
    <3> QED
      BY <3>1, <3>2
  <2>7. CASE UNCHANGED vars
    BY <1>2, <2>7, WorldKept DEF vars, progress, E1IsTrue, ResolvedOutcome
  <2> QED
    BY <1>2, <2>1, <2>2, <2>3, <2>4, <2>5, <2>6, <2>7 DEF Next, AskLogin
<1> QED
  BY <1>1, <1>2, Asked, InductiveInvariant, PTL DEF Spec

-----------------------------------------------------------------------------
(* The ladder gets on                                                      *)

(* How far down the ladder a place is: it is never gone up.                *)
Rung(place) ==
  CASE place = "start"   -> 0
    [] place = "probe"   -> 1
    [] place = "lookup"  -> 2
    [] place = "gather"  -> 3
    [] place = "members" -> 4
    [] place = "done"    -> 5

(* Every step goes down a rung or leaves one login less to be asked in the *)
(* loop it is in; and while there is one, the next to be asked is one of   *)
(* them.                                                                   *)
GetsOn ==
  \/ Rung(pc) < Rung(pc')
  \/ pc' = pc /\ todo' \subseteq todo /\ todo' # todo

NextIsOne == todo # {} => First(store, todo) \in todo

LEMMA SkipGetsOn ==
  ASSUME NEW l \in todo, Skip(l)
  PROVE  GetsOn
BY DEF Skip, GetsOn

LEMMA ReturnGetsOn ==
  ASSUME pc \in {"start"} \cup Loops, NEW o, Return(o)
  PROVE  GetsOn
BY DEF Return, GetsOn, Rung, Loops

LEMMA TokenGetsOn ==
  ASSUME pc \in {"start", "probe", "lookup", "gather"}, NEW w, NEW source, NEW p,
         TokenForWorkspace(w, source, p)
  PROVE  GetsOn
<1>1. CASE ReturnEntry(w, source)
  BY <1>1, ReturnGetsOn DEF ReturnEntry, Loops
<1>2. CASE pc' = "members"
  BY <1>2 DEF GetsOn, Rung
<1> QED
  BY <1>1, <1>2 DEF TokenForWorkspace, Enter

(* The ladder never goes back to a rule it has left and never asks a login *)
(* twice in one loop, so that with the finitely many logins of a file it   *)
(* has only so many steps to take; and no loop is stuck on a login that is *)
(* not one of its own.                                                     *)
THEOREM LadderGetsOn == Spec => [][GetsOn]_vars /\ []NextIsOne
<1>1. ASSUME IInv, Next
      PROVE  GetsOn
  <2>1. CASE Start
    <3>1. pc = "start"
      BY <2>1 DEF Start
    <3>2. CASE OverrideToken \/ NotLoggedIn
      BY <3>1, <3>2, ReturnGetsOn DEF OverrideToken, NotLoggedIn, Fail
    <3>3. CASE pc' \in {"probe", "lookup", "gather"}
      BY <3>1, <3>3 DEF GetsOn, Rung
    <3> QED
      BY <2>1, <3>1, <3>2, <3>3, TokenGetsOn
      DEF Start, OverrideWorkspace, BoundToWorkspace, BoundToProduct, Unbound, StartGather, Enter
  <2>2. ASSUME NEW l \in todo, ProbeProduct(l) PROVE GetsOn
    BY <2>2, SkipGetsOn, TokenGetsOn DEF ProbeProduct
  <2>3. ASSUME NEW l \in todo, LookupRepository(l) PROVE GetsOn
    <3>1. CASE StartGather
      BY <2>3, <3>1 DEF LookupRepository, StartGather, Enter, GetsOn, Rung
    <3> QED
      BY <2>3, <3>1, SkipGetsOn DEF LookupRepository
  <2>4. ASSUME NEW l \in todo, GatherWorkspaces(l) PROVE GetsOn
    BY <2>4, SkipGetsOn DEF GatherWorkspaces
  <2>5. ASSUME NEW l \in todo, AskMembership(l) PROVE GetsOn
    <3>1. pc \in Loops
      BY <2>5 DEF AskMembership, Loops
    <3> QED
      BY <2>5, <3>1, SkipGetsOn, ReturnGetsOn DEF AskMembership
  <2>6. CASE ProductNotVisible
    BY <2>6, ReturnGetsOn DEF ProductNotVisible, Fail, Loops
  <2>7. CASE LookupDone
    <3>1. pc = "lookup" /\ pc \in Loops
      BY <2>7 DEF LookupDone, Loops
    <3>2. CASE StartGather
      BY <3>1, <3>2 DEF StartGather, Enter, GetsOn, Rung
    <3> QED
      BY <2>7, <3>1, <3>2, TokenGetsOn, ReturnGetsOn DEF LookupDone, Fail
  <2>8. CASE GatherDone
    <3>1. pc = "gather" /\ pc \in Loops
      BY <2>8 DEF GatherDone, Loops
    <3> QED
      BY <2>8, <3>1, TokenGetsOn, ReturnGetsOn DEF GatherDone, Fail
  <2>9. CASE NobodyListsIt
    BY <2>9, ReturnGetsOn DEF NobodyListsIt, ReturnEntry, Fail, Loops
  <2> QED
    BY <1>1, <2>1, <2>2, <2>3, <2>4, <2>5, <2>6, <2>7, <2>8, <2>9 DEF Next, AskLogin
<1>2. IInv => NextIsOne
  BY WorldTypes, FirstIsOne DEF IInv, TypeOK, NextIsOne
<1> QED
  BY <1>1, <1>2, InductiveInvariant, PTL DEF Spec

-----------------------------------------------------------------------------
(* The README's rules                                                      *)

Visible == UNION {RepositoryCandidates(l) : l \in DistinctLogins(store)}

Gathered(logins) == Known(store) \cup UNION {world.member[l] : l \in logins}

(* The one workspace the rules leave.                                      *)
Sole(w) == \E c \in Choices : Choices = {c} /\ c[1] = w

(* While every request has been answered: what is known of the logins that *)
(* have been asked, and that the workspace decided on is the only choice.  *)
LadderInv ==
  /\ pc = "start" => candidates = {}
  /\ pc \in {"probe", "lookup", "gather"} => HasAnyLogin(store)
  /\ pc = "members" => HasAnyLogin(store) \/ Given("workspaceID") # None
  /\ pc = "probe" /\ ~faulty =>
       \A l \in DistinctLogins(store) \ todo : ~Sees(l, world.binding.productID)
  /\ pc = "lookup" /\ ~faulty =>
       candidates = UNION {RepositoryCandidates(l) : l \in DistinctLogins(store) \ todo}
  /\ pc = "gather" => todo \subseteq store.loose
  /\ pc = "gather" /\ ~faulty =>
       /\ found = Gathered(store.loose \ todo)
       /\ world.repository = None \/ Visible = {}
  /\ pc = "members" /\ ~faulty => Sole(target.workspaceID)
  /\ LadderFollowed

LEMMA ChoicesWhenUnbound ==
  ASSUME Named = None, ~Bound, WorldInv
  PROVE  /\ world.repository # None /\ Visible # {} => Choices = {<<Home[q], q>> : q \in Visible}
         /\ world.repository = None \/ Visible = {}
              => Choices = {<<w, None>> : w \in Gathered(store.loose)}
<1>1. Given("workspaceID") = None /\ world.binding.workspaceID = None
  BY DEF Named
<1>2. world.binding.productID = None
  BY <1>1, WorldTypes DEF Bound
<1> QED
  BY <1>1, <1>2 DEF Choices, Visible, Gathered

LEMMA SoleChoice ==
  ASSUME NEW w, Sole(w)
  PROVE  Choices # {} /\ Cardinality(Choices) = 1
BY FS_Singleton DEF Sole

(* Two candidates that lead to different choices are two choices.          *)
LEMMA ManyChoices ==
  ASSUME NEW S, IsFiniteSet(S), Cardinality(S) > 1, NEW T,
         NEW f \in [S -> T], \A x, y \in S : f[x] = f[y] => x = y,
         \A t \in T : \E x \in S : f[x] = t
  PROVE  T # {} /\ Cardinality(T) > 1
<1>1. PICK a, b \in S : a # b
  <2>1. S # {} /\ Cardinality(S) # 1
    BY FS_EmptySet, FS_CardinalityType
  <2>2. PICK a \in S : TRUE
    BY <2>1
  <2>3. S # {a}
    BY <2>1, FS_Singleton
  <2> QED
    BY <2>2, <2>3
<1>2. f[a] \in T /\ f[b] \in T /\ f[a] # f[b]
  BY <1>1
<1>3. Cardinality({f[a], f[b]}) = 2
  <2>1. Cardinality({f[a]}) = 1 /\ IsFiniteSet({f[a]})
    BY FS_Singleton
  <2>2. Cardinality({f[a]} \cup {f[b]}) = Cardinality({f[a]}) + 1
    BY <1>2, <2>1, FS_AddElement
  <2>3. {f[a]} \cup {f[b]} = {f[a], f[b]}
    OBVIOUS
  <2> QED
    BY <2>1, <2>2, <2>3
<1>4. IsFiniteSet(T)
  <2>1. f \in Surjection(S, T)
    BY DEF Surjection
  <2> QED
    BY <2>1, FS_Surjection
<1>5. Cardinality({f[a], f[b]}) <= Cardinality(T)
  BY <1>2, <1>4, FS_Subset
<1> QED
  BY <1>2, <1>3, <1>4, <1>5, FS_CardinalityType

LEMMA LadderWorldKept ==
  ASSUME world' = world
  PROVE  /\ Visible' = Visible /\ HasAnyLogin(store)' = HasAnyLogin(store)
         /\ Given("workspaceID")' = Given("workspaceID")
         /\ \A S : Gathered(S)' = Gathered(S)
         /\ \A w : Sole(w)' = Sole(w)
         /\ \A l, p : Sees(l, p)' = Sees(l, p)
         /\ \A l : RepositoryCandidates(l)' = RepositoryCandidates(l)
<1>1. store' = store /\ Choices' = Choices /\ \A l : IsProductLogin(l)' = IsProductLogin(l)
  BY WorldKept
<1>2. \A l, p : Sees(l, p)' = Sees(l, p)
  BY <1>1 DEF Sees, TokenProduct
<1>3. \A l : RepositoryCandidates(l)' = RepositoryCandidates(l)
  BY <1>2 DEF RepositoryCandidates
<1>4. Visible' = Visible
  BY <1>1, <1>3 DEF Visible
<1> QED
  BY <1>1, <1>2, <1>3, <1>4 DEF Gathered, Sole, Given

(* The code of a failure when every request was answered.                  *)
Expected ==
  CASE Choices = {} -> IF world.binding.productID # None /\ HasAnyLogin(store)
                       THEN "E2" ELSE "NO_LOGIN"
    [] Cardinality(Choices) > 1 -> "E3"
    [] OTHER -> IF HasAnyLogin(store) \/ Given("workspaceID") # None
                THEN "E1" ELSE "NO_LOGIN"

LEMMA ExpectedCodes ==
  /\ Choices = {} => Expected = IF world.binding.productID # None /\ HasAnyLogin(store)
                                THEN "E2" ELSE "NO_LOGIN"
  /\ Choices # {} /\ Cardinality(Choices) > 1 => Expected = "E3"
  /\ (\E w : Sole(w)) => Expected = IF HasAnyLogin(store) \/ Given("workspaceID") # None
                                   THEN "E1" ELSE "NO_LOGIN"
<1>1. Choices = {} /\ ~(Cardinality(Choices) > 1) => Expected = IF world.binding.productID # None /\ HasAnyLogin(store)
                                THEN "E2" ELSE "NO_LOGIN"
  BY DEF Expected
<1>2. Choices # {} /\ Cardinality(Choices) > 1 => Expected = "E3"
  BY DEF Expected
<1>3. Choices # {} /\ ~(Cardinality(Choices) > 1) =>
        Expected = IF HasAnyLogin(store) \/ Given("workspaceID") # None THEN "E1" ELSE "NO_LOGIN"
  BY DEF Expected
<1>4. Choices = {} => ~(Cardinality(Choices) > 1)
  BY FS_EmptySet
<1>5. (\E w : Sole(w)) => Choices # {} /\ ~(Cardinality(Choices) > 1)
  BY SoleChoice
<1> QED
  BY <1>1, <1>2, <1>3, <1>4, <1>5

LEMMA ResolvedFollows ==
  ASSUME IInv, world' = world, pc' = "done", NEW l \in Login, NEW w \in Maybe(WorkspaceIDs),
         NEW source \in Sources, NEW p \in Maybe(Products),
         outcome' = Resolved(l, w, source, p),
         WithoutToken /\ ~faulty' => Sole(w)
  PROVE  LadderInv'
<1>1. outcome'.workspaceID = w /\ outcome' \in Results
  BY ResolvedShape
<1>2. ResolvedOutcome'
  BY <1>1 DEF ResolvedOutcome, Results
<1>3. WithoutToken' = WithoutToken /\ Choices' = Choices
  BY WorldKept
<1>4. LadderFollowed'
  BY <1>1, <1>2, <1>3 DEF LadderFollowed, Sole
<1> QED
  BY <1>4 DEF LadderInv

LEMMA FailureFollows ==
  ASSUME IInv, world' = world, NEW code, Fail(code),
         WithoutToken /\ ~faulty' => code = Expected
  PROVE  LadderInv'
<1>1. pc' = "done" /\ outcome' = [code |-> code, unreachable |-> unreachable]
  BY DEF Fail, Return
<1>2. ~ResolvedOutcome' /\ outcome'.code = code
  BY <1>1, FailureShape DEF ResolvedOutcome
<1>3. WithoutToken' = WithoutToken /\ Choices' = Choices /\ HasAnyLogin(store)' = HasAnyLogin(store)
      /\ Given("workspaceID")' = Given("workspaceID")
  BY WorldKept, LadderWorldKept
<1>4. LadderFollowed'
  BY <1>2, <1>3 DEF LadderFollowed, Expected
<1> QED
  BY <1>1, <1>4 DEF LadderInv

LEMMA TokenFollows ==
  ASSUME IInv, world' = world, NEW w \in WorkspaceIDs, NEW source \in Sources,
         NEW p \in Maybe(Products), TokenForWorkspace(w, source, p),
         HasAnyLogin(store) \/ Given("workspaceID") # None,
         ~faulty' => Sole(w)
  PROVE  LadderInv'
<1>1. target' = [workspaceID |-> w, source |-> source, productID |-> p]
  BY DEF TokenForWorkspace
<1>2. CASE Suits(w, p) /\ ReturnEntry(w, source)
  <2> DEFINE e == store.workspaces[w]
  <2>1. e \in Entry /\ LoginOf(e) \in Login
    BY <1>2, WorldTypes, StoreTypes DEF IInv, Suits
  <2>2. e.productID \in Maybe(Products) /\ w \in Maybe(WorkspaceIDs)
    BY <2>1 DEF Entry, Maybe
  <2>3. pc' = "done" /\ outcome' = Resolved(LoginOf(e), w, source, e.productID)
    BY <1>2 DEF ReturnEntry, Return
  <2> HIDE DEF e
  <2> QED
    BY <2>1, <2>2, <2>3, ResolvedFollows
<1>3. CASE Enter("members", {l \in DistinctLogins(store) : ~IsProductLogin(l)})
  <2>1. pc' = "members"
    BY <1>3 DEF Enter
  <2> QED
    BY <1>1, <2>1, LadderWorldKept DEF LadderInv, LadderFollowed
<1> QED
  BY <1>2, <1>3 DEF TokenForWorkspace

LEMMA StartFollows ==
  ASSUME IInv, LadderInv, Start
  PROVE  LadderInv'
<1>1. world' = world /\ faulty' = faulty /\ candidates = {}
  BY DEF Start, LadderInv
<1>2. /\ Parsed(store)
      /\ world.binding \in [workspaceID : Maybe(WorkspaceIDs), productID : Maybe(Products)]
      /\ Given("workspaceID") \in Maybe(WorkspaceIDs)
  BY WorldTypes DEF IInv
<1>3. CASE OverrideToken
  <2>1. ~WithoutToken /\ pc' = "done"
    BY <1>3 DEF OverrideToken, WithoutToken, Fail, Return
  <2> QED
    BY <1>1, <2>1, WorldKept DEF LadderInv, LadderFollowed
<1>4. CASE OverrideWorkspace
  <2>1. Given("workspaceID") \in WorkspaceIDs /\ world.binding.productID \in Maybe(Products)
        /\ GivenBy("workspaceID") \in Sources /\ Given("workspaceID") # None
    BY <1>2, <1>4 DEF OverrideWorkspace, Maybe, GivenBy, Sources
  <2>2. Sole(Given("workspaceID"))
    BY <2>1 DEF Choices, Sole
  <2> QED
    BY <1>1, <1>4, <2>1, <2>2, TokenFollows DEF OverrideWorkspace
<1>5. ASSUME NotLoggedIn
      PROVE  Expected = "NO_LOGIN"
  <2>1. ~HasAnyLogin(store) /\ Given("workspaceID") = None
        /\ Known(store) = {} /\ store.loose = {} /\ DistinctLogins(store) = {}
    BY <1>5 DEF NotLoggedIn, NoOverride, HasAnyLogin, DistinctLogins
  <2>2. CASE world.binding.workspaceID # None
    <3>1. Sole(world.binding.workspaceID)
      BY <2>1, <2>2 DEF Choices, Sole
    <3> QED
      BY <2>1, <3>1, ExpectedCodes
  <2>3. CASE world.binding.workspaceID = None
    <3>1. ProductTokenWorkspaces(store, world.binding.productID) = {} /\ Visible = {}
          /\ Gathered(store.loose) = {}
      BY <2>1 DEF ProductTokenWorkspaces, Visible, Gathered
    <3>2. Choices = {}
      <4>1. CASE world.binding.productID # None
        BY <2>1, <2>3, <3>1, <4>1 DEF Choices
      <4>2. CASE world.binding.productID = None
        BY <2>1, <2>3, <3>1, <4>2 DEF Choices, Visible, Gathered
      <4> QED
        BY <4>1, <4>2
    <3> QED
      BY <2>1, <3>2, ExpectedCodes
  <2> QED
    BY <2>2, <2>3
<1>6. CASE NotLoggedIn
  BY <1>1, <1>5, <1>6, FailureFollows DEF NotLoggedIn
<1>7. CASE BoundToWorkspace
  <2>1. world.binding.workspaceID \in WorkspaceIDs /\ world.binding.productID \in Maybe(Products)
        /\ Given("workspaceID") = None /\ world.binding.workspaceID # None /\ HasAnyLogin(store)
    BY <1>2, <1>7 DEF BoundToWorkspace, NoOverride, Maybe
  <2>2. Sole(world.binding.workspaceID)
    BY <2>1 DEF Choices, Sole
  <2> QED
    BY <1>1, <1>7, <2>1, <2>2, TokenFollows DEF BoundToWorkspace, Sources
<1>8. CASE BoundToProduct
  <2> DEFINE p == world.binding.productID
             W == ProductTokenWorkspaces(store, p)
  <2>1. HasAnyLogin(store) /\ Given("workspaceID") = None /\ world.binding.workspaceID = None
        /\ p # None /\ p \in Maybe(Products)
    BY <1>2, <1>8 DEF BoundToProduct, NoOverride
  <2>2. CASE W # {} /\ TokenForWorkspace(FirstOf(W), "product-token", p)
    <3>1. W \in SUBSET Nat /\ W \subseteq WorkspaceIDs
      BY <1>2, StoreTypes DEF ProductTokenWorkspaces
    <3>2. FirstOf(W) \in WorkspaceIDs
      BY <2>2, <3>1, FirstOfIsLeast
    <3>3. Choices = {<<FirstOf(W), p>>}
      BY <2>1, <2>2 DEF Choices
    <3>4. Sole(FirstOf(W))
      BY <3>3 DEF Sole
    <3> QED
      BY <1>1, <2>1, <2>2, <3>2, <3>4, TokenFollows DEF Sources
  <2>3. CASE Enter("probe", DistinctLogins(store))
    <3>1. pc' = "probe" /\ todo' = DistinctLogins(store)
      BY <2>3 DEF Enter
    <3> QED
      BY <1>1, <2>1, <3>1, LadderWorldKept, WorldKept DEF LadderInv, LadderFollowed
  <2> QED
    BY <1>8, <2>2, <2>3 DEF BoundToProduct
<1>9. CASE Unbound
  <2>1. HasAnyLogin(store)
    BY <1>9 DEF Unbound
  <2>2. CASE Enter("lookup", DistinctLogins(store))
    <3>1. pc' = "lookup" /\ todo' = DistinctLogins(store) /\ candidates' = {}
      BY <1>1, <1>9, <2>2 DEF Unbound, Enter
    <3>2. (UNION {RepositoryCandidates(l) : l \in DistinctLogins(store) \ todo})' = {}
      BY <1>1, <3>1, WorldKept
    <3> QED
      BY <1>1, <2>1, <3>1, <3>2, LadderWorldKept, WorldKept DEF LadderInv, LadderFollowed
  <2>3. CASE world.repository = None /\ StartGather
    <3>1. pc' = "gather" /\ todo' = store.loose /\ found' = Known(store)
      BY <2>3 DEF StartGather, Enter
    <3>2. Gathered({}) = Known(store)
      BY DEF Gathered
    <3>3. Gathered(store.loose \ todo)' = Known(store)
      <4>1. (store.loose \ todo)' = {}
        BY <1>1, <3>1, WorldKept
      <4> QED
        BY <1>1, <3>2, <4>1, LadderWorldKept DEF Gathered
    <3> QED
      BY <1>1, <2>1, <2>3, <3>1, <3>3, LadderWorldKept, WorldKept DEF LadderInv, LadderFollowed
  <2> QED
    BY <1>9, <2>2, <2>3 DEF Unbound
<1> QED
  BY <1>3, <1>4, <1>6, <1>7, <1>8, <1>9 DEF Start

(* A step within a loop decides nothing.                                   *)
LEMMA LoopGoesOn ==
  ASSUME IInv, LadderInv, world' = world, NEW l \in todo, Skip(l), pc \in Loops,
         pc = "probe" /\ ~faulty' => ~faulty /\ ~Sees(l, world.binding.productID),
         pc = "lookup" /\ ~faulty' =>
           ~faulty /\ candidates' = candidates \cup RepositoryCandidates(l),
         pc = "gather" /\ ~faulty' => ~faulty /\ found' = found \cup world.member[l],
         pc = "members" /\ ~faulty' => ~faulty
  PROVE  LadderInv'
<1>1. pc' = pc /\ todo' = todo \ {l} /\ target' = target /\ pc' \notin {"start", "done"}
  BY DEF Skip, Loops
<1>2. l \in DistinctLogins(store)
  BY DEF IInv, TypeOK
<1>3. (DistinctLogins(store) \ todo)' = (DistinctLogins(store) \ todo) \cup {l}
  BY <1>1, <1>2, WorldKept
<1>4. pc = "probe" /\ ~faulty' =>
        \A m \in (DistinctLogins(store) \ todo)' : ~Sees(m, world.binding.productID)
  BY <1>3 DEF LadderInv
<1>5. pc = "lookup" /\ ~faulty' =>
        candidates' = UNION {RepositoryCandidates(m) : m \in (DistinctLogins(store) \ todo)'}
  BY <1>3 DEF LadderInv
<1>6. pc = "gather" /\ ~faulty' =>
        /\ found' = Gathered((store.loose \ todo)')
        /\ world.repository = None \/ Visible = {}
  <2> SUFFICES ASSUME pc = "gather", ~faulty'
               PROVE  found' = Gathered((store.loose \ todo)')
    BY DEF LadderInv
  <2>1. found = Gathered(store.loose \ todo) /\ found' = found \cup world.member[l]
    BY DEF LadderInv
  <2>2. l \in store.loose
    BY DEF LadderInv
  <2>3. (store.loose \ todo)' = (store.loose \ todo) \cup {l}
    BY <1>1, <2>2, WorldKept
  <2> QED
    BY <2>1, <2>3 DEF Gathered
<1>7. ~(pc' = "done") /\ LadderFollowed'
  BY <1>1 DEF LadderFollowed
<1>8. (\A m \in DistinctLogins(store) \ todo : ~Sees(m, world.binding.productID))'
        = \A m \in (DistinctLogins(store) \ todo)' : ~Sees(m, world.binding.productID)
  BY LadderWorldKept
<1>9. (UNION {RepositoryCandidates(m) : m \in DistinctLogins(store) \ todo})'
        = UNION {RepositoryCandidates(m) : m \in (DistinctLogins(store) \ todo)'}
  BY LadderWorldKept
<1>10. Gathered(store.loose \ todo)' = Gathered((store.loose \ todo)')
  BY WorldKept DEF Gathered
<1>11. CASE pc = "probe"
  <2>1. HasAnyLogin(store)'
    BY <1>11, LadderWorldKept DEF LadderInv
  <2> QED
    BY <1>1, <1>4, <1>7, <1>8, <1>11, <2>1 DEF LadderInv
<1>12. CASE pc = "lookup"
  <2>1. HasAnyLogin(store)'
    BY <1>12, LadderWorldKept DEF LadderInv
  <2> QED
    BY <1>1, <1>5, <1>7, <1>9, <1>12, <2>1 DEF LadderInv
<1>13. CASE pc = "gather"
  <2>1. HasAnyLogin(store)' /\ todo' \subseteq store.loose'
    BY <1>1, <1>13, LadderWorldKept, WorldKept DEF LadderInv
  <2>2. Visible' = Visible
    BY LadderWorldKept
  <2> QED
    BY <1>1, <1>6, <1>7, <1>10, <1>13, <2>1, <2>2 DEF LadderInv
<1>14. CASE pc = "members"
  <2>1. HasAnyLogin(store)' \/ Given("workspaceID")' # None
    BY <1>14, LadderWorldKept DEF LadderInv
  <2>2. ~faulty' => Sole(target.workspaceID)'
    BY <1>1, <1>14, LadderWorldKept DEF LadderInv
  <2> QED
    BY <1>1, <1>7, <1>14, <2>1, <2>2 DEF LadderInv
<1> QED
  BY <1>11, <1>12, <1>13, <1>14 DEF Loops

LEMMA LoopFollows ==
  ASSUME IInv, LadderInv, OnePage, NEW l \in todo,
         ProbeProduct(l) \/ LookupRepository(l) \/ GatherWorkspaces(l) \/ AskMembership(l)
  PROVE  LadderInv'
<1>1. world' = world
  BY DEF ProbeProduct, LookupRepository, GatherWorkspaces, AskMembership, Asking
<1>2. l \in DistinctLogins(store) /\ l \in Login
  BY WorldTypes, StoreTypes DEF IInv, TypeOK
<1>3. FirstPages(l) = {world.member[l]}
  <2>1. Cardinality(world.member[l]) <= PageSize
    BY <1>2 DEF OnePage, IInv, WorldInv
  <2> QED
    BY <2>1 DEF FirstPages
<1>4. CASE ProbeProduct(l)
  <2> DEFINE p == world.binding.productID
  <2>1. Named = None /\ p # None /\ Undecided /\ HasAnyLogin(store)
    BY <1>4 DEF ProbeProduct, IInv, PlaceInv, Loops, LadderInv
  <2>2. p \in Products /\ p \in Maybe(Products) /\ Home[p] \in WorkspaceIDs
    BY <2>1, WorldTypes, ResolveAssumption DEF IInv, Maybe
  <2>3. CASE Skip(l) /\ (~faulty' => ~faulty /\ ~Sees(l, p))
    BY <1>1, <1>4, <2>3, LoopGoesOn DEF ProbeProduct, Loops
  <2>4. CASE Sees(l, p) /\ TokenForWorkspace(Home[p], "product-probe", p)
    <3>1. ProductTokenWorkspaces(store, p) = {}
      BY <2>1 DEF Undecided, ProductTokenWorkspaces
    <3>2. Given("workspaceID") = None /\ world.binding.workspaceID = None
      BY <2>1 DEF Named
    <3>3. Choices = {<<Home[p], p>> : m \in {n \in DistinctLogins(store) : Sees(n, p)}}
      BY <2>1, <3>1, <3>2 DEF Choices
    <3>4. Choices = {<<Home[p], p>>}
      <4> HIDE DEF p
      <4> QED
        BY <1>2, <2>4, <3>3
    <3>5. Sole(Home[p])
      <4> HIDE DEF p
      <4> QED
        BY <3>4 DEF Sole
    <3> QED
      BY <1>1, <2>1, <2>2, <2>4, <3>5, TokenFollows DEF Sources
  <2> QED
    BY <1>4, <2>3, <2>4 DEF ProbeProduct
<1>5. CASE LookupRepository(l)
  <2>1. CASE Skip(l) /\ (~faulty' => ~faulty /\ candidates' = candidates \cup RepositoryCandidates(l))
    BY <1>1, <1>5, <2>1, LoopGoesOn DEF LookupRepository, Loops
  <2>2. CASE StartGather /\ faulty' = TRUE
    <3>1. pc' = "gather" /\ todo' = store.loose
      BY <2>2 DEF StartGather, Enter
    <3>2. HasAnyLogin(store)' /\ store' = store
      BY <1>1, <1>5, LadderWorldKept, WorldKept DEF LookupRepository, LadderInv
    <3> QED
      BY <2>2, <3>1, <3>2 DEF LadderInv, LadderFollowed
  <2>3. \/ candidates' = candidates \cup RepositoryCandidates(l) /\ Skip(l) /\ faulty' = faulty
        \/ StartGather /\ faulty' = TRUE
        \/ Skip(l) /\ faulty' = TRUE
    BY <1>5 DEF LookupRepository
  <2>4. CASE Skip(l) /\ faulty' = TRUE
    BY <2>1, <2>4
  <2>5. CASE candidates' = candidates \cup RepositoryCandidates(l) /\ Skip(l) /\ faulty' = faulty
    BY <2>1, <2>5
  <2> QED
    BY <2>2, <2>3, <2>4, <2>5
<1>6. CASE GatherWorkspaces(l)
  <2>1. Skip(l) /\ (~faulty' => ~faulty /\ found' = found \cup world.member[l])
    BY <1>3, <1>6 DEF GatherWorkspaces
  <2> QED
    BY <1>1, <1>6, <2>1, LoopGoesOn DEF GatherWorkspaces, Loops
<1>7. CASE AskMembership(l)
  <2>1. CASE Skip(l) /\ (~faulty' => ~faulty)
    BY <1>1, <1>7, <2>1, LoopGoesOn DEF AskMembership, Loops
  <2>2. CASE Return(Resolved(l, target.workspaceID, target.source, None)) /\ UNCHANGED faulty
    <3>1. target.workspaceID \in Maybe(WorkspaceIDs) /\ target.source \in Sources
      BY <1>7 DEF AskMembership, IInv, PlaceInv, Maybe
    <3>2. ~faulty' => Sole(target.workspaceID)
      BY <1>7, <2>2 DEF AskMembership, LadderInv
    <3>3. pc' = "done" /\ outcome' = Resolved(l, target.workspaceID, target.source, None)
      BY <2>2 DEF Return
    <3> QED
      BY <1>1, <1>2, <3>1, <3>2, <3>3, ResolvedFollows DEF Maybe
  <2> QED
    BY <1>7, <2>1, <2>2 DEF AskMembership
<1> QED
  BY <1>4, <1>5, <1>6, <1>7

LEMMA LoopEndFollows ==
  ASSUME IInv, LadderInv, IsFiniteSet(Products), IsFiniteSet(WorkspaceIDs),
         ProductNotVisible \/ LookupDone \/ GatherDone \/ NobodyListsIt
  PROVE  LadderInv'
<1>1. /\ world' = world /\ faulty' = faulty
      /\ candidates \in SUBSET Products /\ found \in SUBSET WorkspaceIDs
  BY DEF ProductNotVisible, LookupDone, GatherDone, NobodyListsIt, IInv, TypeOK
<1>2. world.binding \in [workspaceID : Maybe(WorkspaceIDs), productID : Maybe(Products)]
  BY WorldTypes DEF IInv
<1>3. CASE ProductNotVisible
  <2> DEFINE p == world.binding.productID
  <2>1. Named = None /\ p # None /\ Undecided /\ HasAnyLogin(store)
    BY <1>3 DEF ProductNotVisible, IInv, PlaceInv, Loops, LadderInv
  <2>2. ProductTokenWorkspaces(store, p) = {}
    BY <2>1 DEF Undecided, ProductTokenWorkspaces
  <2>3. Given("workspaceID") = None /\ world.binding.workspaceID = None
    BY <2>1 DEF Named
  <2>4. Choices = {<<Home[p], p>> : m \in {n \in DistinctLogins(store) : Sees(n, p)}}
    BY <2>1, <2>2, <2>3 DEF Choices
  <2>5. ~faulty => Choices = {}
    <3>1. ~faulty => \A n \in DistinctLogins(store) : ~Sees(n, p)
      BY <1>3 DEF ProductNotVisible, LadderInv
    <3> HIDE DEF p
    <3> QED
      BY <2>4, <3>1
  <2>6. ~faulty => Expected = "E2"
    BY <2>1, <2>5, ExpectedCodes
  <2> QED
    BY <1>1, <1>3, <2>6, FailureFollows DEF ProductNotVisible
<1>4. CASE LookupDone
  <2>1. Named = None /\ ~Bound /\ HasAnyLogin(store) /\ world.repository # None
    BY <1>4 DEF LookupDone, IInv, PlaceInv, LadderInv
  <2>2. ~faulty => candidates = Visible
    BY <1>4 DEF LookupDone, LadderInv, Visible
  <2>3. ~faulty /\ candidates # {} => Choices = {<<Home[q], q>> : q \in candidates}
    BY <2>1, <2>2, ChoicesWhenUnbound DEF IInv
  <2>4. CASE candidates = {} /\ StartGather
    <3>1. pc' = "gather" /\ todo' = store.loose /\ found' = Known(store) /\ store' = store
      BY <1>1, <2>4, WorldKept DEF StartGather, Enter
    <3>2. Gathered(store.loose \ todo)' = Known(store)
      BY <3>1 DEF Gathered
    <3>3. ~faulty => Visible' = {}
      BY <1>1, <2>2, <2>4, LadderWorldKept
    <3>4. HasAnyLogin(store)'
      BY <1>1, <2>1, LadderWorldKept
    <3> QED
      BY <1>1, <3>1, <3>2, <3>3, <3>4 DEF LadderInv, LadderFollowed
  <2>5. ASSUME NEW p \in candidates, candidates = {p},
               TokenForWorkspace(Home[p], "repository-lookup", p)
        PROVE  LadderInv'
    <3>1. p \in Maybe(Products) /\ Home[p] \in WorkspaceIDs
      BY <1>1, ResolveAssumption DEF Maybe
    <3>2. ~faulty => Choices = {<<Home[p], p>>}
      BY <2>3, <2>5
    <3>3. ASSUME ~faulty
          PROVE  Sole(Home[p])
      <4>1. Choices = {<<Home[p], p>>} /\ <<Home[p], p>>[1] = Home[p]
        BY <3>2, <3>3
      <4> QED
        BY <4>1 DEF Sole
    <3> QED
      BY <1>1, <2>1, <2>5, <3>1, <3>3, TokenFollows DEF Sources
  <2>6. CASE Cardinality(candidates) > 1 /\ Fail("E3")
    <3>1. ~faulty => Choices # {} /\ Cardinality(Choices) > 1
      <4> SUFFICES ASSUME ~faulty
                   PROVE  Choices # {} /\ Cardinality(Choices) > 1
        OBVIOUS
      <4> DEFINE f == [q \in candidates |-> <<Home[q], q>>]
      <4>1. IsFiniteSet(candidates)
        BY <1>1, FS_Subset
      <4>2. candidates # {}
        BY <2>6, FS_EmptySet
      <4>3. Choices = {<<Home[q], q>> : q \in candidates}
        BY <2>3, <4>2
      <4>4. /\ f \in [candidates -> Choices]
            /\ \A x, y \in candidates : f[x] = f[y] => x = y
            /\ \A c \in Choices : \E q \in candidates : f[q] = c
        BY <4>3
      <4> HIDE DEF f
      <4> QED
        BY <2>6, <4>1, <4>4, ManyChoices
    <3>2. ~faulty => Expected = "E3"
      BY <3>1, ExpectedCodes
    <3> QED
      BY <1>1, <2>6, <3>2, FailureFollows
  <2> QED
    BY <1>4, <2>4, <2>5, <2>6 DEF LookupDone
<1>5. CASE GatherDone
  <2>1. Named = None /\ ~Bound /\ HasAnyLogin(store)
    BY <1>5 DEF GatherDone, IInv, PlaceInv, LadderInv
  <2>2. world.binding.productID = None
    BY <1>2, <2>1 DEF Named, Bound
  <2>3. ~faulty => found = Gathered(store.loose) /\ (world.repository = None \/ Visible = {})
    <3>1. store.loose \ {} = store.loose
      OBVIOUS
    <3> QED
      BY <1>5, <3>1 DEF GatherDone, LadderInv
  <2>4. ~faulty => Choices = {<<w, None>> : w \in found}
    BY <2>1, <2>3, ChoicesWhenUnbound DEF IInv
  <2>5. CASE found = {} /\ Fail("NO_LOGIN")
    <3>1. ~faulty => Choices = {}
      BY <2>4, <2>5
    <3>2. ~faulty => Expected = "NO_LOGIN"
      BY <2>2, <3>1, ExpectedCodes
    <3> QED
      BY <1>1, <2>5, <3>2, FailureFollows
  <2>6. ASSUME NEW w \in found, found = {w}, TokenForWorkspace(w, "single-login", None)
        PROVE  LadderInv'
    <3>1. ~faulty => Choices = {<<w, None>>}
      BY <2>4, <2>6
    <3>2. ASSUME ~faulty
          PROVE  Sole(w)
      <4>1. Choices = {<<w, None>>} /\ <<w, None>>[1] = w
        BY <3>1, <3>2
      <4> QED
        BY <4>1 DEF Sole
    <3> QED
      BY <1>1, <2>1, <2>6, <3>2, TokenFollows DEF Sources, Maybe
  <2>7. CASE Cardinality(found) > 1 /\ Fail("E3")
    <3>1. ~faulty => Choices # {} /\ Cardinality(Choices) > 1
      <4> SUFFICES ASSUME ~faulty
                   PROVE  Choices # {} /\ Cardinality(Choices) > 1
        OBVIOUS
      <4> DEFINE f == [w \in found |-> <<w, None>>]
      <4>1. IsFiniteSet(found)
        BY <1>1, FS_Subset
      <4>2. /\ f \in [found -> Choices]
            /\ \A x, y \in found : f[x] = f[y] => x = y
            /\ \A c \in Choices : \E w \in found : f[w] = c
        BY <2>4
      <4> HIDE DEF f
      <4> QED
        BY <2>7, <4>1, <4>2, ManyChoices
    <3>2. ~faulty => Expected = "E3"
      BY <3>1, ExpectedCodes
    <3> QED
      BY <1>1, <2>7, <3>2, FailureFollows
  <2> QED
    BY <1>5, <2>5, <2>6, <2>7 DEF GatherDone
<1>6. CASE NobodyListsIt
  <2> DEFINE w == target.workspaceID
  <2>1. (HasAnyLogin(store) \/ Given("workspaceID") # None) /\ (~faulty => Sole(w))
    BY <1>6 DEF NobodyListsIt, LadderInv
  <2>2. CASE w \in Known(store) /\ ReturnEntry(w, target.source)
    <3> DEFINE e == store.workspaces[w]
    <3>1. e \in Entry /\ LoginOf(e) \in Login /\ w \in Maybe(WorkspaceIDs)
          /\ target.source \in Sources
      BY <1>6, <2>2, WorldTypes, StoreTypes DEF NobodyListsIt, IInv, PlaceInv, Maybe
    <3>2. e.productID \in Maybe(Products)
      BY <3>1 DEF Entry, Maybe
    <3>3. pc' = "done" /\ outcome' = Resolved(LoginOf(e), w, target.source, e.productID)
      BY <2>2 DEF ReturnEntry, Return
    <3> HIDE DEF e, w
    <3> QED
      BY <1>1, <2>1, <3>1, <3>2, <3>3, ResolvedFollows
  <2>3. CASE Fail("E1")
    <3>1. ~faulty => Expected = "E1"
      BY <2>1, ExpectedCodes
    <3> QED
      BY <1>1, <2>3, <3>1, FailureFollows
  <2> QED
    BY <1>6, <2>2, <2>3 DEF NobodyListsIt
<1> QED
  BY <1>3, <1>4, <1>5, <1>6

(* With every account's workspaces on one page, the ladder ends as the     *)
(* README's rules say whenever every request was answered.                 *)
THEOREM LadderIsFollowed ==
  ASSUME OnePage, IsFiniteSet(Products), IsFiniteSet(WorkspaceIDs)
  PROVE  Spec => []LadderFollowed
<1>1. Init => LadderInv
  BY DEF Init, LadderInv, LadderFollowed
<1>2. ASSUME IInv, LadderInv, [Next]_vars
      PROVE  LadderInv'
  <2>1. CASE Start
    BY <1>2, <2>1, StartFollows
  <2>2. CASE AskLogin
    BY <1>2, <2>2, LoopFollows DEF AskLogin
  <2>3. CASE ProductNotVisible \/ LookupDone \/ GatherDone \/ NobodyListsIt
    BY <1>2, <2>3, LoopEndFollows
  <2>4. CASE UNCHANGED vars
    <3>1. UNCHANGED <<world, pc, todo, target, candidates, found, faulty, outcome>>
      BY <2>4 DEF vars, progress
    <3>2. LadderFollowed'
      <4>1. ResolvedOutcome' = ResolvedOutcome
        BY <3>1 DEF ResolvedOutcome
      <4> QED
        BY <1>2, <3>1, <4>1, WorldKept, LadderWorldKept DEF LadderInv, LadderFollowed
    <3> QED
      BY <1>2, <3>1, <3>2, WorldKept, LadderWorldKept DEF LadderInv
  <2> QED
    BY <1>2, <2>1, <2>2, <2>3, <2>4 DEF Next
<1>3. LadderInv => LadderFollowed
  BY DEF LadderInv
<1> QED
  BY <1>1, <1>2, <1>3, InductiveInvariant, PTL DEF Spec

-----------------------------------------------------------------------------
(* What the startup line says of the result                                *)

(* The workspace is the one the source it is told with has given; of rules *)
(* that ask, a stored login has seen the product, or lists the workspace.  *)
Meant(w, source) ==
  LET p == world.binding.productID IN
  /\ source \in {"flag", "env"} =>
       w = Given("workspaceID") /\ source = GivenBy("workspaceID")
  /\ source = "repo-binding" => w = world.binding.workspaceID /\ Named = w
  /\ source = "product-token" => w \in ProductTokenWorkspaces(store, p)
  /\ source = "product-probe" => w = Home[p] /\ \E l \in DistinctLogins(store) : Sees(l, p)
  /\ source = "repository-lookup" => \E q \in Visible : w = Home[q]
  /\ source = "single-login" => w \in Gathered(store.loose)

LoginIn(o) == [baseURL |-> o.baseURL, apiToken |-> o.apiToken]

(* An explicit token is used as given, with the server that is given with  *)
(* it, or the one it is stored for.                                        *)
AsGiven(o) ==
  /\ o.apiToken = Given("apiToken") /\ o.source = GivenBy("apiToken")
  /\ IF Given("baseURL") # None THEN o.baseURL = Given("baseURL")
                                ELSE LoginIn(o) \in DistinctLogins(store)

SourceIsTrue ==
  ResolvedOutcome => IF WithoutToken THEN Meant(outcome.workspaceID, outcome.source)
                                     ELSE AsGiven(outcome)

(* No token is ever taken to another server than the one it is stored for, *)
(* unless both are given.                                                  *)
TokenStaysHome ==
  ResolvedOutcome =>
    \/ LoginIn(outcome) \in DistinctLogins(store)
    \/ LoginIn(outcome) = [baseURL |-> Given("baseURL"), apiToken |-> Given("apiToken")]

MeantInv ==
  /\ candidates \subseteq Visible
  /\ found \subseteq Gathered(store.loose)
  /\ pc = "gather" => todo \subseteq store.loose
  /\ pc = "members" => Meant(target.workspaceID, target.source)
  /\ SourceIsTrue

LEMMA MeantKept ==
  ASSUME world' = world
  PROVE  /\ \A w, source : Meant(w, source)' = Meant(w, source)
         /\ \A o : AsGiven(o)' = AsGiven(o)
<1>1. /\ store' = store /\ Named' = Named /\ Visible' = Visible
      /\ Gathered(store.loose)' = Gathered(store.loose)
      /\ \A l, p : Sees(l, p)' = Sees(l, p)
  BY WorldKept, LadderWorldKept
<1>2. /\ Given("workspaceID")' = Given("workspaceID") /\ Given("apiToken")' = Given("apiToken")
      /\ Given("baseURL")' = Given("baseURL")
      /\ GivenBy("workspaceID")' = GivenBy("workspaceID") /\ GivenBy("apiToken")' = GivenBy("apiToken")
  BY DEF Given, GivenBy
<1> QED
  BY <1>1, <1>2 DEF Meant, AsGiven, LoginIn

LEMMA MeantTogether ==
  ASSUME IInv, MeantInv, world' = world,
         candidates' \subseteq Visible, found' \subseteq Gathered(store.loose),
         pc' = "gather" => todo' \subseteq store.loose,
         pc' = "members" => Meant(target'.workspaceID, target'.source),
         pc' # "done" \/ \E code, u : outcome' = [code |-> code, unreachable |-> u]
  PROVE  MeantInv'
<1>1. ~ResolvedOutcome'
  BY FailureShape DEF ResolvedOutcome
<1> QED
  BY <1>1, WorldKept, LadderWorldKept, MeantKept DEF MeantInv, SourceIsTrue

LEMMA ReturnMeant ==
  ASSUME IInv, MeantInv, world' = world, WithoutToken, UNCHANGED <<candidates, found>>,
         NEW l, NEW w, NEW source, NEW p, Meant(w, source),
         Return(Resolved(l, w, source, p))
  PROVE  MeantInv'
<1>1. pc' = "done" /\ outcome'.workspaceID = w /\ outcome'.source = source
  BY DEF Return, Resolved
<1>2. SourceIsTrue'
  BY <1>1, WorldKept, MeantKept DEF SourceIsTrue
<1> QED
  BY <1>1, <1>2, WorldKept, LadderWorldKept DEF MeantInv

LEMMA TokenMeant ==
  ASSUME IInv, MeantInv, world' = world, WithoutToken, UNCHANGED <<candidates, found>>,
         NEW w, NEW source, NEW p, Meant(w, source), TokenForWorkspace(w, source, p)
  PROVE  MeantInv'
<1>1. CASE ReturnEntry(w, source)
  BY <1>1, ReturnMeant DEF ReturnEntry
<1>2. CASE Enter("members", {l \in DistinctLogins(store) : ~IsProductLogin(l)})
  <2>1. pc' = "members" /\ target'.workspaceID = w /\ target'.source = source
    BY <1>2 DEF TokenForWorkspace, Enter
  <2> QED
    BY <2>1, MeantTogether DEF MeantInv
<1> QED
  BY <1>1, <1>2 DEF TokenForWorkspace

LEMMA FailMeant ==
  ASSUME IInv, MeantInv, world' = world, UNCHANGED <<candidates, found>>, NEW code, Fail(code)
  PROVE  MeantInv'
BY MeantTogether DEF Fail, Return, MeantInv

LEMMA GatherMeant ==
  ASSUME IInv, MeantInv, world' = world, candidates' \subseteq Visible, StartGather
  PROVE  MeantInv'
<1>1. pc' = "gather" /\ todo' = store.loose /\ found' \subseteq Gathered(store.loose)
  BY DEF StartGather, Enter, Gathered
<1> QED
  BY <1>1, MeantTogether

LEMMA SkipMeant ==
  ASSUME IInv, MeantInv, world' = world, pc # "done",
         candidates' \subseteq Visible, found' \subseteq Gathered(store.loose), NEW l, Skip(l)
  PROVE  MeantInv'
BY MeantTogether DEF Skip, MeantInv

LEMMA OverrideTokenMeant ==
  ASSUME IInv, MeantInv, world' = world, OverrideToken
  PROVE  MeantInv'
<1> DEFINE token == Given("apiToken")
           holders == {l \in DistinctLogins(store) : l.apiToken = token}
           url == IF Given("baseURL") = None /\ holders # {} THEN First(store, holders).baseURL
                  ELSE Given("baseURL")
<1>1. UNCHANGED <<candidates, found>> /\ token # None
  BY DEF OverrideToken
<1>2. CASE url = None
  <2>1. Fail("NO_BASE_URL")
    BY <1>2 DEF OverrideToken
  <2> QED
    BY <1>1, <2>1, FailMeant
<1>3. CASE url # None
  <2>1. /\ pc' = "done" /\ outcome'.apiToken = token /\ outcome'.baseURL = url
        /\ outcome'.source = GivenBy("apiToken")
    BY <1>3 DEF OverrideToken, Return, Resolved
  <2>2. Given("baseURL") = None => First(store, holders) \in holders
    <3>1. holders # {} => First(store, holders) \in holders
      BY WorldTypes, FirstIsOne DEF IInv
    <3> QED
      BY <1>3, <3>1
  <2>3. Given("baseURL") = None =>
          [baseURL |-> First(store, holders).baseURL, apiToken |-> token] = First(store, holders)
    <3>1. holders \subseteq Login
      BY WorldTypes, StoreTypes DEF IInv
    <3> QED
      BY <2>2, <3>1 DEF Login
  <2>4. AsGiven(outcome')
    <3>1. CASE Given("baseURL") # None
      BY <2>1, <3>1 DEF AsGiven
    <3>2. CASE Given("baseURL") = None
      <4>1. url = First(store, holders).baseURL
        BY <1>3, <3>2
      <4> QED
        BY <2>1, <2>2, <2>3, <3>2, <4>1 DEF AsGiven, LoginIn
    <3> QED
      BY <3>1, <3>2
  <2>5. ~WithoutToken
    BY <1>1 DEF WithoutToken
  <2>6. SourceIsTrue'
    BY <2>4, <2>5, WorldKept, MeantKept DEF SourceIsTrue
  <2> QED
    BY <1>1, <2>1, <2>6, WorldKept, LadderWorldKept DEF MeantInv
<1> QED
  BY <1>2, <1>3

LEMMA StartMeant ==
  ASSUME IInv, MeantInv, Start
  PROVE  MeantInv'
<1>1. world' = world
  BY DEF Start
<1>2. CASE OverrideToken
  BY <1>1, <1>2, OverrideTokenMeant
<1>3. CASE OverrideWorkspace
  <2> DEFINE source == GivenBy("workspaceID")
             w == Given("workspaceID")
  <2>1. WithoutToken /\ TokenForWorkspace(w, source, world.binding.productID)
        /\ UNCHANGED <<candidates, found>>
    BY <1>3 DEF OverrideWorkspace, WithoutToken
  <2>2. Meant(w, source)
    BY DEF Meant, GivenBy
  <2> HIDE DEF source, w
  <2> QED
    BY <1>1, <2>1, <2>2, TokenMeant
<1>4. CASE NotLoggedIn
  BY <1>1, <1>4, FailMeant DEF NotLoggedIn
<1>5. CASE BoundToWorkspace
  <2>1. Meant(world.binding.workspaceID, "repo-binding")
    BY <1>5 DEF BoundToWorkspace, NoOverride, Meant, Named
  <2> QED
    BY <1>1, <1>5, <2>1, TokenMeant DEF BoundToWorkspace, NoOverride, WithoutToken
<1>6. CASE BoundToProduct
  <2> DEFINE p == world.binding.productID
             W == ProductTokenWorkspaces(store, p)
  <2>1. CASE W # {} /\ TokenForWorkspace(FirstOf(W), "product-token", p)
    <3>1. W \in SUBSET Nat
      BY WorldTypes, StoreTypes DEF IInv, ProductTokenWorkspaces
    <3>2. FirstOf(W) \in W
      BY <2>1, <3>1, FirstOfIsLeast
    <3>3. Meant(FirstOf(W), "product-token")
      BY <3>2 DEF Meant
    <3> QED
      BY <1>1, <1>6, <2>1, <3>3, TokenMeant DEF BoundToProduct, NoOverride, WithoutToken
  <2>2. CASE Enter("probe", DistinctLogins(store)) /\ UNCHANGED target
    BY <1>1, <1>6, <2>2, MeantTogether DEF BoundToProduct, Enter, MeantInv
  <2> QED
    BY <1>6, <2>1, <2>2 DEF BoundToProduct
<1>7. CASE Unbound
  BY <1>1, <1>7, GatherMeant, MeantTogether DEF Unbound, Enter, MeantInv
<1> QED
  BY <1>2, <1>3, <1>4, <1>5, <1>6, <1>7 DEF Start

LEMMA LoopMeant ==
  ASSUME IInv, MeantInv, NEW l \in todo,
         ProbeProduct(l) \/ LookupRepository(l) \/ GatherWorkspaces(l) \/ AskMembership(l)
  PROVE  MeantInv'
<1>1. world' = world
  BY DEF ProbeProduct, LookupRepository, GatherWorkspaces, AskMembership, Asking
<1>2. pc \in Loops /\ WithoutToken /\ l \in DistinctLogins(store)
  BY DEF ProbeProduct, LookupRepository, GatherWorkspaces, AskMembership, Loops, IInv, TypeOK,
         PlaceInv, Undecided
<1>3. pc # "done"
  BY <1>2 DEF Loops
<1>4. CASE ProbeProduct(l)
  <2> DEFINE p == world.binding.productID
  <2>1. Sees(l, p) => Meant(Home[p], "product-probe")
    BY <1>2 DEF Meant
  <2>2. UNCHANGED <<candidates, found>>
    BY <1>4 DEF ProbeProduct
  <2>3. Skip(l) \/ (Sees(l, p) /\ TokenForWorkspace(Home[p], "product-probe", p))
    BY <1>4 DEF ProbeProduct
  <2> QED
    BY <1>1, <1>2, <1>3, <2>1, <2>2, <2>3, SkipMeant, TokenMeant DEF MeantInv
<1>5. CASE LookupRepository(l)
  <2>1. RepositoryCandidates(l) \subseteq Visible
    BY <1>2 DEF Visible
  <2>2. CASE StartGather /\ candidates' = {}
    BY <1>1, <2>2, GatherMeant
  <2>3. CASE /\ Skip(l) /\ found' = found
             /\ candidates' \in {candidates, candidates \cup RepositoryCandidates(l)}
    <3>1. candidates' \subseteq Visible /\ found' \subseteq Gathered(store.loose)
      BY <2>1, <2>3 DEF MeantInv
    <3> QED
      BY <1>1, <1>3, <2>3, <3>1, SkipMeant
  <2> QED
    BY <1>5, <2>2, <2>3 DEF LookupRepository
<1>6. CASE GatherWorkspaces(l)
  <2>1. l \in store.loose
    BY <1>6 DEF GatherWorkspaces, MeantInv
  <2>2. \A page \in FirstPages(l) : page \subseteq Gathered(store.loose)
    BY <2>1 DEF FirstPages, Gathered
  <2> QED
    BY <1>1, <1>3, <1>6, <2>2, SkipMeant DEF GatherWorkspaces, MeantInv
<1>7. CASE AskMembership(l)
  <2>1. Meant(target.workspaceID, target.source) /\ UNCHANGED <<candidates, found>>
    BY <1>7 DEF AskMembership, MeantInv
  <2> QED
    BY <1>1, <1>2, <1>3, <1>7, <2>1, SkipMeant, ReturnMeant DEF AskMembership, MeantInv
<1> QED
  BY <1>4, <1>5, <1>6, <1>7

LEMMA LoopEndMeant ==
  ASSUME IInv, MeantInv, ProductNotVisible \/ LookupDone \/ GatherDone \/ NobodyListsIt
  PROVE  MeantInv'
<1>1. world' = world /\ candidates' = candidates /\ WithoutToken
  BY DEF ProductNotVisible, LookupDone, GatherDone, NobodyListsIt, IInv, PlaceInv, Loops, Undecided
<1>2. CASE ProductNotVisible
  BY <1>1, <1>2, FailMeant DEF ProductNotVisible
<1>3. CASE LookupDone
  <2>1. ASSUME NEW q \in candidates PROVE Meant(Home[q], "repository-lookup")
    BY <2>1 DEF Meant, MeantInv
  <2> QED
    BY <1>1, <1>3, <2>1, GatherMeant, TokenMeant, FailMeant DEF LookupDone, MeantInv
<1>4. CASE GatherDone
  <2>1. ASSUME NEW w \in found PROVE Meant(w, "single-login")
    BY <2>1 DEF Meant, MeantInv
  <2> QED
    BY <1>1, <1>4, <2>1, TokenMeant, FailMeant DEF GatherDone
<1>5. CASE NobodyListsIt
  <2>1. Meant(target.workspaceID, target.source) /\ UNCHANGED <<candidates, found>>
    BY <1>5 DEF NobodyListsIt, MeantInv
  <2> QED
    BY <1>1, <1>5, <2>1, ReturnMeant, FailMeant DEF NobodyListsIt, ReturnEntry
<1> QED
  BY <1>2, <1>3, <1>4, <1>5

LEMMA MeantAlways == Spec => []MeantInv
<1>1. Init => MeantInv
  BY DEF Init, MeantInv, SourceIsTrue, ResolvedOutcome
<1>2. ASSUME IInv, MeantInv, [Next]_vars
      PROVE  MeantInv'
  <2>1. CASE AskLogin
    BY <1>2, <2>1, LoopMeant DEF AskLogin
  <2>2. CASE UNCHANGED vars
    <3>1. ResolvedOutcome' = ResolvedOutcome
      BY <2>2 DEF vars, progress, ResolvedOutcome
    <3> QED
      BY <1>2, <2>2, <3>1, WorldKept, LadderWorldKept, MeantKept
      DEF vars, progress, MeantInv, SourceIsTrue
  <2> QED
    BY <1>2, <2>1, <2>2, StartMeant, LoopEndMeant DEF Next
<1> QED
  BY <1>1, <1>2, InductiveInvariant, PTL DEF Spec

(* Whatever requests fail, the workspace of a result is one that the rule  *)
(* named as its source gives, and an explicit token is used as given: an   *)
(* unbound repository is served from what a server has shown, or not at    *)
(* all.                                                                    *)
THEOREM SourcesAreTrue == Spec => []SourceIsTrue
<1>1. MeantInv => SourceIsTrue
  BY DEF MeantInv
<1> QED
  BY <1>1, MeantAlways, PTL

(* A stored token is only ever paired with the server it is stored for,    *)
(* whatever flags, files and answers there are.                            *)
THEOREM TokensStayHome == Spec => []TokenStaysHome
<1>1. ASSUME IInv, SourceIsTrue
      PROVE  TokenStaysHome
  <2> SUFFICES ASSUME ResolvedOutcome
               PROVE  \/ LoginIn(outcome) \in DistinctLogins(store)
                      \/ LoginIn(outcome) = [baseURL |-> Given("baseURL"),
                                             apiToken |-> Given("apiToken")]
    BY DEF TokenStaysHome
  <2>1. CASE WithoutToken
    <3>1. Serves(outcome)
      BY <1>1, <2>1 DEF IInv, ResultInv
    <3> QED
      BY <1>1, <3>1, WorldTypes, StoreTypes DEF IInv, Serves, PersonalMembers, LoginIn
  <2>2. CASE ~WithoutToken
    <3>1. AsGiven(outcome)
      BY <1>1, <2>2 DEF SourceIsTrue
    <3> QED
      BY <3>1 DEF AsGiven, LoginIn
  <2> QED
    BY <2>1, <2>2
<1> QED
  BY <1>1, SourcesAreTrue, InductiveInvariant, PTL
=============================================================================
