------------------------------- MODULE Resolve -------------------------------
(***************************************************************************)
(* The resolution ladder (internal/resolve/resolve.go): which server,      *)
(* token and workspace this process runs with.                             *)
(*                                                                         *)
(* Everything that is local is decided in one step; every request is a     *)
(* step of its own, sent to one login's server, which may answer, refuse   *)
(* the login or be out of reach, each time anew.  A login is skipped when  *)
(* its request fails, so one resolution may mix answers and failures in    *)
(* every way.                                                              *)
(*                                                                         *)
(* The servers are outside the repository: a personal token sees the       *)
(* products of the workspaces its account is a member of, a product token  *)
(* sees its product, ListWorkspaces answers with the first page.  What the *)
(* servers know does not change while the ladder runs.  Left out: accounts *)
(* and names, which only the startup line shows, and the texts and hints.  *)
(***************************************************************************)
EXTENDS ConfigStore, FiniteSets

CONSTANTS
  Files,         (* global files the CLI may have left                     *)
  Bindings,      (* repo-local files: a workspace, a product, or neither   *)
  Overrides,     (* what the flags and the environment give                *)
  Repositories,  (* the products the server knows the origin remote under; *)
                 (* None when there is no origin remote                    *)
  Memberships,   (* the workspaces each login's account is a member of     *)
  Home,          (* the workspace of each product                          *)
  PageSize       (* rows in a page of ListWorkspaces                       *)

Maybe(S) == S \cup {None}

(* What flags, or the environment, may give.                               *)
Settings == [baseURL : Maybe(BaseURLs), apiToken : Maybe(APITokens),
             workspaceID : Maybe(WorkspaceIDs)]

ASSUME ResolveAssumption ==
  /\ \A f \in Files : ParseStore(f) \in Store
  /\ Bindings \subseteq [workspaceID : Maybe(WorkspaceIDs), productID : Maybe(Products)]
  /\ Overrides \subseteq [flag : Settings, env : Settings]
  /\ Repositories \subseteq Maybe(SUBSET Products)
  /\ Home \in [Products -> WorkspaceIDs]
  /\ PageSize \in Nat
  /\ Memberships \subseteq [Login -> SUBSET WorkspaceIDs]

VARIABLES
  world,        (* what is given: the store, the binding, the overrides,   *)
                (* the repository and the memberships; never changes       *)
  pc,           (* the loop the ladder is in                               *)
  todo,         (* the logins this loop has not tried yet                  *)
  target,       (* the workspace decided on, how, and for which product    *)
  candidates,   (* products found by the repository lookup                 *)
  found,        (* workspaces gathered by the last step of the ladder      *)
  unreachable,  (* a login could not be asked about the product            *)
  requests,     (* every request sent: its endpoint and its login          *)
  faulty,       (* a request was not answered, or not as the server knows  *)
  outcome       (* what Resolve returned                                   *)

progress == <<pc, todo, target, candidates, found, unreachable, outcome>>
vars == <<world, progress, requests, faulty>>

store == world.store

Sources == {"flag", "env", "repo-binding", "product-token", "product-probe",
            "repository-lookup", "single-login"}

Codes == {"NO_BASE_URL", "NO_LOGIN", "E1", "E2", "E3"}

TypeOK ==
  /\ store \in Store
  /\ pc \in {"start", "probe", "lookup", "gather", "members", "done"}
  /\ todo \in SUBSET DistinctLogins(store)
  /\ target \in [workspaceID : Maybe(WorkspaceIDs), source : Maybe(Sources),
                 productID : Maybe(Products)]
  /\ candidates \in SUBSET Products
  /\ found \in SUBSET WorkspaceIDs
  /\ unreachable \in BOOLEAN
  /\ requests \in SUBSET ({"GetProduct", "ResolveRepository", "ListWorkspaces"}
                            \X DistinctLogins(store))
  /\ faulty \in BOOLEAN
  /\ outcome \in
       {None}
       \cup [baseURL : BaseURLs, apiToken : APITokens, workspaceID : Maybe(WorkspaceIDs),
             source : Sources, productID : Maybe(Products)]
       \cup [code : Codes, unreachable : BOOLEAN]

Init ==
  /\ world \in [store : {ParseStore(f) : f \in Files}, binding : Bindings,
                override : Overrides, repository : Repositories, member : Memberships]
  /\ pc = "start"
  /\ todo = {}
  /\ target = [workspaceID |-> None, source |-> None, productID |-> None]
  /\ candidates = {}
  /\ found = {}
  /\ unreachable = FALSE
  /\ requests = {}
  /\ faulty = FALSE
  /\ outcome = None

-----------------------------------------------------------------------------
(* What the servers know                                                   *)

IsProductLogin(l) == ProductTokenEntries(store, l) # {}

TokenProduct(l) == store.workspaces[FirstOf(ProductTokenEntries(store, l))].productID

Sees(l, p) ==
  IF IsProductLogin(l) THEN TokenProduct(l) = p ELSE Home[p] \in world.member[l]

RepositoryCandidates(l) == {p \in world.repository : Sees(l, p)}

FirstPages(l) ==
  LET member == world.member[l] IN
  IF Cardinality(member) <= PageSize THEN {member}
  ELSE {page \in SUBSET member : Cardinality(page) = PageSize}

-----------------------------------------------------------------------------
(* Returning                                                               *)

Given(key) ==
  IF world.override.flag[key] # None THEN world.override.flag[key]
                                     ELSE world.override.env[key]

GivenBy(key) == IF world.override.flag[key] # None THEN "flag" ELSE "env"

Return(o) ==
  /\ outcome' = o
  /\ pc' = "done"
  /\ todo' = {}

Fail(code) == Return([code |-> code, unreachable |-> unreachable])

(* A wrong Resolved, with its two strings swapped.                         *)
ResolvedSwapped(login, w, source, p) ==
  [baseURL |-> login.apiToken, apiToken |-> login.baseURL, workspaceID |-> w,
   source |-> source, productID |-> p]

Resolved(login, w, source, p) ==
  [baseURL |-> login.baseURL, apiToken |-> login.apiToken, workspaceID |-> w,
   source |-> source, productID |-> p]

ReturnEntry(w, source) ==
  LET e == store.workspaces[w] IN
  Return(Resolved(LoginOf(e), w, source, e.productID))

Enter(loop, logins) ==
  /\ pc' = loop
  /\ todo' = logins
  /\ UNCHANGED outcome

(* Wrong guards: one takes any stored token, one compares products even    *)
(* for a personal token.                                                   *)
SuitsAnyway(w, p) == w \in Known(store)
SuitsExactly(w, p) == w \in Known(store) /\ store.workspaces[w].productID = p

(* resolveTokenForWorkspace, before its first request: the stored entry is *)
(* taken unless its product token is for another product than p.           *)
Suits(w, p) ==
  /\ w \in Known(store)
  /\ \/ ~IsProductToken(store.workspaces[w])
     \/ p = None
     \/ store.workspaces[w].productID = p

(* A wrong TokenForWorkspace, which asks with product tokens too.          *)
TokenForWorkspaceFromAll(w, source, p) ==
  /\ target' = [workspaceID |-> w, source |-> source, productID |-> p]
  /\ \/ Suits(w, p) /\ ReturnEntry(w, source)
     \/ ~Suits(w, p) /\ Enter("members", DistinctLogins(store))

TokenForWorkspace(w, source, p) ==
  /\ target' = [workspaceID |-> w, source |-> source, productID |-> p]
  /\ \/ /\ Suits(w, p)
        /\ ReturnEntry(w, source)
     \/ /\ ~Suits(w, p)
        /\ Enter("members", {l \in DistinctLogins(store) : ~IsProductLogin(l)})

-----------------------------------------------------------------------------
(* The steps that send nothing                                             *)

(* resolveOverrideToken: an explicit token is used as given.               *)
OverrideToken ==
  LET token == Given("apiToken")
      holders == {l \in DistinctLogins(store) : l.apiToken = token}
      login == [baseURL |-> IF Given("baseURL") = None /\ holders # {}
                            THEN First(store, holders).baseURL
                            ELSE Given("baseURL"),
                apiToken |-> token]
      entries == ProductTokenEntries(store, login)
      w == CASE Given("workspaceID") # None       -> Given("workspaceID")
             [] Given("workspaceID") = None /\ world.binding.workspaceID # None ->
                  world.binding.workspaceID
             [] OTHER -> IF entries # {} THEN FirstOf(entries) ELSE None
      p == IF entries # {} THEN store.workspaces[FirstOf(entries)].productID ELSE None
  IN  /\ token # None
      /\ IF login.baseURL = None THEN Fail("NO_BASE_URL")
                                 ELSE Return(Resolved(login, w, GivenBy("apiToken"), p))
      /\ UNCHANGED <<target, candidates, found>>

OverrideWorkspace ==
  /\ Given("apiToken") = None
  /\ Given("workspaceID") # None
  /\ TokenForWorkspace(Given("workspaceID"), GivenBy("workspaceID"),
                       world.binding.productID)
  /\ UNCHANGED <<candidates, found>>

NoOverride == Given("apiToken") = None /\ Given("workspaceID") = None

NotLoggedIn ==
  /\ NoOverride
  /\ ~HasAnyLogin(store)
  /\ Fail("NO_LOGIN")
  /\ UNCHANGED <<target, candidates, found>>

(* A wrong StartGather, which forgets the stored workspaces.               *)
StartGatherLoose ==
  /\ Enter("gather", store.loose)
  /\ found' = {}
  /\ UNCHANGED target

(* gatherAllLoginWorkspaces starts from the stored workspaces.             *)
StartGather ==
  /\ Enter("gather", store.loose)
  /\ found' = Known(store)
  /\ UNCHANGED target

(* determineTargetWorkspace, up to its first request.                      *)
BoundToWorkspace ==
  /\ NoOverride /\ HasAnyLogin(store)
  /\ world.binding.workspaceID # None
  /\ TokenForWorkspace(world.binding.workspaceID, "repo-binding",
                       world.binding.productID)
  /\ UNCHANGED <<candidates, found>>

BoundToProduct ==
  LET p == world.binding.productID
      W == ProductTokenWorkspaces(store, p)
  IN  /\ NoOverride /\ HasAnyLogin(store)
      /\ world.binding.workspaceID = None
      /\ p # None
      /\ \/ /\ W # {}
            /\ TokenForWorkspace(FirstOf(W), "product-token", p)
         \/ /\ W = {}
            /\ Enter("probe", DistinctLogins(store))
            /\ UNCHANGED target
      /\ UNCHANGED <<candidates, found>>

Unbound ==
  /\ NoOverride /\ HasAnyLogin(store)
  /\ world.binding = [workspaceID |-> None, productID |-> None]
  /\ \/ /\ world.repository # None
        /\ Enter("lookup", DistinctLogins(store))
        /\ UNCHANGED <<target, found>>
     \/ /\ world.repository = None
        /\ StartGather
  /\ UNCHANGED candidates

Start ==
  /\ pc = "start"
  /\ \/ OverrideToken
     \/ OverrideWorkspace
     \/ NotLoggedIn
     \/ BoundToWorkspace
     \/ BoundToProduct
     \/ Unbound
  /\ UNCHANGED <<world, unreachable, requests, faulty>>

-----------------------------------------------------------------------------
(* The loops: one request to the next login in order                       *)

Asking(endpoint, l) ==
  /\ l = First(store, todo)
  /\ requests' = requests \cup {<<endpoint, l>>}
  /\ UNCHANGED world

(* A wrong Skip, which tries the same login again.                         *)
SkipNobody(l) == UNCHANGED <<todo, pc, target, outcome>>

Skip(l) ==
  /\ todo' = todo \ {l}
  /\ UNCHANGED <<pc, target, outcome>>

(* probeProduct: the first login that can see the product decides.  A      *)
(* refusal is a clean negative, dead token or not; anything else is not.   *)
ProbeProduct(l) ==
  LET p == world.binding.productID IN
  /\ pc = "probe"
  /\ Asking("GetProduct", l)
  /\ \/ /\ Sees(l, p)
        /\ TokenForWorkspace(Home[p], "product-probe", p)
        /\ unreachable' = FALSE
        /\ UNCHANGED faulty
     \/ /\ Skip(l)
        /\ faulty' = (faulty \/ Sees(l, p))
        /\ UNCHANGED unreachable
     \/ /\ Skip(l)
        /\ faulty' = TRUE
        /\ unreachable' = TRUE
  /\ UNCHANGED <<candidates, found>>

(* A wrong ProductNotVisible, which falls through to the next rule.        *)
ProductNotVisibleGoesOn ==
  /\ pc = "probe"
  /\ todo = {}
  /\ StartGather
  /\ UNCHANGED <<world, candidates, unreachable, requests, faulty>>

ProductNotVisible ==
  /\ pc = "probe"
  /\ todo = {}
  /\ Fail("E2")
  /\ UNCHANGED <<world, target, candidates, found, unreachable, requests, faulty>>

(* lookupRepository: candidates of every login that answers; a server      *)
(* without the endpoint (404, 501) makes the ladder skip the whole step.   *)
LookupRepository(l) ==
  /\ pc = "lookup"
  /\ Asking("ResolveRepository", l)
  /\ \/ /\ candidates' = candidates \cup RepositoryCandidates(l)
        /\ Skip(l)
        /\ UNCHANGED <<found, faulty>>
     \/ /\ candidates' = {}
        /\ StartGather
        /\ faulty' = TRUE
     \/ /\ Skip(l)
        /\ faulty' = TRUE
        /\ UNCHANGED <<candidates, found>>
  /\ UNCHANGED unreachable

LookupDone ==
  /\ pc = "lookup"
  /\ todo = {}
  /\ \/ /\ candidates = {}
        /\ StartGather
     \/ \E p \in candidates :
          /\ candidates = {p}
          /\ TokenForWorkspace(Home[p], "repository-lookup", p)
          /\ UNCHANGED found
     \/ /\ Cardinality(candidates) > 1
        /\ Fail("E3")
        /\ UNCHANGED <<target, found>>
  /\ UNCHANGED <<world, candidates, unreachable, requests, faulty>>

GatherWorkspaces(l) ==
  /\ pc = "gather"
  /\ Asking("ListWorkspaces", l)
  /\ \/ /\ \E page \in FirstPages(l) : found' = found \cup page
        /\ UNCHANGED faulty
     \/ /\ faulty' = TRUE
        /\ UNCHANGED found
  /\ Skip(l)
  /\ UNCHANGED <<candidates, unreachable>>

GatherDone ==
  /\ pc = "gather"
  /\ todo = {}
  /\ \/ /\ found = {}
        /\ Fail("NO_LOGIN")
        /\ UNCHANGED target
     \/ \E w \in found :
          /\ found = {w}
          /\ TokenForWorkspace(w, "single-login", None)
     \/ /\ Cardinality(found) > 1
        /\ Fail("E3")
        /\ UNCHANGED target
  /\ UNCHANGED <<world, candidates, found, unreachable, requests, faulty>>

(* resolveTokenForWorkspace: a login whose ListWorkspaces lists the target.*)
AskMembership(l) ==
  /\ pc = "members"
  /\ Asking("ListWorkspaces", l)
  /\ \/ /\ \E page \in FirstPages(l) :
             \/ /\ target.workspaceID \in page
                /\ Return(Resolved(l, target.workspaceID, target.source, None))
                /\ UNCHANGED target
             \/ /\ target.workspaceID \notin page
                /\ Skip(l)
        /\ UNCHANGED faulty
     \/ /\ Skip(l)
        /\ faulty' = TRUE
  /\ UNCHANGED <<candidates, found, unreachable>>

NobodyListsIt ==
  /\ pc = "members"
  /\ todo = {}
  /\ IF target.workspaceID \in Known(store)
     THEN ReturnEntry(target.workspaceID, target.source)
     ELSE Fail("E1")
  /\ UNCHANGED <<world, target, candidates, found, unreachable, requests, faulty>>

-----------------------------------------------------------------------------
AskLogin ==
  \E l \in todo :
    \/ ProbeProduct(l) \/ LookupRepository(l)
    \/ GatherWorkspaces(l) \/ AskMembership(l)

Next ==
  \/ Start
  \/ AskLogin
  \/ ProductNotVisible \/ LookupDone \/ GatherDone \/ NobodyListsIt

(* Every request returns (HttpClient: EveryCallReturns), so the ladder     *)
(* moves on.                                                               *)
Spec == Init /\ [][Next]_vars /\ WF_vars(Next)

-----------------------------------------------------------------------------
(* Properties                                                              *)

WithoutToken == Given("apiToken") = None

ResolvedOutcome == pc = "done" /\ "code" \notin DOMAIN outcome

(* The README's rules 2 to 6, told without logins in order, loops or       *)
(* requests: the workspaces (with the product that led there) the first    *)
(* rule that applies leaves to choose from.                                *)
Choices ==
  LET p == world.binding.productID
      Visible == UNION {RepositoryCandidates(l) : l \in DistinctLogins(store)}
      At(w) == <<w, None>>
  IN  CASE Given("workspaceID") # None -> {At(Given("workspaceID"))}
        [] OTHER ->
             IF world.binding.workspaceID # None THEN {At(world.binding.workspaceID)}
             ELSE IF p # None
             THEN IF ProductTokenWorkspaces(store, p) # {}
                  THEN {<<FirstOf(ProductTokenWorkspaces(store, p)), p>>}
                  ELSE {<<Home[p], p>> : l \in {m \in DistinctLogins(store) : Sees(m, p)}}
             ELSE IF world.repository # None /\ Visible # {}
             THEN {<<Home[q], q>> : q \in Visible}
             ELSE {At(w) : w \in Known(store)
                             \cup UNION {world.member[l] : l \in store.loose}}

PersonalMembers(w) ==
  {l \in DistinctLogins(store) : ~IsProductLogin(l) /\ w \in world.member[l]}

(* When every request is answered as the servers know, the ladder ends as  *)
(* the README's list says: on the one workspace its first applicable rule  *)
(* leaves, with E3 when it leaves several, E2 or NO_LOGIN when it leaves   *)
(* none, and E1 when nobody can be used for the one it leaves.             *)
LadderFollowed ==
  pc = "done" /\ WithoutToken /\ ~faulty =>
    IF ResolvedOutcome
    THEN \E c \in Choices : Choices = {c} /\ outcome.workspaceID = c[1]
    ELSE outcome.code =
           CASE Choices = {} -> IF world.binding.productID # None /\ HasAnyLogin(store)
                                THEN "E2" ELSE "NO_LOGIN"
             [] Cardinality(Choices) > 1 -> "E3"
             [] OTHER -> IF HasAnyLogin(store) \/ Given("workspaceID") # None
                         THEN "E1" ELSE "NO_LOGIN"

(* A workspace is only served with the credentials the CLI stored for it,  *)
(* token and server together, or with those of an account whose membership *)
(* the server has just confirmed; a product token of another product than  *)
(* the repository's is used only when no account was found to serve it.    *)
CredentialFits ==
  ResolvedOutcome /\ WithoutToken =>
    LET login == [baseURL |-> outcome.baseURL, apiToken |-> outcome.apiToken]
        w == outcome.workspaceID
    IN  /\ \/ w \in Known(store) /\ LoginOf(store.workspaces[w]) = login
           \/ login \in PersonalMembers(w)
        /\ outcome.productID \notin {None, target.productID} /\ target.productID # None
             => faulty \/ PersonalMembers(w) = {}

(* A product token is never sent a ListWorkspaces request.                 *)
ProductTokenNotProbed ==
  \A l \in Login : <<"ListWorkspaces", l>> \in requests => ~IsProductLogin(l)

(* What the files decide costs no request: nothing is sent under an        *)
(* explicit token, nor for a workspace named by an override or the repo    *)
(* binding whose stored token is a personal one, nor for a product whose   *)
(* own token is stored.                                                    *)
LocalWhenPossible ==
  requests # {} =>
    /\ WithoutToken
    /\ LET named == IF Given("workspaceID") # None THEN Given("workspaceID")
                                                  ELSE world.binding.workspaceID
       IN  IF named # None
           THEN named \in Known(store) => store.workspaces[named].productID # None
           ELSE world.binding.productID # None =>
                  \A w \in Known(store) :
                    store.workspaces[w].productID # world.binding.productID

(* Whatever fails, a repository that is bound, to a workspace or to a      *)
(* product, never runs in another workspace than the one a healthy server  *)
(* would lead to: failures can only turn its start into an error.          *)
BoundRepositoryNeverMoves ==
  ResolvedOutcome /\ WithoutToken
  /\ world.binding # [workspaceID |-> None, productID |-> None] =>
    \E c \in Choices : outcome.workspaceID = c[1]

(* The ladder always ends.                                                 *)
LadderEnds == <>(pc = "done")

(* The text of E1, "none of your logged-in accounts is a member" (resolve.go*)
(* line 250), when every request was answered.                             *)
E1IsTrue ==
  pc = "done" /\ ~ResolvedOutcome /\ ~faulty =>
    (outcome.code = "E1" => PersonalMembers(target.workspaceID) = {})
=============================================================================
