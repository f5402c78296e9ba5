----------------------------- MODULE ConfigStore -----------------------------
(***************************************************************************)
(* The CLI's global file ~/.tiden/config.json as this program reads it     *)
(* (internal/config/store.go): parsing into a Store, and the queries on a  *)
(* Store that the resolution ladder is built from.                         *)
(*                                                                         *)
(* A file is a record whose absent keys hold None; an empty string counts  *)
(* as absent, as it does in the code.  Workspace ids are numbers: only     *)
(* their order matters (DistinctLogins and the product-token queries go    *)
(* through them in ascending order).  Left out: the accounts and names     *)
(* shown to the user, the timeout, and the keys kept in Extra.             *)
(***************************************************************************)
EXTENDS Integers

CONSTANTS
  WorkspaceIDs,  (* workspace ids, in the order of their strings           *)
  Products,      (* product ids                                            *)
  BaseURLs,      (* servers                                                *)
  APITokens,     (* token strings; one string may occur on two servers     *)
  None           (* an absent key                                          *)

ASSUME StoreAssumption ==
  /\ WorkspaceIDs \subseteq Nat
  /\ None \notin WorkspaceIDs
  /\ None \notin Products
  /\ None \notin BaseURLs \cup APITokens

Login == [baseURL : BaseURLs, apiToken : APITokens]

(* A workspace's credentials; productID is set when the token is a product *)
(* API token, which reaches that product only.                             *)
Entry == [baseURL : BaseURLs, apiToken : APITokens, productID : Products \cup {None}]

IsProductToken(e) == e.productID # None

LoginOf(e) == [baseURL |-> e.baseURL, apiToken |-> e.apiToken]

(* A parsed file: the entries of some workspaces, and the logins not yet   *)
(* placed under a workspace.                                               *)
Store ==
  [workspaces : UNION {[W -> Entry] : W \in SUBSET WorkspaceIDs},
   loose : SUBSET Login]

NoEntries == [w \in {} |-> None]

EmptyStore == [workspaces |-> NoEntries, loose |-> {}]

(* The "workspaces" key decides for version 2, and any flat key beside it  *)
(* is dropped.  A flat file holds at most one login.                       *)
ParseStore(file) ==
  IF file.workspaces # None
  THEN [workspaces |-> file.workspaces, loose |-> {}]
  ELSE LET login == [baseURL |-> file.baseURL, apiToken |-> file.apiToken]
           entry == [baseURL |-> file.baseURL, apiToken |-> file.apiToken,
                     productID |-> None]
       IN  CASE file.apiToken = None    -> EmptyStore
             [] file.apiToken # None /\ file.workspaceID # None ->
                  [workspaces |-> [w \in {file.workspaceID} |-> entry], loose |-> {}]
             [] OTHER -> [workspaces |-> NoEntries, loose |-> {login}]

Known(store) == DOMAIN store.workspaces

HasAnyLogin(store) == Known(store) # {} \/ store.loose # {}

(* DistinctLogins: one login for each (baseURL, apiToken) pair ...         *)
DistinctLogins(store) ==
  {LoginOf(store.workspaces[w]) : w \in Known(store)} \cup store.loose

(* ... in the order of the first workspace that holds it, the loose ones   *)
(* last.                                                                   *)
Precedes(store, l, m) ==
  \E w \in Known(store) :
    /\ LoginOf(store.workspaces[w]) = l
    /\ \A v \in Known(store) : LoginOf(store.workspaces[v]) = m => w <= v

First(store, logins) ==
  CHOOSE l \in logins : \A m \in logins \ {l} : Precedes(store, l, m)

(* ProductTokenEntry: the workspaces whose entry holds exactly this pair   *)
(* as a product token.  Another server's token of the same name does not.  *)
ProductTokenEntries(store, login) ==
  {w \in Known(store) : /\ LoginOf(store.workspaces[w]) = login
                        /\ IsProductToken(store.workspaces[w])}

(* ProductTokenWorkspace: the workspaces whose entry holds a token of p.   *)
ProductTokenWorkspaces(store, p) ==
  {w \in Known(store) : store.workspaces[w].productID = p}

(* Both queries answer with the first workspace in order.                  *)
FirstOf(W) == CHOOSE w \in W : \A v \in W : w <= v
=============================================================================
