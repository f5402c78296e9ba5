------------------------------ MODULE MCResolve ------------------------------
(* Two workspaces with a product each, two servers, two token strings.     *)
(* "personal" is a token string of an account on either server: the same   *)
(* string on the other server is another login.  "product" is a product    *)
(* token on server one.                                                    *)
EXTENDS Resolve

MCHome == [p \in Products |-> IF p = "p1" THEN 1 ELSE 2]

One == [baseURL |-> "one", apiToken |-> "personal"]
Two == [baseURL |-> "two", apiToken |-> "personal"]
ProductToken == [baseURL |-> "one", apiToken |-> "product"]

EntryOf(login, p) ==
  [baseURL |-> login.baseURL, apiToken |-> login.apiToken, productID |-> p]

Personal == {EntryOf(One, None), EntryOf(Two, None)}

(* What each workspace may hold: the CLI stores a product token as one     *)
(* entry, for the workspace of its product.                                *)
V2Workspaces ==
  [{} -> {}]
  \cup [{1} -> Personal \cup {EntryOf(ProductToken, "p1")}]
  \cup [{2} -> Personal \cup {EntryOf(ProductToken, "p2")}]
  \cup {f \in [{1, 2} -> Personal \cup {EntryOf(ProductToken, "p1"), EntryOf(ProductToken, "p2")}] :
          /\ f[1].productID # "p2" /\ f[2].productID # "p1"
          /\ ~(IsProductToken(f[1]) /\ IsProductToken(f[2]))}

Flat(w) == [workspaces |-> None, baseURL |-> "one", apiToken |-> "personal",
            workspaceID |-> w]

(* A version 2 file may still carry stray flat keys.                       *)
MCFiles ==
  {[workspaces |-> f, baseURL |-> None, apiToken |-> None, workspaceID |-> None] :
     f \in V2Workspaces}
  \cup {[Flat(1) EXCEPT !.workspaces = [w \in {2} |-> EntryOf(Two, None)]]}
  \cup {Flat(1), Flat(None), [Flat(None) EXCEPT !.apiToken = None]}

MCBindings == [workspaceID : {None, 1}, productID : {None, "p1", "p2"}]

Nothing == [baseURL |-> None, apiToken |-> None, workspaceID |-> None]

MCOverrides ==
  {[flag |-> Nothing, env |-> Nothing],
   [flag |-> Nothing, env |-> [Nothing EXCEPT !.workspaceID = 2]],
   [flag |-> Nothing, env |-> [Nothing EXCEPT !.apiToken = "personal"]],
   [flag |-> [Nothing EXCEPT !.apiToken = "product", !.baseURL = "one"],
    env |-> [Nothing EXCEPT !.apiToken = "personal", !.workspaceID = 2]]}

MCRepositories == {None} \cup SUBSET Products

(* The product token's account does not matter: it sees its product.       *)
MCMemberships ==
  {[l \in Login |-> CASE l = One -> a [] l = Two -> b [] OTHER -> {}] :
     a \in SUBSET WorkspaceIDs, b \in SUBSET WorkspaceIDs}

(* The smallest case in which a page of ListWorkspaces leaves out a row.   *)
PagedFiles == {Flat(None)}
PagedBindings == {[workspaceID |-> 1, productID |-> None]}
PagedOverrides == {[flag |-> Nothing, env |-> Nothing]}
PagedMemberships == MCMemberships
=============================================================================
