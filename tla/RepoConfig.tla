----------------------------- MODULE RepoConfig -----------------------------
(***************************************************************************)
(* repoconfig.Find (internal/repoconfig/repoconfig.go): the upward walk    *)
(* for the repo-local .tiden/config.json, while the CLI, an editor or git  *)
(* changes these files.                                                    *)
(*                                                                         *)
(* Directories are the numbers from 1, where the walk starts, to Depth,    *)
(* the root.  Find looks at a file three times: once at the file of HOME   *)
(* before the walk, to know the CLI's global store by its identity; then   *)
(* at each level with Stat; then, when it is not the global store, with    *)
(* ReadFile.  Each look is a step of its own.                              *)
(*                                                                         *)
(* The writers are outside the repository.  A write in place keeps the     *)
(* file's identity and may show the file truncated; a rename gives the     *)
(* name to another file; a removed file's identity may be used again.      *)
(* Left out: the keys in Extra other than whether one of storeMarkerKeys   *)
(* is among them, and errors of Stat, which count as a missing file.       *)
(***************************************************************************)
EXTENDS Integers, FiniteSets

CONSTANTS
  Depth,       (* directories from the start of the walk to the root       *)
  MaxLevels,   (* maxWalkLevels                                            *)
  Home,        (* the directory that is $HOME; 0 when the walk never       *)
               (* comes by it                                              *)
  Ids,         (* file identities (device and inode)                       *)
  Bindings,    (* what a file can bind the checkout to                     *)
  None,        (* no file, no binding, no result                           *)
  MaxChanges   (* bound on the changes the others make                     *)

Levels == 1..Depth

(* "store" carries a marker key; "empty" neither a marker nor a binding,   *)
(* as a truncated file or {} does; "broken" cannot be read or parsed.      *)
Contents == {"store", "empty", "broken"} \cup Bindings

Files == [id : Ids, content : Contents]

ASSUME RepoConfigAssumption ==
  /\ Depth \in Nat \ {0}
  /\ MaxLevels \in Nat \ {0}
  /\ Home \in Nat
  /\ MaxChanges \in Nat
  /\ Bindings \cap {"store", "empty", "broken"} = {}
  /\ None \notin Files
  /\ None \notin Ids
  /\ None \notin Contents

VARIABLES
  files,    (* the file in each directory                                  *)
  global,   (* globalInfo: the identity of HOME's file before the walk     *)
  pc,       (* the next look                                               *)
  level,    (* the directory it looks at                                   *)
  result,   (* what Find returned                                          *)
  changes,  (* the changes made since the walk began                       *)
  past      (* the files as they have been since the walk began            *)

vars == <<files, global, pc, level, result, changes, past>>

Kinds == {"create", "rewrite", "rename", "remove"}

TypeOK ==
  /\ files \in [Levels -> Files \cup {None}]
  /\ global \in Ids \cup {None}
  /\ pc \in {"begin", "stat", "read", "done"}
  /\ level \in Levels
  /\ result \in {None}
       \cup [path : Levels \cup {0}, exists : BOOLEAN, content : Contents \cup {None}]
  /\ changes \in SUBSET [level : Levels, kind : Kinds, marked : BOOLEAN]
  /\ past \subseteq [Levels -> Files \cup {None}]

Exists(l) == files[l] # None

Marked(file) == file # None /\ file.content = "store"

(* No two files have one identity.  Any file may hold anything: HOME's is  *)
(* the global store by its place, with marker keys or, as a stub written   *)
(* before the first login, with none and a stray workspaceId.              *)
Distinct(fs) ==
  \A k, l \in Levels : k # l /\ fs[k] # None /\ fs[l] # None => fs[k].id # fs[l].id

Init ==
  /\ files \in {fs \in [Levels -> Files \cup {None}] : Distinct(fs)}
  /\ global = None
  /\ pc = "begin"
  /\ level = 1
  /\ result = None
  /\ changes = {}
  /\ past = {}

-----------------------------------------------------------------------------
(* The walk                                                                *)

Return(r) ==
  /\ pc' = "done"
  /\ result' = r
  /\ UNCHANGED level

NotFound == [path |-> 0, exists |-> FALSE, content |-> None]

(* globalStoreInfo                                                         *)
Begin ==
  /\ pc = "begin"
  /\ global' = IF Home \in Levels /\ Exists(Home) THEN files[Home].id ELSE None
  /\ pc' = "stat"
  /\ past' = {files}
  /\ UNCHANGED <<files, level, result, changes>>

(* Two wrong forms of Up: one looks at one level more, one does not stop   *)
(* at the root.                                                            *)
UpTooFar ==
  \/ /\ level # Depth
     /\ level <= MaxLevels
     /\ level' = level + 1
     /\ pc' = "stat"
     /\ UNCHANGED result
  \/ /\ level = Depth \/ level > MaxLevels
     /\ Return(NotFound)

UpPastRoot ==
  /\ level' = level + 1
  /\ pc' = "stat"
  /\ UNCHANGED result

Up ==
  \/ /\ level # Depth
     /\ level < MaxLevels
     /\ level' = level + 1
     /\ pc' = "stat"
     /\ UNCHANGED result
  \/ /\ level = Depth \/ level = MaxLevels
     /\ Return(NotFound)

(* A wrong guard, which compares no identities.                            *)
IsGlobalNever(l) == FALSE

(* os.SameFile with what globalStoreInfo found.                            *)
IsGlobal(l) == files[l].id = global

Candidate(l) == Exists(l) /\ ~IsGlobal(l)

Stat ==
  /\ pc = "stat"
  /\ \/ /\ ~Candidate(level)
        /\ Up
     \/ /\ Candidate(level)
        /\ pc' = "read"
        /\ UNCHANGED <<level, result>>
  /\ UNCHANGED <<files, global, changes, past>>

(* A wrong Read, which takes any readable file for a binding file.         *)
ReadAnything ==
  /\ pc = "read"
  /\ \/ /\ ~Exists(level)
        /\ Return([path |-> level, exists |-> FALSE, content |-> None])
     \/ /\ Exists(level)
        /\ Return([path |-> level, exists |-> TRUE, content |-> files[level].content])
  /\ UNCHANGED <<files, global, changes, past>>

(* Read, and looksLikeCredentialStore of what it read.  A file that went   *)
(* away after Stat is returned as a file that does not exist; a file that  *)
(* cannot be read or parsed makes Find fail, told by the content "broken". *)
Read ==
  /\ pc = "read"
  /\ \/ /\ ~Exists(level)
        /\ Return([path |-> level, exists |-> FALSE, content |-> None])
     \/ /\ Exists(level)
        /\ files[level].content = "store"
        /\ Up
     \/ /\ Exists(level)
        /\ files[level].content # "store"
        /\ Return([path |-> level, exists |-> TRUE, content |-> files[level].content])
  /\ UNCHANGED <<files, global, changes, past>>

-----------------------------------------------------------------------------
(* The others                                                              *)

Change(l, kind, file) == [level |-> l, kind |-> kind, marked |-> Marked(file)]

Put(l, kind, file) ==
  /\ pc \in {"stat", "read"}
  /\ Cardinality(changes) < MaxChanges
  /\ Change(l, kind, file) \notin changes
  /\ files' = [files EXCEPT ![l] = file]
  /\ Distinct(files')
  /\ changes' = changes \cup {Change(l, kind, file)}
  /\ past' = past \cup {files'}
  /\ UNCHANGED <<global, pc, level, result>>

Create(l) == ~Exists(l) /\ \E f \in Files : Put(l, "create", f)

Rewrite(l) ==
  /\ Exists(l)
  /\ \E c \in Contents \ {files[l].content} :
       Put(l, "rewrite", [files[l] EXCEPT !.content = c])

(* A rename shows the file whole.                                          *)
Rename(l) ==
  /\ Exists(l)
  /\ \E f \in Files :
       /\ f.id # files[l].id
       /\ f.content \notin {"empty", "broken"}
       /\ Put(l, "rename", f)

Remove(l) == Exists(l) /\ Put(l, "remove", None)

Next ==
  \/ Begin \/ Stat \/ Read
  \/ \E l \in Levels : Create(l) \/ Rewrite(l) \/ Rename(l) \/ Remove(l)

Spec == Init /\ [][Next]_vars

-----------------------------------------------------------------------------
(* Properties                                                              *)

Found == result # None

(* What the ladder reads from Find's answer: an error, or a binding.       *)
Answer(content) == IF content = "empty" THEN None ELSE content

Deepest == IF Depth <= MaxLevels THEN Depth ELSE MaxLevels

BindingFiles(fs) ==
  {l \in 1..Deepest : l # Home /\ fs[l] # None /\ fs[l].content # "store"}

(* The answer the files fs call for: that of the nearest file that is no   *)
(* credential store.                                                       *)
Nearest(fs) ==
  IF BindingFiles(fs) = {} THEN None
  ELSE LET l == CHOOSE k \in BindingFiles(fs) : \A m \in BindingFiles(fs) : k <= m
       IN  Answer(fs[l].content)

(* The two changes that Find's three looks at a file do not stand: a file  *)
(* removed after Stat, and HOME's file put in place after the walk took its*)
(* identity, without a marker by which Read would know it.                 *)
PutAtHome(c) == c.level = Home /\ c.kind \in {"create", "rename"}

Racy == {c \in changes : c.kind = "remove" \/ (PutAtHome(c) /\ ~c.marked)}

(* Whoever changes one file while Find walks, Find answers as it would have*)
(* before the change or after it, or the change is one of the two it does  *)
(* not stand.                                                              *)
AsBeforeOrAfterAChange ==
  Found /\ Cardinality(changes) <= 1 /\ Racy = {} =>
    Answer(result.content) \in {Nearest(fs) : fs \in past}

(* With any number of changes: the file Find answers with was in its place *)
(* during the walk with that content, within the levels Find may look at;  *)
(* and every nearer level had, at some time during the walk, nothing that  *)
(* binds, or a file that has the identity the global store had.            *)
AnswerWasThere ==
  Found /\ result.exists =>
    /\ result.path <= MaxLevels
    /\ \E fs \in past : fs[result.path] # None /\ fs[result.path].content = result.content
    /\ \A l \in 1..(result.path - 1) :
         \E fs \in past :
           \/ fs[l] = None
           \/ l = Home
           \/ fs[l].content = "store"
           \/ fs[l].id = global

(* The two guards of Find's comment, while the files change.  Content: a   *)
(* file with a marker is never answered, whoever's HOME it is in.          *)
(* Identity: this HOME's file, with markers or without, is answered only   *)
(* when another file was put in its place since the walk took its identity.*)
StoreNeverBinds ==
  Found =>
    /\ result.content # "store"
    /\ Home \in Levels /\ result.path = Home => \E c \in changes : PutAtHome(c)

(* The comment of Find: it looks for the nearest file, and returns         *)
(* Exists=false when none is found anywhere up the tree.                   *)
MissingMeansNoneAnywhere ==
  Found /\ ~result.exists => \E fs \in past : BindingFiles(fs) = {}
=============================================================================
