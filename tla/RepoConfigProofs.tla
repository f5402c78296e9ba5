-------------------------- MODULE RepoConfigProofs --------------------------
(***************************************************************************)
(* Proofs about RepoConfig, for every depth, every place of HOME, every    *)
(* set of file identities and any number of changes by the others.         *)
(*                                                                         *)
(* AnswerWasThere speaks of the levels below the answer, so WalkInv says   *)
(* of every level the walk has left behind why it was left.                *)
(* StoreNeverBinds needs to know that HOME's file, whatever it holds, is   *)
(* still the one the walk knows, or that another was put in its place:     *)
(* HomeInv.                                                                *)
(* AsBeforeOrAfterAChange asks for one moment that explains the whole walk:*)
(* MomentInv keeps one, as long as there was no more than one change and   *)
(* none of the two that Find does not stand.                               *)
(***************************************************************************)
EXTENDS RepoConfig, FiniteSetTheorems, TLAPS

(* Why the walk may leave a level: see AnswerWasThere.                     *)
Passed(l) ==
  \E fs \in past :
    \/ fs[l] = None
    \/ l = Home
    \/ fs[l].content = "store"
    \/ fs[l].id = global

WalkInv ==
  /\ pc # "begin" => files \in past
  /\ pc # "done" => result = None
  /\ pc = "begin" => level = 1
  /\ level <= MaxLevels
  /\ \A l \in 1..(level - 1) : Passed(l)
  /\ AnswerWasThere

Replaced == \E c \in changes : PutAtHome(c)

HomeInv ==
  /\ Distinct(files)
  /\ pc # "begin" /\ Home \in Levels /\ files[Home] # None =>
       files[Home].id = global \/ Replaced
  /\ pc = "read" /\ level = Home => Replaced
  /\ StoreNeverBinds

-----------------------------------------------------------------------------
(* A change by another process leaves the walk alone, adds its kind to the *)
(* changes and the new files to the past, and leaves every file its own    *)
(* identity.                                                               *)
LEMMA PutIsAChange ==
  ASSUME TypeOK,
         NEW l \in Levels, NEW kind \in Kinds,
         NEW file \in Files \cup {None},
         Put(l, kind, file)
  PROVE  /\ TypeOK'
         /\ pc \in {"stat", "read"}
         /\ files' = [files EXCEPT ![l] = file]
         /\ files' \in past'
         /\ past \subseteq past'
         /\ Distinct(files')
         /\ changes' = changes \cup {Change(l, kind, file)}
         /\ UNCHANGED <<global, pc, level, result>>
<1>1. files' \in [Levels -> Files \cup {None}]
  BY DEF TypeOK, Put
<1>2. changes' \in SUBSET [level : Levels, kind : Kinds, marked : BOOLEAN]
  <2>1. Change(l, kind, file) \in [level : Levels, kind : Kinds, marked : BOOLEAN]
    <3>1. Marked(file) \in BOOLEAN
      BY DEF Marked
    <3> QED
      BY <3>1, Zenon DEF Change
  <2> QED
    BY <2>1 DEF TypeOK, Put
<1>3. past' \subseteq [Levels -> Files \cup {None}]
  BY <1>1 DEF TypeOK, Put
<1>4. TypeOK'
  BY <1>1, <1>2, <1>3 DEF TypeOK, Put
<1> QED
  BY <1>4 DEF Put

(* Every step of the others is such a change: to a level, of one of the    *)
(* four kinds, and one that keeps the identity of the file there, makes    *)
(* the level empty, or is a creation or a rename.                          *)
LEMMA OthersPut ==
  ASSUME TypeOK, NEW l \in Levels,
         Create(l) \/ Rewrite(l) \/ Rename(l) \/ Remove(l)
  PROVE  \E kind \in Kinds, file \in Files \cup {None} :
           /\ Put(l, kind, file)
           /\ \/ kind \in {"create", "rename"}
              \/ file = None
              \/ files[l] # None /\ file.id = files[l].id
<1>1. CASE Create(l)
  BY <1>1 DEF Create, Kinds
<1>2. CASE Rewrite(l)
  <2>1. PICK c \in Contents : Put(l, "rewrite", [files[l] EXCEPT !.content = c])
    BY <1>2 DEF Rewrite
  <2>2. files[l] \in Files
    BY <1>2 DEF Rewrite, Exists, TypeOK
  <2>3. /\ [files[l] EXCEPT !.content = c] \in Files
        /\ [files[l] EXCEPT !.content = c].id = files[l].id
    BY <2>2 DEF Files
  <2> QED
    BY <1>2, <2>1, <2>3 DEF Rewrite, Exists, Kinds
<1>3. CASE Rename(l)
  BY <1>3 DEF Rename, Kinds
<1>4. CASE Remove(l)
  BY <1>4 DEF Remove, Kinds
<1> QED
  BY <1>1, <1>2, <1>3, <1>4

(* Up goes one level on, below the root and within maxWalkLevels, or ends  *)
(* the walk with a missing file.                                           *)
LEMMA UpGoesOn ==
  ASSUME TypeOK, level <= MaxLevels, Up
  PROVE  \/ /\ level' = level + 1
            /\ level' \in Levels
            /\ level' <= MaxLevels
            /\ pc' = "stat"
            /\ result' = result
         \/ /\ level' = level
            /\ pc' = "done"
            /\ result' = NotFound
BY RepoConfigAssumption DEF TypeOK, Up, Return, NotFound, Levels

-----------------------------------------------------------------------------
(* Find's own state and the files keep their types: in particular the walk *)
(* stays between the directory it starts in and the root.                  *)
THEOREM TypeCorrect == Spec => []TypeOK
<1>1. Init => TypeOK
  BY RepoConfigAssumption DEF Init, TypeOK, Levels
<1>2. TypeOK /\ [Next]_vars => TypeOK'
  <2> SUFFICES ASSUME TypeOK, [Next]_vars PROVE TypeOK'
    OBVIOUS
  <2>1. CASE Begin
    <3>1. global' \in Ids \cup {None}
      BY <2>1 DEF TypeOK, Begin, Exists, Files
    <3> QED
      BY <2>1, <3>1 DEF TypeOK, Begin
  <2>2. ASSUME Up, UNCHANGED <<files, global, changes, past>> PROVE TypeOK'
    <3>1. level' \in Levels /\ pc' \in {"stat", "done"} /\ result' \in {result, NotFound}
      BY <2>2, RepoConfigAssumption DEF TypeOK, Up, Return, Levels
    <3>2. NotFound \in [path : Levels \cup {0}, exists : BOOLEAN, content : Contents \cup {None}]
      BY DEF NotFound
    <3> QED
      BY <2>2, <3>1, <3>2 DEF TypeOK
  <2>3. CASE Stat
    BY <2>2, <2>3 DEF TypeOK, Stat
  <2>4. CASE Read
    <3>1. CASE Up
      BY <2>2, <2>4, <3>1 DEF Read
    <3>2. CASE ~Up /\ ~Exists(level)
      <4>1. Return([path |-> level, exists |-> FALSE, content |-> None])
        BY <2>4, <3>2 DEF Read
      <4>2. [path |-> level, exists |-> FALSE, content |-> None]
              \in [path : Levels \cup {0}, exists : BOOLEAN, content : Contents \cup {None}]
        BY DEF TypeOK
      <4> QED
        BY <2>4, <4>1, <4>2 DEF TypeOK, Read, Return
    <3>3. CASE ~Up /\ Exists(level)
      <4>1. files[level].content \in Contents
        BY <3>3 DEF TypeOK, Exists, Files
      <4>2. files[level].content # "store"
        BY <2>4, <3>3 DEF Read
      <4>3. Return([path |-> level, exists |-> TRUE, content |-> files[level].content])
        BY <2>4, <3>3 DEF Read
      <4> QED
        BY <2>4, <4>1, <4>3 DEF TypeOK, Read, Return
    <3> QED
      BY <3>1, <3>2, <3>3
  <2>5. ASSUME NEW l \in Levels, Create(l) \/ Rewrite(l) \/ Rename(l) \/ Remove(l)
        PROVE  TypeOK'
    BY <2>5, OthersPut, PutIsAChange
  <2>6. CASE UNCHANGED vars
    BY <2>6 DEF TypeOK, vars
  <2> QED
    BY <2>1, <2>3, <2>4, <2>5, <2>6 DEF Next
<1> QED
  BY <1>1, <1>2, PTL DEF Spec

-----------------------------------------------------------------------------
(* The walk's own steps keep WalkInv.                                      *)
LEMMA UpKeepsWalk ==
  ASSUME TypeOK, WalkInv, pc \in {"stat", "read"}, Up, Passed(level),
         UNCHANGED <<files, global, changes, past>>
  PROVE  WalkInv'
<1>1. files' \in past'
  BY DEF WalkInv
<1>2. \A l \in 1..(level - 1) : Passed(l)'
  BY DEF WalkInv, Passed
<1>3. \A l \in Levels : l = level => Passed(l)'
  BY DEF Passed
<1>4. level \in Levels /\ level \in Int
  BY DEF TypeOK, Levels
<1>5. level <= MaxLevels /\ result = None
  BY DEF WalkInv
<1>6. CASE level' = level + 1 /\ level' <= MaxLevels /\ pc' = "stat" /\ result' = result
  <2>1. \A l \in 1..(level' - 1) : l \in 1..(level - 1) \/ l = level
    BY <1>4, <1>6
  <2>2. \A l \in 1..(level' - 1) : Passed(l)'
    BY <1>2, <1>3, <1>4, <2>1
  <2>3. AnswerWasThere'
    BY <1>5, <1>6 DEF AnswerWasThere, Found
  <2> QED
    BY <1>1, <1>6, <2>2, <2>3 DEF WalkInv
<1>7. CASE level' = level /\ pc' = "done" /\ result' = NotFound
  <2>1. AnswerWasThere'
    BY <1>7 DEF AnswerWasThere, NotFound
  <2>2. \A l \in 1..(level' - 1) : Passed(l)'
    BY <1>2, <1>7
  <2> QED
    BY <1>1, <1>5, <1>7, <2>1, <2>2 DEF WalkInv
<1> QED
  BY <1>5, <1>6, <1>7, UpGoesOn

LEMMA ReadKeepsWalk == TypeOK /\ WalkInv /\ Read => WalkInv'
<1> SUFFICES ASSUME TypeOK, WalkInv, Read PROVE WalkInv'
  OBVIOUS
<1>1. files \in past /\ level \in Int
  BY DEF WalkInv, Read, TypeOK, Levels
<1>2. CASE Exists(level) /\ files[level].content = "store"
  <2>1. Up
    BY <1>2 DEF Read
  <2>2. Passed(level)
    BY <1>1, <1>2 DEF Passed
  <2> QED
    BY <2>1, <2>2, UpKeepsWalk DEF Read
<1>3. ASSUME NEW e \in BOOLEAN, NEW v,
             Return([path |-> level, exists |-> e, content |-> v]),
             e => files[level] # None /\ files[level].content = v
      PROVE  WalkInv'
  <2>1. /\ pc' = "done" /\ level' = level
        /\ result' = [path |-> level, exists |-> e, content |-> v]
        /\ UNCHANGED <<files, global, past>>
    BY <1>3 DEF Return, Read
  <2>2. \A l \in 1..(level - 1) : Passed(l)'
    BY <2>1 DEF WalkInv, Passed
  <2>3. AnswerWasThere'
    <3> SUFFICES ASSUME e = TRUE PROVE AnswerWasThere'
      BY <2>1 DEF AnswerWasThere
    <3>1. result'.path = level /\ result'.content = v
      BY <2>1
    <3>2. level <= MaxLevels
      BY DEF WalkInv
    <3>3. \E fs \in past' : fs[level] # None /\ fs[level].content = v
      BY <1>1, <1>3, <2>1
    <3> QED
      BY <2>2, <3>1, <3>2, <3>3 DEF AnswerWasThere, Passed
  <2> QED
    BY <1>1, <2>1, <2>2, <2>3 DEF WalkInv
<1>4. CASE ~Exists(level)
  BY <1>3, <1>4 DEF Read
<1>5. CASE Exists(level) /\ files[level].content # "store"
  BY <1>3, <1>5 DEF Read, Exists
<1> QED
  BY <1>2, <1>4, <1>5

(* What the past shows it shows for ever, so the changes of the others do  *)
(* not touch WalkInv.                                                      *)
LEMMA PastGrows ==
  ASSUME TypeOK, WalkInv, pc # "begin",
         past \subseteq past', files' \in past',
         UNCHANGED <<global, pc, level, result>>
  PROVE  WalkInv'
<1>1. \A l \in 1..(level' - 1) : Passed(l)'
  BY DEF WalkInv, Passed
<1>2. AnswerWasThere'
  <2> SUFFICES ASSUME Found', result'.exists
               PROVE  /\ result.path <= MaxLevels
                      /\ \E fs \in past' : fs[result.path] # None
                                        /\ fs[result.path].content = result.content
                      /\ \A l \in 1..(result.path - 1) : Passed(l)'
    BY DEF AnswerWasThere, Passed
  <2>1. /\ result.path <= MaxLevels
        /\ \E fs \in past : fs[result.path] # None
                         /\ fs[result.path].content = result.content
        /\ \A l \in 1..(result.path - 1) : Passed(l)
    BY DEF WalkInv, AnswerWasThere, Found, Passed
  <2> QED
    BY <2>1 DEF Passed
<1> QED
  BY <1>1, <1>2 DEF WalkInv

(* Every step keeps WalkInv.                                               *)
LEMMA WalkCorrect == Spec => []WalkInv
<1>1. Init => WalkInv
  BY RepoConfigAssumption DEF Init, WalkInv, AnswerWasThere, Found
<1>2. TypeOK /\ WalkInv /\ [Next]_vars => WalkInv'
  <2> SUFFICES ASSUME TypeOK, WalkInv, [Next]_vars PROVE WalkInv'
    OBVIOUS
  <2>1. CASE Begin
    BY <2>1 DEF Begin, WalkInv, AnswerWasThere, Found
  <2>2. CASE Stat
    <3>1. files \in past /\ pc = "stat" /\ result = None /\ UNCHANGED <<files, global, changes, past>>
      BY <2>2 DEF Stat, WalkInv
    <3>2. CASE ~Candidate(level)
      <4>1. Passed(level)
        BY <3>1, <3>2 DEF Candidate, Exists, IsGlobal, Passed
      <4> QED
        BY <2>2, <3>1, <3>2, <4>1, UpKeepsWalk DEF Stat
    <3>3. CASE Candidate(level)
      <4>1. pc' = "read" /\ UNCHANGED <<level, result>>
        BY <2>2, <3>3 DEF Stat
      <4> QED
        BY <3>1, <4>1, PastGrows, Zenon DEF WalkInv, AnswerWasThere, Found, Passed
    <3> QED
      BY <3>2, <3>3
  <2>3. CASE Read
    BY <2>3, ReadKeepsWalk
  <2>4. ASSUME NEW l \in Levels, Create(l) \/ Rewrite(l) \/ Rename(l) \/ Remove(l)
        PROVE  WalkInv'
    <3>1. PICK kind \in Kinds, file \in Files \cup {None} : Put(l, kind, file)
      BY <2>4, OthersPut
    <3>2. /\ pc # "begin" /\ files' \in past' /\ past \subseteq past'
          /\ UNCHANGED <<global, pc, level, result>>
      BY <3>1, PutIsAChange
    <3> QED
      BY <3>2, PastGrows
  <2>5. CASE UNCHANGED vars
    BY <2>5 DEF vars, WalkInv, AnswerWasThere, Found, Passed
  <2> QED
    BY <2>1, <2>2, <2>3, <2>4, <2>5 DEF Next
<1> QED
  BY <1>1, <1>2, TypeCorrect, PTL DEF Spec

(* The file Find answers with was in its place during the walk, and every  *)
(* nearer level had at some time nothing that binds: however many changes  *)
(* the others make, and wherever they make them.                           *)
THEOREM AnswerWasInPlace == Spec => []AnswerWasThere
<1>1. WalkInv => AnswerWasThere
  BY DEF WalkInv
<1> QED
  BY <1>1, WalkCorrect, PTL

-----------------------------------------------------------------------------
(* The change the others make is on record when they replace HOME's file,  *)
(* and otherwise the file keeps its identity or goes.                      *)
LEMMA OthersKeepHome ==
  ASSUME TypeOK, HomeInv, NEW l \in Levels,
         Create(l) \/ Rewrite(l) \/ Rename(l) \/ Remove(l)
  PROVE  HomeInv'
<1>1. PICK kind \in Kinds, file \in Files \cup {None} :
        /\ Put(l, kind, file)
        /\ \/ kind \in {"create", "rename"}
           \/ file = None
           \/ files[l] # None /\ file.id = files[l].id
  BY OthersPut
<1>2. /\ files' = [files EXCEPT ![l] = file]
      /\ Distinct(files')
      /\ changes' = changes \cup {Change(l, kind, file)}
      /\ pc \in {"stat", "read"}
      /\ UNCHANGED <<global, pc, level, result>>
  BY <1>1, PutIsAChange
<1>3. Replaced => Replaced'
  BY <1>2 DEF Replaced
<1>4. ASSUME Home \in Levels, files'[Home] # None
      PROVE  files'[Home].id = global \/ Replaced'
  <2>1. CASE l # Home
    BY <1>2, <1>3, <1>4, <2>1 DEF TypeOK, HomeInv
  <2>2. CASE l = Home /\ kind \in {"create", "rename"}
    <3>1. Change(l, kind, file) \in changes'
      BY <1>2
    <3> QED
      BY <2>2, <3>1 DEF Replaced, PutAtHome, Change
  <2>3. CASE l = Home /\ kind \notin {"create", "rename"}
    <3>1. files'[Home] = file
      BY <1>2, <2>3 DEF TypeOK
    <3>2. files[Home] # None /\ file.id = files[Home].id
      BY <1>1, <1>4, <2>3, <3>1
    <3> QED
      BY <1>2, <1>3, <1>4, <3>1, <3>2 DEF HomeInv
  <2> QED
    BY <2>1, <2>2, <2>3
<1>5. StoreNeverBinds'
  BY <1>2 DEF HomeInv, StoreNeverBinds, Found
<1> QED
  BY <1>2, <1>3, <1>4, <1>5 DEF HomeInv

(* What Read returns is no credential store, and HOME's file only when it  *)
(* was replaced.                                                           *)
LEMMA ReadKeepsHome == TypeOK /\ WalkInv /\ HomeInv /\ Read => HomeInv'
<1> SUFFICES ASSUME TypeOK, WalkInv, HomeInv, Read PROVE HomeInv'
  OBVIOUS
<1>1. /\ pc = "read" /\ level \in Levels /\ level <= MaxLevels /\ result = None
      /\ UNCHANGED <<files, global, changes, past>>
  BY DEF Read, TypeOK, WalkInv
<1>2. ASSUME pc' # "read", StoreNeverBinds' PROVE HomeInv'
  BY <1>1, <1>2 DEF HomeInv, Replaced
<1>3. CASE Exists(level) /\ files[level].content = "store"
  <2>1. pc' # "read" /\ (result' = None \/ result' = NotFound)
    BY <1>1, <1>3, UpGoesOn DEF Read
  <2>2. StoreNeverBinds'
    <3>1. CASE result' = None
      BY <3>1 DEF StoreNeverBinds, Found
    <3>2. CASE result' = NotFound
      <4>1. None # "store"
        BY RepoConfigAssumption DEF Contents
      <4> QED
        BY <3>2, <4>1 DEF StoreNeverBinds, NotFound, Levels
    <3> QED
      BY <2>1, <3>1, <3>2
  <2> QED
    BY <1>2, <2>1, <2>2
<1>4. CASE ~Exists(level)
  <2>1. /\ pc' = "done"
        /\ result' = [path |-> level, exists |-> FALSE, content |-> None]
    BY <1>4 DEF Read, Return
  <2>2. None # "store"
    BY RepoConfigAssumption DEF Contents
  <2>3. level = Home => Replaced
    BY <1>1 DEF HomeInv
  <2>4. StoreNeverBinds'
    BY <1>1, <2>1, <2>2, <2>3 DEF StoreNeverBinds, Replaced
  <2> QED
    BY <1>2, <2>1, <2>4
<1>5. CASE Exists(level) /\ files[level].content # "store"
  <2>1. /\ pc' = "done"
        /\ result' = [path |-> level, exists |-> TRUE, content |-> files[level].content]
    BY <1>5 DEF Read, Return
  <2>2. level = Home => Replaced
    BY <1>1 DEF HomeInv
  <2>3. StoreNeverBinds'
    BY <1>1, <1>5, <2>1, <2>2 DEF StoreNeverBinds, Replaced
  <2> QED
    BY <1>2, <2>1, <2>3
<1> QED
  BY <1>3, <1>4, <1>5

(* Every step keeps HomeInv.                                               *)
LEMMA HomeCorrect == Spec => []HomeInv
<1>1. Init => HomeInv
  BY DEF Init, HomeInv, StoreNeverBinds, Found
<1>2. TypeOK /\ WalkInv /\ HomeInv /\ [Next]_vars => HomeInv'
  <2> SUFFICES ASSUME TypeOK, WalkInv, HomeInv, [Next]_vars PROVE HomeInv'
    OBVIOUS
  <2>1. CASE Begin
    BY <2>1 DEF Begin, HomeInv, Exists, StoreNeverBinds, Found, WalkInv
  <2>2. CASE Stat
    <3>1. /\ pc = "stat" /\ result = None /\ level <= MaxLevels /\ level \in Levels
          /\ UNCHANGED <<files, global, changes, past>>
      BY <2>2 DEF Stat, WalkInv, TypeOK
    <3>2. CASE ~Candidate(level)
      <4>1. pc' # "read" /\ (result' = None \/ result' = NotFound)
        BY <2>2, <3>1, <3>2, UpGoesOn DEF Stat
      <4>2. StoreNeverBinds'
        <5>1. None # "store"
          BY RepoConfigAssumption DEF Contents
        <5> QED
          BY <4>1, <5>1 DEF StoreNeverBinds, Found, NotFound, Levels
      <4> QED
        BY <3>1, <4>1, <4>2 DEF HomeInv, Replaced
    <3>3. CASE Candidate(level)
      <4>1. pc' = "read" /\ UNCHANGED <<level, result>>
        BY <2>2, <3>3 DEF Stat
      <4>2. level = Home => Replaced
        BY <3>1, <3>3 DEF Candidate, Exists, IsGlobal, HomeInv
      <4>3. StoreNeverBinds'
        BY <3>1, <4>1 DEF StoreNeverBinds, Found
      <4> QED
        BY <3>1, <4>1, <4>2, <4>3 DEF HomeInv, Replaced
    <3> QED
      BY <3>2, <3>3
  <2>3. CASE Read
    BY <2>3, ReadKeepsHome
  <2>4. ASSUME NEW l \in Levels, Create(l) \/ Rewrite(l) \/ Rename(l) \/ Remove(l)
        PROVE  HomeInv'
    BY <2>4, OthersKeepHome
  <2>5. CASE UNCHANGED vars
    BY <2>5 DEF vars, HomeInv, Replaced, StoreNeverBinds, Found
  <2> QED
    BY <2>1, <2>2, <2>3, <2>4, <2>5 DEF Next
<1> QED
  BY <1>1, <1>2, TypeCorrect, WalkCorrect, PTL DEF Spec

(* Whatever HOME's file holds and whatever the others do to the files: no  *)
(* file with a marker is read as a binding, and HOME's file is answered    *)
(* only when another was put in its place during the walk.                 *)
THEOREM StoresDoNotBind == Spec => []StoreNeverBinds
<1>1. HomeInv => StoreNeverBinds
  BY DEF HomeInv
<1> QED
  BY <1>1, HomeCorrect, PTL

-----------------------------------------------------------------------------
(* One change                                                              *)

Binds(fs, l) == l # Home /\ fs[l] # None /\ fs[l].content # "store"

Quiet == (changes = {} \/ \E c \in changes : changes = {c}) /\ Racy = {}

(* HOME's file is the one the walk knows, or none is there nor known.      *)
HomeKnown ==
  IF Home \in Levels /\ files[Home] # None THEN global = files[Home].id ELSE global = None

(* No other file has the identity the walk knows; HOME's file is the one   *)
(* the walk knows or a store that was put in its place; and at one moment  *)
(* of the walk nothing behind it bound, and all before it was as it is now.*)
MomentInv ==
  /\ changes = {} => past = {files} /\ HomeKnown
  /\ \A l \in Levels \ {Home} : files[l] # None => files[l].id # global
  /\ Home \in Levels /\ files[Home] # None =>
       files[Home].id = global \/ (changes # {} /\ files[Home].content = "store")
  /\ pc = "read" =>
       /\ files[level] # None
       /\ level = Home => changes # {} /\ files[level].content = "store"
  /\ pc \in {"stat", "read"} =>
       \E fs \in past :
         /\ \A l \in 1..(level - 1) : ~Binds(fs, l)
         /\ \A l \in level..Depth : fs[l] = files[l]

(* The answer, path and all, of the files fs.                              *)
AsOf(fs) ==
  IF result.exists
  THEN /\ result.path \in BindingFiles(fs)
       /\ \A m \in BindingFiles(fs) : result.path <= m
       /\ result.content = fs[result.path].content
  ELSE BindingFiles(fs) = {} /\ result = NotFound

AsAtOneMoment == Found => \E fs \in past : AsOf(fs)

OneChangeInv ==
  /\ IsFiniteSet(changes)
  /\ pc = "begin" => changes = {}
  /\ Quiet /\ pc \in {"stat", "read"} => MomentInv
  /\ Quiet => AsAtOneMoment

(* The nearest file that binds is the answer the files call for.           *)
LEMMA NearestIsFirst ==
  ASSUME NEW fs, NEW l \in BindingFiles(fs), \A m \in 1..(l - 1) : ~Binds(fs, m)
  PROVE  /\ \A m \in BindingFiles(fs) : l <= m
         /\ Nearest(fs) = Answer(fs[l].content)
<1>1. Deepest \in Nat
  BY RepoConfigAssumption DEF Deepest
<1>2. l \in Int /\ BindingFiles(fs) \subseteq Int
  BY <1>1 DEF BindingFiles
<1>3. \A m \in BindingFiles(fs) : l <= m
  <2> SUFFICES ASSUME NEW m \in BindingFiles(fs), ~(l <= m) PROVE FALSE
    OBVIOUS
  <2>1. m \in 1..(l - 1)
    BY <1>1, <1>2 DEF BindingFiles
  <2>2. Binds(fs, m)
    BY DEF BindingFiles, Binds
  <2> QED
    BY <2>1, <2>2
<1> DEFINE first == CHOOSE k \in BindingFiles(fs) : \A m \in BindingFiles(fs) : k <= m
<1>4. first \in BindingFiles(fs) /\ \A m \in BindingFiles(fs) : first <= m
  BY <1>3
<1>5. first = l
  <2> HIDE DEF first
  <2> QED
    BY <1>2, <1>3, <1>4
<1> QED
  BY <1>3, <1>5 DEF Nearest

(* Where no level that Find may look at binds, the files call for nothing. *)
LEMMA NothingBinds ==
  ASSUME NEW fs, \A l \in 1..Deepest : ~Binds(fs, l)
  PROVE  BindingFiles(fs) = {}
BY DEF BindingFiles, Binds

(* A walk that ends at the last level it may look at looked at them all.   *)
LEMMA LastLevel ==
  ASSUME TypeOK, level <= MaxLevels
  PROVE  /\ level \in 1..Deepest
         /\ level = Depth \/ level = MaxLevels => level = Deepest
BY RepoConfigAssumption DEF TypeOK, Levels, Deepest

(* Going up past a level that does not bind keeps the moment.              *)
LEMMA UpKeepsMoment ==
  ASSUME TypeOK, WalkInv, MomentInv, pc \in {"stat", "read"}, Up, ~Binds(files, level),
         UNCHANGED <<files, global, changes, past>>
  PROVE  (pc' \in {"stat", "read"} => MomentInv') /\ AsAtOneMoment'
<1>1. level \in Levels /\ level \in Int /\ level <= MaxLevels /\ result = None /\ Depth \in Nat
  BY RepoConfigAssumption DEF TypeOK, Levels, WalkInv
<1>2. PICK fs \in past : /\ \A l \in 1..(level - 1) : ~Binds(fs, l)
                         /\ \A l \in level..Depth : fs[l] = files[l]
  BY DEF MomentInv
<1>3. ~Binds(fs, level)
  <2>1. level \in level..Depth
    BY <1>1 DEF Levels
  <2> QED
    BY <1>2, <2>1, Zenon DEF Binds
<1>4. \A l \in 1..level : ~Binds(fs, l)
  <2>1. \A l \in 1..level : l \in 1..(level - 1) \/ l = level
    BY <1>1
  <2> QED
    BY <1>2, <1>3, <2>1
<1>5. CASE level' = level + 1 /\ pc' = "stat" /\ result' = result
  <2>1. AsAtOneMoment'
    BY <1>1, <1>5 DEF AsAtOneMoment, Found
  <2>2. (level + 1)..Depth \subseteq level..Depth /\ (level + 1) - 1 = level
    BY <1>1
  <2>3. \E gs \in past' :
          /\ \A l \in 1..(level' - 1) : ~Binds(gs, l)
          /\ \A l \in level'..Depth : gs[l] = files'[l]
    BY <1>2, <1>4, <1>5, <2>2
  <2>4. HomeKnown' = HomeKnown
    BY DEF HomeKnown
  <2> QED
    BY <1>5, <2>1, <2>3, <2>4 DEF MomentInv, Binds
<1>6. CASE level' = level /\ pc' = "done" /\ result' = NotFound
  <2>1. level = Depth \/ level = MaxLevels
    BY <1>1, <1>6 DEF Up
  <2>2. level = Deepest
    BY <1>1, <2>1, LastLevel
  <2>3. BindingFiles(fs) = {}
    BY <1>4, <2>2, NothingBinds
  <2>4. AsOf(fs)'
    BY <1>6, <2>3 DEF AsOf, NotFound, BindingFiles
  <2> QED
    BY <1>6, <2>4 DEF AsAtOneMoment
<1> QED
  BY <1>1, <1>5, <1>6, UpGoesOn

(* Stat leaves a level that does not bind, or finds a file to read.        *)
LEMMA StatKeepsMoment ==
  ASSUME TypeOK, WalkInv, MomentInv, Stat
  PROVE  (pc' \in {"stat", "read"} => MomentInv') /\ AsAtOneMoment'
<1>1. /\ pc = "stat" /\ result = None /\ level \in Levels
      /\ UNCHANGED <<files, global, changes, past>>
  BY DEF Stat, WalkInv, TypeOK
<1>2. CASE ~Candidate(level)
  <2>1. ~Binds(files, level)
    BY <1>1, <1>2 DEF Candidate, Exists, IsGlobal, Binds, MomentInv
  <2>2. Up
    BY <1>2 DEF Stat
  <2> QED
    BY <1>1, <2>1, <2>2, UpKeepsMoment
<1>3. CASE Candidate(level)
  <2>1. pc' = "read" /\ UNCHANGED <<level, result>>
    BY <1>3 DEF Stat
  <2>2. files[level] # None /\ (level = Home => changes # {} /\ files[level].content = "store")
    BY <1>1, <1>3 DEF Candidate, Exists, IsGlobal, MomentInv
  <2>3. HomeKnown' = HomeKnown
    BY <1>1 DEF HomeKnown
  <2>4. MomentInv'
    BY <1>1, <2>1, <2>2, <2>3 DEF MomentInv, Binds
  <2>5. AsAtOneMoment'
    BY <1>1, <2>1 DEF AsAtOneMoment, Found
  <2> QED
    BY <2>4, <2>5
<1> QED
  BY <1>2, <1>3

(* Read leaves a store behind, or answers with the nearest file that binds *)
(* at the moment MomentInv keeps.                                          *)
LEMMA ReadKeepsMoment ==
  ASSUME TypeOK, WalkInv, MomentInv, Read
  PROVE  (pc' \in {"stat", "read"} => MomentInv') /\ AsAtOneMoment'
<1>1. /\ pc = "read" /\ level \in Levels /\ level <= MaxLevels /\ Exists(level)
      /\ UNCHANGED <<files, global, changes, past>>
  BY DEF Read, WalkInv, TypeOK, MomentInv, Exists
<1>2. CASE files[level].content = "store"
  <2>1. Up /\ ~Binds(files, level)
    BY <1>1, <1>2 DEF Read, Binds
  <2> QED
    BY <1>1, <2>1, UpKeepsMoment
<1>3. CASE files[level].content # "store"
  <2>1. /\ pc' = "done"
        /\ result' = [path |-> level, exists |-> TRUE, content |-> files[level].content]
    BY <1>1, <1>3 DEF Read, Return
  <2>2. PICK fs \in past : /\ \A l \in 1..(level - 1) : ~Binds(fs, l)
                           /\ \A l \in level..Depth : fs[l] = files[l]
    BY <1>1 DEF MomentInv
  <2>3. fs[level] = files[level]
    <3>1. level \in level..Depth
      BY <1>1 DEF Levels
    <3> QED
      BY <2>2, <3>1
  <2>4. level # Home /\ files[level] # None
    BY <1>1, <1>3 DEF MomentInv, Exists
  <2>5. level \in BindingFiles(fs)
    BY <1>1, <1>3, <2>3, <2>4, LastLevel DEF BindingFiles
  <2>6. \A m \in BindingFiles(fs) : level <= m
    BY <2>2, <2>5, NearestIsFirst
  <2>7. AsOf(fs)'
    BY <2>1, <2>3, <2>5, <2>6 DEF AsOf, BindingFiles
  <2> QED
    BY <1>1, <2>1, <2>7 DEF AsAtOneMoment
<1> QED
  BY <1>2, <1>3

(* A change that leaves the walk quiet is the first: it takes no file away,*)
(* and at HOME it writes in place or puts a file with a marker there.      *)
LEMMA QuietChange ==
  ASSUME TypeOK, NEW l \in Levels, Quiet',
         Create(l) \/ Rewrite(l) \/ Rename(l) \/ Remove(l)
  PROVE  /\ changes = {} /\ changes' # {}
         /\ pc \in {"stat", "read"}
         /\ Distinct(files')
         /\ past' = past \cup {files'}
         /\ UNCHANGED <<global, pc, level, result>>
         /\ \E file \in Files :
              /\ files' = [files EXCEPT ![l] = file]
              /\ \/ l # Home
                 \/ file.content = "store"
                 \/ files[l] # None /\ file.id = files[l].id
<1>1. ASSUME NEW kind, NEW file, Put(l, kind, file)
      PROVE  /\ changes = {} /\ changes' # {}
             /\ pc \in {"stat", "read"}
             /\ Distinct(files')
             /\ past' = past \cup {files'}
             /\ UNCHANGED <<global, pc, level, result>>
             /\ files' = [files EXCEPT ![l] = file]
             /\ kind # "remove"
             /\ kind \in {"create", "rename"} /\ l = Home => Marked(file)
  <2> DEFINE c == Change(l, kind, file)
  <2>1. c \notin changes /\ changes' = changes \cup {c}
    BY <1>1 DEF Put
  <2>2. c.level = l /\ c.kind = kind /\ c.marked = Marked(file)
    BY DEF Change
  <2>3. c.kind # "remove" /\ ~(PutAtHome(c) /\ ~c.marked)
    <3> HIDE DEF c
    <3> QED
      BY <2>1 DEF Quiet, Racy
  <2>4. changes = {} /\ changes' # {}
    <3> HIDE DEF c
    <3> QED
      BY <2>1 DEF Quiet
  <2>5. kind \in {"create", "rename"} /\ l = Home => Marked(file)
    <3> HIDE DEF c
    <3> QED
      BY <2>2, <2>3 DEF PutAtHome
  <2> QED
    BY <1>1, <2>2, <2>3, <2>4, <2>5 DEF Put
<1>2. CASE Create(l)
  <2>1. PICK f \in Files : Put(l, "create", f)
    BY <1>2 DEF Create
  <2> QED
    BY <2>1, <1>1 DEF Marked
<1>3. CASE Rewrite(l)
  <2>1. PICK c \in Contents : Put(l, "rewrite", [files[l] EXCEPT !.content = c])
    BY <1>3 DEF Rewrite
  <2>2. files[l] \in Files /\ files[l] # None
    BY <1>3 DEF Rewrite, Exists, TypeOK
  <2>3. /\ [files[l] EXCEPT !.content = c] \in Files
        /\ [files[l] EXCEPT !.content = c].id = files[l].id
    BY <2>2 DEF Files
  <2> QED
    BY <1>1, <2>1, <2>2, <2>3
<1>4. CASE Rename(l)
  <2>1. PICK f \in Files : Put(l, "rename", f)
    BY <1>4 DEF Rename
  <2> QED
    BY <1>1, <2>1 DEF Marked
<1>5. CASE Remove(l)
  BY <1>1, <1>5 DEF Remove
<1> QED
  BY <1>2, <1>3, <1>4, <1>5

(* The first change is made behind the walk, and the moment is the one     *)
(* before it, or ahead of the walk, and the moment is the one after it.    *)
LEMMA ChangeKeepsMoment ==
  ASSUME TypeOK, WalkInv, HomeInv, MomentInv, NEW l \in Levels, Quiet',
         Create(l) \/ Rewrite(l) \/ Rename(l) \/ Remove(l)
  PROVE  MomentInv' /\ AsAtOneMoment'
<1>1. /\ changes = {} /\ changes' # {}
      /\ pc \in {"stat", "read"}
      /\ Distinct(files')
      /\ past' = past \cup {files'}
      /\ UNCHANGED <<global, pc, level, result>>
  BY QuietChange
<1>2. PICK file \in Files :
        /\ files' = [files EXCEPT ![l] = file]
        /\ \/ l # Home
           \/ file.content = "store"
           \/ files[l] # None /\ file.id = files[l].id
  BY QuietChange
<1>3. past = {files} /\ HomeKnown
  BY <1>1 DEF MomentInv
<1>4. files \in [Levels -> Files \cup {None}] /\ file # None
  BY RepoConfigAssumption DEF TypeOK
<1>5. files'[l] = file /\ \A m \in Levels \ {l} : files'[m] = files[m]
  BY <1>2, <1>4
<1>6. ASSUME NEW m \in Levels \ {Home}, files'[m] # None
      PROVE  files'[m].id # global
  <2>1. CASE m # l
    BY <1>5, <1>6, <2>1 DEF MomentInv
  <2>2. CASE m = l /\ Home \in Levels /\ files[Home] # None
    <3>1. files'[Home] = files[Home] /\ global = files[Home].id
      BY <1>3, <1>5, <1>6, <2>2 DEF HomeKnown
    <3>2. files'[m].id # files'[Home].id
      BY <1>1, <1>6, <2>2, <3>1 DEF Distinct
    <3> QED
      BY <3>1, <3>2
  <2>3. CASE m = l /\ ~(Home \in Levels /\ files[Home] # None)
    <3>1. global = None
      BY <1>3, <2>3 DEF HomeKnown
    <3>2. file.id \in Ids
      BY DEF Files
    <3> QED
      BY <1>5, <2>3, <3>1, <3>2, RepoConfigAssumption
  <2> QED
    BY <2>1, <2>2, <2>3
<1>7. ASSUME Home \in Levels, files'[Home] # None
      PROVE  files'[Home].id = global \/ files'[Home].content = "store"
  BY <1>1, <1>2, <1>3, <1>5, <1>7 DEF HomeKnown
<1>8. ASSUME pc = "read"
      PROVE  files'[level] # None /\ level # Home
  <2>1. level \in Levels /\ files[level] # None /\ level # Home
    BY <1>1, <1>8 DEF MomentInv, TypeOK
  <2> QED
    BY <1>4, <1>5, <2>1
<1>9. \E fs \in past' :
        /\ \A m \in 1..(level - 1) : ~Binds(fs, m)
        /\ \A m \in level..Depth : fs[m] = files'[m]
  <2>1. \A m \in 1..(level - 1) : ~Binds(files, m)
    BY <1>1, <1>3 DEF MomentInv
  <2>2. level \in Levels /\ Depth \in Nat
    BY RepoConfigAssumption DEF TypeOK
  <2>3. CASE l < level
    <3>1. \A m \in level..Depth : m \in Levels \ {l}
      BY <2>2, <2>3 DEF Levels
    <3>2. \A m \in level..Depth : files[m] = files'[m]
      BY <1>5, <3>1
    <3> QED
      BY <1>1, <1>3, <2>1, <3>2
  <2>4. CASE ~(l < level)
    <3>1. \A m \in 1..(level - 1) : m \in Levels \ {l}
      BY <2>2, <2>4 DEF Levels
    <3>2. \A m \in 1..(level - 1) : ~Binds(files', m)
      BY <1>5, <2>1, <3>1 DEF Binds
    <3> QED
      BY <1>1, <3>2
  <2> QED
    BY <2>3, <2>4
<1>10. MomentInv'
  BY <1>1, <1>6, <1>7, <1>8, <1>9 DEF MomentInv, Binds
<1>11. AsAtOneMoment'
  BY <1>1 DEF AsAtOneMoment, Found, WalkInv
<1> QED
  BY <1>10, <1>11

(* Whoever changes one file while Find walks, Find answers as it would have*)
(* before the change or after it, unless the change takes a file away that *)
(* Find has seen, or puts a file without a marker at HOME after Find took  *)
(* the identity of the one there.                                          *)
LEMMA OneChangeCorrect == Spec => []OneChangeInv
<1>1. Init => OneChangeInv
  <2>1. Init => IsFiniteSet(changes)
    BY FS_EmptySet DEF Init
  <2> QED
    BY <2>1 DEF Init, OneChangeInv, AsAtOneMoment, Found
<1>2. TypeOK /\ WalkInv /\ HomeInv /\ OneChangeInv /\ [Next]_vars => OneChangeInv'
  <2> SUFFICES ASSUME TypeOK, WalkInv, HomeInv, OneChangeInv, [Next]_vars
               PROVE  OneChangeInv'
    OBVIOUS
  <2>1. CASE Begin
    <3>1. /\ changes = {} /\ changes' = {} /\ files' = files /\ level' = 1
          /\ past' = {files} /\ pc' = "stat" /\ result' = None
      BY <2>1 DEF Begin, WalkInv, OneChangeInv
    <3>2. HomeKnown'
      BY <2>1 DEF Begin, HomeKnown, Exists
    <3>3. \A l \in Levels \ {Home} : files[l] # None => files[l].id # global'
      <4> SUFFICES ASSUME NEW l \in Levels \ {Home}, files[l] # None
                   PROVE  files[l].id # global'
        OBVIOUS
      <4>1. CASE Home \in Levels /\ files[Home] # None
        BY <2>1, <4>1 DEF Begin, Exists, HomeInv, Distinct
      <4>2. CASE ~(Home \in Levels /\ files[Home] # None)
        <5>1. global' = None
          BY <2>1, <4>2 DEF Begin, Exists
        <5>2. files[l].id \in Ids
          BY DEF TypeOK, Files
        <5> QED
          BY <5>1, <5>2, RepoConfigAssumption
      <4> QED
        BY <4>1, <4>2
    <3>4. MomentInv'
      BY <3>1, <3>2, <3>3 DEF MomentInv, HomeKnown
    <3>5. IsFiniteSet(changes') /\ AsAtOneMoment'
      BY <3>1, FS_EmptySet DEF AsAtOneMoment, Found
    <3> QED
      BY <3>1, <3>4, <3>5 DEF OneChangeInv
  <2>2. CASE Stat
    <3>1. pc = "stat" /\ changes' = changes /\ pc' # "begin"
      BY <2>2 DEF Stat, Up, Return
    <3>2. Quiet' => Quiet
      BY <3>1 DEF Quiet, Racy
    <3> QED
      BY <2>2, <3>1, <3>2, StatKeepsMoment DEF OneChangeInv
  <2>3. CASE Read
    <3>1. pc = "read" /\ changes' = changes /\ pc' # "begin"
      BY <2>3 DEF Read, Up, Return
    <3>2. Quiet' => Quiet
      BY <3>1 DEF Quiet, Racy
    <3> QED
      BY <2>3, <3>1, <3>2, ReadKeepsMoment DEF OneChangeInv
  <2>4. ASSUME NEW l \in Levels, Create(l) \/ Rewrite(l) \/ Rename(l) \/ Remove(l)
        PROVE  OneChangeInv'
    <3>1. PICK kind \in Kinds, file \in Files \cup {None} : Put(l, kind, file)
      BY <2>4, OthersPut
    <3>2. /\ pc \in {"stat", "read"} /\ pc' = pc
          /\ changes' = changes \cup {Change(l, kind, file)}
      BY <3>1, PutIsAChange
    <3>3. IsFiniteSet(changes')
      BY <3>2, FS_AddElement DEF OneChangeInv
    <3>4. ASSUME Quiet' PROVE MomentInv' /\ AsAtOneMoment'
      <4>1. changes = {}
        BY <2>4, <3>4, QuietChange
      <4>2. Quiet
        BY <4>1 DEF Quiet, Racy
      <4>3. MomentInv
        BY <3>2, <4>2 DEF OneChangeInv
      <4> QED
        BY <2>4, <3>4, <4>3, ChangeKeepsMoment
    <3> QED
      BY <3>2, <3>3, <3>4 DEF OneChangeInv
  <2>5. CASE UNCHANGED vars
    BY <2>5 DEF vars, OneChangeInv, Quiet, Racy, MomentInv, HomeKnown, Binds,
       AsAtOneMoment, AsOf, Found, BindingFiles
  <2> QED
    BY <2>1, <2>2, <2>3, <2>4, <2>5 DEF Next
<1> QED
  BY <1>1, <1>2, TypeCorrect, WalkCorrect, HomeCorrect, PTL DEF Spec

(* Of a walk with at most one change, which is none of the two that Find   *)
(* does not stand, the answer is that of one moment, and its file the      *)
(* nearest there was.                                                      *)
NearestOfOneMoment ==
  Found /\ Cardinality(changes) <= 1 /\ Racy = {} => \E fs \in past : AsOf(fs)

(* So Exists=false is then what the comment of Find says, and finding      *)
(* MissingMeansNoneAnywhere wrong takes a removal, a second change, or an  *)
(* unmarked file put at HOME during the walk.                              *)
THEOREM OneChangeFindsTheNearest ==
  Spec => [](/\ NearestOfOneMoment
             /\ Cardinality(changes) <= 1 /\ Racy = {} => MissingMeansNoneAnywhere)
<1>1. OneChangeInv => NearestOfOneMoment
  <2> SUFFICES ASSUME OneChangeInv, Cardinality(changes) <= 1, Racy = {}
               PROVE  AsAtOneMoment
    BY DEF NearestOfOneMoment, AsAtOneMoment
  <2>1. Cardinality(changes) \in Nat
    BY FS_CardinalityType DEF OneChangeInv
  <2>2. CASE Cardinality(changes) = 0
    BY <2>2, FS_EmptySet DEF OneChangeInv, Quiet
  <2>3. CASE Cardinality(changes) = 1
    BY <2>3, FS_Singleton DEF OneChangeInv, Quiet
  <2> QED
    BY <2>1, <2>2, <2>3
<1>2. NearestOfOneMoment /\ Cardinality(changes) <= 1 /\ Racy = {} => MissingMeansNoneAnywhere
  BY DEF NearestOfOneMoment, MissingMeansNoneAnywhere, AsOf
<1> QED
  BY <1>1, <1>2, OneChangeCorrect, PTL

(* Whoever changes one file while Find walks, Find answers as it would have*)
(* before the change or after it, unless the change takes a file away that *)
(* Find has seen, or puts a file without a marker at HOME after Find took  *)
(* the identity of the one there.                                          *)
THEOREM OneChangeIsAtomic == Spec => []AsBeforeOrAfterAChange
<1>1. NearestOfOneMoment => AsBeforeOrAfterAChange
  <2> SUFFICES ASSUME NearestOfOneMoment, Found, Cardinality(changes) <= 1, Racy = {}
               PROVE  \E fs \in past : Answer(result.content) = Nearest(fs)
    BY DEF AsBeforeOrAfterAChange
  <2>1. PICK fs \in past : AsOf(fs)
    BY DEF NearestOfOneMoment
  <2>2. CASE result.exists
    <3>1. /\ result.path \in BindingFiles(fs)
          /\ \A m \in BindingFiles(fs) : result.path <= m
          /\ result.content = fs[result.path].content
      BY <2>1, <2>2 DEF AsOf
    <3>2. \A m \in 1..(result.path - 1) : ~Binds(fs, m)
      <4>1. Deepest \in Nat
        BY RepoConfigAssumption DEF Deepest
      <4> SUFFICES ASSUME NEW m \in 1..(result.path - 1), Binds(fs, m) PROVE FALSE
        OBVIOUS
      <4>2. result.path \in 1..Deepest
        BY <3>1 DEF BindingFiles
      <4>3. m \in BindingFiles(fs)
        BY <4>1, <4>2 DEF BindingFiles, Binds
      <4> QED BY <3>1, <4>1, <4>2, <4>3
    <3> QED BY <2>1, <3>1, <3>2, NearestIsFirst
  <2>3. CASE ~result.exists
    <3>1. BindingFiles(fs) = {} /\ result = NotFound
      BY <2>1, <2>3 DEF AsOf
    <3>2. Answer(result.content) = None
      BY <3>1, RepoConfigAssumption DEF Answer, NotFound, Contents
    <3> QED BY <2>1, <3>1, <3>2 DEF Nearest
  <2> QED BY <2>2, <2>3
<1> QED
  BY <1>1, OneChangeFindsTheNearest, PTL

-----------------------------------------------------------------------------
(* A walk that finds nothing, and the walk's end.                          *)

Removed(l) == \E c \in changes : c.level = l /\ c.kind = "remove"

(* When Find says that no file exists, whatever the others do: every level *)
(* it may look at had at some time nothing that binds; or it names the     *)
(* file that was removed under its hands, and that is so of every nearer   *)
(* level.                                                                  *)
MissingExplained ==
  Found /\ ~result.exists =>
    \/ result = NotFound /\ \A l \in 1..Deepest : Passed(l)
    \/ Removed(result.path) /\ \A l \in 1..(result.path - 1) : Passed(l)

(* A file Find is about to read is there, or its removal is on record.     *)
MissingInv ==
  /\ pc = "read" => files[level] # None \/ Removed(level)
  /\ MissingExplained

(* The looks the walk has left, at most: two at every level.               *)
LooksLeft ==
  CASE pc = "begin" -> 2 * Deepest + 1
    [] pc = "stat" -> 2 * (Deepest - level) + 2
    [] pc = "read" -> 2 * (Deepest - level) + 1
    [] OTHER -> 0

(* Every look brings the walk nearer to its end, and no change another     *)
(* process makes takes it back.                                            *)
WalkGetsNearer ==
  [][/\ LooksLeft' <= LooksLeft
     /\ Begin \/ Stat \/ Read => LooksLeft' < LooksLeft]_vars

(* The walk's own steps, and what each does to its place.                  *)
LEMMA LookMoves ==
  ASSUME TypeOK, WalkInv, Begin \/ Stat \/ Read
  PROVE  \/ pc = "begin" /\ pc' = "stat" /\ level = 1 /\ level' = 1
         \/ pc = "stat" /\ pc' = "read" /\ level' = level
         \/ /\ pc \in {"stat", "read"} /\ pc' = "stat"
            /\ level' = level + 1 /\ level < Deepest
         \/ pc \in {"stat", "read"} /\ pc' = "done" /\ level' = level
<1>1. level \in 1..Depth /\ Depth \in Nat /\ MaxLevels \in Nat
  BY RepoConfigAssumption DEF TypeOK, Levels
<1>2. CASE Begin
  BY <1>2 DEF Begin, WalkInv
<1>3. ASSUME Up
      PROVE  \/ pc' = "stat" /\ level' = level + 1 /\ level < Deepest
             \/ pc' = "done" /\ level' = level
  BY <1>1, <1>3 DEF Up, Return, Deepest
<1>4. CASE Stat
  BY <1>3, <1>4 DEF Stat
<1>5. CASE Read
  BY <1>3, <1>5 DEF Read, Return
<1> QED BY <1>2, <1>4, <1>5

LEMMA UpExplained ==
  ASSUME TypeOK, WalkInv, pc \in {"stat", "read"}, Up, Passed(level),
         UNCHANGED <<files, global, changes, past>>
  PROVE  MissingInv'
<1>1. level \in Levels /\ level \in Int /\ level <= MaxLevels /\ result = None
  BY DEF TypeOK, Levels, WalkInv
<1>2. CASE pc' = "stat" /\ result' = result
  BY <1>1, <1>2 DEF MissingInv, MissingExplained, Found
<1>3. CASE pc' = "done" /\ result' = NotFound /\ (level = Depth \/ level = MaxLevels)
  <2>1. level = Deepest
    BY <1>1, <1>3, LastLevel
  <2>2. \A l \in 1..Deepest : Passed(l)'
    <3> SUFFICES ASSUME NEW l \in 1..Deepest PROVE Passed(l)
      BY DEF Passed
    <3>1. l = level \/ l \in 1..(level - 1)
      BY <1>1, <2>1
    <3> QED BY <3>1 DEF WalkInv
  <2> QED BY <1>3, <2>2 DEF MissingInv, MissingExplained
<1> QED BY <1>2, <1>3 DEF Up, Return

LEMMA MissingStep ==
  ASSUME TypeOK, WalkInv, MissingInv, [Next]_vars
  PROVE  MissingInv'
<1>1. CASE Begin
  BY <1>1 DEF Begin, WalkInv, MissingInv, MissingExplained, Found
<1>2. CASE Stat
  <2>1. pc = "stat" /\ files \in past /\ result = None /\ UNCHANGED <<files, global, changes, past>>
    BY <1>2 DEF Stat, WalkInv
  <2>2. CASE ~Candidate(level)
    <3>1. Passed(level)
      BY <2>1, <2>2 DEF Candidate, Exists, IsGlobal, Passed
    <3> QED BY <1>2, <2>1, <2>2, <3>1, UpExplained DEF Stat
  <2>3. CASE Candidate(level)
    BY <1>2, <2>1, <2>3 DEF Stat, Candidate, Exists, MissingInv, MissingExplained, Found
  <2> QED BY <2>2, <2>3
<1>3. CASE Read
  <2>1. pc = "read" /\ files \in past /\ UNCHANGED <<files, global, changes, past>>
    BY <1>3 DEF Read, WalkInv
  <2>2. CASE ~Exists(level)
    <3>1. /\ pc' = "done" /\ result' = [path |-> level, exists |-> FALSE, content |-> None]
          /\ Removed(level)
      BY <1>3, <2>1, <2>2 DEF Read, Return, Exists, MissingInv
    <3>2. \A l \in 1..(level - 1) : Passed(l)'
      BY <2>1 DEF WalkInv, Passed
    <3> QED BY <2>1, <3>1, <3>2 DEF MissingInv, MissingExplained, Removed
  <2>3. CASE Exists(level) /\ files[level].content = "store"
    <3>1. Up /\ Passed(level)
      BY <1>3, <2>1, <2>3 DEF Read, Passed
    <3> QED BY <2>1, <3>1, UpExplained
  <2>4. CASE Exists(level) /\ files[level].content # "store"
    <3>1. /\ pc' = "done"
          /\ result' = [path |-> level, exists |-> TRUE, content |-> files[level].content]
      BY <1>3, <2>4 DEF Read, Return
    <3> QED BY <3>1 DEF MissingInv, MissingExplained
  <2> QED BY <2>2, <2>3, <2>4
<1>4. ASSUME NEW l \in Levels, Create(l) \/ Rewrite(l) \/ Rename(l) \/ Remove(l)
      PROVE  MissingInv'
  <2>1. PICK kind \in Kinds, file \in Files \cup {None} :
          /\ Put(l, kind, file)
          /\ kind = "remove" \/ file # None
    <3>1. CASE Create(l)
      BY <3>1, RepoConfigAssumption DEF Create, Kinds
    <3>2. CASE Rewrite(l)
      <4>1. PICK c \in Contents : Put(l, "rewrite", [files[l] EXCEPT !.content = c])
        BY <3>2 DEF Rewrite
      <4>2. [files[l] EXCEPT !.content = c] \in Files
        BY <3>2 DEF Rewrite, Exists, TypeOK, Files
      <4> QED BY <4>1, <4>2, RepoConfigAssumption DEF Kinds
    <3>3. CASE Rename(l)
      BY <3>3, RepoConfigAssumption DEF Rename, Kinds
    <3>4. CASE Remove(l)
      BY <3>4 DEF Remove, Kinds
    <3> QED BY <1>4, <3>1, <3>2, <3>3, <3>4
  <2>2. /\ pc \in {"stat", "read"} /\ result' = result
        /\ files' = [files EXCEPT ![l] = file]
        /\ changes' = changes \cup {Change(l, kind, file)}
        /\ pc' = pc /\ level' = level
    BY <2>1, PutIsAChange
  <2>3. result = None /\ level \in Levels
    BY <2>2 DEF WalkInv, TypeOK
  <2>4. pc = "read" => files'[level] # None \/ Removed(level)'
    <3>1. CASE l = level
      <4> DEFINE c == Change(l, kind, file)
      <4>1. c \in changes'
        BY <2>2
      <4>2. c.level = l /\ c.kind = kind
        BY DEF Change
      <4>3. kind = "remove" => Removed(level)'
        <5> HIDE DEF c
        <5> QED BY <2>2, <3>1, <4>1, <4>2 DEF Removed
      <4>4. file # None => files'[level] # None
        BY <2>2, <2>3, <3>1 DEF TypeOK
      <4> QED BY <2>1, <4>3, <4>4
    <3>2. CASE l # level
      BY <2>2, <2>3, <3>2 DEF TypeOK, Removed, MissingInv
    <3> QED BY <3>1, <3>2
  <2> QED BY <2>2, <2>3, <2>4 DEF MissingInv, MissingExplained, Found
<1>5. CASE UNCHANGED vars
  BY <1>5 DEF vars, MissingInv, MissingExplained, Found, Passed, Removed
<1> QED BY <1>1, <1>2, <1>3, <1>4, <1>5 DEF Next

(* The comment of Find holds level by level, however many changes there    *)
(* are, of every answer but the one that names a file just removed.        *)
THEOREM MissingIsExplained == Spec => []MissingExplained
<1>1. Init => MissingInv
  BY DEF Init, MissingInv, MissingExplained, Found
<1>2. TypeOK /\ WalkInv /\ MissingInv /\ [Next]_vars => MissingInv'
  BY MissingStep
<1>3. MissingInv => MissingExplained
  BY DEF MissingInv
<1> QED
  BY <1>1, <1>2, <1>3, TypeCorrect, WalkCorrect, PTL DEF Spec

(* Find looks at most twice at each of the directories it may look at and  *)
(* returns, whatever the others create, replace and remove meanwhile.      *)
THEOREM WalkGetsNearerHolds ==
  /\ Spec => [](LooksLeft \in 0..(2 * Deepest + 1))
  /\ Spec => WalkGetsNearer
<1> DEFINE Nearer == /\ LooksLeft' <= LooksLeft
                     /\ Begin \/ Stat \/ Read => LooksLeft' < LooksLeft
<1>1. TypeOK /\ WalkInv => LooksLeft \in 0..(2 * Deepest + 1)
  <2> SUFFICES ASSUME TypeOK, WalkInv PROVE LooksLeft \in 0..(2 * Deepest + 1)
    OBVIOUS
  <2>1. level \in 1..Deepest /\ Deepest \in Nat
    BY LastLevel, RepoConfigAssumption DEF WalkInv, Deepest
  <2> QED BY <2>1 DEF LooksLeft
<1>2. TypeOK /\ WalkInv /\ [Next]_vars => [Nearer]_vars
  <2> SUFFICES ASSUME TypeOK, WalkInv, Next PROVE Nearer
    BY Zenon
  <2>1. level \in 1..Deepest /\ Deepest \in Nat
    BY LastLevel, RepoConfigAssumption DEF WalkInv, Deepest
  <2>2. Begin \/ Stat \/ Read => LooksLeft' < LooksLeft
    BY <2>1, LookMoves DEF LooksLeft
  <2>3. ASSUME NEW l \in Levels, Create(l) \/ Rewrite(l) \/ Rename(l) \/ Remove(l)
        PROVE  LooksLeft' = LooksLeft
    <3>1. PICK kind \in Kinds, file \in Files \cup {None} : Put(l, kind, file)
      BY <2>3, OthersPut
    <3> QED BY <3>1 DEF Put, LooksLeft
  <2>4. LooksLeft \in Int
    BY <1>1
  <2>5. LooksLeft' < LooksLeft \/ LooksLeft' = LooksLeft
    BY <2>2, <2>3 DEF Next
  <2>6. LooksLeft' \in Int
    BY <2>1, <2>3, <2>4, LookMoves DEF LooksLeft, Next
  <2>7. LooksLeft' <= LooksLeft
    BY <2>4, <2>5, <2>6
  <2> QED BY <2>2, <2>7
<1>3. Spec => WalkGetsNearer
  BY <1>2, TypeCorrect, WalkCorrect, PTL DEF Spec, WalkGetsNearer
<1>4. Spec => [](LooksLeft \in 0..(2 * Deepest + 1))
  BY <1>1, TypeCorrect, WalkCorrect, PTL
<1> QED BY <1>3, <1>4
=============================================================================
