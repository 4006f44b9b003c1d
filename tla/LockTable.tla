----------------------------- MODULE LockTable -----------------------------
(***************************************************************************)
(* The table keyByResourceKeyByGVK of pkg/objectset/cache.go: which object *)
(* set each locked resource of the cluster is resolved to.  Every operation *)
(* runs under keyMapLock, so each one is a single step here.               *)
(***************************************************************************)
EXTENDS ObjectSets

CONSTANTS
  GVK,          \* kinds of Kubernetes resources
  ResourceKey,  \* namespace/name of a resource within its kind
  Objects,      \* Objects[os]: the resources that the object set os tracks
  FlakyGVK      \* kinds whose controller may fail to start when it is first watched

Resource == GVK \X ResourceKey

ASSUME LockTableAssumption ==
  /\ Objects \in [ObjectSet -> SUBSET Resource]
  /\ FlakyGVK \subseteq GVK

VARIABLES
  keyMap,   \* keyByResourceKeyByGVK: kind -> resource key -> key of the set that locked it
  watched   \* gvkWatcher.gvkStarted: the kinds whose changes are delivered to Resolve

tableVars == <<keyMap, watched>>

\* Maps with a domain of their own, as Go maps are.
Group == UNION {[names -> SetKey] : names \in SUBSET ResourceKey}
Table == UNION {[kinds -> Group] : kinds \in SUBSET GVK}

TableTypeOK == keyMap \in Table /\ watched \in SUBSET GVK

-----------------------------------------------------------------------------
Kinds(os) == {res[1] : res \in Objects[os]}

NamesOf(os, gvk) == {name \in ResourceKey : <<gvk, name>> \in Objects[os]}

\* Resolve: the set a resource is tied to, NoKey when its kind or the resource itself is absent.
Resolve(table, res) ==
  IF res[1] \in DOMAIN table
  THEN IF res[2] \in DOMAIN table[res[1]] THEN table[res[1]][res[2]] ELSE NoKey
  ELSE NoKey

Entries(table, key) == {res \in Resource : Resolve(table, res) = key}

\* Mutant: canLock returns after the first object it looks at.
CanLock_FirstObject(table, key, os) ==
  Objects[os] = {} \/ \E res \in Objects[os] : Resolve(table, res) \in {key, NoKey}

\* canLock: no resource of os is already tied to another set.
CanLock(table, key, os) ==
  \A res \in Objects[os] : Resolve(table, res) \in {key, NoKey}

\* Mutants: removeAllEntries blanks the entries of key, or leaves empty kinds behind.
RemoveAllEntries_Blanks(table, key) ==
  [gvk \in DOMAIN table |->
     [name \in DOMAIN table[gvk] |-> IF table[gvk][name] = key THEN NoKey ELSE table[gvk][name]]]

RemoveAllEntries_KeepsKinds(table, key) ==
  [gvk \in DOMAIN table |->
     [name \in {n \in DOMAIN table[gvk] : table[gvk][n] # key} |-> table[gvk][name]]]

\* removeAllEntries: the entries of key go, and so does a kind that has none left.
RemoveAllEntries(table, key) ==
  LET kept(gvk) == {name \in DOMAIN table[gvk] : table[gvk][name] # key}
  IN  [gvk \in {kind \in DOMAIN table : kept(kind) # {}} |->
         [name \in kept(gvk) |-> table[gvk][name]]]

\* The loop of lock after it has visited the kinds in visited.
AddEntries(table, key, os, visited) ==
  LET present(gvk) == IF gvk \in DOMAIN table THEN DOMAIN table[gvk] ELSE {}
      added(gvk)   == IF gvk \in visited THEN NamesOf(os, gvk) ELSE {}
  IN  [gvk \in DOMAIN table \cup visited |->
         [name \in present(gvk) \cup added(gvk) |->
            IF name \in added(gvk) THEN key ELSE table[gvk][name]]]

-----------------------------------------------------------------------------
\* Mutants: lock enters the kinds that nobody else holds, or adds to what key has locked already.
LockAll_FreeKinds(key, os) ==
  LET free == {gvk \in Kinds(os) : \A name \in NamesOf(os, gvk) :
                                     Resolve(keyMap, <<gvk, name>>) \in {key, NoKey}}
  IN  /\ keyMap' = AddEntries(RemoveAllEntries(keyMap, key), key, os, free)
      /\ watched' = watched \cup free

LockAll_KeepsOldEntries(key, os) ==
  /\ CanLock(keyMap, key, os)
  /\ keyMap' = AddEntries(keyMap, key, os, Kinds(os))
  /\ watched' = watched \cup Kinds(os)

\* lock when no Watch fails: every kind of os is entered and watched.
LockAll(key, os) ==
  /\ CanLock(keyMap, key, os)
  /\ keyMap' = AddEntries(RemoveAllEntries(keyMap, key), key, os, Kinds(os))
  /\ watched' = watched \cup Kinds(os)

\* lock when gvkWatcher.Watch fails on a kind: the kinds visited before it, in the arbitrary
\* order of a map range, and the failing kind itself stay entered.
LockPart(key, os) ==
  /\ CanLock(keyMap, key, os)
  /\ \E gvk \in (Kinds(os) \cap FlakyGVK) \ watched :
       \E before \in SUBSET (Kinds(os) \ {gvk}) :
         /\ keyMap' = AddEntries(RemoveAllEntries(keyMap, key), key, os, before \cup {gvk})
         /\ watched' = watched \cup before

\* lock when another set holds a resource of os: an error, and the table is left as it was.
LockRefused(key, os) ==
  /\ ~ CanLock(keyMap, key, os)
  /\ UNCHANGED tableVars

LockEntries(key, os) == LockAll(key, os) \/ LockPart(key, os) \/ LockRefused(key, os)

UnlockEntries(key) ==
  /\ keyMap' = RemoveAllEntries(keyMap, key)
  /\ UNCHANGED watched

TableInit == keyMap = [gvk \in {} |-> NoKey] /\ watched = {}

TableNext ==
  \E key \in SetKey :
    \/ UnlockEntries(key)
    \/ \E os \in ObjectSet : LockEntries(key, os)

TableSpec == TableInit /\ [][TableNext]_tableVars

-----------------------------------------------------------------------------
\* Locking is all or nothing per kind: the entries of a key are always the whole groups that
\* some kinds have in ONE object set, never a mixture of an old set and a new one and never
\* half of a group (removeAllEntries before the loop of lock, canLock before both).
WholeGroups ==
  \A key \in SetKey :
    \/ Entries(keyMap, key) = {}
    \/ \E os \in ObjectSet, kinds \in SUBSET GVK :
         Entries(keyMap, key) = {res \in Objects[os] : res[1] \in kinds}

\* Unlocking leaves no empty inner map behind, so a kind is in the table only while some set
\* locks a resource of it (the deletes at the end of removeAllEntries).
NoEmptyGroup == \A gvk \in DOMAIN keyMap : DOMAIN keyMap[gvk] # {}

Ownership == INSTANCE ResourceOwnership
               WITH owner <- [res \in Resource |-> Resolve(keyMap, res)]

\* The table implements exclusive ownership: a step of one key never takes, drops or
\* overwrites an entry of another (canLock and removeAllEntries).
OwnershipSpec == Ownership!Spec
=============================================================================
