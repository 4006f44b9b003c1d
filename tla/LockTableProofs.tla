-------------------------- MODULE LockTableProofs --------------------------
(***************************************************************************)
(* Proofs about the lock table, for any number of object sets, kinds and   *)
(* resources.  Everything rests on what the three operators that read and  *)
(* write the table do to Resolve.                                          *)
(***************************************************************************)
EXTENDS LockTable, TLAPS

\* A table is a map of maps with domains of their own.
LEMMA TableForm ==
  ASSUME NEW table
  PROVE  table \in Table <=>
           /\ DOMAIN table \subseteq GVK
           /\ table = [gvk \in DOMAIN table |-> table[gvk]]
           /\ \A gvk \in DOMAIN table :
                /\ DOMAIN table[gvk] \subseteq ResourceKey
                /\ table[gvk] = [name \in DOMAIN table[gvk] |-> table[gvk][name]]
                /\ \A name \in DOMAIN table[gvk] : table[gvk][name] \in SetKey
<1>1. \A group : group \in Group <=>
        /\ DOMAIN group \subseteq ResourceKey
        /\ group = [name \in DOMAIN group |-> group[name]]
        /\ \A name \in DOMAIN group : group[name] \in SetKey
  BY DEF Group
<1>2. table \in Table <=>
        /\ DOMAIN table \subseteq GVK
        /\ table = [gvk \in DOMAIN table |-> table[gvk]]
        /\ \A gvk \in DOMAIN table : table[gvk] \in Group
  BY DEF Table
<1> QED BY <1>1, <1>2

\* removeAllEntries returns a table without empty groups.
LEMMA RemoveForm ==
  ASSUME NEW table \in Table, NEW key \in SetKey
  PROVE  /\ RemoveAllEntries(table, key) \in Table
         /\ \A gvk \in DOMAIN RemoveAllEntries(table, key) :
              DOMAIN RemoveAllEntries(table, key)[gvk] # {}
<1> DEFINE kept(gvk) == {name \in DOMAIN table[gvk] : table[gvk][name] # key}
           kinds == {kind \in DOMAIN table : kept(kind) # {}}
           result == [gvk \in kinds |-> [name \in kept(gvk) |-> table[gvk][name]]]
<1>1. RemoveAllEntries(table, key) = result
  BY DEF RemoveAllEntries
<1>2. \A gvk \in kinds : kept(gvk) \subseteq ResourceKey
  BY TableForm
<1>3. \A gvk \in kinds : \A name \in kept(gvk) : table[gvk][name] \in SetKey
  BY TableForm
<1>4. kinds \subseteq GVK
  BY TableForm
<1>5. ASSUME NEW gvk \in kinds
      PROVE  result[gvk] \in [kept(gvk) -> SetKey] /\ kept(gvk) \in SUBSET ResourceKey
  BY <1>2, <1>3
<1>6. result \in Table
  <2>1. \A gvk \in kinds : result[gvk] \in Group
    <3>1. SUFFICES ASSUME NEW gvk \in kinds PROVE result[gvk] \in Group
      OBVIOUS
    <3>2. PICK names \in SUBSET ResourceKey : result[gvk] \in [names -> SetKey]
      BY <1>5
    <3> HIDE DEF result, kinds
    <3> QED BY <3>2 DEF Group
  <2>2. result \in [kinds -> Group]
    BY <2>1
  <2>3. kinds \in SUBSET GVK
    BY <1>4
  <2> HIDE DEF result, kinds
  <2> QED BY <2>2, <2>3 DEF Table
<1>7. \A gvk \in DOMAIN result : DOMAIN result[gvk] # {}
  OBVIOUS
<1> QED BY <1>1, <1>6, <1>7

\* removeAllEntries frees the resources of its key and no others.
LEMMA RemoveResolve ==
  ASSUME NEW table \in Table, NEW key \in SetKey, NEW res \in Resource
  PROVE  Resolve(RemoveAllEntries(table, key), res)
           = IF Resolve(table, res) = key THEN NoKey ELSE Resolve(table, res)
<1> DEFINE kept(gvk) == {name \in DOMAIN table[gvk] : table[gvk][name] # key}
           kinds == {kind \in DOMAIN table : kept(kind) # {}}
           result == [gvk \in kinds |-> [name \in kept(gvk) |-> table[gvk][name]]]
<1>1. RemoveAllEntries(table, key) = result
  BY DEF RemoveAllEntries
<1>2. NoKey # key
  BY NamesAssumption
<1>3. CASE res[1] \in DOMAIN table /\ res[2] \in DOMAIN table[res[1]]
  <2>1. CASE table[res[1]][res[2]] = key
    <3>1. res[1] \in kinds => res[2] \notin DOMAIN result[res[1]]
      BY <2>1
    <3> QED BY <1>1, <1>2, <1>3, <2>1, <3>1 DEF Resolve
  <2>2. CASE table[res[1]][res[2]] # key
    <3>1. res[1] \in kinds /\ res[2] \in DOMAIN result[res[1]]
      BY <1>3, <2>2
    <3>2. result[res[1]][res[2]] = table[res[1]][res[2]]
      BY <3>1
    <3> QED BY <1>1, <1>3, <2>2, <3>1, <3>2 DEF Resolve
  <2> QED BY <2>1, <2>2
<1>4. CASE ~ (res[1] \in DOMAIN table /\ res[2] \in DOMAIN table[res[1]])
  <2>1. Resolve(table, res) = NoKey
    BY <1>4 DEF Resolve
  <2>2. res[1] \in kinds => res[2] \notin DOMAIN result[res[1]]
    BY <1>4
  <2> QED BY <1>1, <1>2, <2>1, <2>2 DEF Resolve
<1> QED BY <1>3, <1>4

\* The loop of lock returns a table, and one without empty groups if it got one: a kind is only
\* visited for the resources that the set has in it.
LEMMA AddForm ==
  ASSUME NEW table \in Table, NEW key \in SetKey, NEW os \in ObjectSet,
         NEW visited \in SUBSET Kinds(os)
  PROVE  /\ AddEntries(table, key, os, visited) \in Table
         /\ (\A gvk \in DOMAIN table : DOMAIN table[gvk] # {})
              => \A gvk \in DOMAIN AddEntries(table, key, os, visited) :
                   DOMAIN AddEntries(table, key, os, visited)[gvk] # {}
<1> DEFINE present(gvk) == IF gvk \in DOMAIN table THEN DOMAIN table[gvk] ELSE {}
           added(gvk)   == IF gvk \in visited THEN NamesOf(os, gvk) ELSE {}
           kinds  == DOMAIN table \cup visited
           result == [gvk \in kinds |->
                        [name \in present(gvk) \cup added(gvk) |->
                           IF name \in added(gvk) THEN key ELSE table[gvk][name]]]
<1>1. AddEntries(table, key, os, visited) = result
  BY DEF AddEntries
<1>2. visited \subseteq GVK
  BY LockTableAssumption DEF Kinds, Resource
<1>3. kinds \in SUBSET GVK
  BY <1>2, TableForm
<1>4. ASSUME NEW gvk \in kinds
      PROVE  /\ present(gvk) \subseteq ResourceKey
             /\ added(gvk) \subseteq ResourceKey
             /\ \A name \in present(gvk) : table[gvk][name] \in SetKey
  BY TableForm DEF NamesOf
<1>5. ASSUME NEW gvk \in kinds
      PROVE  result[gvk] \in Group
  <2> DEFINE names == present(gvk) \cup added(gvk)
  <2>1. result[gvk] = [name \in names |-> IF name \in added(gvk) THEN key ELSE table[gvk][name]]
    OBVIOUS
  <2>2. \A name \in names : (IF name \in added(gvk) THEN key ELSE table[gvk][name]) \in SetKey
    BY <1>4
  <2>3. names \in SUBSET ResourceKey
    BY <1>4
  <2> HIDE DEF names, result, added, present
  <2>4. result[gvk] \in [names -> SetKey]
    BY <2>1, <2>2
  <2> QED BY <2>3, <2>4 DEF Group
<1>6. result \in Table
  <2>1. result \in [kinds -> Group]
    BY <1>5
  <2> HIDE DEF result, kinds
  <2> QED BY <1>3, <2>1 DEF Table
<1>7. ASSUME NEW gvk \in visited
      PROVE  NamesOf(os, gvk) # {}
  <2>1. PICK res \in Objects[os] : gvk = res[1]
    BY DEF Kinds
  <2>2. res \in Resource
    BY <2>1, LockTableAssumption
  <2>3. res[2] \in NamesOf(os, gvk)
    BY <2>1, <2>2 DEF Resource, NamesOf
  <2> QED BY <2>3
<1>8. ASSUME \A gvk \in DOMAIN table : DOMAIN table[gvk] # {}, NEW gvk \in kinds
      PROVE  DOMAIN result[gvk] # {}
  <2>1. DOMAIN result[gvk] = present(gvk) \cup added(gvk)
    OBVIOUS
  <2>2. present(gvk) # {} \/ added(gvk) # {}
    BY <1>7, <1>8
  <2> QED BY <2>1, <2>2
<1>9. DOMAIN result = kinds
  OBVIOUS
<1> QED
  <2> HIDE DEF result, kinds
  <2> QED BY <1>1, <1>6, <1>8, <1>9

\* The loop of lock ties the resources of the kinds it visits to its key, and leaves the others.
LEMMA AddResolve ==
  ASSUME NEW table \in Table, NEW key \in SetKey, NEW os \in ObjectSet,
         NEW visited \in SUBSET Kinds(os), NEW res \in Resource
  PROVE  Resolve(AddEntries(table, key, os, visited), res)
           = IF res \in Objects[os] /\ res[1] \in visited THEN key ELSE Resolve(table, res)
<1> DEFINE present(gvk) == IF gvk \in DOMAIN table THEN DOMAIN table[gvk] ELSE {}
           added(gvk)   == IF gvk \in visited THEN NamesOf(os, gvk) ELSE {}
           kinds  == DOMAIN table \cup visited
           result == [gvk \in kinds |->
                        [name \in present(gvk) \cup added(gvk) |->
                           IF name \in added(gvk) THEN key ELSE table[gvk][name]]]
<1>1. AddEntries(table, key, os, visited) = result
  BY DEF AddEntries
<1>2. res = <<res[1], res[2]>> /\ res[2] \in ResourceKey
  BY DEF Resource
<1>3. res \in Objects[os] /\ res[1] \in visited <=> res[2] \in added(res[1])
  BY <1>2 DEF NamesOf
<1>4. CASE res[2] \in added(res[1])
  <2>1. res[1] \in kinds /\ res[2] \in DOMAIN result[res[1]] /\ result[res[1]][res[2]] = key
    BY <1>4
  <2> QED BY <1>1, <1>3, <1>4, <2>1 DEF Resolve
<1>5. CASE res[2] \notin added(res[1])
  <2>1. CASE res[1] \in DOMAIN table /\ res[2] \in DOMAIN table[res[1]]
    <3>1. /\ res[1] \in kinds
          /\ res[2] \in DOMAIN result[res[1]]
          /\ result[res[1]][res[2]] = table[res[1]][res[2]]
      BY <1>5, <2>1
    <3> QED BY <1>1, <1>3, <1>5, <2>1, <3>1 DEF Resolve
  <2>2. CASE ~ (res[1] \in DOMAIN table /\ res[2] \in DOMAIN table[res[1]])
    <3>1. res[1] \in kinds => res[2] \notin DOMAIN result[res[1]]
      BY <1>5, <2>2
    <3>2. Resolve(result, res) = NoKey /\ Resolve(table, res) = NoKey
      BY <2>2, <3>1 DEF Resolve
    <3> QED BY <1>1, <1>3, <1>5, <3>2
  <2> QED BY <2>1, <2>2
<1> QED BY <1>4, <1>5

-----------------------------------------------------------------------------
\* What lock writes: the old entries of key give way to those of the kinds visited.
Relocked(key, os, visited) == AddEntries(RemoveAllEntries(keyMap, key), key, os, visited)

\* Every step of the table leaves it alone, clears a key, or locks some kinds of a set that
\* key may lock.
LEMMA StepForm ==
  ASSUME TableTypeOK, [TableNext]_tableVars
  PROVE  /\ watched' \in SUBSET GVK
         /\ \/ keyMap' = keyMap
            \/ \E key \in SetKey : keyMap' = RemoveAllEntries(keyMap, key)
            \/ \E key \in SetKey, os \in ObjectSet : \E visited \in SUBSET Kinds(os) :
                 CanLock(keyMap, key, os) /\ keyMap' = Relocked(key, os, visited)
<1>1. CASE UNCHANGED tableVars
  BY <1>1 DEF tableVars, TableTypeOK
<1>2. ASSUME NEW key \in SetKey, UnlockEntries(key)
      PROVE  watched' \in SUBSET GVK /\ keyMap' = RemoveAllEntries(keyMap, key)
  BY <1>2 DEF UnlockEntries, TableTypeOK
<1>3. ASSUME NEW key \in SetKey, NEW os \in ObjectSet, LockEntries(key, os)
      PROVE  /\ watched' \in SUBSET GVK
             /\ \/ keyMap' = keyMap
                \/ \E visited \in SUBSET Kinds(os) :
                     CanLock(keyMap, key, os) /\ keyMap' = Relocked(key, os, visited)
  <2>1. Kinds(os) \subseteq GVK
    BY LockTableAssumption DEF Kinds, Resource
  <2>2. CASE LockAll(key, os)
    BY <2>1, <2>2 DEF LockAll, Relocked, TableTypeOK
  <2>3. CASE LockPart(key, os)
    BY <2>1, <2>3 DEF LockPart, Relocked, TableTypeOK
  <2>4. CASE LockRefused(key, os)
    BY <2>4 DEF LockRefused, tableVars, TableTypeOK
  <2> QED BY <1>3, <2>2, <2>3, <2>4 DEF LockEntries
<1> QED BY <1>1, <1>2, <1>3 DEF TableNext

\* The table is well formed and has no empty group, and a step keeps it so.
TableInv == TableTypeOK /\ NoEmptyGroup

LEMMA TableInvInit == ASSUME TableInit PROVE TableInv
<1>1. keyMap \in Table
  BY TableForm DEF TableInit
<1> QED BY <1>1 DEF TableInit, TableInv, TableTypeOK, NoEmptyGroup

LEMMA TableInvStep == ASSUME TableInv, [TableNext]_tableVars PROVE TableInv'
<1>1. keyMap \in Table /\ \A gvk \in DOMAIN keyMap : DOMAIN keyMap[gvk] # {}
  BY DEF TableInv, TableTypeOK, NoEmptyGroup
<1>2. keyMap' \in Table /\ \A gvk \in DOMAIN keyMap' : DOMAIN keyMap'[gvk] # {}
  <2>1. CASE keyMap' = keyMap
    BY <1>1, <2>1
  <2>2. ASSUME NEW key \in SetKey, keyMap' = RemoveAllEntries(keyMap, key)
        PROVE  keyMap' \in Table /\ \A gvk \in DOMAIN keyMap' : DOMAIN keyMap'[gvk] # {}
    BY <1>1, <2>2, RemoveForm
  <2>3. ASSUME NEW key \in SetKey, NEW os \in ObjectSet, NEW visited \in SUBSET Kinds(os),
               keyMap' = Relocked(key, os, visited)
        PROVE  keyMap' \in Table /\ \A gvk \in DOMAIN keyMap' : DOMAIN keyMap'[gvk] # {}
    <3> DEFINE removed == RemoveAllEntries(keyMap, key)
    <3>1. removed \in Table /\ \A gvk \in DOMAIN removed : DOMAIN removed[gvk] # {}
      BY <1>1, RemoveForm
    <3>2. keyMap' = AddEntries(removed, key, os, visited)
      BY <2>3 DEF Relocked
    <3> HIDE DEF removed
    <3> QED BY <3>1, <3>2, AddForm
  <2> QED BY <2>1, <2>2, <2>3, StepForm DEF TableInv
<1>3. watched' \in SUBSET GVK
  BY StepForm DEF TableInv
<1> QED BY <1>2, <1>3 DEF TableInv, TableTypeOK, NoEmptyGroup

\* keyByResourceKeyByGVK only ever holds maps from resources to keys of object sets, one inner
\* map per watched kind.
THEOREM TableTypeCorrect == TableSpec => []TableTypeOK
<1>1. TableInit => TableInv
  BY TableInvInit
<1>2. TableInv /\ [TableNext]_tableVars => TableInv'
  BY TableInvStep
<1>3. TableInv => TableTypeOK
  BY DEF TableInv
<1> QED BY <1>1, <1>2, <1>3, PTL DEF TableSpec

\* No sequence of locks and unlocks leaves an empty inner map behind (removeAllEntries).
THEOREM NoEmptyGroupCorrect == TableSpec => []NoEmptyGroup
<1>1. TableInit => TableInv
  BY TableInvInit
<1>2. TableInv /\ [TableNext]_tableVars => TableInv'
  BY TableInvStep
<1>3. TableInv => NoEmptyGroup
  BY DEF TableInv
<1> QED BY <1>1, <1>2, <1>3, PTL DEF TableSpec

-----------------------------------------------------------------------------
\* What a relocking does to every resource, seen through Resolve.
LEMMA RelockedResolve ==
  ASSUME TableInv, NEW key \in SetKey, NEW os \in ObjectSet, NEW visited \in SUBSET Kinds(os),
         NEW res \in Resource
  PROVE  Resolve(Relocked(key, os, visited), res)
           = IF res \in Objects[os] /\ res[1] \in visited THEN key
             ELSE IF Resolve(keyMap, res) = key THEN NoKey ELSE Resolve(keyMap, res)
<1> DEFINE removed == RemoveAllEntries(keyMap, key)
<1>1. keyMap \in Table
  BY DEF TableInv, TableTypeOK
<1>2. removed \in Table
  BY <1>1, RemoveForm
<1>3. Resolve(removed, res) = IF Resolve(keyMap, res) = key THEN NoKey ELSE Resolve(keyMap, res)
  BY <1>1, RemoveResolve
<1>4. Relocked(key, os, visited) = AddEntries(removed, key, os, visited)
  BY DEF Relocked
<1> HIDE DEF removed
<1> QED BY <1>2, <1>3, <1>4, AddResolve

\* The entries of one key are some kinds of one set.
WholeGroup(table, key) ==
  \/ Entries(table, key) = {}
  \/ \E os \in ObjectSet, kinds \in SUBSET GVK :
       Entries(table, key) = {res \in Objects[os] : res[1] \in kinds}

LEMMA WholeGroupsStep ==
  ASSUME TableInv, WholeGroups, [TableNext]_tableVars
  PROVE  WholeGroups'
<1>1. SUFFICES ASSUME NEW owner \in SetKey PROVE WholeGroup(keyMap', owner)
  BY DEF WholeGroups, WholeGroup
<1>2. WholeGroup(keyMap, owner)
  BY DEF WholeGroups, WholeGroup
<1>3. keyMap \in Table
  BY DEF TableInv, TableTypeOK
<1>4. owner # NoKey
  BY NamesAssumption
<1>5. CASE keyMap' = keyMap
  BY <1>2, <1>5
<1>6. ASSUME NEW key \in SetKey, keyMap' = RemoveAllEntries(keyMap, key)
      PROVE  WholeGroup(keyMap', owner)
  <2>1. \A res \in Resource :
          Resolve(keyMap', res) = IF Resolve(keyMap, res) = key THEN NoKey
                                  ELSE Resolve(keyMap, res)
    BY <1>3, <1>6, RemoveResolve
  <2>2. CASE owner = key
    <3>1. Entries(keyMap', owner) = {}
      BY <1>4, <2>1, <2>2 DEF Entries
    <3> QED BY <3>1 DEF WholeGroup
  <2>3. CASE owner # key
    <3>1. Entries(keyMap', owner) = Entries(keyMap, owner)
      BY <1>4, <2>1, <2>3 DEF Entries
    <3> QED BY <1>2, <3>1 DEF WholeGroup
  <2> QED BY <2>2, <2>3
<1>7. ASSUME NEW key \in SetKey, NEW os \in ObjectSet, NEW visited \in SUBSET Kinds(os),
             CanLock(keyMap, key, os), keyMap' = Relocked(key, os, visited)
      PROVE  WholeGroup(keyMap', owner)
  <2>1. \A res \in Resource :
          Resolve(keyMap', res)
            = IF res \in Objects[os] /\ res[1] \in visited THEN key
              ELSE IF Resolve(keyMap, res) = key THEN NoKey ELSE Resolve(keyMap, res)
    BY <1>7, RelockedResolve
  <2>2. Objects[os] \subseteq Resource
    BY LockTableAssumption
  <2>3. CASE owner = key
    <3>1. Entries(keyMap', owner) = {res \in Objects[os] : res[1] \in visited}
      BY <1>4, <2>1, <2>2, <2>3 DEF Entries
    <3>2. visited \in SUBSET GVK
      BY <2>2 DEF Kinds, Resource
    <3> QED BY <3>1, <3>2 DEF WholeGroup
  <2>4. CASE owner # key
    <3>1. \A res \in Objects[os] : Resolve(keyMap, res) # owner
      BY <1>4, <1>7, <2>4 DEF CanLock
    <3>2. Entries(keyMap', owner) = Entries(keyMap, owner)
      BY <1>4, <2>1, <2>4, <3>1 DEF Entries
    <3> QED BY <1>2, <3>2 DEF WholeGroup
  <2> QED BY <2>3, <2>4
<1> QED BY <1>5, <1>6, <1>7, StepForm DEF TableInv

\* However keys are locked and unlocked, and whichever Watch fails, the entries of a key never
\* mix two of its sets and never split a kind.
THEOREM WholeGroupsCorrect == TableSpec => []WholeGroups
<1>1. TableInit => TableInv /\ WholeGroups
  <2>1. ASSUME TableInit PROVE WholeGroups
    <3>1. \A key \in SetKey : Entries(keyMap, key) = {}
      BY <2>1, NamesAssumption DEF TableInit, Entries, Resolve
    <3> QED BY <3>1 DEF WholeGroups
  <2> QED BY <2>1, TableInvInit
<1>2. TableInv /\ WholeGroups /\ [TableNext]_tableVars => (TableInv /\ WholeGroups)'
  BY TableInvStep, WholeGroupsStep
<1> QED BY <1>1, <1>2, PTL DEF TableSpec

-----------------------------------------------------------------------------
\* A step of the table is a step of exclusive ownership, or no step of it at all.
LEMMA OwnershipStep ==
  ASSUME TableInv, [TableNext]_tableVars
  PROVE  [Ownership!Next]_([res \in Resource |-> Resolve(keyMap, res)])
<1> DEFINE own == [res \in Resource |-> Resolve(keyMap, res)]
<1>1. keyMap \in Table
  BY DEF TableInv, TableTypeOK
<1>2. CASE keyMap' = keyMap
  BY <1>2
<1>3. ASSUME NEW key \in SetKey, keyMap' = RemoveAllEntries(keyMap, key)
      PROVE  Ownership!Next
  <2>1. own' = [res \in Resource |-> IF own[res] = key THEN NoKey ELSE own[res]]
    BY <1>1, <1>3, RemoveResolve
  <2>2. Ownership!Take(key, {})
    BY <2>1 DEF Ownership!Take
  <2> QED BY <2>2 DEF Ownership!Next
<1>4. ASSUME NEW key \in SetKey, NEW os \in ObjectSet, NEW visited \in SUBSET Kinds(os),
             CanLock(keyMap, key, os), keyMap' = Relocked(key, os, visited)
      PROVE  Ownership!Next
  <2> DEFINE taken == {res \in Objects[os] : res[1] \in visited}
  <2>1. taken \in SUBSET Resource
    BY LockTableAssumption
  <2>2. \A res \in taken : own[res] \in {key, NoKey}
    BY <1>4, <2>1 DEF CanLock
  <2>3. own' = [res \in Resource |-> IF res \in taken THEN key
                                     ELSE IF own[res] = key THEN NoKey ELSE own[res]]
    BY <1>4, RelockedResolve
  <2>4. Ownership!Take(key, taken)
    BY <2>2, <2>3 DEF Ownership!Take
  <2> QED BY <2>1, <2>4 DEF Ownership!Next
<1> QED BY <1>2, <1>3, <1>4, StepForm DEF TableInv

\* The lock table implements exclusive ownership of resources: no two object sets are ever tied
\* to one resource, and none loses a resource to another.
THEOREM TableImplementsOwnership == TableSpec => OwnershipSpec
<1>1. TableInit => TableInv /\ Ownership!Init
  <2>1. ASSUME TableInit PROVE Ownership!Init
    BY <2>1 DEF TableInit, Ownership!Init, Resolve
  <2> QED BY <2>1, TableInvInit
<1>2. TableInv /\ [TableNext]_tableVars => TableInv'
  BY TableInvStep
<1>3. TableInv /\ [TableNext]_tableVars
        => [Ownership!Next]_([res \in Resource |-> Resolve(keyMap, res)])
  BY OwnershipStep
<1> QED BY <1>1, <1>2, <1>3, PTL DEF TableSpec, OwnershipSpec, Ownership!Spec
=============================================================================
