--------------------------- MODULE RegistryProofs ---------------------------
(***************************************************************************)
(* Proofs about Registry, for any number of registrations, searches,       *)
(* directories and inode numbers, and any cap.                             *)
(***************************************************************************)
EXTENDS Registry, FiniteSetTheorems, TLAPS

-----------------------------------------------------------------------------
(* The inductive invariant.                                                *)

\* The root is a directory that exists, and no two that exist have the same
\* inode number.
DiskOK ==
    /\ ino[path] # None
    /\ \A p, q \in Objects : ino[p] # None /\ ino[p] = ino[q] => p = q

\* Every entry was published by a registration that ended, and none outlives
\* the registry.
EntriesOK ==
    /\ \A r \in entries : phase[r] = "registered"
    /\ closed => entries = {}

\* The worker is in use: register() has constructed it and still awaits it, or
\* the entry it was published with is present.
InUse(r) == phase[r] \in {"open", "validate"} \/ r \in entries

\* What register() holds when it awaits, and what is left when it has ended.
HoldsOK(r) ==
    /\ phase[r] \in {"idle", "realpath", "lease"} => lease[r] = None
    /\ phase[r] \in {"idle", "realpath", "lease", "stat"} =>
         worker[r] = "none" /\ r \notin releasing
    /\ phase[r] = "stat" \/ InUse(r) => lease[r] # None /\ r \notin releasing
    /\ phase[r] = "cleanup" => r \in releasing /\ error[r] \in RegisterErrors
    /\ lease[r] # None /\ r \notin releasing => phase[r] = "stat" \/ InUse(r)
    /\ worker[r] = "open" <=> InUse(r)

\* A directory that is leased exists, and a worker in use was told its inode
\* number.
LeaseOK(r) ==
    /\ lease[r] # None => ino[lease[r]] # None
    /\ InUse(r) => identity[r] = ino[lease[r]]

\* A worker has a call or a child only while it is in use: the calls of
\* register(), or a search of a present entry; and the child that passed the
\* check of the inode number holds the very directory that is leased.
WorkOK(r) ==
    /\ \A p \in {"open", "validate"} : calling[r] = p <=> phase[r] = p
    /\ calling[r] \in Searches =>
         r \in entries /\ target[calling[r]] = r /\ result[calling[r]] = "waiting"
    /\ child[r] # None => InUse(r) /\ child[r] = lease[r]

RegistrationOK(r) == HoldsOK(r) /\ LeaseOK(r) /\ WorkOK(r)

Inv == /\ TypeOK /\ CapHolds /\ DiskOK /\ EntriesOK
       /\ \A r \in Registrations : RegistrationOK(r)
-----------------------------------------------------------------------------
(* What the larger actions do, as later proofs use it.                     *)

\* register() refuses at once, or takes one of the slots that are left.
LEMMA RegisterEffect ==
    ASSUME NEW r \in Registrations, Register(r)
    PROVE  \/ /\ \E code \in RegisterErrors : phase' = [phase EXCEPT ![r] = code]
              /\ registering' = registering
           \/ /\ phase' = [phase EXCEPT ![r] = "realpath"]
              /\ registering' = registering + 1
              /\ ~(Cardinality(entries) + registering >= Cap)
<1>1. PICK valid \in BOOLEAN :
        \/ /\ RegisterRefused(valid) # None
           /\ phase' = [phase EXCEPT ![r] = RegisterRefused(valid)]
           /\ registering' = registering
        \/ /\ RegisterRefused(valid) = None
           /\ phase' = [phase EXCEPT ![r] = "realpath"]
           /\ registering' = registering + 1
  BY DEF Register
<1>2. RegisterRefused(valid) \in RegisterErrors \cup {None}
  BY DEF RegisterRefused, RegisterErrors
<1>3. RegisterRefused(valid) = None => ~(Cardinality(entries) + registering >= Cap)
  BY NamesAssumption DEF RegisterRefused, RegisterErrors
<1> QED BY <1>1, <1>2, <1>3

\* A search is refused at once, or goes to the idle worker of a present entry.
LEMMA SearchEffect ==
    ASSUME NEW s \in Searches, NEW r \in Registrations, Search(s, r)
    PROVE  \/ /\ \E code \in Results \ {"ok", "idle"} :
                    result' = [result EXCEPT ![s] = code]
              /\ calling' = calling
           \/ /\ result' = [result EXCEPT ![s] = "waiting"]
              /\ calling' = [calling EXCEPT ![r] = s]
              /\ calling[r] = None /\ r \in entries
<1>1. PICK valid \in BOOLEAN :
        \/ /\ SearchRefused(s, r, valid) # None
           /\ result' = [result EXCEPT ![s] = SearchRefused(s, r, valid)]
           /\ calling' = calling
        \/ /\ SearchRefused(s, r, valid) = None
           /\ result' = [result EXCEPT ![s] = "WORKER_REFUSED"]
           /\ calling' = calling
        \/ /\ SearchRefused(s, r, valid) = None
           /\ result' = [result EXCEPT ![s] = "waiting"]
           /\ calling' = [calling EXCEPT ![r] = s]
  BY DEF Search
<1>2. SearchRefused(s, r, valid) \in (Results \ {"ok", "idle"}) \cup {None}
  BY DEF SearchRefused, Results
<1>3. SearchRefused(s, r, valid) = None => calling[r] = None /\ r \in entries
  BY NamesAssumption DEF SearchRefused, Results
<1>4. "WORKER_REFUSED" \in Results \ {"ok", "idle"}
  BY DEF Results
<1> QED BY <1>1, <1>2, <1>3, <1>4

-----------------------------------------------------------------------------
(* Type correctness.                                                       *)

\* The catch clause keeps the types of what it writes.
LEMMA FailType ==
    ASSUME TypeOK, NEW r \in Registrations, NEW code \in RegisterErrors, Fail(r, code)
    PROVE  /\ phase' \in [Registrations -> Phases]
           /\ error' \in [Registrations -> RegisterErrors \cup {None}]
           /\ worker' \in [Registrations -> {"none", "open", "closed"}]
           /\ releasing' \in SUBSET Registrations
           /\ calling' \in [Registrations -> {None, "open", "validate"} \cup Searches]
           /\ child' \in [Registrations -> Objects \cup {None}]
BY DEF TypeOK, Fail, Phases, Awaiting

\* So does dropping entries.
LEMMA DropType ==
    ASSUME TypeOK, NEW R \in SUBSET Registrations, Drop(R)
    PROVE  /\ entries' \in SUBSET Registrations
           /\ worker' \in [Registrations -> {"none", "open", "closed"}]
           /\ releasing' \in SUBSET Registrations
           /\ calling' \in [Registrations -> {None, "open", "validate"} \cup Searches]
           /\ child' \in [Registrations -> Objects \cup {None}]
           /\ result' \in [Searches -> Results]
<1>1. \A s \in Searches : result'[s] \in Results
  BY DEF Drop, TypeOK, Results
<1> QED BY <1>1 DEF TypeOK, Drop

\* A registry that was just constructed is type correct and within its cap.
LEMMA TypeInit == Init => TypeOK
<1> SUFFICES ASSUME Init PROVE TypeOK
  OBVIOUS
<1>1. registering \in 0 .. Cap
  BY RegistryAssumption DEF Init
<1>2. phase \in [Registrations -> Phases] /\ result \in [Searches -> Results]
  BY DEF Init, Phases, Results
<1> QED BY <1>1, <1>2 DEF Init, TypeOK

\* TypeOK without the range of the counter, which is the cap's to keep.
Typed ==
    /\ closed \in BOOLEAN /\ entries \in SUBSET Registrations
    /\ registering \in Int
    /\ phase \in [Registrations -> Phases]
    /\ error \in [Registrations -> RegisterErrors \cup {None}]
    /\ worker \in [Registrations -> {"none", "open", "closed"}]
    /\ lease \in [Registrations -> Objects \cup {None}]
    /\ releasing \in SUBSET Registrations
    /\ identity \in [Registrations -> Inodes \cup {None}]
    /\ calling \in [Registrations -> {None, "open", "validate"} \cup Searches]
    /\ child \in [Registrations -> Objects \cup {None}]
    /\ target \in [Searches -> Registrations \cup {None}]
    /\ result \in [Searches -> Results]
    /\ source \in [Searches -> Objects \cup {None}]
    /\ path \in Objects
    /\ ino \in [Objects -> Inodes \cup {None}]

\* Every step keeps every variable in its type, the counter an integer.
LEMMA TypedNext ==
    ASSUME Inv, [Next]_vars
    PROVE  Typed'
<1>t. Typed
  BY DEF Inv, TypeOK, Typed
<1>1. ASSUME NEW r \in Registrations, Register(r) PROVE Typed'
  <2>1. PICK code \in RegisterErrors \cup {"realpath"} :
              phase' = [phase EXCEPT ![r] = code]
    BY <1>1, RegisterEffect
  <2>2. code \in Phases
    BY DEF Phases, Awaiting
  <2>3. registering' \in Int
    BY <1>1, <1>t, RegisterEffect DEF Typed
  <2> QED BY <1>1, <1>t, <2>1, <2>2, <2>3 DEF Register, Typed, workers, searches, disk
<1>2. ASSUME NEW r \in Registrations, Realpath(r) PROVE Typed'
  <2>1. CASE Fail(r, "WORKSPACE_UNAVAILABLE")
    BY <1>2, <1>t, <2>1, FailType
       DEF Inv, RegisterErrors, Realpath, Typed, registry, searches, disk
  <2>2. CASE Await(r, "lease") /\ UNCHANGED <<error, worker, releasing, workers>>
    BY <1>2, <1>t, <2>2
       DEF Realpath, Await, Typed, registry, searches, disk, workers, Phases, Awaiting
  <2> QED BY <1>2, <2>1, <2>2 DEF Realpath
<1>3. ASSUME NEW r \in Registrations, OpenLease(r) PROVE Typed'
  <2>1. CASE Fail(r, "WORKSPACE_UNAVAILABLE") /\ UNCHANGED lease
    BY <1>3, <1>t, <2>1, FailType
       DEF Inv, RegisterErrors, OpenLease, Typed, registry, searches, disk
  <2>2. CASE /\ lease' = [lease EXCEPT ![r] = path]
             /\ Await(r, "stat")
             /\ UNCHANGED <<error, worker, releasing, workers>>
    BY <1>3, <1>t, <2>2
       DEF OpenLease, Await, Typed, registry, searches, disk, workers, Phases, Awaiting
  <2> QED BY <1>3, <2>1, <2>2 DEF OpenLease
<1>4. ASSUME NEW r \in Registrations, Stat(r) PROVE Typed'
  <2>1. ASSUME NEW code \in RegisterErrors, Fail(r, code), UNCHANGED identity
        PROVE  Typed'
    BY <1>4, <1>t, <2>1, FailType DEF Inv, Stat, Typed, registry, searches, disk
  <2>2. CASE /\ identity' = [identity EXCEPT ![r] = ino[lease[r]]]
             /\ worker' = [worker EXCEPT ![r] = "open"]
             /\ calling' = [calling EXCEPT ![r] = "open"]
             /\ Await(r, "open")
             /\ UNCHANGED <<error, releasing, child>>
    <3>1. ino[lease[r]] \in Inodes \cup {None}
      BY <1>4, <1>t DEF Inv, RegistrationOK, HoldsOK, Stat, Typed
    <3> QED BY <1>4, <1>t, <2>2, <3>1
            DEF Stat, Await, Typed, registry, searches, disk, Phases, Awaiting
  <2> QED BY <1>4, <2>1, <2>2 DEF Stat, RegisterErrors
<1>5. ASSUME NEW r \in Registrations, Validated(r) PROVE Typed'
  <2>1. ASSUME NEW code \in RegisterErrors, Fail(r, code),
               UNCHANGED <<entries, registering>>
        PROVE  Typed'
    BY <1>5, <1>t, <2>1, FailType DEF Inv, Validated, Typed, searches, disk
  <2>2. CASE /\ entries' = entries \cup {r}
             /\ registering' = registering - 1
             /\ Await(r, "registered")
             /\ calling' = [calling EXCEPT ![r] = None]
             /\ UNCHANGED <<error, worker, releasing, child>>
    BY <1>5, <1>t, <2>2
       DEF Validated, Await, Typed, searches, disk, Phases, Awaiting
  <2> QED BY <1>5, <2>1, <2>2 DEF Validated, Publish, RegisterErrors
<1>6. ASSUME NEW r \in Registrations, LeaseClosed(r) PROVE Typed'
  <2>1. phase[r] = "cleanup" => error[r] \in RegisterErrors
    BY DEF Inv, RegistrationOK, HoldsOK
  <2>2. phase' \in [Registrations -> Phases]
    <3>1. phase[r] = "cleanup" =>
            \E p \in RegisterErrors \cup {"CLOSE_FAILED"} :
                phase' = [phase EXCEPT ![r] = p]
      BY <1>6, <2>1 DEF LeaseClosed, Await
    <3>2. phase[r] # "cleanup" => phase' = phase
      BY <1>6 DEF LeaseClosed
    <3> QED BY <1>t, <3>1, <3>2 DEF Typed, Phases
  <2>3. registering' \in Int
    BY <1>6, <1>t DEF LeaseClosed, Typed
  <2> QED BY <1>6, <1>t, <2>2, <2>3 DEF LeaseClosed, Typed, workers, searches, disk
<1>7. ASSUME NEW r \in Registrations, ChildUp(r) PROVE Typed'
  <2>1. /\ phase' \in [Registrations -> Phases]
        /\ calling' \in [Registrations -> {None, "open", "validate"} \cup Searches]
    BY <1>7, <1>t DEF ChildUp, Await, Typed, Phases, Awaiting
  <2> QED BY <1>7, <1>t, <2>1 DEF ChildUp, Typed, registry, searches, disk
<1>8. ASSUME NEW r \in Registrations, Answered(r) PROVE Typed'
  BY <1>8, <1>t DEF Answered, Typed, Results, registry, register, disk
<1>9. ASSUME NEW r \in Registrations, WorkerFails(r) PROVE Typed'
  <2>1. CASE /\ calling[r] \in Searches
             /\ result' = [result EXCEPT ![calling[r]] = "WORKER_FAILED"]
             /\ calling' = [calling EXCEPT ![r] = None]
             /\ child' = [child EXCEPT ![r] = None]
             /\ UNCHANGED <<phase, error, worker, releasing>>
    BY <1>9, <1>t, <2>1 DEF WorkerFails, Typed, Results, registry, disk
  <2>2. CASE Fail(r, "WORKSPACE_UNAVAILABLE") /\ UNCHANGED result
    BY <1>9, <1>t, <2>2, FailType
       DEF Inv, RegisterErrors, WorkerFails, Typed, registry, disk
  <2> QED BY <1>9, <2>1, <2>2 DEF WorkerFails
<1>10. ASSUME NEW r \in Registrations, IdleChildDies(r) PROVE Typed'
  BY <1>10, <1>t DEF IdleChildDies, Typed, registry, register, searches, disk
<1>11. ASSUME NEW r \in Registrations, Unregister(r) PROVE Typed'
  BY <1>11, <1>t, DropType DEF Inv, Unregister, Typed, disk
<1>12. ASSUME NEW s \in Searches, NEW r \in Registrations, Search(s, r) PROVE Typed'
  <2>1. /\ result' \in [Searches -> Results]
        /\ calling' \in [Registrations -> {None, "open", "validate"} \cup Searches]
    BY <1>12, <1>t, SearchEffect DEF Typed, Results
  <2> QED BY <1>12, <1>t, <2>1 DEF Search, Typed, registry, register, disk
<1>13. ASSUME Close PROVE Typed'
  BY <1>13, <1>t, DropType DEF Inv, Close, Typed, disk
<1>14. ASSUME NEW o \in Objects, ReplaceRoot(o) \/ RestoreRoot(o) PROVE Typed'
  BY <1>14, <1>t
     DEF ReplaceRoot, RestoreRoot, Typed, registry, register, workers, searches
<1>15. CASE UNCHANGED vars
  BY <1>15, <1>t
     DEF Typed, vars, registry, register, workers, searches, disk
<1> QED BY <1>1, <1>2, <1>3, <1>4, <1>5, <1>6, <1>7, <1>8, <1>9, <1>10, <1>11, <1>12,
           <1>13, <1>14, <1>15 DEF Next, RegisterStep, WorkerStep
-----------------------------------------------------------------------------
(* The cap.                                                                *)

\* A registration is counted from the moment it starts awaiting to the moment
\* it ends, and changes of one registration's phase count for one.
LEMMA Moves ==
    ASSUME TypeOK, NEW r \in Registrations, NEW p \in Phases,
           phase' = [phase EXCEPT ![r] = p]
    PROVE  /\ phase[r] \in Awaiting /\ p \in Awaiting =>
                Cardinality(InProgress') = Cardinality(InProgress)
           /\ phase[r] \notin Awaiting /\ p \in Awaiting =>
                Cardinality(InProgress') = Cardinality(InProgress) + 1
           /\ phase[r] \in Awaiting /\ p \notin Awaiting =>
                Cardinality(InProgress') = Cardinality(InProgress) - 1
           /\ phase[r] \notin Awaiting /\ p \notin Awaiting =>
                Cardinality(InProgress') = Cardinality(InProgress)
<1>1. IsFiniteSet(InProgress)
  BY RegistryAssumption, FS_Subset DEF InProgress
<1>2. InProgress' = IF p \in Awaiting THEN InProgress \cup {r} ELSE InProgress \ {r}
  BY DEF InProgress, TypeOK
<1>3. r \in InProgress <=> phase[r] \in Awaiting
  BY DEF InProgress
<1>4. Cardinality(InProgress \cup {r}) =
        IF r \in InProgress THEN Cardinality(InProgress)
                            ELSE Cardinality(InProgress) + 1
  BY <1>1, FS_AddElement
<1>5. Cardinality(InProgress \ {r}) =
        IF r \in InProgress THEN Cardinality(InProgress) - 1
                            ELSE Cardinality(InProgress)
  BY <1>1, FS_RemoveElement
<1> QED BY <1>2, <1>3, <1>4, <1>5

\* Fewer entries are no more entries.
LEMMA FewerEntries ==
    ASSUME TypeOK, NEW R, entries' = entries \ R
    PROVE  /\ Cardinality(entries') \in Nat /\ Cardinality(entries) \in Nat
           /\ Cardinality(entries') <= Cardinality(entries)
<1>1. IsFiniteSet(entries)
  BY RegistryAssumption, FS_Subset DEF TypeOK
<1>2. entries' \subseteq entries
  OBVIOUS
<1>3. /\ IsFiniteSet(entries') /\ Cardinality(entries') <= Cardinality(entries)
  BY <1>1, <1>2, FS_Subset
<1> QED BY <1>1, <1>3, FS_CardinalityType

\* A step that changes neither the entries nor a phase nor the counter, keeps
\* the cap.
LEMMA CapUnchanged ==
    ASSUME CapHolds, UNCHANGED <<entries, registering, phase>>
    PROVE  CapHolds'
BY DEF CapHolds, InProgress

\* Every step keeps the cap, and the count of the registrations in progress.
LEMMA CapNext ==
    ASSUME Inv, [Next]_vars
    PROVE  CapHolds'
<1>t. /\ TypeOK /\ CapHolds
      /\ Cardinality(entries) \in Nat /\ registering \in Nat /\ Cap \in Nat
      /\ Cardinality(InProgress) \in Nat
  <2>1. IsFiniteSet(entries) /\ IsFiniteSet(InProgress)
    BY RegistryAssumption, FS_Subset DEF Inv, TypeOK, InProgress
  <2>2. Cardinality(entries) \in Nat /\ Cardinality(InProgress) \in Nat
    BY <2>1, FS_CardinalityType
  <2> QED BY <2>2, RegistryAssumption DEF Inv, TypeOK
\* The catch clause leaves a registration in progress.
<1>f. ASSUME NEW r \in Registrations, NEW code, Fail(r, code), phase[r] \in Awaiting,
             UNCHANGED <<entries, registering>>
      PROVE  CapHolds'
  <2>1. Cardinality(InProgress') = Cardinality(InProgress)
    BY <1>f, <1>t, Moves DEF Fail, Awaiting, Phases
  <2> QED BY <1>f, <1>t, <2>1 DEF CapHolds
\* So does the next await of the try clause.
<1>a. ASSUME NEW r \in Registrations, NEW p \in Awaiting, Await(r, p),
             phase[r] \in Awaiting, UNCHANGED <<entries, registering>>
      PROVE  CapHolds'
  <2>1. Cardinality(InProgress') = Cardinality(InProgress)
    BY <1>a, <1>t, Moves DEF Await, Phases
  <2> QED BY <1>a, <1>t, <2>1 DEF CapHolds
\* Entries that are dropped leave room.
<1>d. ASSUME NEW R, Drop(R), UNCHANGED <<registering, phase>> PROVE CapHolds'
  <2>1. /\ Cardinality(entries') <= Cardinality(entries)
        /\ Cardinality(entries') \in Nat
    BY <1>d, <1>t, FewerEntries DEF Drop
  <2>2. InProgress' = InProgress
    BY <1>d DEF InProgress
  <2> QED BY <1>d, <1>t, <2>1, <2>2 DEF CapHolds
<1>1. ASSUME NEW r \in Registrations, Register(r) PROVE CapHolds'
  <2>1. phase[r] \notin Awaiting /\ entries' = entries
    BY <1>1 DEF Register, Awaiting
  <2>2. CASE /\ phase' = [phase EXCEPT ![r] = "realpath"]
             /\ registering' = registering + 1
             /\ ~(Cardinality(entries) + registering >= Cap)
    <3>1. Cardinality(InProgress') = Cardinality(InProgress) + 1
      BY <1>t, <2>1, <2>2, Moves DEF Phases, Awaiting
    <3> QED BY <1>t, <2>1, <2>2, <3>1 DEF CapHolds
  <2>3. ASSUME NEW code \in RegisterErrors, phase' = [phase EXCEPT ![r] = code],
               registering' = registering
        PROVE  CapHolds'
    <3>1. code \notin Awaiting /\ code \in Phases
      BY DEF Awaiting, RegisterErrors, Phases
    <3>2. Cardinality(InProgress') = Cardinality(InProgress)
      BY <1>t, <2>1, <2>3, <3>1, Moves
    <3> QED BY <1>t, <2>1, <2>3, <3>2 DEF CapHolds
  <2> QED BY <1>1, <2>2, <2>3, RegisterEffect
<1>2. ASSUME NEW r \in Registrations, Realpath(r) PROVE CapHolds'
  BY <1>2, <1>a, <1>f DEF Realpath, Awaiting, registry
<1>3. ASSUME NEW r \in Registrations, OpenLease(r) PROVE CapHolds'
  BY <1>3, <1>a, <1>f DEF OpenLease, Awaiting, registry
<1>4. ASSUME NEW r \in Registrations, Stat(r) PROVE CapHolds'
  BY <1>4, <1>a, <1>f DEF Stat, Awaiting, registry
<1>5. ASSUME NEW r \in Registrations, Validated(r) PROVE CapHolds'
  <2>1. phase[r] \in Awaiting
    BY <1>5 DEF Validated, Inv, RegistrationOK, WorkOK, Awaiting
  <2>2. CASE /\ entries' = entries \cup {r}
             /\ registering' = registering - 1
             /\ Await(r, "registered")
    <3>1. Cardinality(InProgress') = Cardinality(InProgress) - 1
      <4>1. "registered" \in Phases /\ "registered" \notin Awaiting
        BY DEF Phases, Awaiting
      <4>2. phase' = [phase EXCEPT ![r] = "registered"]
        BY <2>2 DEF Await
      <4> QED BY <1>t, <2>1, <4>1, <4>2, Moves
    <3>2. /\ Cardinality(entries \cup {r}) \in Nat
          /\ Cardinality(entries \cup {r}) <= Cardinality(entries) + 1
      <4>1. IsFiniteSet(entries)
        BY RegistryAssumption, FS_Subset, <1>t DEF TypeOK
      <4>2. Cardinality(entries \cup {r}) =
              IF r \in entries THEN Cardinality(entries) ELSE Cardinality(entries) + 1
        BY <4>1, FS_AddElement
      <4> QED BY <4>2, <1>t
    <3> QED BY <1>t, <2>2, <3>1, <3>2 DEF CapHolds
  <2> QED BY <1>5, <1>f, <2>1, <2>2 DEF Validated, Publish
<1>6. ASSUME NEW r \in Registrations, LeaseClosed(r) PROVE CapHolds'
  <2>1. CASE phase[r] = "cleanup"
    <3>1. PICK p \in RegisterErrors \cup {"CLOSE_FAILED"} :
                phase' = [phase EXCEPT ![r] = p]
      BY <1>6, <2>1 DEF LeaseClosed, Await, Inv, RegistrationOK, HoldsOK
    <3>2. p \in Phases /\ p \notin Awaiting
      BY DEF Phases, Awaiting, RegisterErrors
    <3>3. Cardinality(InProgress') = Cardinality(InProgress) - 1
      BY <1>t, <2>1, <3>1, <3>2, Moves DEF Awaiting
    <3> QED BY <1>6, <1>t, <2>1, <3>3 DEF LeaseClosed, CapHolds
  <2>2. CASE phase[r] # "cleanup"
    BY <1>6, <1>t, <2>2, CapUnchanged DEF LeaseClosed
  <2> QED BY <2>1, <2>2
<1>7. ASSUME NEW r \in Registrations, ChildUp(r) PROVE CapHolds'
  <2>1. CASE calling[r] = "open"
    BY <1>7, <1>a, <2>1 DEF ChildUp, Inv, RegistrationOK, WorkOK, Awaiting, registry
  <2>2. CASE calling[r] # "open"
    BY <1>7, <1>t, <2>2, CapUnchanged DEF ChildUp, registry
  <2> QED BY <2>1, <2>2
<1>8. ASSUME NEW r \in Registrations, WorkerFails(r) PROVE CapHolds'
  <2>1. CASE Fail(r, "WORKSPACE_UNAVAILABLE") /\ calling[r] \in {"open", "validate"}
    BY <1>8, <1>f, <2>1 DEF WorkerFails, Inv, RegistrationOK, WorkOK, Awaiting, registry
  <2>2. CASE UNCHANGED phase
    BY <1>8, <1>t, <2>2, CapUnchanged DEF WorkerFails, registry
  <2> QED BY <1>8, <2>1, <2>2 DEF WorkerFails
<1>9. ASSUME NEW r \in Registrations, Unregister(r) PROVE CapHolds'
  BY <1>9, <1>d DEF Unregister
<1>10. ASSUME Close PROVE CapHolds'
  BY <1>10, <1>d DEF Close
<1>11. ASSUME \/ \E r \in Registrations : Answered(r) \/ IdleChildDies(r)
              \/ \E s \in Searches, r \in Registrations : Search(s, r)
              \/ \E o \in Objects : ReplaceRoot(o) \/ RestoreRoot(o)
              \/ UNCHANGED vars
       PROVE  CapHolds'
  BY <1>11, <1>t, CapUnchanged
     DEF Answered, IdleChildDies, Search, ReplaceRoot, RestoreRoot, vars, registry,
         register
<1> QED BY <1>1, <1>2, <1>3, <1>4, <1>5, <1>6, <1>7, <1>8, <1>9, <1>10, <1>11
        DEF Next, RegisterStep, WorkerStep

\* So the counter stays between nothing and the cap, and types are kept.
LEMMA TypeNext == ASSUME Inv, [Next]_vars PROVE TypeOK' /\ CapHolds'
<1>1. Typed' /\ CapHolds'
  BY TypedNext, CapNext
<1>2. IsFiniteSet(entries') /\ IsFiniteSet(InProgress')
  BY <1>1, RegistryAssumption, FS_Subset DEF Typed, InProgress
<1>3. Cardinality(entries') \in Nat /\ Cardinality(InProgress') \in Nat
  BY <1>2, FS_CardinalityType
<1>4. registering' \in 0 .. Cap
  BY <1>1, <1>3, RegistryAssumption DEF CapHolds
<1> QED BY <1>1, <1>4 DEF Typed, TypeOK
-----------------------------------------------------------------------------
(* The disk.                                                               *)

\* A directory somebody holds keeps its inode number, and what is found at the
\* root path has one no other has.
LEMMA DiskNext ==
    ASSUME Inv, [Next]_vars
    PROVE  /\ DiskOK'
           /\ \A p \in Objects : Holders(p) # {} /\ ino[p] # None => ino'[p] = ino[p]
<1>t. TypeOK /\ DiskOK
  BY DEF Inv
<1>n. \A i \in Inodes : i # None
  BY RegistryAssumption
<1>1. ASSUME NEW o \in Objects, ReplaceRoot(o)
      PROVE  /\ DiskOK'
             /\ \A p \in Objects : Kept(p) => ino'[p] = ino[p]
  <2>1. PICK i \in Inodes :
          /\ \A p \in Objects : Kept(p) => ino[p] # i
          /\ ino' = [p \in Objects |-> IF p = o THEN i
                                       ELSE IF Kept(p) THEN ino[p] ELSE None]
    BY <1>1 DEF ReplaceRoot
  <2>2. path' = o /\ ino[o] = None
    BY <1>1 DEF ReplaceRoot
  <2>3. \A p \in Objects : Kept(p) => ino'[p] = ino[p]
    BY <2>1, <2>2 DEF Kept
  <2>4. ino'[path'] # None
    BY <1>n, <2>1, <2>2
  <2>5. ASSUME NEW p \in Objects, NEW q \in Objects, ino'[p] # None, ino'[p] = ino'[q]
        PROVE  p = q
    BY <1>t, <1>n, <2>1, <2>5 DEF DiskOK, Kept
  <2> QED BY <2>3, <2>4, <2>5 DEF DiskOK
<1>2. ASSUME NEW o \in Objects, RestoreRoot(o)
      PROVE  /\ DiskOK'
             /\ \A p \in Objects : Kept(p) => ino'[p] = ino[p]
  BY <1>t, <1>2 DEF RestoreRoot, Kept, DiskOK
<1>3. ASSUME \/ \E r \in Registrations : RegisterStep(r) \/ WorkerStep(r) \/ Unregister(r)
             \/ \E s \in Searches, r \in Registrations : Search(s, r)
             \/ Close \/ UNCHANGED vars
      PROVE  UNCHANGED <<path, ino>>
  BY <1>3 DEF RegisterStep, Register, Realpath, OpenLease, Stat, Validated, LeaseClosed,
              WorkerStep, ChildUp, Answered, WorkerFails, IdleChildDies, Unregister,
              Search, Close, vars, disk
<1>4. CASE UNCHANGED <<path, ino>>
  BY <1>t, <1>4 DEF DiskOK
<1>5. CASE \E o \in Objects : ReplaceRoot(o) \/ RestoreRoot(o)
  BY <1>1, <1>2, <1>5 DEF Kept
<1> QED BY <1>3, <1>4, <1>5 DEF Next

-----------------------------------------------------------------------------
(* One registration at a time.  A step is a step of one registration, or   *)
(* of those whose entries it drops, and leaves the others as they were.    *)

\* What belongs to registration q is as it was.
Same(q) == /\ phase'[q] = phase[q] /\ error'[q] = error[q] /\ worker'[q] = worker[q]
           /\ lease'[q] = lease[q] /\ identity'[q] = identity[q]
           /\ calling'[q] = calling[q] /\ child'[q] = child[q]
           /\ q \in releasing' <=> q \in releasing
           /\ q \in entries' <=> q \in entries

\* A registration no step is about stays as it should be, as long as its search
\* in flight does.
LEMMA SameOK ==
    ASSUME Inv, [Next]_vars, NEW q \in Registrations, Same(q),
           calling[q] \in Searches => /\ target'[calling[q]] = target[calling[q]]
                                      /\ result'[calling[q]] = result[calling[q]]
    PROVE  RegistrationOK(q)'
<1>1. RegistrationOK(q) /\ TypeOK
  BY DEF Inv
<1>2. InUse(q)' <=> InUse(q)
  BY DEF Same, InUse
<1>3. HoldsOK(q)'
  BY <1>1, <1>2 DEF RegistrationOK, HoldsOK, Same
<1>4. WorkOK(q)'
  BY <1>1, <1>2 DEF RegistrationOK, WorkOK, Same
<1>5. lease[q] # None => ino'[lease[q]] = ino[lease[q]]
  <2>1. lease[q] # None => q \in Holders(lease[q]) /\ lease[q] \in Objects
    BY <1>1 DEF Holders, TypeOK
  <2> QED BY <1>1, <2>1, DiskNext DEF RegistrationOK, LeaseOK
<1>6. LeaseOK(q)'
  BY <1>1, <1>2, <1>5 DEF RegistrationOK, HoldsOK, LeaseOK, Same
<1> QED BY <1>3, <1>4, <1>6 DEF RegistrationOK

\* A registration whose search in flight is another's than s keeps it.
LEMMA OtherSearch ==
    ASSUME Inv, NEW q \in Registrations, NEW r \in Registrations, q # r,
           calling[q] \in Searches, calling[r] \in Searches
    PROVE  calling[q] # calling[r]
BY DEF Inv, RegistrationOK, WorkOK

\* The catch clause leaves a registration that only has its lease to let go.
LEMMA FailOK ==
    ASSUME Inv, NEW r \in Registrations, NEW code \in RegisterErrors, Fail(r, code),
           phase[r] \in Awaiting \ {"cleanup"},
           UNCHANGED <<entries, lease, identity, path, ino>>
    PROVE  RegistrationOK(r)'
<1>1. RegistrationOK(r) /\ TypeOK /\ EntriesOK
  BY DEF Inv
<1>2. /\ phase'[r] = "cleanup" /\ error'[r] = code /\ worker'[r] \in {"none", "closed"}
      /\ calling'[r] = None /\ child'[r] = None /\ r \in releasing'
  BY <1>1 DEF Fail, TypeOK
<1>3. ~InUse(r)'
  BY <1>1, <1>2 DEF InUse, EntriesOK, Awaiting
<1>4. HoldsOK(r)'
  BY <1>2, <1>3 DEF HoldsOK
<1>5. LeaseOK(r)'
  BY <1>1, <1>3 DEF RegistrationOK, LeaseOK
<1>6. WorkOK(r)'
  BY <1>2, NamesAssumption, RegistryAssumption DEF WorkOK
<1> QED BY <1>4, <1>5, <1>6 DEF RegistrationOK

\* A dropped entry leaves a registration that only has its lease to let go.
LEMMA DropOK ==
    ASSUME Inv, NEW R \in SUBSET entries, Drop(R), NEW r \in R,
           UNCHANGED <<phase, error, lease, identity, path, ino>>
    PROVE  RegistrationOK(r)'
<1>1. RegistrationOK(r) /\ TypeOK /\ EntriesOK /\ r \in Registrations
  BY DEF Inv, TypeOK
<1>2. /\ phase'[r] = "registered" /\ worker'[r] = "closed"
      /\ calling'[r] = None /\ child'[r] = None /\ r \in releasing' /\ r \notin entries'
  BY <1>1 DEF Drop, EntriesOK
<1>3. ~InUse(r)'
  BY <1>2 DEF InUse
<1>4. HoldsOK(r)'
  BY <1>2, <1>3 DEF HoldsOK
<1>5. LeaseOK(r)'
  BY <1>1, <1>3 DEF RegistrationOK, LeaseOK
<1>6. WorkOK(r)'
  BY <1>2, NamesAssumption, RegistryAssumption DEF WorkOK
<1> QED BY <1>4, <1>5, <1>6 DEF RegistrationOK

\* Dropping entries does not touch the other registrations.
LEMMA DropOthers ==
    ASSUME Inv, [Next]_vars, NEW R \in SUBSET entries, Drop(R),
           UNCHANGED <<phase, error, lease, identity, target, path, ino>>
    PROVE  \A q \in Registrations : RegistrationOK(q)'
<1> SUFFICES ASSUME NEW q \in Registrations PROVE RegistrationOK(q)'
  OBVIOUS
<1>1. CASE q \in R
  BY <1>1, DropOK
<1>2. CASE q \notin R
  <2>1. Same(q)
    BY <1>2 DEF Same, Drop
  <2>2. calling[q] \in Searches => result'[calling[q]] = result[calling[q]]
    <3>1. ASSUME calling[q] \in Searches, NEW r \in R, calling[r] = calling[q]
          PROVE  FALSE
      <4>1. r \in Registrations
        BY DEF Inv, TypeOK
      <4> QED BY <1>2, <3>1, <4>1, OtherSearch
    <3> QED BY <3>1 DEF Drop
  <2> QED BY <2>1, <2>2, SameOK
<1> QED BY <1>1, <1>2
\* Every step leaves every registration holding what its place in register(), or
\* its entry, says it holds.
LEMMA RegistrationNext ==
    ASSUME Inv, [Next]_vars
    PROVE  \A q \in Registrations : RegistrationOK(q)'
<1> SUFFICES ASSUME NEW q \in Registrations PROVE RegistrationOK(q)'
  OBVIOUS
<1>t. RegistrationOK(q) /\ TypeOK /\ DiskOK /\ EntriesOK
  BY DEF Inv
<1>n. /\ None \notin {"open", "validate"} /\ None \notin Searches
      /\ Searches \cap {"open", "validate"} = {}
  BY NamesAssumption, RegistryAssumption
\* A step of another registration's own.
<1>o. ASSUME NEW r \in Registrations, q # r, UNCHANGED <<target, result>>,
             \/ Register(r) \/ Realpath(r) \/ OpenLease(r) \/ Stat(r) \/ Validated(r)
             \/ LeaseClosed(r) \/ ChildUp(r) \/ WorkerFails(r) \/ IdleChildDies(r)
      PROVE  RegistrationOK(q)'
  <2>1. Same(q)
    <3>1. CASE Register(r)
      BY <1>o, <1>t, <3>1, RegisterEffect DEF Register, workers, Same, TypeOK
    <3>2. CASE Realpath(r) \/ OpenLease(r)
      BY <1>o, <1>t, <3>2
         DEF Realpath, OpenLease, Fail, Await, registry, workers, Same, TypeOK
    <3>3. CASE Stat(r) \/ Validated(r)
      BY <1>o, <1>t, <3>3
         DEF Stat, Validated, Publish, Fail, Await, registry, Same, TypeOK
    <3>4. CASE LeaseClosed(r)
      BY <1>o, <1>t, <3>4 DEF LeaseClosed, Await, workers, Same, TypeOK
    <3>5. CASE ChildUp(r) \/ WorkerFails(r) \/ IdleChildDies(r)
      BY <1>o, <1>t, <3>5
         DEF ChildUp, WorkerFails, IdleChildDies, Fail, Await, registry, register, Same,
             TypeOK
    <3> QED BY <1>o, <3>1, <3>2, <3>3, <3>4, <3>5
  <2> QED BY <1>o, <2>1, SameOK
<1>1. ASSUME Register(q) PROVE RegistrationOK(q)'
  <2>1. /\ phase[q] = "idle" /\ phase'[q] \in RegisterErrors \cup {"realpath"}
        /\ UNCHANGED <<entries, worker, lease, releasing, identity, calling, child, ino>>
    BY <1>1, <1>t, RegisterEffect DEF Register, workers, disk, TypeOK
  <2>2. ~InUse(q) /\ ~InUse(q)'
    BY <1>t, <2>1 DEF InUse, EntriesOK, RegisterErrors
  <2>3. HoldsOK(q)'
    BY <1>t, <2>1, <2>2 DEF RegistrationOK, HoldsOK, RegisterErrors
  <2>4. LeaseOK(q)'
    BY <1>t, <2>1, <2>2 DEF RegistrationOK, LeaseOK
  <2>5. WorkOK(q)'
    BY <1>t, <2>1, <2>2 DEF RegistrationOK, WorkOK, EntriesOK, RegisterErrors
  <2> QED BY <2>3, <2>4, <2>5 DEF RegistrationOK
<1>2. ASSUME Realpath(q) PROVE RegistrationOK(q)'
  <2>1. CASE Fail(q, "WORKSPACE_UNAVAILABLE")
    BY <1>2, <2>1, FailOK DEF Realpath, registry, disk, RegisterErrors, Awaiting
  <2>2. CASE Await(q, "lease") /\ UNCHANGED <<error, worker, releasing, workers>>
    <3>1. /\ phase[q] = "realpath" /\ phase'[q] = "lease"
          /\ UNCHANGED <<entries, worker, lease, releasing, identity, calling, child,
                         ino>>
      BY <1>2, <1>t, <2>2 DEF Realpath, Await, registry, workers, disk, TypeOK
    <3>2. ~InUse(q) /\ ~InUse(q)'
      BY <1>t, <3>1 DEF InUse, EntriesOK
    <3> QED BY <1>t, <3>1, <3>2
            DEF RegistrationOK, HoldsOK, LeaseOK, WorkOK, EntriesOK
  <2> QED BY <1>2, <2>1, <2>2 DEF Realpath
<1>3. ASSUME OpenLease(q) PROVE RegistrationOK(q)'
  <2>1. CASE Fail(q, "WORKSPACE_UNAVAILABLE") /\ UNCHANGED lease
    BY <1>3, <2>1, FailOK DEF OpenLease, registry, disk, RegisterErrors, Awaiting
  <2>2. CASE /\ lease' = [lease EXCEPT ![q] = path]
             /\ Await(q, "stat")
             /\ UNCHANGED <<error, worker, releasing, workers>>
    <3>1. /\ phase[q] = "lease" /\ phase'[q] = "stat" /\ lease'[q] = path
          /\ UNCHANGED <<entries, worker, releasing, identity, calling, child, ino>>
      BY <1>3, <1>t, <2>2 DEF OpenLease, Await, registry, workers, disk, TypeOK
    <3>2. ~InUse(q) /\ ~InUse(q)'
      BY <1>t, <3>1 DEF InUse, EntriesOK
    <3>3. path # None
      BY <1>t, RegistryAssumption DEF TypeOK
    <3> QED BY <1>t, <3>1, <3>2, <3>3
            DEF RegistrationOK, HoldsOK, LeaseOK, WorkOK, EntriesOK, DiskOK
  <2> QED BY <1>3, <2>1, <2>2 DEF OpenLease
<1>4. ASSUME Stat(q) PROVE RegistrationOK(q)'
  <2>1. ASSUME NEW code \in RegisterErrors, Fail(q, code), UNCHANGED identity
        PROVE  RegistrationOK(q)'
    BY <1>4, <2>1, FailOK DEF Stat, registry, disk, Awaiting
  <2>2. CASE /\ identity' = [identity EXCEPT ![q] = ino[lease[q]]]
             /\ worker' = [worker EXCEPT ![q] = "open"]
             /\ calling' = [calling EXCEPT ![q] = "open"]
             /\ Await(q, "open")
             /\ UNCHANGED <<error, releasing, child>>
    <3>1. /\ phase[q] = "stat" /\ phase'[q] = "open" /\ identity'[q] = ino[lease[q]]
          /\ worker'[q] = "open" /\ calling'[q] = "open"
          /\ UNCHANGED <<entries, lease, releasing, child, ino>>
      BY <1>4, <1>t, <2>2 DEF Stat, Await, registry, disk, TypeOK
    <3>2. ~InUse(q) /\ InUse(q)'
      BY <1>t, <3>1 DEF InUse, EntriesOK
    <3>3. HoldsOK(q)'
      BY <1>t, <3>1, <3>2 DEF RegistrationOK, HoldsOK
    <3>4. LeaseOK(q)'
      BY <1>t, <3>1, <3>2 DEF RegistrationOK, LeaseOK
    <3>5. WorkOK(q)'
      BY <1>t, <1>n, <3>1, <3>2 DEF RegistrationOK, WorkOK
    <3> QED BY <3>3, <3>4, <3>5 DEF RegistrationOK
  <2> QED BY <1>4, <2>1, <2>2 DEF Stat, RegisterErrors
<1>5. ASSUME Validated(q) PROVE RegistrationOK(q)'
  <2>1. phase[q] = "validate"
    BY <1>5, <1>t DEF Validated, RegistrationOK, WorkOK
  <2>2. ASSUME NEW code \in RegisterErrors, Fail(q, code), UNCHANGED entries
        PROVE  RegistrationOK(q)'
    BY <1>5, <2>1, <2>2, FailOK DEF Validated, disk, Awaiting
  <2>3. CASE /\ entries' = entries \cup {q}
             /\ Await(q, "registered")
             /\ calling' = [calling EXCEPT ![q] = None]
             /\ UNCHANGED <<error, worker, releasing, child>>
    <3>1. /\ phase'[q] = "registered" /\ q \in entries' /\ calling'[q] = None
          /\ UNCHANGED <<worker, lease, identity, releasing, child, ino>>
      BY <1>5, <1>t, <2>3 DEF Validated, Await, disk, TypeOK
    <3>2. InUse(q) /\ InUse(q)'
      BY <2>1, <3>1 DEF InUse
    <3>3. HoldsOK(q)'
      BY <1>t, <3>1, <3>2 DEF RegistrationOK, HoldsOK
    <3>4. LeaseOK(q)'
      BY <1>t, <3>1, <3>2 DEF RegistrationOK, LeaseOK
    <3>5. WorkOK(q)'
      BY <1>t, <1>n, <3>1, <3>2 DEF RegistrationOK, WorkOK
    <3> QED BY <3>3, <3>4, <3>5 DEF RegistrationOK
  <2> QED BY <1>5, <2>2, <2>3 DEF Validated, Publish, RegisterErrors
<1>6. ASSUME LeaseClosed(q) PROVE RegistrationOK(q)'
  <2>1. /\ q \in releasing /\ q \notin releasing' /\ lease'[q] = None
        /\ phase'[q] = phase[q] \/ phase'[q] \in RegisterErrors \cup {"CLOSE_FAILED"}
        /\ phase'[q] # "cleanup"
        /\ UNCHANGED <<entries, worker, identity, calling, child>>
    <3>1. phase[q] = "cleanup" => error[q] \in RegisterErrors
      BY <1>t DEF RegistrationOK, HoldsOK
    <3> QED BY <1>6, <1>t, <3>1
            DEF LeaseClosed, Await, workers, TypeOK, RegisterErrors
  <2>2. ~InUse(q) /\ phase[q] \notin {"idle", "realpath", "lease", "stat"}
    BY <1>t, <2>1 DEF RegistrationOK, HoldsOK
  <2>3. ~InUse(q)'
    BY <2>1, <2>2 DEF InUse, RegisterErrors
  <2>4. HoldsOK(q)'
    BY <1>t, <2>1, <2>2, <2>3 DEF RegistrationOK, HoldsOK, RegisterErrors
  <2>5. LeaseOK(q)'
    BY <2>1, <2>3 DEF LeaseOK
  <2>6. calling[q] = None /\ child[q] = None /\ q \notin entries
    BY <1>t, <2>2 DEF RegistrationOK, WorkOK, InUse, TypeOK
  <2>7. WorkOK(q)'
    BY <1>n, <2>1, <2>3, <2>6 DEF WorkOK, InUse
  <2> QED BY <2>4, <2>5, <2>7 DEF RegistrationOK
<1>7. ASSUME ChildUp(q) PROVE RegistrationOK(q)'
  <2>1. UNCHANGED <<entries, worker, lease, releasing, identity, target, result, ino>>
    BY <1>7 DEF ChildUp, registry, searches, disk
  <2>2. \/ calling[q] = "open" /\ calling'[q] = "validate" /\ phase'[q] = "validate"
        \/ calling[q] # "open" /\ UNCHANGED <<calling, phase>>
    BY <1>7, <1>t DEF ChildUp, Await, TypeOK
  <2>3. InUse(q)
    BY <1>7, <1>t DEF ChildUp, RegistrationOK, WorkOK, InUse, TypeOK
  <2>4. InUse(q)' /\ phase[q] \in {"open", "validate", "registered"}
    <3>1. calling[q] = "open" => phase[q] = "open"
      BY <1>t DEF RegistrationOK, WorkOK
    <3> QED BY <1>t, <2>1, <2>2, <2>3, <3>1 DEF InUse, EntriesOK
  <2>5. child'[q] = lease[q]
    <3>1. child'[q] = path /\ ino[path] = ino[lease[q]]
      BY <1>7, <1>t, <2>3 DEF ChildUp, RegistrationOK, LeaseOK, TypeOK
    <3>2. lease[q] \in Objects
      BY <1>t, <2>3 DEF RegistrationOK, HoldsOK, TypeOK
    <3> QED BY <1>t, <3>1, <3>2 DEF DiskOK, TypeOK
  <2>6. HoldsOK(q)'
    BY <1>t, <2>1, <2>2, <2>3, <2>4 DEF RegistrationOK, HoldsOK
  <2>7. LeaseOK(q)'
    BY <1>t, <2>1, <2>3, <2>4 DEF RegistrationOK, LeaseOK
  <2>8. WorkOK(q)'
    BY <1>t, <1>n, <2>1, <2>2, <2>4, <2>5 DEF RegistrationOK, WorkOK
  <2> QED BY <2>6, <2>7, <2>8 DEF RegistrationOK
<1>8. ASSUME NEW r \in Registrations, Answered(r) PROVE RegistrationOK(q)'
  <2>1. /\ calling[r] \in Searches /\ calling' = [calling EXCEPT ![r] = None]
        /\ result' = [result EXCEPT ![calling[r]] = "ok"]
        /\ UNCHANGED <<entries, phase, error, worker, lease, releasing, identity, child,
                       target, ino>>
    BY <1>8 DEF Answered, registry, register, disk
  <2>2. CASE q = r
    <3>1. InUse(q)' <=> InUse(q)
      BY <2>1 DEF InUse
    <3>2. HoldsOK(q)' /\ LeaseOK(q)'
      BY <1>t, <2>1, <3>1 DEF RegistrationOK, HoldsOK, LeaseOK
    <3>3. phase[q] \notin {"open", "validate"} /\ calling'[q] = None
      BY <1>t, <1>n, <2>1, <2>2 DEF RegistrationOK, WorkOK, TypeOK
    <3>4. WorkOK(q)'
      BY <1>t, <1>n, <2>1, <3>1, <3>3 DEF RegistrationOK, WorkOK
    <3> QED BY <3>2, <3>4 DEF RegistrationOK
  <2>3. CASE q # r
    <3>1. Same(q)
      BY <1>t, <2>1, <2>3 DEF Same, TypeOK
    <3>2. calling[q] \in Searches => result'[calling[q]] = result[calling[q]]
      BY <1>t, <2>1, <2>3, OtherSearch DEF TypeOK
    <3> QED BY <2>1, <3>1, <3>2, SameOK
  <2> QED BY <2>2, <2>3
<1>9. ASSUME NEW r \in Registrations, WorkerFails(r) PROVE RegistrationOK(q)'
  <2>1. CASE /\ calling[r] \in Searches
             /\ result' = [result EXCEPT ![calling[r]] = "WORKER_FAILED"]
             /\ calling' = [calling EXCEPT ![r] = None]
             /\ child' = [child EXCEPT ![r] = None]
             /\ UNCHANGED <<phase, error, worker, releasing>>
    <3>1. UNCHANGED <<entries, lease, identity, target, ino>>
      BY <1>9 DEF WorkerFails, registry, disk
    <3>2. CASE q = r
      <4>1. InUse(q)' <=> InUse(q)
        BY <2>1, <3>1 DEF InUse
      <4>2. HoldsOK(q)' /\ LeaseOK(q)'
        BY <1>t, <2>1, <3>1, <4>1 DEF RegistrationOK, HoldsOK, LeaseOK
      <4>3. phase[q] \notin {"open", "validate"} /\ calling'[q] = None /\ child'[q] = None
        BY <1>t, <1>n, <2>1, <3>2 DEF RegistrationOK, WorkOK, TypeOK
      <4>4. WorkOK(q)'
        BY <1>n, <2>1, <4>3 DEF WorkOK
      <4> QED BY <4>2, <4>4 DEF RegistrationOK
    <3>3. CASE q # r
      <4>1. Same(q)
        BY <1>t, <2>1, <3>1, <3>3 DEF Same, TypeOK
      <4>2. calling[q] \in Searches => result'[calling[q]] = result[calling[q]]
        BY <1>t, <2>1, <3>3, OtherSearch DEF TypeOK
      <4> QED BY <3>1, <4>1, <4>2, SameOK
    <3> QED BY <3>2, <3>3
  <2>2. CASE /\ calling[r] \in {"open", "validate"}
             /\ Fail(r, "WORKSPACE_UNAVAILABLE")
             /\ UNCHANGED result
    <3>1. CASE q = r
      <4>1. phase[q] \in {"open", "validate"}
        BY <1>t, <2>2, <3>1 DEF RegistrationOK, WorkOK
      <4> QED BY <1>9, <2>2, <3>1, <4>1, FailOK
              DEF WorkerFails, registry, disk, RegisterErrors, Awaiting
    <3>2. CASE q # r
      <4>1. UNCHANGED <<target, result>>
        BY <1>9, <2>2 DEF WorkerFails
      <4> QED BY <1>9, <1>o, <3>2, <4>1
    <3> QED BY <3>1, <3>2
  <2> QED BY <1>9, <2>1, <2>2 DEF WorkerFails
<1>10. ASSUME IdleChildDies(q) PROVE RegistrationOK(q)'
  <2>1. /\ child'[q] = None /\ calling[q] = None
        /\ UNCHANGED <<entries, phase, error, worker, lease, releasing, identity,
                       calling, ino>>
    BY <1>10, <1>t DEF IdleChildDies, registry, register, disk, TypeOK
  <2>2. InUse(q)' <=> InUse(q)
    BY <2>1 DEF InUse
  <2>3. HoldsOK(q)' /\ LeaseOK(q)'
    BY <1>t, <2>1, <2>2 DEF RegistrationOK, HoldsOK, LeaseOK
  <2>4. WorkOK(q)'
    BY <1>t, <1>n, <2>1 DEF RegistrationOK, WorkOK
  <2> QED BY <2>3, <2>4 DEF RegistrationOK
<1>11. ASSUME NEW r \in Registrations, Unregister(r) PROVE RegistrationOK(q)'
  BY <1>11, DropOthers DEF Unregister, disk
<1>12. ASSUME Close PROVE RegistrationOK(q)'
  BY <1>12, DropOthers DEF Close, disk
<1>13. ASSUME NEW s \in Searches, NEW r \in Registrations, Search(s, r)
       PROVE  RegistrationOK(q)'
  <2>1. /\ result[s] = "idle" /\ target' = [target EXCEPT ![s] = r]
        /\ UNCHANGED <<entries, phase, error, worker, lease, releasing, identity, child,
                       ino>>
    BY <1>13 DEF Search, registry, register, disk
  <2>2. calling[q] \in Searches => calling[q] # s
    BY <1>t, <2>1 DEF RegistrationOK, WorkOK
  <2>3. calling[q] \in Searches => /\ result'[calling[q]] = result[calling[q]]
                                   /\ target'[calling[q]] = target[calling[q]]
    BY <1>13, <1>t, <2>1, <2>2, SearchEffect DEF TypeOK
  <2>4. CASE calling'[q] = calling[q]
    <3>1. Same(q)
      BY <2>1, <2>4 DEF Same
    <3> QED BY <2>3, <3>1, SameOK
  <2>5. CASE calling'[q] # calling[q]
    <3>1. /\ q = r /\ calling'[q] = s /\ calling[q] = None /\ q \in entries
          /\ result'[s] = "waiting" /\ target'[s] = q
      BY <1>13, <1>t, <2>1, <2>5, SearchEffect DEF TypeOK
    <3>2. InUse(q)' <=> InUse(q)
      BY <2>1 DEF InUse
    <3>3. HoldsOK(q)' /\ LeaseOK(q)'
      BY <1>t, <2>1, <3>2 DEF RegistrationOK, HoldsOK, LeaseOK
    <3>4. WorkOK(q)'
      BY <1>t, <1>n, <2>1, <3>1, <3>2 DEF RegistrationOK, WorkOK
    <3> QED BY <3>3, <3>4 DEF RegistrationOK
  <2> QED BY <2>4, <2>5
<1>14. ASSUME \/ \E o \in Objects : ReplaceRoot(o) \/ RestoreRoot(o)
              \/ UNCHANGED vars
       PROVE  RegistrationOK(q)'
  <2>1. Same(q) /\ UNCHANGED <<target, result>>
    BY <1>14
       DEF ReplaceRoot, RestoreRoot, Same, vars, registry, register, workers, searches
  <2> QED BY <2>1, SameOK
<1>15. ASSUME NEW r \in Registrations,
              \/ Register(r) \/ Realpath(r) \/ OpenLease(r) \/ Stat(r) \/ Validated(r)
              \/ LeaseClosed(r) \/ ChildUp(r) \/ IdleChildDies(r)
       PROVE  RegistrationOK(q)'
  <2>1. UNCHANGED <<target, result>>
    BY <1>15 DEF Register, Realpath, OpenLease, Stat, Validated, LeaseClosed, ChildUp,
                 IdleChildDies, searches
  <2> QED BY <1>15, <2>1, <1>o, <1>1, <1>2, <1>3, <1>4, <1>5, <1>6, <1>7, <1>10
<1> QED BY <1>8, <1>9, <1>11, <1>12, <1>13, <1>14, <1>15
        DEF Next, RegisterStep, WorkerStep
-----------------------------------------------------------------------------
(* The invariant, and what follows from it.                                *)

\* An entry is only ever the mark of a registration that ended well, and a
\* closed registry gets no new one.
LEMMA EntriesNext == ASSUME Inv, [Next]_vars PROVE EntriesOK'
<1>t. TypeOK /\ EntriesOK
  BY DEF Inv
\* A registration that is awaiting something has no entry yet.
<1>a. ASSUME NEW r \in Registrations, NEW p, phase[r] # "registered",
             phase' = [phase EXCEPT ![r] = p], UNCHANGED <<closed, entries>>
      PROVE  EntriesOK'
  BY <1>a, <1>t DEF EntriesOK, TypeOK
<1>1. ASSUME NEW r \in Registrations, Register(r) PROVE EntriesOK'
  BY <1>1, <1>a, RegisterEffect DEF Register
<1>2. ASSUME NEW r \in Registrations, Realpath(r) \/ OpenLease(r) \/ Stat(r)
      PROVE  EntriesOK'
  BY <1>2, <1>a DEF Realpath, OpenLease, Stat, Fail, Await, registry
<1>3. ASSUME NEW r \in Registrations, Validated(r) PROVE EntriesOK'
  <2>1. phase[r] = "validate"
    BY <1>3 DEF Validated, Inv, RegistrationOK, WorkOK
  <2>2. ASSUME NEW code, Fail(r, code), UNCHANGED entries PROVE EntriesOK'
    BY <1>3, <1>a, <2>1, <2>2 DEF Validated, Fail
  <2>3. CASE /\ ~closed /\ entries' = entries \cup {r} /\ Await(r, "registered")
    BY <1>3, <1>t, <2>3 DEF Validated, Await, EntriesOK, TypeOK
  <2> QED BY <1>3, <2>2, <2>3 DEF Validated, Publish
<1>4. ASSUME NEW r \in Registrations, LeaseClosed(r) PROVE EntriesOK'
  <2>1. CASE phase[r] = "cleanup"
    BY <1>4, <1>a, <2>1 DEF LeaseClosed, Await
  <2>2. CASE phase[r] # "cleanup"
    BY <1>4, <1>t, <2>2 DEF LeaseClosed, EntriesOK
  <2> QED BY <2>1, <2>2
<1>5. ASSUME NEW r \in Registrations, ChildUp(r) PROVE EntriesOK'
  <2>1. CASE calling[r] = "open"
    BY <1>5, <1>a, <2>1 DEF ChildUp, Await, Inv, RegistrationOK, WorkOK, registry
  <2>2. CASE calling[r] # "open"
    BY <1>5, <1>t, <2>2 DEF ChildUp, EntriesOK, registry
  <2> QED BY <2>1, <2>2
<1>6. ASSUME NEW r \in Registrations, WorkerFails(r) PROVE EntriesOK'
  <2>1. CASE calling[r] \in {"open", "validate"} /\ Fail(r, "WORKSPACE_UNAVAILABLE")
    BY <1>6, <1>a, <2>1 DEF WorkerFails, Fail, Inv, RegistrationOK, WorkOK, registry
  <2>2. CASE UNCHANGED phase
    BY <1>6, <1>t, <2>2 DEF WorkerFails, EntriesOK, registry
  <2> QED BY <1>6, <2>1, <2>2 DEF WorkerFails
<1>7. ASSUME NEW r \in Registrations, Unregister(r) PROVE EntriesOK'
  BY <1>7, <1>t DEF Unregister, Drop, EntriesOK
<1>8. ASSUME Close PROVE EntriesOK'
  BY <1>8, <1>t DEF Close, Drop, EntriesOK
<1>9. ASSUME \/ \E r \in Registrations : Answered(r) \/ IdleChildDies(r)
             \/ \E s \in Searches, r \in Registrations : Search(s, r)
             \/ \E o \in Objects : ReplaceRoot(o) \/ RestoreRoot(o)
             \/ UNCHANGED vars
      PROVE  EntriesOK'
  <2>1. UNCHANGED <<closed, entries, phase>>
    BY <1>9 DEF Answered, IdleChildDies, Search, ReplaceRoot, RestoreRoot, vars,
                registry, register
  <2> QED BY <1>t, <2>1 DEF EntriesOK
<1> QED BY <1>1, <1>2, <1>3, <1>4, <1>5, <1>6, <1>7, <1>8, <1>9
        DEF Next, RegisterStep, WorkerStep

\* A registry that was just constructed holds nothing.
LEMMA InvInit == Init => Inv
<1> SUFFICES ASSUME Init PROVE Inv
  OBVIOUS
<1>1. TypeOK
  BY TypeInit
<1>2. InProgress = {}
  BY DEF Init, InProgress, Awaiting
<1>3. CapHolds
  <2>1. Cardinality({}) = 0
    BY FS_EmptySet
  <2> QED BY <1>2, <2>1, RegistryAssumption DEF Init, CapHolds
<1>4. DiskOK
  <2>1. PICK i \in Inodes : ino = [o \in Objects |-> IF o = path THEN i ELSE None]
    BY DEF Init
  <2>2. path \in Objects /\ i # None
    BY RegistryAssumption DEF Init
  <2> QED BY <2>1, <2>2 DEF DiskOK
<1>5. EntriesOK
  BY DEF Init, EntriesOK
<1>6. \A r \in Registrations : RegistrationOK(r)
  BY NamesAssumption, RegistryAssumption
     DEF Init, RegistrationOK, HoldsOK, LeaseOK, WorkOK, InUse
<1> QED BY <1>1, <1>3, <1>4, <1>5, <1>6 DEF Inv

\* The invariant holds in every reachable state.
LEMMA Invariant == Spec => []Inv
<1>1. Init => Inv
  BY InvInit
<1>2. Inv /\ [Next]_vars => Inv'
  BY TypeNext, DiskNext, EntriesNext, RegistrationNext DEF Inv
<1> QED BY <1>1, <1>2, PTL DEF Spec

\* Every variable of the registry keeps its type, whatever interleaves.
THEOREM TypeCorrect == Spec => []TypeOK
<1>1. Inv => TypeOK
  BY DEF Inv
<1> QED BY <1>1, Invariant, PTL

\* However many calls of register() overlap, fail or are overtaken by close(),
\* the entries and the calls in progress together stay within the cap, and the
\* counter is the number of calls in progress: no slot is lost or freed twice.
THEOREM CapIsKept == Spec => []CapHolds
<1>1. Inv => CapHolds
  BY DEF Inv
<1> QED BY <1>1, Invariant, PTL

\* Open workers, live children and leases nobody is releasing belong to entries
\* that are present or calls of register() that have not failed, and a closed
\* registry has no entries.
THEOREM NothingIsLeaked == Spec => []NothingLeaks
<1>1. Inv => NothingLeaks
  <2> SUFFICES ASSUME Inv PROVE NothingLeaks
    OBVIOUS
  <2>1. ASSUME NEW r \in Registrations
        PROVE  /\ worker[r] = "open" \/ (lease[r] # None /\ r \notin releasing)
                    => r \in entries \/ phase[r] \in Awaiting \ {"cleanup"}
               /\ child[r] # None => worker[r] = "open"
    BY DEF Inv, RegistrationOK, HoldsOK, WorkOK, InUse, Awaiting
  <2> QED BY <2>1 DEF Inv, EntriesOK, NothingLeaks
<1> QED BY <1>1, Invariant, PTL

\* A search is answered only while its registration is present in an open
\* registry, and from the directory that registration holds open.
THEOREM AnsweredFromLease == Spec => AnswersComeFromTheLease
<1> DEFINE Sound(s) == result'[s] = "ok" /\ result[s] # "ok" =>
                         /\ ~closed /\ target[s] \in entries
                         /\ source'[s] = lease[target[s]]
<1>1. ASSUME Inv, [Next]_vars, NEW s \in Searches PROVE Sound(s)
  <2>t. TypeOK /\ EntriesOK
    BY <1>1 DEF Inv
  <2>1. ASSUME NEW r \in Registrations, Answered(r) PROVE Sound(s)
    <3>1. /\ calling[r] \in Searches /\ child[r] # None
          /\ result' = [result EXCEPT ![calling[r]] = "ok"]
          /\ source' = [source EXCEPT ![calling[r]] = child[r]]
      BY <2>1 DEF Answered
    <3>2. r \in entries /\ target[calling[r]] = r /\ child[r] = lease[r]
      BY <1>1, <3>1 DEF Inv, RegistrationOK, WorkOK
    <3>3. CASE s = calling[r]
      BY <2>t, <3>1, <3>2, <3>3 DEF EntriesOK, TypeOK
    <3>4. CASE s # calling[r]
      BY <2>t, <3>1, <3>4 DEF TypeOK
    <3> QED BY <3>3, <3>4
  <2>2. ASSUME NEW r \in Registrations, WorkerFails(r) PROVE Sound(s)
    BY <2>2, <2>t DEF WorkerFails, TypeOK
  <2>3. ASSUME NEW z \in Searches, NEW r \in Registrations, Search(z, r) PROVE Sound(s)
    BY <2>3, <2>t, SearchEffect DEF TypeOK
  <2>4. ASSUME NEW R, Drop(R) PROVE Sound(s)
    BY <2>4, <2>t DEF Drop, TypeOK
  <2>5. ASSUME \/ \E r \in Registrations :
                      RegisterStep(r) \/ ChildUp(r) \/ IdleChildDies(r)
               \/ \E o \in Objects : ReplaceRoot(o) \/ RestoreRoot(o)
               \/ UNCHANGED vars
        PROVE  Sound(s)
    <3>1. UNCHANGED result
      BY <2>5 DEF RegisterStep, Register, Realpath, OpenLease, Stat, Validated,
                  LeaseClosed, ChildUp, IdleChildDies, ReplaceRoot, RestoreRoot, vars,
                  searches
    <3> QED BY <3>1
  <2> QED BY <1>1, <2>1, <2>2, <2>3, <2>4, <2>5 DEF Next, WorkerStep, Unregister, Close
<1>2. Inv /\ [Next]_vars => [\A s \in Searches : Sound(s)]_<<result, source>>
  BY <1>1
<1> QED BY <1>2, Invariant, PTL DEF Spec, AnswersComeFromTheLease
=============================================================================
