------------------------------ MODULE Registry ------------------------------
(***************************************************************************)
(* WorkspaceRegistry of src/src/workspace/registry.ts: register() with its *)
(* five awaits, search(), unregister() and close(), running against each   *)
(* other and against a root directory that is replaced on disk.            *)
(*                                                                         *)
(* A directory is an object; what the program compares is its inode        *)
(* number, which a new directory can get again once nobody holds the old   *)
(* one.  A worker is the serial server of SerialWorker: at most one call   *)
(* in flight, at most one live child (NeverTwoAlive in WorkerClientProofs),*)
(* every call settled; here only the directory its child holds matters.    *)
(***************************************************************************)
EXTENDS Naturals, FiniteSets

CONSTANTS
    Registrations,  \* calls of register(), naming the entry each may add
    Searches,       \* calls of search()
    Objects,        \* directories that may be at the root path, over time
    Inodes,         \* inode numbers (with their device)
    Cap,            \* 32: registrations present and in progress
    None

ASSUME RegistryAssumption ==
    /\ Cap \in Nat \ {0}
    /\ IsFiniteSet(Registrations)
    /\ Objects # {} /\ Inodes # {}
    /\ None \notin Registrations \cup Searches \cup Objects \cup Inodes

VARIABLES
    closed,       \* #closed
    entries,      \* #entries: the registrations present
    registering,  \* #registering
    phase,        \* per registration: where register() is, or how it ended
    error,        \* per registration: the error its cleanup will throw
    worker,       \* per registration: no NativeWorker, an open one, a closed one
    lease,        \* per registration: the directory rootLease holds open
    releasing,    \* registrations whose rootLease.close() is under way
    identity,     \* per registration: the inode number the worker must find
    calling,      \* per registration: the call its worker has in flight
    child,        \* per registration: the directory its live child holds
    target,       \* per search: the registration it is made for
    result,       \* per search: how it ended
    source,       \* history: the directory a search was answered from
    path,         \* the directory at the root path
    ino           \* per directory: its inode number, None when it is gone

registry == <<closed, entries, registering>>
register == <<phase, error, worker, lease, releasing, identity>>
workers == <<calling, child>>
searches == <<target, result, source>>
disk == <<path, ino>>
vars == <<registry, register, workers, searches, disk>>

-----------------------------------------------------------------------------
RegisterErrors == {"REGISTRY_CLOSED", "INVALID_REQUEST", "REGISTRY_FULL",
                   "WORKSPACE_UNAVAILABLE"}
Awaiting == {"realpath", "lease", "stat", "open", "validate", "cleanup"}
Phases == {"idle", "registered", "CLOSE_FAILED"} \cup Awaiting \cup RegisterErrors
Results == {"idle", "waiting", "ok", "REGISTRY_CLOSED", "INVALID_REQUEST",
            "OUT_OF_SCOPE", "WORKER_REFUSED", "WORKER_FAILED", "WORKER_CLOSED"}

\* Calls are told apart from what else a worker may be doing, and an absent value
\* from every error.
ASSUME NamesAssumption ==
    /\ None \notin RegisterErrors \cup Results \cup {"open", "validate"}
    /\ Searches \cap {"open", "validate"} = {}

InProgress == {r \in Registrations : phase[r] \in Awaiting}
Holders(o) == {r \in Registrations : lease[r] = o \/ child[r] = o}

Init ==
    /\ closed = FALSE /\ entries = {} /\ registering = 0
    /\ phase = [r \in Registrations |-> "idle"]
    /\ error = [r \in Registrations |-> None]
    /\ worker = [r \in Registrations |-> "none"]
    /\ lease = [r \in Registrations |-> None]
    /\ releasing = {}
    /\ identity = [r \in Registrations |-> None]
    /\ calling = [r \in Registrations |-> None]
    /\ child = [r \in Registrations |-> None]
    /\ target = [s \in Searches |-> None]
    /\ result = [s \in Searches |-> "idle"]
    /\ source = [s \in Searches |-> None]
    /\ path \in Objects
    /\ \E i \in Inodes : ino = [o \in Objects |-> IF o = path THEN i ELSE None]

-----------------------------------------------------------------------------
(* register().                                                             *)

RegisterRefusedUncounted(valid) ==
    IF closed THEN "REGISTRY_CLOSED"
    ELSE IF ~valid THEN "INVALID_REQUEST"
    ELSE IF Cardinality(entries) >= Cap THEN "REGISTRY_FULL"
    ELSE None
\* The checks made before the first await, on a valid or an invalid input.
RegisterRefused(valid) ==
    IF closed THEN "REGISTRY_CLOSED"
    ELSE IF ~valid THEN "INVALID_REQUEST"
    ELSE IF Cardinality(entries) + registering >= Cap THEN "REGISTRY_FULL"
    ELSE None

Register(r) ==
    /\ phase[r] = "idle"
    /\ \E valid \in BOOLEAN :
         LET code == RegisterRefused(valid) IN
           \/ /\ code # None
              /\ phase' = [phase EXCEPT ![r] = code]
              /\ UNCHANGED registering
           \/ /\ code = None
              /\ phase' = [phase EXCEPT ![r] = "realpath"]
              /\ registering' = registering + 1
    /\ UNCHANGED <<closed, entries, error, worker, lease, releasing, identity,
                   workers, searches, disk>>

\* The next await of register() is reached.
Await(r, p) == phase' = [phase EXCEPT ![r] = p]

\* The catch clause, up to the await of rootLease.close(): the worker, when
\* there is one, is closed, with its child and the call it has in flight.
FailAwaitsLease(r, code) ==
    /\ phase' = [phase EXCEPT ![r] = "cleanup"]
    /\ error' = [error EXCEPT ![r] = code]
    /\ worker' = [worker EXCEPT ![r] = IF @ = "none" THEN @ ELSE "closed"]
    /\ child' = [child EXCEPT ![r] = None]
    /\ calling' = [calling EXCEPT ![r] = None]
    /\ releasing' = IF lease[r] = None THEN releasing ELSE releasing \cup {r}
FailKeepsWorker(r, code) ==
    /\ phase' = [phase EXCEPT ![r] = "cleanup"]
    /\ error' = [error EXCEPT ![r] = code]
    /\ releasing' = releasing \cup {r}
    /\ UNCHANGED <<worker, workers>>
Fail(r, code) ==
    /\ phase' = [phase EXCEPT ![r] = "cleanup"]
    /\ error' = [error EXCEPT ![r] = code]
    /\ worker' = [worker EXCEPT ![r] = IF @ = "none" THEN @ ELSE "closed"]
    /\ child' = [child EXCEPT ![r] = None]
    /\ calling' = [calling EXCEPT ![r] = None]
    /\ releasing' = releasing \cup {r}

\* realpath() of the requested root, which may fail.
Realpath(r) ==
    /\ phase[r] = "realpath"
    /\ \/ Await(r, "lease") /\ UNCHANGED <<error, worker, releasing, workers>>
       \/ Fail(r, "WORKSPACE_UNAVAILABLE")
    /\ UNCHANGED <<registry, lease, identity, searches, disk>>

\* open() of whatever directory is at the path by now.
OpenLease(r) ==
    /\ phase[r] = "lease"
    /\ \/ /\ lease' = [lease EXCEPT ![r] = path]
          /\ Await(r, "stat")
          /\ UNCHANGED <<error, worker, releasing, workers>>
       \/ Fail(r, "WORKSPACE_UNAVAILABLE") /\ UNCHANGED lease
    /\ UNCHANGED <<registry, identity, searches, disk>>

\* stat() of the lease; the closed check; the worker, and its open().
Stat(r) ==
    /\ phase[r] = "stat"
    /\ \/ Fail(r, "WORKSPACE_UNAVAILABLE") /\ UNCHANGED identity
       \/ closed /\ Fail(r, "REGISTRY_CLOSED") /\ UNCHANGED identity
       \/ /\ ~closed
          /\ identity' = [identity EXCEPT ![r] = ino[lease[r]]]
          /\ worker' = [worker EXCEPT ![r] = "open"]
          /\ calling' = [calling EXCEPT ![r] = "open"]
          /\ Await(r, "open")
          /\ UNCHANGED <<error, releasing, child>>
    /\ UNCHANGED <<registry, lease, searches, disk>>

-----------------------------------------------------------------------------
(* The worker of a registration, and what register() and search() do when  *)
(* a call of theirs settles.                                               *)

ChildUpUnchecked(r) ==
    /\ calling[r] # None /\ child[r] = None
    /\ child' = [child EXCEPT ![r] = path]
    /\ IF calling[r] = "open"
         THEN /\ calling' = [calling EXCEPT ![r] = "validate"]
              /\ Await(r, "validate")
         ELSE UNCHANGED <<calling, phase>>
    /\ UNCHANGED <<registry, error, worker, lease, releasing, identity,
                   searches, disk>>
\* A child started for the call in flight opens the directory at the path and
\* reports its inode number; a worker finding another than it expects fails.
ChildUp(r) ==
    /\ calling[r] # None
    /\ child[r] = None
    /\ ino[path] = identity[r]
    /\ child' = [child EXCEPT ![r] = path]
    /\ IF calling[r] = "open"
         THEN /\ calling' = [calling EXCEPT ![r] = "validate"]
              /\ Await(r, "validate")
         ELSE UNCHANGED <<calling, phase>>
    /\ UNCHANGED <<registry, error, worker, lease, releasing, identity,
                   searches, disk>>

PublishUnchecked(r) ==
    /\ entries' = entries \cup {r}
    /\ registering' = registering - 1
    /\ Await(r, "registered")
    /\ calling' = [calling EXCEPT ![r] = None]
    /\ UNCHANGED <<error, worker, releasing, child>>
\* The scope was validated: the closed check, and the entry.
Publish(r) ==
    \/ closed /\ Fail(r, "REGISTRY_CLOSED") /\ UNCHANGED <<entries, registering>>
    \/ /\ ~closed
       /\ entries' = entries \cup {r}
       /\ registering' = registering - 1
       /\ Await(r, "registered")
       /\ calling' = [calling EXCEPT ![r] = None]
       /\ UNCHANGED <<error, worker, releasing, child>>

\* The answer to the validation: the scope is accepted or refused.
Validated(r) ==
    /\ calling[r] = "validate" /\ child[r] # None
    /\ \/ Publish(r)
       \/ Fail(r, "INVALID_REQUEST") /\ UNCHANGED <<entries, registering>>
    /\ UNCHANGED <<closed, lease, identity, searches, disk>>

\* The answer to a search, from the child's directory.
Answered(r) ==
    /\ calling[r] \in Searches /\ child[r] # None
    /\ result' = [result EXCEPT ![calling[r]] = "ok"]
    /\ source' = [source EXCEPT ![calling[r]] = child[r]]
    /\ calling' = [calling EXCEPT ![r] = None]
    /\ UNCHANGED <<registry, register, child, target, disk>>

\* A timer, a crash, a protocol error, a changed root or the caller's abort
\* ends the call in flight and the child with it.
WorkerFails(r) ==
    /\ calling[r] # None
    /\ \/ /\ calling[r] \in Searches
          /\ result' = [result EXCEPT ![calling[r]] = "WORKER_FAILED"]
          /\ calling' = [calling EXCEPT ![r] = None]
          /\ child' = [child EXCEPT ![r] = None]
          /\ UNCHANGED <<phase, error, worker, releasing>>
       \/ /\ calling[r] \in {"open", "validate"}
          /\ Fail(r, "WORKSPACE_UNAVAILABLE")
          /\ UNCHANGED result
    /\ UNCHANGED <<registry, lease, identity, target, source, disk>>

\* The child of an idle worker dies; the next search starts another.
IdleChildDies(r) ==
    /\ calling[r] = None /\ child[r] # None
    /\ child' = [child EXCEPT ![r] = None]
    /\ UNCHANGED <<registry, register, calling, searches, disk>>

\* rootLease.close() ends.  In the catch clause it is awaited, its own failure
\* is thrown instead of the error, and the slot is given back either way.
LeaseClosed(r) ==
    /\ r \in releasing
    /\ releasing' = releasing \ {r}
    /\ lease' = [lease EXCEPT ![r] = None]
    /\ IF phase[r] = "cleanup"
         THEN /\ registering' = registering - 1
              /\ \/ Await(r, error[r])
                 \/ lease[r] # None /\ Await(r, "CLOSE_FAILED")
         ELSE UNCHANGED <<phase, registering>>
    /\ UNCHANGED <<closed, entries, error, worker, identity, workers, searches, disk>>

-----------------------------------------------------------------------------
(* search(), unregister() and close().                                     *)

SearchRefused(s, r, valid) ==
    IF closed THEN "REGISTRY_CLOSED"
    ELSE IF ~valid THEN "INVALID_REQUEST"
    ELSE IF r \notin entries THEN "OUT_OF_SCOPE"
    ELSE IF calling[r] # None THEN "WORKER_REFUSED"
    ELSE None

\* A search with the IDs of registration r, right or wrong.  The worker may
\* refuse it too, while it restarts or when the caller has cancelled already.
Search(s, r) ==
    /\ result[s] = "idle"
    /\ phase[r] # "idle"
    /\ target' = [target EXCEPT ![s] = r]
    /\ \E valid \in BOOLEAN :
         LET code == SearchRefused(s, r, valid) IN
           \/ /\ code # None
              /\ result' = [result EXCEPT ![s] = code]
              /\ UNCHANGED calling
           \/ /\ code = None
              /\ result' = [result EXCEPT ![s] = "WORKER_REFUSED"]
              /\ UNCHANGED calling
           \/ /\ code = None
              /\ result' = [result EXCEPT ![s] = "waiting"]
              /\ calling' = [calling EXCEPT ![r] = s]
    /\ UNCHANGED <<registry, register, child, source, disk>>

DropKeepsWorkers(R) ==
    /\ releasing' = releasing \cup R
    /\ entries' = entries \ R
    /\ UNCHANGED <<worker, workers, result>>
DropForgetsCall(R) ==
    /\ worker' = [r \in Registrations |-> IF r \in R THEN "closed" ELSE worker[r]]
    /\ child' = [r \in Registrations |-> IF r \in R THEN None ELSE child[r]]
    /\ calling' = [r \in Registrations |-> IF r \in R THEN None ELSE calling[r]]
    /\ releasing' = releasing \cup R
    /\ entries' = entries \ R
    /\ UNCHANGED result
\* Entries are dropped: their workers are closed, which fails the search each
\* may have in flight, and their leases are let go.
Drop(R) ==
    /\ worker' = [r \in Registrations |-> IF r \in R THEN "closed" ELSE worker[r]]
    /\ child' = [r \in Registrations |-> IF r \in R THEN None ELSE child[r]]
    /\ calling' = [r \in Registrations |-> IF r \in R THEN None ELSE calling[r]]
    /\ result' = [s \in Searches |-> IF \E r \in R : calling[r] = s
                                     THEN "WORKER_CLOSED" ELSE result[s]]
    /\ releasing' = releasing \cup R
    /\ entries' = entries \ R

Unregister(r) ==
    /\ r \in entries
    /\ Drop({r})
    /\ UNCHANGED <<closed, registering, phase, error, lease, identity, target,
                   source, disk>>

Close ==
    /\ ~closed
    /\ closed' = TRUE
    /\ Drop(entries)
    /\ UNCHANGED <<registering, phase, error, lease, identity, target, source, disk>>

-----------------------------------------------------------------------------
(* The disk.  A directory that leaves the path is deleted unless somebody   *)
(* holds it; a new one gets any inode number no directory has.             *)

Kept(p) == Holders(p) # {} /\ ino[p] # None

ReplaceRoot(o) ==
    /\ ino[o] = None
    /\ \E i \in Inodes :
         /\ \A p \in Objects : Kept(p) => ino[p] # i
         /\ ino' = [p \in Objects |-> IF p = o THEN i
                                      ELSE IF Kept(p) THEN ino[p] ELSE None]
    /\ path' = o
    /\ UNCHANGED <<registry, register, workers, searches>>

\* A directory moved aside is moved back.
RestoreRoot(o) ==
    /\ o # path /\ Kept(o)
    /\ path' = o
    /\ ino' = [p \in Objects |-> IF Kept(p) THEN ino[p] ELSE None]
    /\ UNCHANGED <<registry, register, workers, searches>>

RegisterStep(r) == \/ Register(r) \/ Realpath(r) \/ OpenLease(r) \/ Stat(r)
                   \/ Validated(r) \/ LeaseClosed(r)
WorkerStep(r) == ChildUp(r) \/ Answered(r) \/ WorkerFails(r) \/ IdleChildDies(r)

Next == \/ \E r \in Registrations : RegisterStep(r) \/ WorkerStep(r) \/ Unregister(r)
        \/ \E s \in Searches, r \in Registrations : Search(s, r)
        \/ Close
        \/ \E o \in Objects : ReplaceRoot(o) \/ RestoreRoot(o)

Spec == Init /\ [][Next]_vars

\* File-system calls return, and a worker settles every call it accepts (that
\* is EveryCallSettles of WorkerClient).
Fairness == \A r \in Registrations :
                /\ WF_vars(Realpath(r)) /\ WF_vars(OpenLease(r)) /\ WF_vars(Stat(r))
                /\ WF_vars(LeaseClosed(r))
                /\ WF_vars(WorkerFails(r))

FairSpec == Spec /\ Fairness

-----------------------------------------------------------------------------
(* Properties.                                                             *)

\* Every variable has its type.
TypeOK ==
    /\ closed \in BOOLEAN /\ entries \in SUBSET Registrations
    /\ registering \in 0 .. Cap
    /\ phase \in [Registrations -> Phases]
    /\ error \in [Registrations -> RegisterErrors \cup {None}]
    /\ worker \in [Registrations -> {"none", "open", "closed"}]
    /\ lease \in [Registrations -> Objects \cup {None}]
    /\ releasing \in SUBSET Registrations
    /\ identity \in [Registrations -> Inodes \cup {None}]
    /\ calling \in [Registrations -> {None, "open", "validate"} \cup Searches]
    /\ child \in [Registrations -> Objects \cup {None}]
    /\ target \in [Searches -> Registrations \cup {None}]
    /\ result \in [Searches -> Results]
    /\ source \in [Searches -> Objects \cup {None}]
    /\ path \in Objects
    /\ ino \in [Objects -> Inodes \cup {None}]

\* Registrations present and in progress never exceed the cap, whatever fails or
\* is closed meanwhile, and every slot taken is given back exactly once.
CapHolds ==
    /\ Cardinality(entries) + registering <= Cap
    /\ registering = Cardinality(InProgress)

\* Only a registration that is present or in progress owns an open worker, a
\* live child or a lease nobody is releasing, and none is present once the registry is
\* closed.
NothingLeaks ==
    /\ \A r \in Registrations :
          /\ worker[r] = "open" \/ (lease[r] # None /\ r \notin releasing)
               => r \in entries \/ phase[r] \in Awaiting \ {"cleanup"}
          /\ child[r] # None => worker[r] = "open"
    /\ closed => entries = {}

\* A search is answered only while its registration is present, and from the
\* very directory that was at the root when it was registered: a revoked worker
\* is silent, and no other directory passes for the root.
AnswersComeFromTheLease ==
    [][\A s \in Searches : result'[s] = "ok" /\ result[s] # "ok" =>
         /\ ~closed /\ target[s] \in entries
         /\ source'[s] = lease[target[s]]]_<<result, source>>

\* Every call returns: a registration with its cleanup, a search though its
\* registration is revoked under it.
CallsEnd ==
    /\ \A r \in Registrations : phase[r] \in Awaiting ~> phase[r] \notin Awaiting
    /\ \A s \in Searches : result[s] = "waiting" ~> result[s] # "waiting"

\* Once the registry is closed everything is let go, what the registrations in
\* progress hold included.
ClosedReleasesAll ==
    closed ~> /\ registering = 0
              /\ \A r \in Registrations : lease[r] = None /\ worker[r] # "open"
=============================================================================
