------------------------------- MODULE NamedSem -------------------------------
(***************************************************************************)
(* Named semaphores: sem_open(), sem_close() and sem_unlink() of           *)
(* src/src/thread/semaphore.c, for one name.                               *)
(*                                                                         *)
(* A name is a record file that holds the name of a kernel object.  Each   *)
(* process keeps a table of the semaphores it has opened, under its fast   *)
(* lock; a mutant shared by all processes, the namespace lock, serializes  *)
(* the use of the record.  A process can die at any step: the namespace    *)
(* lock then passes on, and an object disappears with its last handle.     *)
(***************************************************************************)
EXTENDS Naturals, FiniteSets, FiniteSetsExt

CONSTANTS
  Threads, Procs, None,
  Owner,      \* the process of each thread
  Slots,      \* entries of named[], 1 .. NAMED_MAX
  MaxRefs,    \* bound on the references kept and being opened
  MaxObj,     \* bound on the objects created
  MaxCrash    \* bound on the deaths of processes

ASSUME NamedAssumption ==
  /\ Owner \in [Threads -> Procs] /\ None \notin Threads
  /\ IsFiniteSet(Threads) /\ IsFiniteSet(Slots)
  /\ MaxRefs \in Nat /\ MaxObj \in Nat /\ MaxCrash \in Nat

Missing == 0           \* no record
Blank == MaxObj + 1    \* a record that has not been filled in
Free == [obj |-> 0, refs |-> 0, linked |-> FALSE]

VARIABLES
  record,    \* the record file: Missing, Blank or an object
  named,     \* the table of each process
  ns,        \* the owner of the namespace lock, or None
  objects,   \* objects created so far (object_sequence)
  pc,        \* where each thread is
  op,        \* the call it is in
  handle,    \* the object it has opened and not yet entered in the table, or 0
  recover,   \* it has unlinked a dead record
  created,   \* it has created the record
  uses,      \* what it has got from sem_open() and not closed: entry and object
  crashes,   \* deaths so far
  current    \* history: the processes that opened what the name stands for now

local == <<op, handle, recover, created, uses>>
vars == <<record, named, ns, objects, pc, local, crashes, current>>

Init ==
  /\ record = Missing
  /\ named = [p \in Procs |-> [s \in Slots |-> Free]]
  /\ ns = None /\ objects = 0 /\ crashes = 0 /\ current = {}
  /\ pc = [t \in Threads |-> "idle"]
  /\ op = [t \in Threads |-> "none"]
  /\ handle = [t \in Threads |-> 0]
  /\ recover = [t \in Threads |-> FALSE]
  /\ created = [t \in Threads |-> FALSE]
  /\ uses = [t \in Threads |-> [s \in Slots |-> [n |-> 0, obj |-> 0]]]

Goto(t, l) == pc' = [pc EXCEPT ![t] = l]
Return(t) == Goto(t, "idle") /\ op' = [op EXCEPT ![t] = "none"]
Table(t) == named[Owner[t]]

\* find_path() and free_slot().
Linked(p) == {s \in Slots : named[p][s].obj # 0 /\ named[p][s].linked}
FreeSlots(p) == {s \in Slots : named[p][s].obj = 0}

\* The object exists: someone has a handle of it.
Exists(o) ==
  \/ \E p \in Procs, s \in Slots : named[p][s].obj = o
  \/ \E t \in Threads : handle[t] = o

\* The caller gets entry s, which refers to object o.
Got(t, s, o) == uses' = [uses EXCEPT ![t][s] = [n |-> @.n + 1, obj |-> o]]

-----------------------------------------------------------------------------
(* sem_open(). *)

Call(t, o) ==
  /\ pc[t] = "idle"
  /\ o # "unlink" =>
       MapThenSumSet(LAMBDA x : uses[x[1]][x[2]].n, Threads \X Slots)
         + Cardinality({u \in Threads : op[u] \in {"open", "creat", "excl"}}) < MaxRefs
  /\ op' = [op EXCEPT ![t] = o]
  /\ Goto(t, IF o = "unlink" THEN "ns" ELSE "cache")
  /\ UNCHANGED <<record, named, ns, objects, handle, recover, created, uses, crashes, current>>

\* An entry of the table: EEXIST, or one more reference.
Hit(t) ==
  \E s \in Linked(Owner[t]) :
    IF op[t] = "excl" THEN UNCHANGED <<named, uses>>
    ELSE /\ named' = [named EXCEPT ![Owner[t]][s].refs = @ + 1]
         /\ Got(t, s, Table(t)[s].obj)

\* The first look at the table, without the namespace lock ...
Look(t) ==
  /\ pc[t] = "cache"
  /\ \/ Hit(t) /\ Return(t)
     \/ Linked(Owner[t]) = {} /\ Goto(t, "ns") /\ UNCHANGED <<named, op, uses>>
  /\ UNCHANGED <<record, ns, objects, handle, recover, created, crashes, current>>

NamespaceLock(t) ==
  /\ pc[t] = "ns" /\ ns = None
  /\ ns' = t
  /\ Goto(t, IF op[t] = "unlink" THEN "unlink" ELSE "recheck")
  /\ UNCHANGED <<record, named, objects, local, crashes, current>>

\* Mutant: the table is not looked at again.
Recheck_Skipped(t) ==
  /\ pc[t] = "recheck"
  /\ Goto(t, "record")
  /\ UNCHANGED <<record, named, ns, objects, local, crashes, current>>

\* ... and the second, with it.
Recheck(t) ==
  /\ pc[t] = "recheck"
  /\ \/ Hit(t) /\ Goto(t, "unlock")
     \/ Linked(Owner[t]) = {} /\ Goto(t, "record") /\ UNCHANGED <<named, uses>>
  /\ UNCHANGED <<record, ns, objects, op, handle, recover, created, crashes, current>>

\* open(path, O_CREAT | O_EXCL) succeeds.
CreateRecord(t) ==
  /\ pc[t] = "record" /\ op[t] \in {"creat", "excl"} /\ record = Missing
  /\ objects < MaxObj
  /\ record' = Blank
  /\ created' = [created EXCEPT ![t] = TRUE]
  /\ Goto(t, "create")
  /\ UNCHANGED <<named, ns, objects, op, handle, recover, uses, crashes, current>>

CreateObject(t) ==
  /\ pc[t] = "create"
  /\ objects' = objects + 1
  /\ handle' = [handle EXCEPT ![t] = objects']
  /\ Goto(t, "write")
  /\ UNCHANGED <<record, named, ns, op, recover, created, uses, crashes, current>>

WriteRecord(t) ==
  /\ pc[t] = "write"
  /\ record' = handle[t]
  /\ Goto(t, "publish")
  /\ UNCHANGED <<named, ns, objects, local, crashes, current>>

\* The object cannot be created, or its name not be written; then its handle
\* is never closed, but no record names the object any more.
CreateFails(t) ==
  /\ pc[t] \in {"create", "write"}
  /\ record' = Missing
  /\ handle' = [handle EXCEPT ![t] = 0]
  /\ Goto(t, "unlock")
  /\ UNCHANGED <<named, ns, objects, op, recover, created, uses, crashes, current>>

\* ENOENT, EEXIST, or the record cannot be opened, read or unlinked.
OpenRecordFails(t) ==
  /\ pc[t] = "record"
  /\ Goto(t, "unlock")
  /\ UNCHANGED <<record, named, ns, objects, local, crashes, current>>

OpenObject(t) ==
  /\ pc[t] = "record" /\ op[t] \in {"open", "creat"}
  /\ record \notin {Missing, Blank} /\ Exists(record)
  /\ handle' = [handle EXCEPT ![t] = record]
  /\ Goto(t, "publish")
  /\ UNCHANGED <<record, named, ns, objects, op, recover, created, uses, crashes, current>>

\* Mutant: only a record that was not filled in is recovered.
DeadRecord_Blank(t) ==
  /\ pc[t] = "record" /\ op[t] \in {"open", "creat"}
  /\ record = Blank \/ (record # Missing /\ ~Exists(record))
  /\ IF op[t] = "creat" /\ ~recover[t] /\ record = Blank
     THEN record' = Missing /\ recover' = [recover EXCEPT ![t] = TRUE] /\ UNCHANGED pc
     ELSE Goto(t, "dead") /\ UNCHANGED <<record, recover>>
  /\ UNCHANGED <<named, ns, objects, op, handle, created, uses, crashes, current>>

\* The record is blank, or its object has disappeared.  O_CREAT unlinks it and
\* tries again, once.
DeadRecord(t) ==
  /\ pc[t] = "record" /\ op[t] \in {"open", "creat"}
  /\ record = Blank \/ (record # Missing /\ ~Exists(record))
  /\ IF op[t] = "creat" /\ ~recover[t]
     THEN record' = Missing /\ recover' = [recover EXCEPT ![t] = TRUE] /\ UNCHANGED pc
     ELSE Goto(t, "dead") /\ UNCHANGED <<record, recover>>
  /\ UNCHANGED <<named, ns, objects, op, handle, created, uses, crashes, current>>

\* The new entry, or EMFILE and the handle is closed.
Publish(t) ==
  /\ pc[t] = "publish"
  /\ IF FreeSlots(Owner[t]) = {}
     THEN Goto(t, "full") /\ UNCHANGED <<named, uses, current>>
     ELSE LET s == Min(FreeSlots(Owner[t])) IN
          /\ named' = [named EXCEPT ![Owner[t]][s] =
                         [obj |-> handle[t], refs |-> 1, linked |-> TRUE]]
          /\ Got(t, s, handle[t])
          /\ current' = current \cup {Owner[t]}
          /\ Goto(t, "unlock")
  /\ handle' = [handle EXCEPT ![t] = 0]
  /\ UNCHANGED <<record, ns, objects, op, recover, created, crashes>>

\* Mutant: EMFILE unlinks the record whoever has created it.
Withdraw_Always(t) ==
  /\ pc[t] = "full"
  /\ record' = Missing
  /\ Goto(t, "unlock")
  /\ UNCHANGED <<named, ns, objects, local, crashes, current>>

\* After EMFILE the record goes, if this call has created it.
Withdraw(t) ==
  /\ pc[t] = "full"
  /\ record' = IF created[t] THEN Missing ELSE record
  /\ Goto(t, "unlock")
  /\ UNCHANGED <<named, ns, objects, local, crashes, current>>

NamespaceUnlock(t) ==
  /\ pc[t] \in {"unlock", "dead"}
  /\ ns' = None
  /\ recover' = [recover EXCEPT ![t] = FALSE]
  /\ created' = [created EXCEPT ![t] = FALSE]
  /\ Return(t)
  /\ UNCHANGED <<record, named, objects, handle, uses, crashes, current>>

-----------------------------------------------------------------------------
(* sem_close(), sem_unlink() and the death of a process. *)

\* An entry without references goes when its name is gone.
Without(e) == IF e.refs = 0 /\ ~e.linked THEN Free ELSE e

Close(t, s) ==
  /\ pc[t] = "idle" /\ uses[t][s].n > 0
  /\ named' = [named EXCEPT ![Owner[t]][s] = Without([@ EXCEPT !.refs = @ - 1])]
  /\ uses' = [uses EXCEPT ![t][s] =
                IF @.n = 1 THEN [n |-> 0, obj |-> 0] ELSE [@ EXCEPT !.n = @ - 1]]
  /\ UNCHANGED <<record, ns, objects, pc, op, handle, recover, created, crashes, current>>

Unlink(t) ==
  /\ pc[t] = "unlink"
  /\ record' = Missing
  /\ current' = {}
  /\ Goto(t, IF record = Missing THEN "unlock" ELSE "forget")
  /\ UNCHANGED <<named, ns, objects, local, crashes>>

\* Mutant: the entry is freed although it is in use.
Forget_InUse(t) ==
  /\ pc[t] = "forget"
  /\ named' = [named EXCEPT ![Owner[t]] =
       [s \in Slots |-> IF s \in Linked(Owner[t]) THEN Free ELSE @[s]]]
  /\ Goto(t, "unlock")
  /\ UNCHANGED <<record, ns, objects, local, crashes, current>>

\* The entry of the calling process is no longer found under the name.
Forget(t) ==
  /\ pc[t] = "forget"
  /\ named' = [named EXCEPT ![Owner[t]] =
       [s \in Slots |-> IF s \in Linked(Owner[t])
                        THEN Without([@[s] EXCEPT !.linked = FALSE]) ELSE @[s]]]
  /\ Goto(t, "unlock")
  /\ UNCHANGED <<record, ns, objects, local, crashes, current>>

\* Process p dies; another one takes its place.
Crash(p) ==
  LET Dies(t) == Owner[t] = p IN
  /\ crashes < MaxCrash
  /\ crashes' = crashes + 1
  /\ named' = [named EXCEPT ![p] = [s \in Slots |-> Free]]
  /\ ns' = IF ns # None /\ Dies(ns) THEN None ELSE ns
  /\ pc' = [t \in Threads |-> IF Dies(t) THEN "idle" ELSE pc[t]]
  /\ op' = [t \in Threads |-> IF Dies(t) THEN "none" ELSE op[t]]
  /\ handle' = [t \in Threads |-> IF Dies(t) THEN 0 ELSE handle[t]]
  /\ recover' = [t \in Threads |-> ~Dies(t) /\ recover[t]]
  /\ created' = [t \in Threads |-> ~Dies(t) /\ created[t]]
  /\ uses' = [t \in Threads |-> IF Dies(t) THEN [s \in Slots |-> [n |-> 0, obj |-> 0]]
                                           ELSE uses[t]]
  /\ current' = current \ {p}
  /\ UNCHANGED <<record, objects>>

-----------------------------------------------------------------------------

Step(t) ==
  Look(t) \/ Recheck(t) \/ CreateRecord(t) \/ CreateObject(t) \/ WriteRecord(t)
    \/ CreateFails(t) \/ OpenRecordFails(t) \/ OpenObject(t) \/ DeadRecord(t) \/ Publish(t)
    \/ Withdraw(t) \/ NamespaceUnlock(t) \/ Unlink(t) \/ Forget(t)

Next ==
  \/ \E t \in Threads :
       \/ Step(t) \/ NamespaceLock(t)
       \/ \E o \in {"open", "creat", "excl", "unlink"} : Call(t, o)
       \/ \E s \in Slots : Close(t, s)
  \/ \E p \in Procs : Crash(p)

Spec == Init /\ [][Next]_vars

-----------------------------------------------------------------------------
(* Properties. *)

\* A process has the semaphore of a name in its table once, so that all who
\* open the name get one address, also when two of its threads open it
\* together.
OneEntry == \A p \in Procs : Cardinality(Linked(p)) <= 1

\* Entries count their users, and what a thread has opened and not closed
\* stays the object it was, whatever other threads open, close and unlink.
EntryKept ==
  \A p \in Procs, s \in Slots :
    LET mine == {t \in Threads : Owner[t] = p /\ uses[t][s].n > 0} IN
    /\ named[p][s].refs = MapThenSumSet(LAMBDA t : uses[t][s].n, mine)
    /\ \A t \in mine : named[p][s].obj = uses[t][s].obj

\* As long as nobody has called sem_unlink(), every process that has opened
\* the name has the object that the record names: neither a failing
\* sem_open() nor the recovery from a dead creator parts them.
SameSemaphore ==
  \A p \in current : record \notin {Missing, Blank}
                       /\ \E s \in Linked(p) : named[p][s].obj = record

\* sem_open() with O_CREAT always recovers from what a dead process has left.
Recovers == \A t \in Threads : pc[t] = "dead" => op[t] = "open"
=============================================================================
