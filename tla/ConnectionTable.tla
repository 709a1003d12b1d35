--------------------------- MODULE ConnectionTable ---------------------------
(***************************************************************************)
(* The accept loop of windows/main_win.c: main() accepts a client, creates *)
(* its struct fxmy_connection_t and its worker thread, and                 *)
(* fxmy_add_new_connection() keeps the pair in context_array, a growable   *)
(* array scanned on every accept for connections that are done.            *)
(*                                                                         *)
(* The main thread takes one step per loop iteration of the scan, so that  *)
(* every worker may finish, return or bring the process down between two   *)
(* slots.  A worker is reduced to what this file and the end of            *)
(* fxmy_worker() show of it: it runs, sets conn->done, returns.  Its       *)
(* protocol is module Session.  A thread handle is named by the connection *)
(* whose worker it stands for.                                             *)
(***************************************************************************)
EXTENDS Integers, FiniteSets

CONSTANTS
  Conns,              \* addresses the heap can give a struct fxmy_connection_t
  ALLOCATION_DELTA,   \* slots added by one growth of the array: 10 in the code
  MaxOrphans,         \* bound: how many CreateThread calls may have failed
  NULL

ASSUME ConnectionTableAssumption ==
  /\ ALLOCATION_DELTA \in Nat \ {0}
  /\ MaxOrphans \in Nat
  /\ NULL \notin Conns

VARIABLES
  process,        \* "up", or "down" once something has ended the process
  pc,             \* where the main thread is
  new,            \* the pair passed to fxmy_add_new_connection
  scan,           \* the index i of the scan loop
  context_array,
  num_active,     \* num_active_context_array_entries
  num_entries,    \* num_context_array_entries
  memory,         \* whether each connection structure is allocated
  done,           \* conn->done
  thread          \* the worker thread last created for the structure

table    == <<context_array, num_active, num_entries>>
workers  == <<memory, done, thread>>
vars     == <<process, pc, new, scan, table, workers>>

Slot      == [conn : Conns \cup {NULL}, thread_handle : Conns \cup {NULL}]
EmptySlot == [conn |-> NULL, thread_handle |-> NULL]
\* What realloc leaves in the part of the block that is new.
Uninitialized == [conn |-> "garbage", thread_handle |-> "garbage"]

Slots    == 0 .. num_entries - 1
Occupied == {j \in Slots : context_array[j].conn # NULL}

Init ==
  /\ process = "up"
  /\ pc = "accept"
  /\ new = EmptySlot
  /\ scan = 0
  /\ context_array = [j \in {} |-> EmptySlot]
  /\ num_active = 0
  /\ num_entries = 0
  /\ memory = [c \in Conns |-> "free"]
  /\ done = [c \in Conns |-> FALSE]
  /\ thread = [c \in Conns |-> "none"]

At(from, to) == process = "up" /\ pc = from /\ pc' = to

-----------------------------------------------------------------------------
(* main(): accept a client, create its structure and its thread.           *)

Accept(c) ==
  /\ At("accept", "create_thread")
  /\ memory[c] = "free"
  /\ memory' = [memory EXCEPT ![c] = "live"]
  /\ done' = [done EXCEPT ![c] = FALSE]
  /\ thread' = [thread EXCEPT ![c] = "none"]
  /\ new' = [conn |-> c, thread_handle |-> NULL]
  /\ UNCHANGED <<process, scan, table>>

Orphans == {c \in Conns : memory[c] = "live" /\ thread[c] = "none"}

\* CreateThread's result is not looked at: when it fails the connection is
\* registered all the same, with a NULL handle and nobody to serve it.
CreateThread ==
  /\ At("create_thread", "scan")
  /\ scan' = 0
  /\ \/ /\ thread' = [thread EXCEPT ![new.conn] = "running"]
        /\ new' = [new EXCEPT !.thread_handle = new.conn]
     \/ /\ Cardinality(Orphans) <= MaxOrphans
        /\ UNCHANGED <<thread, new>>
  /\ UNCHANGED <<process, table, memory, done>>

-----------------------------------------------------------------------------
(* fxmy_add_new_connection(): the scan for connections that are done.      *)

Scanned == context_array[scan]

IsDone_Untested(c) == TRUE      \* seeded fault: every connection is waited for
IsDone(c) == done[c]

\* The loop reads current_connection->done through a NULL pointer.
ScanNull ==
  /\ process = "up" /\ pc = "scan"
  /\ scan < num_active
  /\ Scanned.conn = NULL
  /\ process' = "down"
  /\ UNCHANGED <<pc, new, scan, table, workers>>

ScanBusy ==
  /\ At("scan", "scan")
  /\ scan < num_active
  /\ Scanned.conn # NULL
  /\ ~IsDone(Scanned.conn)
  /\ scan' = scan + 1
  /\ UNCHANGED <<process, new, table, workers>>

ScanDone ==
  /\ At("scan", "wait")
  /\ scan < num_active
  /\ Scanned.conn # NULL
  /\ IsDone(Scanned.conn)
  /\ UNCHANGED <<process, new, scan, table, workers>>

ScanEnd ==
  /\ At("scan", "grow")
  /\ scan >= num_active
  /\ UNCHANGED <<process, new, scan, table, workers>>

\* WaitForSingleObject(handle, INFINITE) returns when the thread has ended,
\* and at once with an error when there is no handle.
Signaled_NoWait(h) == TRUE      \* seeded fault: the wait is forgotten
Signaled(h) == h # NULL => thread[h] = "exited"

ReleaseSlot ==
  /\ At("wait", "scan")
  /\ Signaled(Scanned.thread_handle)
  /\ memory' = [memory EXCEPT ![Scanned.conn] = "free"]
  /\ context_array' = [context_array EXCEPT ![scan] = EmptySlot]
  /\ num_active' = num_active - 1
  /\ scan' = scan + 1
  /\ UNCHANGED <<process, new, num_entries, done, thread>>

-----------------------------------------------------------------------------
(* fxmy_add_new_connection(): growing the array and taking a slot.         *)

TableIsFull_OffByOne == num_active > num_entries   \* seeded fault
TableIsFull == num_active + 1 > num_entries

\* realloc keeps the old entries; memset clears ALLOCATION_DELTA entries
\* from index num_active on.
Cleared_FromOne == num_active + 1 .. num_active + ALLOCATION_DELTA \* seeded fault
Cleared_All == 0 .. num_active + ALLOCATION_DELTA - 1              \* seeded fault
Cleared == num_active .. num_active + ALLOCATION_DELTA - 1

Enlarged ==
  [j \in 0 .. num_entries + ALLOCATION_DELTA - 1 |->
     IF j \in Cleared THEN EmptySlot
     ELSE IF j \in Slots THEN context_array[j]
     ELSE Uninitialized]

Grow ==
  /\ At("grow", "insert")
  /\ \/ /\ TableIsFull
        /\ context_array' = Enlarged
        /\ num_entries' = num_entries + ALLOCATION_DELTA
     \/ /\ ~TableIsFull
        /\ UNCHANGED <<context_array, num_entries>>
  /\ UNCHANGED <<process, new, scan, num_active, workers>>

IsFree_Any(j) == TRUE           \* seeded fault: the slot is not looked at
IsFree(j) == context_array[j].conn = NULL
FirstFree(j) == j \in Slots /\ IsFree(j) /\ \A k \in Slots : IsFree(k) => j <= k

\* The two VERIFYs, that the slot found has no thread handle and that one is
\* found at all, are guards here: InsertFindsSlot says that they hold.
Insert(j) ==
  /\ At("insert", "accept")
  /\ FirstFree(j)
  /\ context_array[j].thread_handle = NULL
  /\ context_array' = [context_array EXCEPT ![j] = new]
  /\ num_active' = num_active + 1
  /\ new' = EmptySlot
  /\ UNCHANGED <<process, scan, num_entries, workers>>

-----------------------------------------------------------------------------
(* The worker threads, as far as the table can see them.                   *)

WorkerDispose(c) ==
  /\ process = "up"
  /\ thread[c] = "running"
  /\ done' = [done EXCEPT ![c] = TRUE]
  /\ thread' = [thread EXCEPT ![c] = "returning"]
  /\ UNCHANGED <<process, pc, new, scan, table, memory>>

WorkerReturn(c) ==
  /\ process = "up"
  /\ thread[c] = "returning"
  /\ thread' = [thread EXCEPT ![c] = "exited"]
  /\ UNCHANGED <<process, pc, new, scan, table, memory, done>>

\* A VERIFY that fails, an abort() or a __debugbreak() in a worker.
WorkerAborts(c) ==
  /\ process = "up"
  /\ thread[c] = "running"
  /\ process' = "down"
  /\ UNCHANGED <<pc, new, scan, table, workers>>

-----------------------------------------------------------------------------
\* Everything the main thread does without waiting for a client.
MainStep ==
  \/ CreateThread
  \/ ScanNull \/ ScanBusy \/ ScanDone \/ ScanEnd
  \/ ReleaseSlot
  \/ Grow
  \/ \E j \in Slots : Insert(j)

Next ==
  \/ \E c \in Conns : Accept(c)
  \/ MainStep
  \/ \E c \in Conns : WorkerDispose(c) \/ WorkerReturn(c) \/ WorkerAborts(c)

Spec == Init /\ [][Next]_vars

\* The scheduler runs the main thread whenever it can run, and lets a worker
\* that has set done return.  Nothing makes a client leave or arrive.
Fairness == WF_vars(MainStep) /\ \A c \in Conns : WF_vars(WorkerReturn(c))

FairSpec == Spec /\ Fairness
-----------------------------------------------------------------------------
(* Properties.                                                             *)

\* Every variable has its type; in particular no entry of context_array is
\* ever read as the uninitialized memory realloc returned.
TypeOK ==
  /\ process \in {"up", "down"}
  /\ pc \in {"accept", "create_thread", "scan", "wait", "grow", "insert"}
  /\ new \in Slot
  /\ scan \in Nat
  /\ num_entries \in Nat
  /\ num_active \in 0 .. num_entries
  /\ context_array \in [Slots -> Slot]
  /\ memory \in [Conns -> {"free", "live"}]
  /\ done \in [Conns -> BOOLEAN]
  /\ thread \in [Conns -> {"none", "running", "returning", "exited"}]

\* num_active_context_array_entries is the number of slots in use, through
\* every growth, release and insertion: the growth test and the memset of
\* the new entries are both computed from it.
CountExact == num_active = Cardinality(Occupied)

\* The search for a slot always finds one, and any slot it can find has no
\* thread handle: neither VERIFY of fxmy_add_new_connection aborts the server.
InsertFindsSlot ==
  pc = "insert" =>
    /\ \E j \in Slots : IsFree(j)
    /\ \A j \in Slots : IsFree(j) => context_array[j].thread_handle = NULL

\* A connection structure is allocated exactly while it is being registered
\* or sits in a slot, and it sits in one slot only: none is lost, none is
\* released twice.
Registered(c) == \E j \in Slots : context_array[j].conn = c

RegisteredOnce ==
  /\ \A c \in Conns :
       memory[c] = "live" <=> (new.conn = c \/ Registered(c))
  /\ \A c \in Conns : ~(new.conn = c /\ Registered(c))
  /\ \A j, k \in Occupied :
       context_array[j].conn = context_array[k].conn => j = k

\* A worker that has not exited never has its structure freed under it,
\* although the accept loop frees it as soon as it sees done.
WorkerOwnsMemory ==
  \A c \in Conns :
    thread[c] \in {"running", "returning"} => memory[c] = "live"

\* The table implements the life of a connection as ConnectionLifetime has
\* it: admitted, served, known, and released after its worker has finished.
Lifetime ==
  INSTANCE ConnectionLifetime WITH
    up    <- process = "up",
    phase <- [c \in Conns |->
                IF memory[c] = "free" THEN "absent"
                ELSE IF thread[c] = "exited" THEN "finished" ELSE "serving"],
    known <- {c \in Conns : Registered(c)}

ImplementsLifetime == Lifetime!Spec

\* Whatever the workers and the clients do, the main thread comes back to
\* accept(): it only ever waits for a thread that is about to end.
ReturnsToAccept == pc # "accept" ~> (pc = "accept" \/ process = "down")

\* "Scan the list of active connections and see if any are done": the scan
\* only looks at slots that hold a connection.
ScansActiveConnections ==
  process = "up" /\ pc = "scan" /\ scan < num_active => Scanned.conn # NULL

\* "If the connection is done, wait for the thread to exit and then release
\* its context slot": when scans keep happening, a connection that is done
\* does not stay in its slot for ever.
DoneIsReleased ==
  \A c \in Conns :
    []<>(pc = "grow") => (done[c] /\ memory[c] = "live" ~> memory[c] = "free")
=============================================================================
