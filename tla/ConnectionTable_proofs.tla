----------------------- MODULE ConnectionTable_proofs -----------------------
(***************************************************************************)
(* Proofs about ConnectionTable, for every set of connections and every    *)
(* growth increment.  One inductive invariant, IInv, carries the safety    *)
(* invariants and the refinement of ConnectionLifetime.                    *)
(***************************************************************************)
EXTENDS ConnectionTable, FiniteSetTheorems, TLAPS

\* What is known of a pair (conn, thread_handle), in a slot or in new: the
\* handle is that of the connection's own worker, and it is missing only if
\* that worker was never created.
PairOK(p) ==
  /\ p.conn = NULL => p.thread_handle = NULL
  /\ p.thread_handle # NULL => p.thread_handle = p.conn
  /\ p.conn # NULL /\ p.thread_handle = NULL => thread[p.conn] = "none"

PairsOK == PairOK(new) /\ \A j \in Slots : PairOK(context_array[j])

\* The value of new at each place of the main thread.
NewOK ==
  /\ pc = "accept" <=> new.conn = NULL
  /\ pc = "create_thread" => thread[new.conn] = "none"

\* conn->done is set exactly by the workers that are on their way out.
DoneOK == \A c \in Conns : done[c] <=> thread[c] \in {"returning", "exited"}

\* The slot being waited for holds a connection that is done.
WaitOK ==
  pc = "wait" =>
    /\ scan \in Slots
    /\ Scanned.conn # NULL
    /\ done[Scanned.conn]

\* The growth test leaves at least one slot unused.
RoomOK == pc = "insert" => num_active < num_entries

IInv ==
  /\ TypeOK
  /\ CountExact
  /\ RegisteredOnce
  /\ WorkerOwnsMemory
  /\ PairsOK
  /\ NewOK
  /\ DoneOK
  /\ WaitOK
  /\ RoomOK

-----------------------------------------------------------------------------
\* The slots are finitely many, and so are those in use.
LEMMA SlotsFinite ==
  ASSUME num_entries \in Nat
  PROVE  /\ IsFiniteSet(Slots)
         /\ Cardinality(Slots) = num_entries
         /\ IsFiniteSet(Occupied)
<1>1. IsFiniteSet(Slots) /\ Cardinality(Slots) = num_entries
  BY FS_Interval DEF Slots
<1>2. Occupied \in SUBSET Slots
  BY DEF Occupied
<1>3. QED
  BY <1>1, <1>2, FS_Subset

\* While fewer slots are counted than there are, one of them is free.
LEMMA FreeSlotExists ==
  ASSUME num_entries \in Nat, CountExact, num_active < num_entries
  PROVE  \E j \in Slots : IsFree(j)
<1>1. SUFFICES ASSUME \A j \in Slots : ~IsFree(j) PROVE FALSE
  OBVIOUS
<1>2. Occupied = Slots
  BY <1>1 DEF Occupied, IsFree
<1>3. QED
  BY <1>2, SlotsFinite DEF CountExact

\* When as many slots are counted as there are, all of them are in use.
LEMMA FullTable ==
  ASSUME num_entries \in Nat, CountExact, num_active = num_entries
  PROVE  Occupied = Slots
<1>1. Occupied \in SUBSET Slots
  BY DEF Occupied
<1>2. QED
  BY <1>1, SlotsFinite, FS_Subset DEF CountExact

LEMMA InvInit == Init => IInv
<1> SUFFICES ASSUME Init PROVE IInv
  OBVIOUS
<1> USE DEF Init, EmptySlot
<1>1. Slots = {} /\ Occupied = {}
  BY DEF Slots, Occupied
<1>2. TypeOK
  BY <1>1 DEF TypeOK, Slot
<1>3. CountExact
  BY <1>1, FS_EmptySet DEF CountExact
<1>4. RegisteredOnce
  BY <1>1, ConnectionTableAssumption DEF RegisteredOnce, Registered
<1>5. WorkerOwnsMemory
  BY DEF WorkerOwnsMemory
<1>6. PairsOK
  BY <1>1 DEF PairsOK, PairOK
<1>7. NewOK /\ DoneOK /\ WaitOK /\ RoomOK
  BY DEF NewOK, DoneOK, WaitOK, RoomOK
<1>8. QED
  BY <1>2, <1>3, <1>4, <1>5, <1>6, <1>7 DEF IInv

-----------------------------------------------------------------------------
(* The steps of the main thread.                                           *)

LEMMA AcceptInv ==
  ASSUME IInv, NEW c \in Conns, Accept(c)
  PROVE  IInv'
<1> USE ConnectionTableAssumption DEF IInv, Accept, At, table
<1>1. Slots' = Slots /\ Occupied' = Occupied /\ new.conn = NULL
  BY DEF NewOK, Slots, Occupied
<1>2. ~Registered(c)
  BY DEF RegisteredOnce
<1>3. \A d \in Conns : Registered(d)' <=> Registered(d)
  BY <1>1 DEF Registered
<1>4. TypeOK'
  BY <1>1 DEF TypeOK, Slot
<1>5. CountExact'
  BY <1>1 DEF CountExact
<1>6. RegisteredOnce'
  <2>1. \A d \in Conns : (memory[d] = "live" <=> (new.conn = d \/ Registered(d)))'
    BY <1>1, <1>3 DEF RegisteredOnce, TypeOK
  <2>2. \A d \in Conns : (~(new.conn = d /\ Registered(d)))'
    BY <1>1, <1>2, <1>3
  <2>3. QED
    BY <1>1, <2>1, <2>2 DEF RegisteredOnce
<1>7. WorkerOwnsMemory'
  BY DEF WorkerOwnsMemory, TypeOK
<1>8. PairsOK'
  <2>1. PairOK(new)'
    BY DEF PairOK, TypeOK
  <2>2. \A j \in Slots : PairOK(context_array[j])'
    BY <1>1, <1>2 DEF PairsOK, PairOK, Registered, TypeOK, Slot
  <2>3. QED
    BY <1>1, <2>1, <2>2 DEF PairsOK
<1>9. NewOK' /\ DoneOK' /\ WaitOK' /\ RoomOK'
  BY DEF NewOK, DoneOK, WaitOK, RoomOK, TypeOK
<1>10. QED
  BY <1>4, <1>5, <1>6, <1>7, <1>8, <1>9

LEMMA CreateThreadInv ==
  ASSUME IInv, CreateThread
  PROVE  IInv'
<1> USE ConnectionTableAssumption DEF IInv, CreateThread, At, table
<1>1. Slots' = Slots /\ Occupied' = Occupied /\ new'.conn = new.conn
  BY DEF Slots, Occupied, TypeOK, Slot
<1>2. new.conn \in Conns /\ memory[new.conn] = "live" /\ ~Registered(new.conn)
  BY DEF NewOK, TypeOK, Slot, RegisteredOnce
<1>3. \A d \in Conns : Registered(d)' <=> Registered(d)
  BY <1>1 DEF Registered
<1>4. TypeOK'
  BY <1>1, <1>2 DEF TypeOK, Slot
<1>5. CountExact'
  BY <1>1 DEF CountExact
<1>6. RegisteredOnce'
  BY <1>1, <1>3 DEF RegisteredOnce
<1>7. WorkerOwnsMemory'
  BY <1>2 DEF WorkerOwnsMemory, TypeOK
<1>8. PairsOK'
  <2>1. PairOK(new)'
    BY <1>2 DEF PairsOK, PairOK, TypeOK, Slot
  <2>2. \A j \in Slots : PairOK(context_array[j])'
    BY <1>1, <1>2 DEF PairsOK, PairOK, Registered, TypeOK, Slot
  <2>3. QED
    BY <1>1, <2>1, <2>2 DEF PairsOK
<1>9. NewOK' /\ WaitOK' /\ RoomOK'
  BY <1>1, <1>2 DEF NewOK, WaitOK, RoomOK
<1>10. DoneOK'
  BY <1>2 DEF DoneOK, NewOK, TypeOK
<1>11. QED
  BY <1>4, <1>5, <1>6, <1>7, <1>8, <1>9, <1>10

\* The steps of the scan that only move the main thread.
LEMMA ScanInv ==
  ASSUME IInv, ScanBusy \/ ScanDone \/ ScanEnd
  PROVE  IInv'
<1> USE DEF IInv, ScanBusy, ScanDone, ScanEnd, At, table, workers
<1>1. Slots' = Slots /\ Occupied' = Occupied
  BY DEF Slots, Occupied
<1>2. \A d \in Conns : Registered(d)' <=> Registered(d)
  BY <1>1 DEF Registered
<1>3. TypeOK'
  BY <1>1 DEF TypeOK, Slot
<1>4. CountExact' /\ RegisteredOnce' /\ WorkerOwnsMemory' /\ DoneOK'
  BY <1>1, <1>2 DEF CountExact, RegisteredOnce, WorkerOwnsMemory, DoneOK
<1>5. PairsOK'
  BY <1>1 DEF PairsOK, PairOK
<1>6. NewOK' /\ RoomOK'
  BY DEF NewOK, RoomOK, TypeOK
<1>7. WaitOK'
  BY <1>1 DEF WaitOK, TypeOK, Slots, Scanned, IsDone
<1>8. QED
  BY <1>3, <1>4, <1>5, <1>6, <1>7

LEMMA ReleaseSlotInv ==
  ASSUME IInv, ReleaseSlot
  PROVE  IInv'
<1> DEFINE old == Scanned.conn
<1> USE ConnectionTableAssumption DEF IInv, ReleaseSlot, At
<1>1. /\ Slots' = Slots
      /\ scan \in Slots
      /\ old \in Conns /\ old # NULL /\ done[old]
      /\ num_entries \in Nat
  BY DEF Slots, WaitOK, TypeOK, Slot, Scanned
<1>2. thread[old] = "exited"
  BY <1>1 DEF Signaled, PairsOK, PairOK, DoneOK, Scanned
<1>3. \A j \in Slots :
        context_array'[j] = IF j = scan THEN EmptySlot ELSE context_array[j]
  BY <1>1 DEF TypeOK
<1>4. Occupied' = Occupied \ {scan} /\ scan \in Occupied
  BY <1>1, <1>3 DEF Occupied, EmptySlot, Scanned
<1>5. CountExact'
  BY <1>1, <1>4, SlotsFinite, FS_RemoveElement DEF CountExact
<1>6. num_active > 0
  BY <1>1, <1>4, SlotsFinite, FS_EmptySet, FS_CardinalityType DEF CountExact
<1>7. TypeOK'
  BY <1>1, <1>3, <1>6 DEF TypeOK, Slot, EmptySlot
<1>8. \A d \in Conns : Registered(d)' <=> Registered(d) /\ d # old
  BY <1>1, <1>3, <1>4 DEF Registered, RegisteredOnce, EmptySlot, Scanned, Occupied
<1>9. RegisteredOnce'
  <2>1. new.conn # old /\ Registered(old)
    BY <1>1 DEF Registered, RegisteredOnce, Scanned
  <2>2. \A d \in Conns : (memory[d] = "live" <=> (new.conn = d \/ Registered(d)))'
    BY <1>1, <1>8, <2>1 DEF RegisteredOnce, TypeOK
  <2>3. \A d \in Conns : (~(new.conn = d /\ Registered(d)))'
    BY <1>8 DEF RegisteredOnce
  <2>4. \A j, k \in Occupied' :
          context_array'[j].conn = context_array'[k].conn => j = k
    BY <1>3, <1>4 DEF RegisteredOnce, Occupied
  <2>5. QED
    BY <2>2, <2>3, <2>4 DEF RegisteredOnce
<1>10. WorkerOwnsMemory'
  BY <1>1, <1>2 DEF WorkerOwnsMemory, TypeOK
<1>11. PairsOK'
  <2>1. PairOK(new)'
    BY DEF PairsOK, PairOK
  <2>2. \A j \in Slots : PairOK(context_array[j])'
    BY <1>1, <1>3 DEF PairsOK, PairOK, EmptySlot
  <2>3. QED
    BY <1>1, <2>1, <2>2 DEF PairsOK
<1>12. NewOK' /\ DoneOK' /\ WaitOK' /\ RoomOK'
  BY DEF NewOK, DoneOK, WaitOK, RoomOK
<1>13. QED
  BY <1>5, <1>7, <1>9, <1>10, <1>11, <1>12

\* When the array grows every old slot is in use, so the memset clears the
\* new part of the array and nothing else.
LEMMA GrowInv ==
  ASSUME IInv, Grow
  PROVE  IInv'
<1> USE ConnectionTableAssumption DEF IInv, Grow, At, workers
<1>1. num_entries \in Nat /\ num_active \in Nat /\ num_active <= num_entries
  BY DEF TypeOK
<1>2. NewOK' /\ DoneOK' /\ WaitOK' /\ WorkerOwnsMemory'
  BY DEF NewOK, DoneOK, WaitOK, WorkerOwnsMemory
<1>3. CASE ~TableIsFull
  <2>1. UNCHANGED <<context_array, num_entries>>
    BY <1>3
  <2>2. Slots' = Slots /\ Occupied' = Occupied
    BY <2>1 DEF Slots, Occupied
  <2>3. \A d \in Conns : Registered(d)' <=> Registered(d)
    BY <2>1, <2>2 DEF Registered
  <2>4. TypeOK' /\ CountExact' /\ RegisteredOnce' /\ PairsOK'
    BY <2>1, <2>2, <2>3
       DEF TypeOK, CountExact, RegisteredOnce, PairsOK, PairOK, Slot
  <2>5. RoomOK'
    BY <1>1, <1>3, <2>1 DEF RoomOK, TableIsFull
  <2>6. QED
    BY <1>2, <2>4, <2>5
<1>4. CASE TableIsFull
  <2>1. num_active = num_entries /\ Occupied = Slots
    BY <1>1, <1>4, FullTable DEF TableIsFull
  <2>2. /\ num_entries' = num_entries + ALLOCATION_DELTA
        /\ context_array' = Enlarged
    BY <1>4
  <2>3. /\ Slots' = 0 .. num_entries + ALLOCATION_DELTA - 1
        /\ Slots \subseteq Slots'
        /\ \A j \in Slots' : j \in Cleared <=> j \notin Slots
    BY <1>1, <2>1, <2>2 DEF Slots, Cleared
  <2>4. context_array' = [j \in Slots' |->
                            IF j \in Slots THEN context_array[j] ELSE EmptySlot]
    BY <2>2, <2>3 DEF Enlarged
  <2>5. Occupied' = Occupied
    BY <2>1, <2>3, <2>4 DEF Occupied, EmptySlot
  <2>6. \A d \in Conns : Registered(d)' <=> Registered(d)
    BY <2>3, <2>4 DEF Registered, EmptySlot
  <2>7. TypeOK'
    BY <1>1, <2>1, <2>2, <2>3, <2>4 DEF TypeOK, Slot, EmptySlot
  <2>8. CountExact'
    BY <2>5 DEF CountExact
  <2>9. RegisteredOnce'
    BY <2>1, <2>4, <2>3, <2>5, <2>6 DEF RegisteredOnce
  <2>10. PairsOK'
    BY <2>3, <2>4 DEF PairsOK, PairOK, EmptySlot
  <2>11. RoomOK'
    BY <1>1, <2>1, <2>2 DEF RoomOK
  <2>12. QED
    BY <1>2, <2>7, <2>8, <2>9, <2>10, <2>11
<1>5. QED
  BY <1>3, <1>4

LEMMA InsertInv ==
  ASSUME IInv, NEW j \in Slots, Insert(j)
  PROVE  IInv'
<1> USE ConnectionTableAssumption DEF IInv, Insert, At, workers
<1>1. /\ Slots' = Slots
      /\ context_array[j].conn = NULL
      /\ new.conn \in Conns /\ new.conn # NULL
      /\ num_entries \in Nat /\ num_active \in Nat
  BY DEF Slots, FirstFree, IsFree, NewOK, TypeOK, Slot
<1>2. \A k \in Slots :
        context_array'[k] = IF k = j THEN new ELSE context_array[k]
  BY DEF TypeOK
<1>3. Occupied' = Occupied \cup {j} /\ j \notin Occupied
  BY <1>1, <1>2 DEF Occupied
<1>4. CountExact'
  BY <1>1, <1>3, SlotsFinite, FS_AddElement DEF CountExact
<1>5. TypeOK'
  BY <1>1, <1>2 DEF TypeOK, Slot, EmptySlot, RoomOK
<1>6. \A d \in Conns : Registered(d)' <=> Registered(d) \/ d = new.conn
  BY <1>1, <1>2 DEF Registered
<1>7. RegisteredOnce'
  <2>1. \A d \in Conns : (memory[d] = "live" <=> (new.conn = d \/ Registered(d)))'
    BY <1>1, <1>6 DEF RegisteredOnce, EmptySlot
  <2>2. \A d \in Conns : (~(new.conn = d /\ Registered(d)))'
    BY DEF EmptySlot
  <2>3. \A k \in Occupied : context_array[k].conn # new.conn
    BY <1>1 DEF RegisteredOnce, Registered, Occupied
  <2>4. \A k, l \in Occupied' :
          context_array'[k].conn = context_array'[l].conn => k = l
    BY <1>2, <1>3, <2>3 DEF RegisteredOnce, Occupied
  <2>5. QED
    BY <2>1, <2>2, <2>4 DEF RegisteredOnce
<1>8. PairsOK'
  <2>1. PairOK(new)'
    BY DEF PairOK, EmptySlot
  <2>2. \A k \in Slots : PairOK(context_array[k])'
    BY <1>1, <1>2 DEF PairsOK, PairOK
  <2>3. QED
    BY <1>1, <2>1, <2>2 DEF PairsOK
<1>9. WorkerOwnsMemory' /\ NewOK' /\ DoneOK' /\ WaitOK' /\ RoomOK'
  BY DEF WorkerOwnsMemory, NewOK, DoneOK, WaitOK, RoomOK, EmptySlot
<1>10. QED
  BY <1>4, <1>5, <1>7, <1>8, <1>9

\* A step that only ends the process.
LEMMA DownInv ==
  ASSUME IInv, process' = "down",
         UNCHANGED <<pc, new, scan, table, workers>>
  PROVE  IInv'
<1> USE DEF table, workers
<1>1. Slots' = Slots /\ Occupied' = Occupied
  BY DEF Slots, Occupied
<1>2. \A d \in Conns : Registered(d)' <=> Registered(d)
  BY <1>1 DEF Registered
<1>3. TypeOK' /\ CountExact' /\ RegisteredOnce' /\ WorkerOwnsMemory'
  BY <1>1, <1>2 DEF IInv, TypeOK, CountExact, RegisteredOnce, WorkerOwnsMemory
<1>4. PairsOK' /\ NewOK' /\ DoneOK' /\ WaitOK' /\ RoomOK'
  BY <1>1 DEF IInv, PairsOK, PairOK, NewOK, DoneOK, WaitOK, RoomOK, Scanned
<1>5. QED
  BY <1>3, <1>4 DEF IInv

-----------------------------------------------------------------------------
(* The steps of the workers.                                               *)

LEMMA WorkerInv ==
  ASSUME IInv, NEW c \in Conns, WorkerDispose(c) \/ WorkerReturn(c)
  PROVE  IInv'
<1> USE DEF IInv, WorkerDispose, WorkerReturn, table
<1>1. Slots' = Slots /\ Occupied' = Occupied
  BY DEF Slots, Occupied
<1>2. \A d \in Conns : Registered(d)' <=> Registered(d)
  BY <1>1 DEF Registered
<1>3. TypeOK' /\ CountExact' /\ RegisteredOnce'
  <2>1. /\ done' \in [Conns -> BOOLEAN]
        /\ thread' \in [Conns -> {"none", "running", "returning", "exited"}]
    BY DEF TypeOK
  <2>2. TypeOK'
    BY <1>1, <2>1 DEF TypeOK
  <2>3. CountExact' /\ RegisteredOnce'
    BY <1>1, <1>2 DEF CountExact, RegisteredOnce
  <2>4. QED
    BY <2>2, <2>3
<1>4. WorkerOwnsMemory' /\ DoneOK'
  BY DEF WorkerOwnsMemory, DoneOK, TypeOK
<1>5. PairsOK'
  <2>1. \A d \in Conns : thread[d] = "none" => thread'[d] = "none"
    BY DEF TypeOK
  <2>2. new \in Slot /\ \A j \in Slots : context_array[j] \in Slot
    BY DEF TypeOK
  <2>3. QED
    BY <1>1, <2>1, <2>2 DEF PairsOK, PairOK, Slot
<1>6. NewOK' /\ RoomOK'
  BY ConnectionTableAssumption DEF NewOK, RoomOK, TypeOK, Slot
<1>7. WaitOK'
  BY <1>1 DEF WaitOK, Scanned, TypeOK, Slot
<1>8. QED
  BY <1>3, <1>4, <1>5, <1>6, <1>7

-----------------------------------------------------------------------------
LEMMA InvNext == IInv /\ [Next]_vars => IInv'
<1> SUFFICES ASSUME IInv, [Next]_vars PROVE IInv'
  OBVIOUS
<1>1. ASSUME NEW c \in Conns, Accept(c) PROVE IInv'
  BY <1>1, AcceptInv
<1>2. CASE CreateThread
  BY <1>2, CreateThreadInv
<1>3. CASE ScanBusy \/ ScanDone \/ ScanEnd
  BY <1>3, ScanInv
<1>4. CASE ReleaseSlot
  BY <1>4, ReleaseSlotInv
<1>5. CASE Grow
  BY <1>5, GrowInv
<1>6. ASSUME NEW j \in Slots, Insert(j) PROVE IInv'
  BY <1>6, InsertInv
<1>7. CASE ScanNull
  BY <1>7, DownInv DEF ScanNull
<1>8. ASSUME NEW c \in Conns, WorkerDispose(c) \/ WorkerReturn(c) PROVE IInv'
  BY <1>8, WorkerInv
<1>9. ASSUME NEW c \in Conns, WorkerAborts(c) PROVE IInv'
  BY <1>9, DownInv DEF WorkerAborts
<1>10. CASE UNCHANGED vars
  <2>1. Slots' = Slots /\ Occupied' = Occupied
    BY <1>10 DEF vars, table, workers, Slots, Occupied
  <2>2. \A d \in Conns : Registered(d)' <=> Registered(d)
    BY <1>10, <2>1 DEF vars, table, Registered
  <2>3. (TypeOK /\ CountExact /\ RegisteredOnce /\ WorkerOwnsMemory)'
    BY <1>10, <2>1, <2>2 DEF IInv, vars, table, workers, TypeOK, CountExact,
       RegisteredOnce, WorkerOwnsMemory
  <2>4. (PairsOK /\ NewOK /\ DoneOK /\ WaitOK /\ RoomOK)'
    BY <1>10, <2>1 DEF IInv, vars, table, workers, PairsOK, PairOK, NewOK,
       DoneOK, WaitOK, RoomOK, Scanned
  <2>5. QED
    BY <2>3, <2>4 DEF IInv
<1>11. QED
  BY <1>1, <1>2, <1>3, <1>4, <1>5, <1>6, <1>7, <1>8, <1>9, <1>10
     DEF Next, MainStep

\* IInv holds in every reachable state, for every set of connections and
\* every growth increment of context_array (windows/main_win.c, 61-125).
THEOREM Invariance == Spec => []IInv
BY InvInit, InvNext, PTL DEF Spec

\* Every variable keeps its type: no slot is read before it is initialized.
THEOREM TypeCorrect == Spec => []TypeOK
<1>1. IInv => TypeOK
  BY DEF IInv
<1>2. QED
  BY <1>1, Invariance, PTL

\* num_active_context_array_entries always is the number of slots in use.
THEOREM CountIsExact == Spec => []CountExact
<1>1. IInv => CountExact
  BY DEF IInv
<1>2. QED
  BY <1>1, Invariance, PTL

\* fxmy_add_new_connection always finds a free slot with no thread handle,
\* so neither of its two VERIFYs can abort the server.
THEOREM InsertNeverFails == Spec => []InsertFindsSlot
<1>1. IInv => InsertFindsSlot
  <2> SUFFICES ASSUME IInv, pc = "insert" PROVE InsertFindsSlot
    BY DEF InsertFindsSlot
  <2>1. \E j \in Slots : IsFree(j)
    BY FreeSlotExists DEF IInv, RoomOK, TypeOK
  <2>2. \A j \in Slots : IsFree(j) => context_array[j].thread_handle = NULL
    BY DEF IInv, PairsOK, PairOK, IsFree
  <2>3. QED
    BY <2>1, <2>2 DEF InsertFindsSlot
<1>2. QED
  BY <1>1, Invariance, PTL

\* A connection structure is allocated exactly while it is registered or
\* being registered, in one slot only.
THEOREM NoneLostNoneTwice == Spec => []RegisteredOnce
<1>1. IInv => RegisteredOnce
  BY DEF IInv
<1>2. QED
  BY <1>1, Invariance, PTL

\* The accept loop never frees a connection structure that a worker thread
\* can still reach.
THEOREM WorkerMemorySafe == Spec => []WorkerOwnsMemory
<1>1. IInv => WorkerOwnsMemory
  BY DEF IInv
<1>2. QED
  BY <1>1, Invariance, PTL

\* WaitForSingleObject (main_win.c 84) has no timeout and nobody is accepted
\* meanwhile, so a wait for a worker that still serves its client would stop
\* the server.
WaitsForTheLeavingOnly ==
  process = "up" /\ pc = "wait" /\ Scanned.thread_handle # NULL =>
    thread[Scanned.thread_handle] \in {"returning", "exited"}

\* The safety side of ReturnsToAccept: the main thread waits for no thread but
\* one that has set done, and so is on its way out without a client or the
\* table having a say in it.  The handle in the slot is that of the worker
\* whose done was read, whatever was released and inserted before.
THEOREM WaitsForNoClient == Spec => []WaitsForTheLeavingOnly
<1>1. IInv => WaitsForTheLeavingOnly
  <2> SUFFICES ASSUME IInv, pc = "wait", Scanned.thread_handle # NULL
               PROVE  thread[Scanned.thread_handle] \in {"returning", "exited"}
    BY DEF WaitsForTheLeavingOnly
  <2>1. scan \in Slots /\ Scanned.conn # NULL /\ done[Scanned.conn]
    BY DEF IInv, WaitOK
  <2>2. Scanned.conn \in Conns
    BY <2>1 DEF IInv, TypeOK, Slot, Scanned
  <2>3. thread[Scanned.conn] \in {"returning", "exited"}
    BY <2>1, <2>2 DEF IInv, DoneOK
  <2>4. Scanned.thread_handle = Scanned.conn
    BY <2>1 DEF IInv, PairsOK, PairOK, Scanned
  <2>5. QED
    BY <2>3, <2>4
<1>2. QED
  BY <1>1, Invariance, PTL

-----------------------------------------------------------------------------
(* The table implements ConnectionLifetime.                                *)

\* The refinement mapping: the phase of a connection, and those known.
Phase == [c \in Conns |->
            IF memory[c] = "free" THEN "absent"
            ELSE IF thread[c] = "exited" THEN "finished" ELSE "serving"]
Known == {c \in Conns : Registered(c)}

LEMMA RefinesInit == Init => Lifetime!Init
<1> SUFFICES ASSUME Init PROVE Lifetime!Init
  OBVIOUS
<1>1. Known = {}
  BY DEF Known, Registered, Init, Slots
<1>2. Phase = [c \in Conns |-> "absent"]
  BY DEF Phase, Init
<1>3. QED
  BY <1>1, <1>2 DEF Lifetime!Init, Known, Phase, Init

\* What a step has to show to be a step of the abstract specification.
LEMMA AbstractStep ==
  ASSUME process = "up",
         \/ \E c \in Conns :
              /\ process' = "up"
              /\ \/ /\ Phase[c] = "absent" /\ Known' = Known
                    /\ Phase' = [Phase EXCEPT ![c] = "serving"]
                 \/ /\ Phase[c] # "absent" /\ Phase' = Phase
                    /\ c \notin Known /\ Known' = Known \cup {c}
                 \/ /\ Phase[c] = "serving" /\ Known' = Known
                    /\ Phase' = [Phase EXCEPT ![c] = "finished"]
                 \/ /\ Phase[c] = "finished"
                    /\ Phase' = [Phase EXCEPT ![c] = "absent"]
                    /\ c \in Known /\ Known' = Known \ {c}
         \/ process' = "down" /\ Phase' = Phase /\ Known' = Known
         \/ process' = "up" /\ Phase' = Phase /\ Known' = Known
  PROVE  [Lifetime!Next]_(Lifetime!vars)
BY DEF Lifetime!Next, Lifetime!Admit, Lifetime!Register, Lifetime!Finish,
       Lifetime!Release, Lifetime!Stop, Lifetime!vars, Phase, Known

\* Steps that leave slots, memory and the set of exited threads alone.
LEMMA Stutters ==
  ASSUME UNCHANGED <<context_array, num_entries, memory>>,
         \A c \in Conns : thread'[c] = "exited" <=> thread[c] = "exited"
  PROVE  Phase' = Phase /\ Known' = Known
BY DEF Phase, Known, Registered, Slots

LEMMA RefinesNext == IInv /\ IInv' /\ [Next]_vars => [Lifetime!Next]_(Lifetime!vars)
<1> SUFFICES ASSUME IInv, IInv', [Next]_vars
             PROVE  [Lifetime!Next]_(Lifetime!vars)
  OBVIOUS
<1> USE ConnectionTableAssumption DEF table, workers
<1>t. TypeOK /\ TypeOK'
  BY DEF IInv
<1>1. ASSUME NEW c \in Conns, Accept(c) PROVE [Lifetime!Next]_(Lifetime!vars)
  <2>1. Phase[c] = "absent" /\ Phase' = [Phase EXCEPT ![c] = "serving"]
    BY <1>t, <1>1 DEF Accept, Phase, TypeOK
  <2>2. Known' = Known
    BY <1>1 DEF Accept, Known, Registered, Slots
  <2>3. process = "up" /\ process' = "up"
    BY <1>1 DEF Accept, At
  <2>4. QED
    BY <2>1, <2>2, <2>3, AbstractStep
<1>2. CASE CreateThread
  <2>1. \A c \in Conns : thread'[c] = "exited" <=> thread[c] = "exited"
    BY <1>2, <1>t DEF CreateThread, At, IInv, NewOK, TypeOK
  <2>2. QED
    BY <1>2, <2>1, Stutters, AbstractStep DEF CreateThread, At
<1>3. CASE ScanNull
  BY <1>3, Stutters, AbstractStep DEF ScanNull
<1>4. CASE ScanBusy \/ ScanDone \/ ScanEnd
  BY <1>4, Stutters, AbstractStep DEF ScanBusy, ScanDone, ScanEnd, At
<1>5. CASE ReleaseSlot
  <2> DEFINE old == Scanned.conn
  <2>1. /\ scan \in Slots /\ old \in Conns /\ old # NULL /\ done[old]
        /\ Slots' = Slots
    BY <1>5, <1>t DEF IInv, ReleaseSlot, At, WaitOK, TypeOK, Slot, Scanned, Slots
  <2>2. thread[old] = "exited" /\ memory[old] = "live" /\ Registered(old)
    BY <1>5, <2>1 DEF ReleaseSlot, At, IInv, Signaled, PairsOK, PairOK, DoneOK,
       Scanned, RegisteredOnce, Registered
  <2>3. Phase[old] = "finished" /\ Phase' = [Phase EXCEPT ![old] = "absent"]
    BY <1>5, <1>t, <2>1, <2>2 DEF ReleaseSlot, Phase, TypeOK
  <2>4. \A c \in Conns : Registered(c)' <=> Registered(c) /\ c # old
    <3>1. \A j \in Slots :
            context_array'[j] = IF j = scan THEN EmptySlot ELSE context_array[j]
      BY <1>5, <1>t, <2>1 DEF ReleaseSlot, TypeOK
    <3>2. QED
      BY <2>1, <3>1 DEF Registered, EmptySlot, Scanned, IInv, RegisteredOnce,
         Occupied
  <2>5. old \in Known /\ Known' = Known \ {old}
    BY <2>1, <2>2, <2>4 DEF Known
  <2>6. QED
    BY <1>5, <2>1, <2>3, <2>5, AbstractStep DEF ReleaseSlot, At
<1>6. CASE Grow
  <2>1. Phase' = Phase
    BY <1>6 DEF Grow, Phase
  <2>2. \A c \in Conns : Registered(c)' <=> Registered(c)
    BY <1>6 DEF IInv, RegisteredOnce, Grow
  <2>3. Known' = Known
    BY <2>2 DEF Known
  <2>4. QED
    BY <1>6, <2>1, <2>3, AbstractStep DEF Grow, At
<1>7. ASSUME NEW j \in Slots, Insert(j) PROVE [Lifetime!Next]_(Lifetime!vars)
  <2> DEFINE c == new.conn
  <2>1. /\ c \in Conns /\ c # NULL /\ memory[c] = "live" /\ ~Registered(c)
    BY <1>7, <1>t DEF Insert, At, IInv, NewOK, RegisteredOnce, TypeOK, Slot
  <2>2. \A d \in Conns : Registered(d)' <=> Registered(d) \/ d = c
    BY <1>7, <1>t, <2>1 DEF Insert, FirstFree, IsFree, Registered, TypeOK, Slots
  <2>3. Known' = Known \cup {c} /\ c \notin Known
    BY <2>1, <2>2 DEF Known
  <2>4. Phase' = Phase /\ Phase[c] # "absent"
    BY <1>7, <2>1 DEF Insert, Phase
  <2>5. QED
    BY <1>7, <2>1, <2>3, <2>4, AbstractStep DEF Insert, At
<1>8. ASSUME NEW c \in Conns, WorkerDispose(c) PROVE [Lifetime!Next]_(Lifetime!vars)
  <2>1. \A d \in Conns : thread'[d] = "exited" <=> thread[d] = "exited"
    BY <1>8, <1>t DEF WorkerDispose, TypeOK
  <2>2. QED
    BY <1>8, <2>1, Stutters, AbstractStep DEF WorkerDispose
<1>9. ASSUME NEW c \in Conns, WorkerReturn(c) PROVE [Lifetime!Next]_(Lifetime!vars)
  <2>1. memory[c] = "live"
    BY <1>9 DEF WorkerReturn, IInv, WorkerOwnsMemory
  <2>2. Phase[c] = "serving" /\ Phase' = [Phase EXCEPT ![c] = "finished"]
    BY <1>9, <1>t, <2>1 DEF WorkerReturn, Phase, TypeOK
  <2>3. Known' = Known
    BY <1>9 DEF WorkerReturn, Known, Registered, Slots
  <2>4. QED
    BY <1>9, <2>2, <2>3, AbstractStep DEF WorkerReturn
<1>10. ASSUME NEW c \in Conns, WorkerAborts(c) PROVE [Lifetime!Next]_(Lifetime!vars)
  BY <1>10, Stutters, AbstractStep DEF WorkerAborts
<1>11. CASE UNCHANGED vars
  <2>1. Phase' = Phase /\ Known' = Known
    BY <1>11, Stutters DEF vars
  <2>2. QED
    BY <1>11, <2>1 DEF vars, Lifetime!vars, Phase, Known
<1>12. QED
  BY <1>1, <1>2, <1>3, <1>4, <1>5, <1>6, <1>7, <1>8, <1>9, <1>10, <1>11
     DEF Next, MainStep

\* Every behaviour of the accept loop and its array is, seen through the
\* mapping, a behaviour of ConnectionLifetime: no connection is forgotten,
\* released twice, or released before its worker has finished.
THEOREM Refinement == Spec => ImplementsLifetime
BY RefinesInit, RefinesNext, Invariance, PTL
   DEF Spec, ImplementsLifetime, Lifetime!Spec
=============================================================================
