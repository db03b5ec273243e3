-------------------------- MODULE ProcessListProofs --------------------------
(***************************************************************************)
(* Theorems about ProcessList for any set of processes, any task states,   *)
(* any first capacity, any arena and any number of collections.            *)
(***************************************************************************)
EXTENDS ProcessList, TLAPS

LEMMA PidsAreNumbers == \A p \in Pids : p \in Nat /\ p # 0
  BY ProcessAssumption

LEMMA InitListInv == ListInit => ListInv
<1> SUFFICES ASSUME ListInit PROVE ListInv
  OBVIOUS
<1>0. PICK tasks \in [Pids -> Letters \cup {"none"}] : ListStart(tasks)
  BY DEF ListInit
<1>1. ListTypeOK
  <2>1. table \in [Pids -> TaskStates \cup {"none"}]
    BY <1>0, ProcessAssumption DEF ListStart
  <2>2. items \in [1 .. list_capacity -> [pid : Nat, state : {"undefined", "running", "sleeping",
                  "disk_sleeping", "stopped", "tracing_stopped", "zombie", "dead", "idle"}]]
    BY <1>0 DEF ListStart
  <2>3. cut \in BOOLEAN
    BY <1>0 DEF ListStart
  <2> QED BY <1>0, <2>1, <2>2, <2>3 DEF ListStart, ListTypeOK
<1>2. ScanInv /\ AllRunningListed /\ ListedOnceAndRan /\ ArrayInv
  BY <1>0 DEF ListStart, ScanInv, AllRunningListed, ListedOnceAndRan, ArrayInv, Collected
<1> QED BY <1>1, <1>2 DEF ListInv

(* What the kernel does to a process while a collection runs or does not.   *)
LEMMA KernelStep ==
  ASSUME ListInv, NEW p \in Pids, NEW letter \in TaskStates \cup {"none"},
         SetTask(p, letter), UNCHANGED <<agent, list, scan>>
  PROVE  ListInv'
<1> USE DEF ListInv, list, scan
<1>1. /\ table' = [table EXCEPT ![p] = letter]
      /\ since' = IF letter = "none" /\ cursor # 0 THEN since \ {p} ELSE since
      /\ during' = IF letter # "none" /\ cursor # 0 THEN during \cup {p} ELSE during
  BY DEF SetTask
<1>2. ListTypeOK'
  BY <1>1 DEF ListTypeOK
<1>3. ScanInv'
  BY <1>1 DEF ListTypeOK, ScanInv, Collected, Runs
<1>4. AllRunningListed'
  BY <1>1 DEF ListTypeOK, AllRunningListed, Collected
<1>5. ListedOnceAndRan' /\ ArrayInv'
  BY <1>1 DEF ListedOnceAndRan, ArrayInv, Collected
<1> QED BY <1>2, <1>3, <1>4, <1>5

LEMMA BeginListInv == ASSUME ListInv, CollectBegin PROVE ListInv'
<1> USE DEF ListInv
<1>1. /\ cursor' = 1 /\ base' = count /\ count' = count /\ cut' = FALSE
      /\ since' = {p \in Pids : Runs(p)} /\ during' = since' /\ collects' = collects + 1
      /\ table' = table /\ agent' = agent
  BY DEF CollectBegin
<1>2. Collected' = {}
  BY <1>1 DEF Collected, ListTypeOK
<1>3. ListTypeOK' /\ list_capacity' # 0 /\ \A i \in 1 .. count : items'[i] = items[i]
  <2>1. cut' \in BOOLEAN
    BY <1>1
  <2>2. CASE list_capacity = 0 /\ items' = [i \in 1 .. FIRST |-> Entry(0)]
                /\ list_capacity' = FIRST /\ used' = used + FIRST
    BY <1>1, <2>1, <2>2, ProcessAssumption DEF ListTypeOK, Entry
  <2>3. CASE list_capacity # 0 /\ UNCHANGED <<items, list_capacity, used>>
    BY <1>1, <2>1, <2>3 DEF ListTypeOK
  <2> QED BY <2>2, <2>3 DEF CollectBegin
<1>4. ScanInv'
  BY <1>1, <1>2, <1>3, ProcessAssumption DEF ScanInv, ListTypeOK, Runs
<1>5. AllRunningListed' /\ ListedOnceAndRan'
  BY <1>1, <1>2 DEF AllRunningListed, ListedOnceAndRan
<1>6. ArrayInv'
  <2>1. CASE list_capacity = 0 /\ list_capacity' = FIRST /\ used' = used + FIRST
    BY <1>1, <2>1, ProcessAssumption DEF ArrayInv, ListTypeOK
  <2>2. CASE UNCHANGED <<list_capacity, used>>
    BY <1>1, <2>2 DEF ArrayInv
  <2> QED BY <2>1, <2>2 DEF CollectBegin
<1> QED BY <1>3, <1>4, <1>5, <1>6

(* Entry p goes into the first free place of an array that has one and that *)
(* keeps the entries there were.                                            *)
LEMMA AddedListInv ==
  ASSUME ListInv, ListTypeOK', ArrayInv', NEW p \in Pids, DirectoryOpen, IsNext(p),
         count' = count + 1, cursor' = p + 1, items'[count + 1].pid = p,
         \A i \in 1 .. count : items'[i] = items[i],
         list_capacity' # 0,
         UNCHANGED <<table, agent, base, cut, seen, collects>>
  PROVE  ListInv'
<1> USE DEF ListInv, seen
<1>1. /\ base \in Nat /\ count \in Nat /\ base <= count /\ cursor \in Nat /\ p \in Nat
      /\ cursor # 0 /\ cursor <= p /\ cursor' # 0
  BY ProcessAssumption DEF ListTypeOK, ScanInv, DirectoryOpen, IsNext
<1>2. Collected' = Collected \cup {count + 1} /\ Collected \subseteq 1 .. count
  BY <1>1 DEF Collected
<1>3. \A i \in Collected : items'[i].pid \in Pids /\ items'[i].pid < p
  <2> SUFFICES ASSUME NEW i \in Collected PROVE items'[i].pid \in Pids /\ items'[i].pid < p
    OBVIOUS
  <2>1. items'[i] = items[i] /\ items[i].pid \in Pids /\ items[i].pid < cursor
    BY <1>1, <1>2 DEF ScanInv
  <2>2. items[i].pid \in Nat
    BY <2>1, PidsAreNumbers
  <2> QED BY <1>1, <2>1, <2>2
<1>4. ScanInv'
  <2>1. \A i \in 1 .. count' : items'[i].pid \in Pids
    BY <1>1 DEF ScanInv
  <2>2. \A i \in Collected' : items'[i].pid < cursor'
    <3> SUFFICES ASSUME NEW i \in Collected' PROVE items'[i].pid < p + 1
      OBVIOUS
    <3>1. CASE i \in Collected
      <4>1. items'[i].pid \in Nat /\ items'[i].pid < p
        BY <1>3, <3>1, PidsAreNumbers
      <4> QED BY <1>1, <4>1
    <3>2. CASE i = count + 1
      BY <1>1, <3>2
    <3> QED BY <1>2, <3>1, <3>2
  <2>3. \A q \in since : Runs(q)' /\ (q < cursor' => \E i \in Collected' : items'[i].pid = q)
    <3> SUFFICES ASSUME NEW q \in since
                 PROVE  Runs(q)' /\ (q < cursor' => \E i \in Collected' : items'[i].pid = q)
      OBVIOUS
    <3>1. q \in Pids /\ q \in Nat /\ Runs(q) /\ Runs(q)'
      BY <1>1, ProcessAssumption DEF ListTypeOK, ScanInv, Runs
    <3>2. CASE q < cursor
      <4>1. PICK i \in Collected : items[i].pid = q
        BY <1>1, <3>2 DEF ScanInv
      <4> QED BY <1>2, <3>1, <4>1
    <3>3. CASE cursor <= q
      <4>1. p <= q
        BY <3>1, <3>3 DEF IsNext
      <4>2. q < cursor' => q = p
        BY <1>1, <3>1, <4>1
      <4> QED BY <1>2, <3>1, <4>2
    <3> QED BY <1>1, <3>1, <3>2, <3>3
  <2>4. \A q \in Pids : Runs(q)' => q \in during'
    BY <1>1 DEF ScanInv, Runs
  <2>5. base' <= count' /\ ~cut'
    BY <1>1 DEF ScanInv
  <2> QED BY <2>1, <2>2, <2>3, <2>4, <2>5 DEF ScanInv
<1>5. ListedOnceAndRan'
  <2>1. p \in during
    BY <1>1 DEF ScanInv, IsNext
  <2>2. \A i \in Collected' : items'[i].pid \in during'
    BY <1>1, <1>2, <2>1 DEF ListedOnceAndRan
  <2>3. \A i, j \in Collected' : i < j => items'[i].pid < items'[j].pid
    <3> SUFFICES ASSUME NEW i \in Collected', NEW j \in Collected', i < j
                 PROVE  items'[i].pid < items'[j].pid
      OBVIOUS
    <3>1. i \in Collected
      BY <1>1, <1>2
    <3>2. CASE j \in Collected
      BY <1>1, <1>2, <3>1, <3>2 DEF ListedOnceAndRan
    <3>3. CASE j = count + 1
      BY <1>3, <3>1, <3>3
    <3> QED BY <1>2, <3>2, <3>3
  <2> QED BY <2>2, <2>3 DEF ListedOnceAndRan
<1>6. AllRunningListed'
  BY <1>1 DEF AllRunningListed, ScanInv
<1> QED BY <1>4, <1>5, <1>6

LEMMA AddListInv == ASSUME ListInv, NEW p \in Pids, Add(p) PROVE ListInv'
<1> USE DEF ListInv
<1>1. /\ DirectoryOpen /\ IsNext(p) /\ count # list_capacity
      /\ items' = [items EXCEPT ![count + 1] = Entry(p)]
      /\ count' = count + 1 /\ cursor' = p + 1
      /\ UNCHANGED <<table, agent, list_capacity, used, base, cut, seen, collects>>
  BY DEF Add, NextCount
<1>2. count + 1 \in 1 .. list_capacity /\ list_capacity # 0
  BY <1>1 DEF ListTypeOK
<1>3. ListTypeOK'
  BY <1>1, <1>2, ProcessAssumption DEF ListTypeOK, Entry, seen
<1>4. items'[count + 1].pid = p /\ \A i \in 1 .. count : items'[i] = items[i]
  BY <1>1, <1>2 DEF ListTypeOK, Entry
<1>5. ArrayInv'
  BY <1>1 DEF ArrayInv, ScanInv, DirectoryOpen
<1> QED BY <1>1, <1>2, <1>3, <1>4, <1>5, AddedListInv

LEMMA GrowListInv == ASSUME ListInv, NEW p \in Pids, GrowAndAdd(p) PROVE ListInv'
<1> USE DEF ListInv
<1>1. /\ DirectoryOpen /\ IsNext(p) /\ count = list_capacity
      /\ items' = [Doubled EXCEPT ![count + 1] = Entry(p)]
      /\ count' = count + 1 /\ cursor' = p + 1
      /\ list_capacity' = 2 * list_capacity /\ used' = used + 2 * list_capacity
      /\ UNCHANGED <<table, agent, base, cut, seen, collects>>
  BY DEF GrowAndAdd, NextCount
<1>2. /\ list_capacity \in Nat /\ list_capacity # 0 /\ list_capacity' # 0
      /\ count + 1 \in 1 .. 2 * list_capacity
  BY <1>1 DEF ListTypeOK, ScanInv, DirectoryOpen
<1>3. ListTypeOK'
  BY <1>1, <1>2, ProcessAssumption DEF ListTypeOK, Entry, seen, Doubled
<1>4. items'[count + 1].pid = p /\ \A i \in 1 .. count : items'[i] = items[i]
  BY <1>1, <1>2 DEF Entry, Doubled
<1>5. ArrayInv'
  BY <1>1, <1>2, ProcessAssumption DEF ArrayInv, ScanInv, DirectoryOpen, ListTypeOK
<1> QED BY <1>1, <1>2, <1>3, <1>4, <1>5, AddedListInv

(* The directory is closed: at its end, or for lack of room. *)
LEMMA CloseListInv ==
  ASSUME ListInv, CollectEnd \/ \E p \in Pids : BreakOff(p)
  PROVE  ListInv'
<1> USE DEF ListInv, list, seen
<1>1. cursor' = 0 /\ cursor # 0 /\ ~cut
      /\ UNCHANGED <<table, agent, items, count, list_capacity, used, base, since, during, collects>>
  BY DEF CollectEnd, BreakOff, DirectoryOpen, ScanInv
<1>2. ListTypeOK'
  BY <1>1 DEF ListTypeOK, CollectEnd, BreakOff
<1>3. ScanInv' /\ ListedOnceAndRan'
  BY <1>1 DEF ScanInv, ListedOnceAndRan, Collected
<1>4. AllRunningListed' /\ ArrayInv'
  <2>1. CASE CollectEnd
    BY <1>1, <2>1 DEF CollectEnd, AllRunningListed, ArrayInv, ScanInv, ListTypeOK, Collected
  <2>2. CASE \E p \in Pids : BreakOff(p)
    <3>1. cut' /\ count = list_capacity /\ ~RoomToDouble
      BY <2>2 DEF BreakOff
    <3> QED BY <1>1, <3>1, ProcessAssumption
            DEF AllRunningListed, ArrayInv, RoomToDouble, ListTypeOK
  <2> QED BY <2>1, <2>2
<1> QED BY <1>2, <1>3, <1>4

LEMMA ReadListInv == ASSUME ListInv, NEW i \in 1 .. count, process_read(i) PROVE ListInv'
<1> USE DEF ListInv, scan, seen
<1>1. /\ items' = [items EXCEPT ![i].state = StateOf(table[items[i].pid])]
      /\ UNCHANGED <<table, agent, count, list_capacity, used, scan, seen>>
  BY DEF process_read
<1>2. i \in 1 .. list_capacity
  BY DEF ListTypeOK
<1>3. \A letter : StateOf(letter) \in {"undefined", "running", "sleeping",
                  "disk_sleeping", "stopped", "tracing_stopped", "zombie", "dead", "idle"}
  BY DEF StateOf
<1>4. ListTypeOK' /\ \A j \in 1 .. count : items'[j].pid = items[j].pid
  BY <1>1, <1>2, <1>3 DEF ListTypeOK
<1>5. Collected' = Collected /\ Collected \subseteq 1 .. count
  BY <1>1 DEF Collected, ListTypeOK, ScanInv
<1>6. ScanInv' /\ AllRunningListed' /\ ListedOnceAndRan' /\ ArrayInv'
  BY <1>1, <1>4, <1>5 DEF ScanInv, AllRunningListed, ListedOnceAndRan, ArrayInv, Runs
<1> QED BY <1>4, <1>6

LEMMA AbortListInv == ASSUME ListInv, Abort PROVE ListInv'
  BY DEF ListInv, Abort, list, scan, seen, ListTypeOK, ScanInv, AllRunningListed, ListedOnceAndRan,
         ArrayInv, Collected, Runs

LEMMA KillListInv == ASSUME ListInv, NEW i \in 1 .. count, process_kill(i) PROVE ListInv'
<1>1. CASE Abort
  BY <1>1, AbortListInv
<1>2. CASE /\ Ready /\ table' = [table EXCEPT ![items[i].pid] = "Z"]
           /\ UNCHANGED <<agent, list, scan, seen>>
  <2>1. items[i].pid \in Pids
    BY DEF ListInv, ScanInv
  <2>2. ListTypeOK'
    BY <1>2, <2>1 DEF ListInv, ListTypeOK, TaskStates, list, scan, seen
  <2> QED BY <1>2, <2>2 DEF ListInv, Ready, list, scan, seen, ScanInv, AllRunningListed,
             ListedOnceAndRan, ArrayInv, Collected
<1> QED BY <1>1, <1>2 DEF process_kill

LEMMA NextListInv == ListInv /\ [ListNext]_listVars => ListInv'
<1> SUFFICES ASSUME ListInv, [ListNext]_listVars PROVE ListInv'
  OBVIOUS
<1>1. ASSUME NEW p \in Pids, Fork(p) \/ ChangeState(p) PROVE ListInv'
  <2>1. PICK letter \in Letters : SetTask(p, letter)
    BY <1>1 DEF Fork, ChangeState
  <2> QED BY <1>1, <2>1, KernelStep, ProcessAssumption DEF Fork, ChangeState
<1>2. ASSUME NEW p \in Pids, Exit(p) PROVE ListInv'
  BY <1>2, KernelStep DEF Exit
<1>3. CASE CollectAborts
  BY <1>3, AbortListInv DEF CollectAborts
<1>4. CASE UNCHANGED listVars
  BY <1>4 DEF ListInv, listVars, list, scan, seen, ListTypeOK, ScanInv, AllRunningListed,
              ListedOnceAndRan, ArrayInv, Collected, Runs
<1> QED BY <1>1, <1>2, <1>3, <1>4, BeginListInv, AddListInv, GrowListInv, CloseListInv, ReadListInv, KillListInv
        DEF ListNext

-----------------------------------------------------------------------------
(* Theorems *)

(* What process_list_collect knows at its cursor holds at every moment of a *)
(* scan, whatever the processes do.                                         *)
THEOREM ProcessListInvariant == ListSpec => []ListInv
  BY InitListInv, NextListInv, PTL DEF ListSpec

(* The list stays well formed: no more entries than the array holds and an  *)
(* array as long as its capacity says, through growing, reading and killing. *)
THEOREM TypeCorrect == ListSpec => []ListTypeOK
<1>1. ListInv => ListTypeOK
  BY DEF ListInv
<1> QED BY <1>1, ProcessListInvariant, PTL

(* A collection that was not cut off lists every process that ran           *)
(* throughout it.                                                           *)
THEOREM NoneMissed == ListSpec => []AllRunningListed
<1>1. ListInv => AllRunningListed
  BY DEF ListInv
<1> QED BY <1>1, ProcessListInvariant, PTL

(* A collection lists a process at most once, and none that did not run     *)
(* while it went on.                                                        *)
THEOREM NoneTwice == ListSpec => []ListedOnceAndRan
<1>1. ListInv => ListedOnceAndRan
  BY DEF ListInv
<1> QED BY <1>1, ProcessListInvariant, PTL

(* A collection is cut off only when more than a quarter of the arena holds *)
(* entries of the list.                                                     *)
THEOREM CutWhenLong == ListSpec => []CutListIsLong
<1>1. ListInv => CutListIsLong
  BY ProcessAssumption DEF ListInv, ListTypeOK, ArrayInv, CutListIsLong
<1> QED BY <1>1, ProcessListInvariant, PTL

=============================================================================
