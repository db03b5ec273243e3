----------------------------- MODULE ProcessList -----------------------------
(***************************************************************************)
(* process_list_collect, process_read and process_kill of                  *)
(* libres/resources.cc against a process table that changes while they     *)
(* run.  readdir walks /proc in the order of the process IDs and looks at  *)
(* the table anew for every entry.                                         *)
(*                                                                         *)
(* Arena space is counted in elements of the array.                        *)
(***************************************************************************)
EXTENDS Integers, FiniteSets

CONSTANTS
  Pids,         \* process IDs
  Protected,    \* the ones the agent may not signal
  Letters,      \* the task states that occur
  FIRST,        \* the first capacity: 8 in the code
  Room,         \* elements that fit into the arena
  MaxCollects   \* bound: collections in a behaviour

TaskStates == {"R", "S", "D", "T", "t", "Z", "X", "I", "P"}

ASSUME ProcessAssumption ==
  /\ Pids \subseteq Nat \ {0}
  /\ Protected \subseteq Pids
  /\ Letters \subseteq TaskStates
  /\ FIRST \in Nat \ {0}
  /\ Room \in Nat
  /\ MaxCollects \in Nat

VARIABLES
  table,      \* the kernel: the state of each process, "none" if it does not run
  agent,      \* "up" or "aborted"
  items,      \* sys_proc_list
  count,
  list_capacity,  \* 0 while items is NULL
  used,       \* arena elements allocated
  cursor,     \* where readdir is, 0 when no directory is open
  base,       \* count when the last collection began
  cut,        \* the last collection stopped for lack of room
  since,      \* the processes that ran throughout the last collection
  during,     \* the processes that ran at some time in it
  collects    \* collections begun

list == <<items, count, list_capacity, used>>
scan == <<cursor, base, cut, collects>>
seen == <<since, during>>
listVars == <<table, agent, list, scan, seen>>

Runs(p) == table[p] # "none"

Entry(pid) == [pid |-> pid, state |-> "undefined"]

ListStart(tasks) ==
  /\ table = tasks
  /\ agent = "up"
  /\ items = [i \in {} |-> Entry(0)]
  /\ count = 0 /\ list_capacity = 0 /\ used = 0
  /\ cursor = 0 /\ base = 0 /\ cut = FALSE /\ collects = 0
  /\ since = {} /\ during = {}

ListInit == \E tasks \in [Pids -> Letters \cup {"none"}] : ListStart(tasks)

-----------------------------------------------------------------------------
(* The kernel *)

SetTask(p, letter) ==
  /\ table' = [table EXCEPT ![p] = letter]
  /\ since' = IF letter = "none" /\ cursor # 0 THEN since \ {p} ELSE since
  /\ during' = IF letter # "none" /\ cursor # 0 THEN during \cup {p} ELSE during

Fork(p) ==
  /\ ~Runs(p)
  /\ \E letter \in Letters : SetTask(p, letter)
  /\ UNCHANGED <<agent, list, scan>>

ChangeState(p) ==
  /\ Runs(p) /\ table[p] \notin {"Z", "X"}
  /\ \E letter \in Letters \ {table[p]} : SetTask(p, letter)
  /\ UNCHANGED <<agent, list, scan>>

Exit(p) ==
  /\ Runs(p)
  /\ SetTask(p, "none")
  /\ UNCHANGED <<agent, list, scan>>

-----------------------------------------------------------------------------
(* process_list_collect *)

Ready == agent = "up" /\ cursor = 0

Abort ==
  /\ agent' = "aborted"
  /\ UNCHANGED <<table, list, scan, seen>>

(* opendir fails, or there is no room for the first array. *)
CollectAborts == Ready /\ collects < MaxCollects /\ Abort

CollectBegin ==
  /\ Ready
  /\ collects < MaxCollects
  /\ \/ /\ list_capacity = 0
        /\ used + FIRST <= Room
        /\ items' = [i \in 1 .. FIRST |-> Entry(0)]
        /\ list_capacity' = FIRST
        /\ used' = used + FIRST
     \/ /\ list_capacity # 0
        /\ UNCHANGED <<items, list_capacity, used>>
  /\ cursor' = 1
  /\ base' = count
  /\ cut' = FALSE
  /\ since' = {p \in Pids : Runs(p)}
  /\ during' = since'
  /\ collects' = collects + 1
  /\ UNCHANGED <<table, agent, count>>

(* The entry readdir returns next *)
IsNext(p) ==
  /\ Runs(p)
  /\ cursor <= p
  /\ \A q \in Pids : Runs(q) /\ cursor <= q => p <= q

DirectoryOpen == agent = "up" /\ cursor # 0

(* Mutant: no array is ever large enough. *)
RoomToDouble_never == FALSE

RoomToDouble == used + 2 * list_capacity <= Room

(* Mutants: the old array is not copied; the new one is too short. *)
Doubled_no_copy == [i \in 1 .. 2 * list_capacity |-> Entry(0)]
Doubled_short ==
  [i \in 1 .. 2 * list_capacity - 1 |-> IF i <= list_capacity THEN items[i] ELSE Entry(0)]

Doubled == [i \in 1 .. 2 * list_capacity |-> IF i <= list_capacity THEN items[i] ELSE Entry(0)]

(* Mutant: the entry is filled but not counted. *)
NextCount_same == count

NextCount == count + 1

GrowAndAdd(p) ==
  /\ DirectoryOpen /\ IsNext(p)
  /\ count = list_capacity
  /\ RoomToDouble
  /\ items' = [Doubled EXCEPT ![count + 1] = Entry(p)]
  /\ count' = NextCount
  /\ list_capacity' = 2 * list_capacity
  /\ used' = used + 2 * list_capacity
  /\ cursor' = p + 1
  /\ UNCHANGED <<table, agent, base, cut, seen, collects>>

Add(p) ==
  /\ DirectoryOpen /\ IsNext(p)
  /\ count # list_capacity
  /\ items' = [items EXCEPT ![count + 1] = Entry(p)]
  /\ count' = NextCount
  /\ cursor' = p + 1
  /\ UNCHANGED <<table, agent, list_capacity, used, base, cut, seen, collects>>

(* No room for the doubled array: the collection ends, and reports ERR_OK.  *)
BreakOff(p) ==
  /\ DirectoryOpen /\ IsNext(p)
  /\ count = list_capacity
  /\ ~RoomToDouble
  /\ cursor' = 0
  /\ cut' = TRUE
  /\ UNCHANGED <<table, agent, list, base, seen, collects>>

CollectEnd ==
  /\ DirectoryOpen
  /\ \A p \in Pids : Runs(p) => p < cursor
  /\ cursor' = 0
  /\ UNCHANGED <<table, agent, list, base, cut, seen, collects>>

-----------------------------------------------------------------------------
(* process_read of a listed process: the switch on its state letter *)

StateOf(letter) ==
  CASE letter = "R" -> "running"
    [] letter = "S" -> "sleeping"
    [] letter = "D" -> "disk_sleeping"
    [] letter = "T" -> "sleeping"
    [] letter = "t" -> "tracing_stopped"
    [] letter = "Z" -> "zombie"
    [] letter = "X" -> "dead"
    [] letter = "I" -> "idle"
    [] OTHER        -> "undefined"

(* A process that is gone yields ERR_IO and leaves the entry as it was. *)
process_read(i) ==
  /\ Ready
  /\ Runs(items[i].pid)
  /\ items' = [items EXCEPT ![i].state = StateOf(table[items[i].pid])]
  /\ UNCHANGED <<table, agent, count, list_capacity, used, scan, seen>>

(* process_kill of a listed process with a fatal signal.  kill fails for a  *)
(* process that is gone or not the agent's to signal, and each failure runs *)
(* into assert(0) before its return.                                        *)
KillRefused(p) == ~Runs(p) \/ p \in Protected

process_kill(i) ==
  LET p == items[i].pid
  IN  /\ Ready
      /\ \/ KillRefused(p) /\ Abort
         \/ /\ ~KillRefused(p)
            /\ table' = [table EXCEPT ![p] = "Z"]
            /\ UNCHANGED <<agent, list, scan, seen>>

-----------------------------------------------------------------------------
ListNext ==
  \/ \E p \in Pids : Fork(p)
  \/ \E p \in Pids : ChangeState(p)
  \/ \E p \in Pids : Exit(p)
  \/ CollectAborts
  \/ CollectBegin
  \/ \E p \in Pids : GrowAndAdd(p)
  \/ \E p \in Pids : Add(p)
  \/ \E p \in Pids : BreakOff(p)
  \/ CollectEnd
  \/ \E i \in 1 .. count : process_read(i)
  \/ \E i \in 1 .. count : process_kill(i)

ListSpec == ListInit /\ [][ListNext]_listVars

-----------------------------------------------------------------------------
(* Properties *)

(* Types; the array of processes is as long as its capacity says. *)
ListTypeOK ==
  /\ table \in [Pids -> TaskStates \cup {"none"}]
  /\ agent \in {"up", "aborted"}
  /\ count \in Nat /\ list_capacity \in Nat /\ used \in Nat
  /\ count <= list_capacity
  /\ items \in [1 .. list_capacity -> [pid : Nat, state : {"undefined", "running", "sleeping",
                  "disk_sleeping", "stopped", "tracing_stopped", "zombie", "dead", "idle"}]]
  /\ cursor \in Nat /\ base \in Nat /\ cut \in BOOLEAN /\ collects \in Nat
  /\ since \subseteq Pids /\ during \subseteq Pids

Collected == base + 1 .. count

(* A collection that was not cut off lists every process that ran           *)
(* throughout it, whatever started, ended or changed meanwhile.             *)
AllRunningListed ==
  cursor = 0 /\ collects > 0 /\ ~cut =>
    \A p \in since : \E i \in Collected : items[i].pid = p

(* A collection lists only processes that ran at some time in it, each one  *)
(* once; growing the array in the middle of it harms no entry.              *)
ListedOnceAndRan ==
  /\ \A i \in Collected : items[i].pid \in during
  /\ \A i, j \in Collected : i < j => items[i].pid < items[j].pid

(* A collection is cut off only with a long list: the arrays it outgrew     *)
(* cost no more than the one it has, so the arena that has no room for the  *)
(* next one is filled to more than a quarter with entries.                  *)
CutListIsLong ==
  cut => 4 * count > Room + FIRST

(* Why: the arrays are FIRST, 2 * FIRST, ... up to the capacity long and    *)
(* come to just short of twice the last; a collection that was cut off had  *)
(* filled the last, and one twice as long does not fit behind them.         *)
ArrayInv ==
  /\ \/ list_capacity = 0 /\ used = 0
     \/ used = 2 * list_capacity - FIRST
  /\ cut => count = list_capacity /\ used + 2 * list_capacity > Room

(* Why a collection misses nothing: readdir has passed the processes below  *)
(* cursor and none from there on is collected yet, so those that have run   *)
(* all the time are listed or still ahead; doubling the array makes it      *)
(* longer, as it is not empty; and every entry names a process.             *)
ScanInv ==
  /\ base <= count
  /\ \A i \in 1 .. count : items[i].pid \in Pids
  /\ cursor # 0 =>
       /\ list_capacity # 0 /\ ~cut
       /\ \A i \in Collected : items[i].pid < cursor
       /\ \A p \in Pids : Runs(p) => p \in during
       /\ \A p \in since : Runs(p) /\ (p < cursor => \E i \in Collected : items[i].pid = p)

ListInv == ListTypeOK /\ ScanInv /\ AllRunningListed /\ ListedOnceAndRan /\ ArrayInv

(* "Collect all running process IDs": when a collection is done the list    *)
(* holds no process that did not run during it.                             *)
NoStaleEntries ==
  cursor = 0 => \A i \in 1 .. count : items[i].pid \in during

(* "ERR_INVALID if pid is invalid or process not found": signalling a       *)
(* process that has just ended is an error for the caller only.             *)
KillReturnsErrors ==
  [][(\E i \in 1 .. count : process_kill(i)) => agent' = "up"]_listVars

=============================================================================
