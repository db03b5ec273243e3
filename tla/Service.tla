------------------------------- MODULE Service -------------------------------
(***************************************************************************)
(* The agent's gRPC server (grpc/server/server.cc) and the handlers of     *)
(* grpc/handlers/resource_handler.cc, run by a pool of threads that share  *)
(* the memory mappings of one process.                                     *)
(*                                                                         *)
(* Time and the state of the machine advance together: now counts the      *)
(* moments at which /proc reads differently, and a reading is the moment   *)
(* it was taken at.  A deadline is a moment too; MaxTime serves as one     *)
(* that never passes.                                                      *)
(***************************************************************************)
EXTENDS Integers, Sequences, FiniteSets

CONSTANTS
  Threads,   \* the pool of the gRPC runtime
  MapIds,    \* the mappings the kernel grants one process (vm.max_map_count)
  NULL,      \* the null pointer
  Machines,  \* the machines the agent may find itself on
  I8_MAX,    \* the largest i8, the loop variable over the cores
  MaxTime    \* bound: moments in a behaviour

Files == {"cpuinfo", "enabled", "model", "scaling_cur_freq",
          "meminfo", "partitions", "os-release", "uptime"}

ASSUME ServiceAssumption ==
  /\ IsFiniteSet(Threads) /\ IsFiniteSet(MapIds)
  /\ NULL \notin MapIds
  /\ Machines \subseteq [arch : {"amd64", "arm64"},
                        highest : Nat,          \* number of the highest core
                        missing : SUBSET Files] \* files that cannot be read
  /\ I8_MAX \in Nat
  /\ MaxTime \in Nat

Readers == {"cpu", "ram", "disk", "device"}

(* The readers each registered call runs, in order. *)
Plan(kind) ==
  CASE kind = "GetSystemResources" -> <<"cpu", "ram", "disk", "device">>
    [] kind = "GetCpu"             -> <<"cpu">>
    [] kind = "GetMemory"          -> <<"ram">>

Kinds == {"GetSystemResources", "GetCpu", "GetMemory"}

VARIABLES
  machine,    \* what the process was built for and runs on
  proc,       \* the process: "starting", "serving", "no_port", "aborted"
  now,        \* the current moment
  pc,         \* where each thread is
  call,       \* the call it serves: kind, deadline, moment of arrival
  cancelled,  \* ctx->IsCancelled()
  todo,       \* readers not yet finished
  taken,      \* when each reader read
  status,     \* the grpc::Status returned
  core,       \* i in cpu_read_enabled_core_cpu_frequency
  maps,       \* the mappings that exist
  arena,      \* the handler's temp_arena
  scratch,    \* the temp_arena of sys_ram_read
  late,       \* calls that returned DEADLINE_EXCEEDED between two readers
  refused     \* the kernel once had a mapping left and refused it

locals == <<call, cancelled, todo, taken, status, core>>
memory == <<maps, arena, scratch, late, refused>>
vars == <<machine, proc, now, pc, locals, memory>>

(* Mutant: a missing os-release ends the process too. *)
DeviceFiles_all == {"os-release", "uptime"}

(* device_read returns early without os-release. *)
DeviceFiles == IF "os-release" \in machine.missing THEN {} ELSE {"uptime"}

(* Without the file of this reader the process aborts: assert(0) stands     *)
(* before every return of an error, except for os-release in device_read.   *)
Needs(reader) ==
  CASE reader = "cpu"    -> IF machine.arch = "arm64" THEN {"enabled", "model"} ELSE {"cpuinfo"}
    [] reader = "ram"    -> {"meminfo"}
    [] reader = "disk"   -> {"partitions"}
    [] reader = "device" -> DeviceFiles

NoCall == [kind |-> "none", deadline |-> 0, start |-> 0]
NotTaken == [r \in Readers |-> -1]

Init ==
  /\ machine \in Machines
  /\ proc = "starting"
  /\ now = 0
  /\ pc = [t \in Threads |-> "idle"]
  /\ call = [t \in Threads |-> NoCall]
  /\ cancelled = [t \in Threads |-> FALSE]
  /\ todo = [t \in Threads |-> <<>>]
  /\ taken = [t \in Threads |-> NotTaken]
  /\ status = [t \in Threads |-> "none"]
  /\ core = [t \in Threads |-> 0]
  /\ maps = {}
  /\ arena = [t \in Threads |-> NULL]
  /\ scratch = [t \in Threads |-> NULL]
  /\ late = 0
  /\ refused = FALSE

-----------------------------------------------------------------------------
(* grpc_server_setup.  BuildAndStart returns no server when port 5000 is    *)
(* taken, and Wait is then called through a null pointer.                   *)
StartServing ==
  /\ proc = "starting"
  /\ proc' = "serving"
  /\ UNCHANGED <<machine, now, pc, locals, memory>>

StartFails ==
  /\ proc = "starting"
  /\ proc' = "no_port"
  /\ UNCHANGED <<machine, now, pc, locals, memory>>

-----------------------------------------------------------------------------
(* The gRPC runtime and the clients *)

Tick ==
  /\ now < MaxTime
  /\ now' = now + 1
  /\ UNCHANGED <<machine, proc, pc, locals, memory>>

At(t, where) == proc = "serving" /\ pc[t] = where

Goto(t, where) == pc' = [pc EXCEPT ![t] = where]

Accept(t, kind, deadline) ==
  /\ At(t, "idle")
  /\ Goto(t, "entry")
  /\ call' = [call EXCEPT ![t] = [kind |-> kind, deadline |-> deadline, start |-> now]]
  /\ UNCHANGED <<machine, proc, now, cancelled, todo, taken, status, core, memory>>

(* The client cancels or disconnects; only the entry of a handler looks. *)
Cancel(t) ==
  /\ proc = "serving"
  /\ pc[t] \notin {"idle", "returned"}
  /\ ~cancelled[t]
  /\ cancelled' = [cancelled EXCEPT ![t] = TRUE]
  /\ UNCHANGED <<machine, proc, now, pc, call, todo, taken, status, core, memory>>

(* The runtime sends the status and the reply and frees the thread. *)
Deliver(t) ==
  /\ At(t, "returned")
  /\ Goto(t, "idle")
  /\ call' = [call EXCEPT ![t] = NoCall]
  /\ cancelled' = [cancelled EXCEPT ![t] = FALSE]
  /\ todo' = [todo EXCEPT ![t] = <<>>]
  /\ taken' = [taken EXCEPT ![t] = NotTaken]
  /\ status' = [status EXCEPT ![t] = "none"]
  /\ UNCHANGED <<machine, proc, now, core, memory>>

-----------------------------------------------------------------------------
(* The handlers *)

Return(t, code) ==
  /\ Goto(t, "returned")
  /\ status' = [status EXCEPT ![t] = code]

Expired(t) == call[t].deadline < now

RejectCancelled(t) ==
  /\ At(t, "entry")
  /\ cancelled[t]
  /\ Return(t, "CANCELLED")
  /\ UNCHANGED <<machine, proc, now, call, cancelled, todo, taken, core, memory>>

RejectExpired(t) ==
  /\ At(t, "entry")
  /\ ~cancelled[t]
  /\ Expired(t)
  /\ Return(t, "DEADLINE_EXCEEDED")
  /\ UNCHANGED <<machine, proc, now, call, cancelled, todo, taken, core, memory>>

Admit(t) ==
  /\ At(t, "entry")
  /\ ~cancelled[t]
  /\ ~Expired(t)
  /\ Goto(t, "map")
  /\ UNCHANGED <<machine, proc, now, locals, memory>>

(* What mmap can return: any mapping that is free, and at any time nothing, *)
(* for want of mappings or of memory.                                       *)
Mmap == (MapIds \ maps) \cup {NULL}

Refused(m) == refused \/ (m = NULL /\ MapIds \ maps # {})

(* Mutant: arena_create does not test for MAP_FAILED. *)
Mapped_untested(m) == maps \cup {m}

Mapped(m) == maps \cup ({m} \ {NULL})

(* arena_create and the *_create calls.  A null arena passes on as null     *)
(* structures, which the first reader finds.                                *)
CreateArena(t) ==
  /\ At(t, "map")
  /\ \E m \in Mmap :
       /\ arena' = [arena EXCEPT ![t] = m]
       /\ maps' = Mapped(m)
       /\ refused' = Refused(m)
  /\ todo' = [todo EXCEPT ![t] = Plan(call[t].kind)]
  /\ Goto(t, "read")
  /\ UNCHANGED <<machine, proc, now, call, cancelled, taken, status, core, scratch, late>>

Reading(t, reader) == At(t, "read") /\ Head(todo[t]) = reader

CanRead(t) == arena[t] # NULL /\ Needs(Head(todo[t])) \cap machine.missing = {}

(* A null structure or a missing file runs into assert(0). *)
ReaderAborts(t) ==
  /\ At(t, "read")
  /\ ~CanRead(t)
  /\ proc' = "aborted"
  /\ UNCHANGED <<machine, now, pc, locals, memory>>

Took(t) == taken' = [taken EXCEPT ![t][Head(todo[t])] = now]

(* A reader that leaves the mappings alone. *)
Read(t, reader) ==
  /\ Reading(t, reader)
  /\ CanRead(t)
  /\ Took(t)
  /\ Goto(t, "check")
  /\ UNCHANGED <<machine, proc, now, call, cancelled, todo, status, core, memory>>

cpu_read_amd64(t) == machine.arch = "amd64" /\ Read(t, "cpu")

(* cpu_read_arm64 reads the number of the highest core and the model, then  *)
(* enters the loop over the cores ...                                       *)
cpu_read_arm64(t) ==
  /\ machine.arch = "arm64"
  /\ Reading(t, "cpu")
  /\ CanRead(t)
  /\ Goto(t, "loop")
  /\ core' = [core EXCEPT ![t] = 0]
  /\ UNCHANGED <<machine, proc, now, call, cancelled, todo, taken, status, memory>>

(* i++ on an i8. *)
Increment(i) == IF i = I8_MAX THEN -I8_MAX - 1 ELSE i + 1

(* ... which ends when i has passed the highest one ... *)
NextCore(t) ==
  /\ At(t, "loop")
  /\ core[t] <= machine.highest
  /\ core' = [core EXCEPT ![t] = Increment(core[t])]
  /\ UNCHANGED <<machine, proc, now, pc, call, cancelled, todo, taken, status, memory>>

(* ... and reads one frequency, that of the last path; i is gone then. *)
ReadFrequency(t) ==
  /\ At(t, "loop")
  /\ core[t] > machine.highest
  /\ "scaling_cur_freq" \notin machine.missing
  /\ Took(t)
  /\ Goto(t, "check")
  /\ core' = [core EXCEPT ![t] = 0]
  /\ UNCHANGED <<machine, proc, now, call, cancelled, todo, status, memory>>

FrequencyAborts(t) ==
  /\ At(t, "loop")
  /\ core[t] > machine.highest
  /\ "scaling_cur_freq" \in machine.missing
  /\ proc' = "aborted"
  /\ UNCHANGED <<machine, now, pc, locals, memory>>

cpu_read(t) ==
  \/ cpu_read_amd64(t)
  \/ cpu_read_arm64(t)
  \/ NextCore(t)
  \/ ReadFrequency(t)
  \/ FrequencyAborts(t)

disk_read(t) == Read(t, "disk")

(* Without os-release nothing is read and the handler goes on. *)
device_read(t) ==
  /\ Reading(t, "device")
  /\ CanRead(t)
  /\ IF "os-release" \in machine.missing THEN UNCHANGED taken ELSE Took(t)
  /\ Goto(t, "check")
  /\ UNCHANGED <<machine, proc, now, call, cancelled, todo, status, core, memory>>

(* sys_ram_read maps an arena of its own after it has opened the file ... *)
OpenMeminfo(t) ==
  /\ Reading(t, "ram")
  /\ CanRead(t)
  /\ \E m \in Mmap :
       /\ scratch' = [scratch EXCEPT ![t] = m]
       /\ maps' = Mapped(m)
       /\ refused' = Refused(m)
  /\ Goto(t, "scan")
  /\ UNCHANGED <<machine, proc, now, locals, arena, late>>

(* ... copies the numbers into it, to address 0 if there is no arena ... *)
ScanFaults(t) ==
  /\ At(t, "scan")
  /\ scratch[t] = NULL
  /\ proc' = "aborted"
  /\ UNCHANGED <<machine, now, pc, locals, memory>>

(* Mutant: the caller's temp_arena is unmapped instead. *)
ScratchGone_wrong_arena(t) == maps \ {arena[t]}

ScratchGone(t) == maps \ {scratch[t]}

(* ... and unmaps it. *)
ScanMeminfo(t) ==
  /\ At(t, "scan")
  /\ scratch[t] # NULL
  /\ Took(t)
  /\ maps' = ScratchGone(t)
  /\ scratch' = [scratch EXCEPT ![t] = NULL]
  /\ Goto(t, "check")
  /\ UNCHANGED <<machine, proc, now, call, cancelled, todo, status, core, arena, late, refused>>

(* Mutant: no look at the deadline after the last reader. *)
Checked_not_last(t) ==
  call[t].kind = "GetSystemResources" /\ Len(todo[t]) > 1 => ~Expired(t)

(* After every reader get_system_resources_impl looks at the deadline; the  *)
(* other handlers do not.  This return leaves temp_arena mapped.            *)
Checked(t) == call[t].kind = "GetSystemResources" => ~Expired(t)

GiveUp(t) ==
  /\ At(t, "check")
  /\ ~Checked(t)
  /\ Return(t, "DEADLINE_EXCEEDED")
  /\ arena' = [arena EXCEPT ![t] = NULL]
  /\ late' = late + 1
  /\ UNCHANGED <<machine, proc, now, call, cancelled, todo, taken, core, maps, scratch, refused>>

(* Mutant: the reader just finished is run again. *)
Rest_same(t) == todo[t]

Rest(t) == Tail(todo[t])

Continue(t) ==
  /\ At(t, "check")
  /\ Checked(t)
  /\ todo' = [todo EXCEPT ![t] = Rest(t)]
  /\ Goto(t, IF Rest(t) = <<>> THEN "finish" ELSE "read")
  /\ UNCHANGED <<machine, proc, now, call, cancelled, taken, status, core, memory>>

(* Mutant: no arena_destroy. *)
ArenaGone_not(t) == maps

ArenaGone(t) == maps \ {arena[t]}

(* The reply is filled from the structures, then the arena goes. *)
Finish(t) ==
  /\ At(t, "finish")
  /\ Return(t, "OK")
  /\ maps' = ArenaGone(t)
  /\ arena' = [arena EXCEPT ![t] = NULL]
  /\ UNCHANGED <<machine, proc, now, call, cancelled, todo, taken, core, scratch, late, refused>>

-----------------------------------------------------------------------------
(* A thread in a handler: get_cpu_impl and get_ram_impl take the steps of   *)
(* get_system_resources_impl with one reader and no look at the deadline    *)
(* after it.                                                                *)
Step(t) ==
  \/ RejectCancelled(t)
  \/ RejectExpired(t)
  \/ Admit(t)
  \/ CreateArena(t)
  \/ ReaderAborts(t)
  \/ cpu_read(t)
  \/ disk_read(t)
  \/ device_read(t)
  \/ OpenMeminfo(t)
  \/ ScanFaults(t)
  \/ ScanMeminfo(t)
  \/ GiveUp(t)
  \/ Continue(t)
  \/ Finish(t)
  \/ Deliver(t)

Next ==
  \/ StartServing
  \/ StartFails
  \/ Tick
  \/ \E t \in Threads, kind \in Kinds, deadline \in 0 .. MaxTime : Accept(t, kind, deadline)
  \/ \E t \in Threads : Cancel(t)
  \/ \E t \in Threads : Step(t)

Spec == Init /\ [][Next]_vars

(* The operating system runs every thread that can run.  Nothing is assumed *)
(* of the clients or of the clock.                                          *)
FairSpec == Spec /\ \A t \in Threads : WF_vars(Step(t))

-----------------------------------------------------------------------------
(* Properties *)

Times == 0 .. MaxTime

(* Every variable has its type. *)
TypeOK ==
  /\ machine \in Machines
  /\ proc \in {"starting", "serving", "no_port", "aborted"}
  /\ now \in Times
  /\ pc \in [Threads -> {"idle", "entry", "map", "read", "loop", "scan", "check", "finish",
                      "returned"}]
  /\ call \in [Threads -> [kind : Kinds \cup {"none"}, deadline : Times, start : Times]]
  /\ cancelled \in [Threads -> BOOLEAN]
  /\ todo \in [Threads -> Seq(Readers)]
  /\ taken \in [Threads -> [Readers -> Times \cup {-1}]]
  /\ status \in [Threads -> {"none", "OK", "CANCELLED", "DEADLINE_EXCEEDED"}]
  /\ core \in [Threads -> -I8_MAX - 1 .. I8_MAX]
  /\ maps \subseteq MapIds
  /\ arena \in [Threads -> MapIds \cup {NULL}]
  /\ scratch \in [Threads -> MapIds \cup {NULL}]
  /\ late \in Nat
  /\ refused \in BOOLEAN

(* A mapping that a thread works in exists, and no other thread's arena or  *)
(* scratch is in it: no call sees or frees the memory of another.           *)
Isolation ==
  \A t, u \in Threads :
    /\ arena[t] # NULL =>
         arena[t] \in maps /\ (t # u => arena[t] # arena[u]) /\ arena[t] # scratch[u]
    /\ scratch[t] # NULL =>
         scratch[t] \in maps /\ (t # u => scratch[t] # scratch[u])

Held == {arena[t] : t \in Threads} \cup {scratch[t] : t \in Threads}

(* A mapping that no thread holds was left behind by a call that returned   *)
(* DEADLINE_EXCEEDED between two readers; no other path loses one.          *)
LostOnlyWhenLate == Cardinality(maps) = Cardinality(Held \ {NULL}) + late

UsedUp == late >= Cardinality(MapIds) - 2 * Cardinality(Threads) + 1

Readable == machine.missing \subseteq {"os-release"}

(* With every file but os-release readable and memory to be had, the        *)
(* process goes down only after late calls have used up all but the         *)
(* mappings the threads can hold at once: one failing thread with at most   *)
(* its arena, every other one with two.                                     *)
DownOnlyAfterLeaks == proc = "aborted" => ~Readable \/ refused \/ UsedUp

Answered(t, kind) == pc[t] = "returned" /\ status[t] = "OK" /\ call[t].kind = kind

(* The readers that read anything on this machine. *)
Reads == IF "os-release" \in machine.missing THEN Readers \ {"device"} ELSE Readers

(* An OK reply to GetSystemResources holds a cpu and a memory reading of    *)
(* this call, in that order, and everything was read by the deadline.       *)
ReadingsInCall ==
  \A t \in Threads :
    Answered(t, "GetSystemResources") =>
      /\ call[t].start <= taken[t]["cpu"]
      /\ taken[t]["cpu"] <= taken[t]["ram"]
      /\ \A r \in Reads : call[t].start <= taken[t][r] /\ taken[t][r] <= call[t].deadline

(* No i8 is above this machine's highest core: the loop never ends. *)
LoopsForever(t) ==
  pc[t] = "loop" /\ machine.arch = "arm64" /\ machine.highest >= I8_MAX

(* Every accepted call is answered, or the process goes down, or the call   *)
(* reads the cpu of an ARM machine whose highest core is I8_MAX or above.   *)
EveryCallAnswered ==
  \A t \in Threads :
    pc[t] = "entry" ~> (pc[t] = "returned" \/ proc = "aborted" \/ LoopsForever(t))

(* "Blocks forever": once it serves, the server goes on serving as long as  *)
(* the kernel has memory for it.                                            *)
ServerStaysUp == proc = "aborted" => refused

-----------------------------------------------------------------------------
(* The inductive invariant of the proofs *)

(* Which pointers a thread holds and what it has left to do, by its place.  *)
PlaceInv ==
  \A t \in Threads :
    /\ pc[t] # "idle" => call[t].kind \in Kinds
    /\ pc[t] \in {"idle", "entry", "map", "returned"} => arena[t] = NULL
    /\ pc[t] \in {"loop", "scan", "check", "finish"} => arena[t] # NULL
    /\ pc[t] # "scan" => scratch[t] = NULL
    /\ pc[t] \in {"read", "loop", "scan", "check"} => todo[t] # <<>>

(* Readings are taken within the call, memory after cpu.                    *)
ReadingsOrdered(t) ==
  /\ call[t].start <= now
  /\ \A r \in Readers :
       taken[t][r] # -1 => call[t].start <= taken[t][r] /\ taken[t][r] <= now
  /\ pc[t] \in {"idle", "entry", "map"} => \A r \in Readers : taken[t][r] = -1

(* With left to do, exactly the readers in done have read, and the next one *)
(* too when its deadline check is due, unless it reads nothing.             *)
Progress(t, next, left, done) ==
  /\ todo[t] = left
  /\ \A r \in done : taken[t][r] # -1
  /\ \A r \in Readers \ done : r # next => taken[t][r] = -1
  /\ pc[t] = "check" /\ next \in Reads => taken[t][next] # -1

SystemProgress(t) ==
  \/ Progress(t, "cpu", <<"cpu", "ram", "disk", "device">>, {})
  \/ Progress(t, "ram", <<"ram", "disk", "device">>, {"cpu"})
  \/ Progress(t, "disk", <<"disk", "device">>, {"cpu", "ram"})
  \/ Progress(t, "device", <<"device">>, {"cpu", "ram", "disk"})

CallInv(t) ==
  /\ ReadingsOrdered(t)
  /\ call[t].kind = "GetSystemResources" =>
       /\ pc[t] \in {"read", "loop", "scan", "check"} => SystemProgress(t)
       /\ taken[t]["ram"] # -1 =>
            taken[t]["cpu"] # -1 /\ taken[t]["cpu"] <= taken[t]["ram"]
       /\ pc[t] = "finish" \/ Answered(t, "GetSystemResources") =>
            \A r \in Reads : taken[t][r] # -1 /\ taken[t][r] <= call[t].deadline

ReadInv == \A t \in Threads : CallInv(t)

IInv == TypeOK /\ PlaceInv /\ Isolation /\ ReadInv

(* A thread that is about to find a null arena was refused one, or got it   *)
(* when no mapping was left.  Others may have given some back since, but    *)
(* late calls have not.                                                     *)
FailInv ==
  \A t \in Threads :
    /\ pc[t] = "read" /\ arena[t] = NULL => refused \/ UsedUp
    /\ pc[t] = "scan" /\ scratch[t] = NULL => refused \/ UsedUp

=============================================================================
