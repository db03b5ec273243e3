---------------------------- MODULE ServiceProofs ----------------------------
(***************************************************************************)
(* Theorems about Service for any number of threads and of mappings, any   *)
(* machine and any number of moments.                                      *)
(***************************************************************************)
EXTENDS Service, FiniteSetTheorems, TLAPS

LEMMA PlanType ==
  ASSUME NEW k \in Kinds
  PROVE  Plan(k) \in Seq(Readers) /\ Plan(k) # <<>>
<1>1. CASE k = "GetSystemResources"
  <2>1. Plan(k) = <<"cpu", "ram", "disk", "device">>
    BY <1>1 DEF Plan
  <2> QED BY <2>1 DEF Readers
<1>2. CASE k = "GetCpu"
  <2>1. Plan(k) = <<"cpu">>
    BY <1>2 DEF Plan
  <2> QED BY <2>1 DEF Readers
<1>3. CASE k = "GetMemory"
  <2>1. Plan(k) = <<"ram">>
    BY <1>3 DEF Plan
  <2> QED BY <2>1 DEF Readers
<1> QED BY <1>1, <1>2, <1>3 DEF Kinds

LEMMA InitIInv == Init => IInv
<1> SUFFICES ASSUME Init PROVE IInv
  OBVIOUS
<1>1. TypeOK
  <2>1. call \in [Threads -> [kind : Kinds \cup {"none"}, deadline : Times, start : Times]]
    BY ServiceAssumption DEF Init, NoCall, Times
  <2>2. taken \in [Threads -> [Readers -> Times \cup {-1}]]
    BY DEF Init, NotTaken
  <2>3. cancelled \in [Threads -> BOOLEAN]
    BY DEF Init
  <2>4. todo \in [Threads -> Seq(Readers)]
    BY DEF Init
  <2>5. core \in [Threads -> -I8_MAX - 1 .. I8_MAX]
    BY ServiceAssumption DEF Init
  <2>6. refused \in BOOLEAN
    BY DEF Init
  <2> QED BY <2>1, <2>2, <2>3, <2>4, <2>5, <2>6, ServiceAssumption DEF Init, TypeOK, Times
<1>2. PlaceInv /\ Isolation
  BY DEF Init, PlaceInv, Isolation
<1>3. ReadInv
  BY ServiceAssumption
  DEF Init, ReadInv, CallInv, ReadingsOrdered, Answered, NoCall, NotTaken, Readers
<1> QED BY <1>1, <1>2, <1>3 DEF IInv

(* The machine stays what it is. *)
LEMMA MachineStays ==
  ASSUME [Next]_vars
  PROVE  machine' = machine
  BY DEF Next, vars, Step, StartServing, StartFails, Tick, Accept, Cancel, Deliver,
     RejectCancelled, RejectExpired, Admit, CreateArena, ReaderAborts, cpu_read,
     cpu_read_amd64, cpu_read_arm64, NextCore, ReadFrequency, FrequencyAborts, disk_read,
     device_read, Read, OpenMeminfo, ScanFaults, ScanMeminfo, GiveUp, Continue, Finish

-----------------------------------------------------------------------------
(* Type correctness, one action at a time *)

LEMMA TypeStep ==
  ASSUME TypeOK, PlaceInv, [Next]_vars
  PROVE  TypeOK'
<1> USE DEF TypeOK, locals, memory
<1>1. CASE StartServing \/ StartFails
  BY <1>1 DEF StartServing, StartFails
<1>2. CASE Tick
  BY <1>2, ServiceAssumption DEF Tick, Times
<1>3. ASSUME NEW t \in Threads, NEW kind \in Kinds, NEW deadline \in 0 .. MaxTime,
             Accept(t, kind, deadline)
      PROVE  TypeOK'
  BY <1>3 DEF Accept, Goto, Times
<1>4. ASSUME NEW t \in Threads, Cancel(t) PROVE TypeOK'
  BY <1>4 DEF Cancel
<1>5. ASSUME NEW t \in Threads, RejectCancelled(t) \/ RejectExpired(t) PROVE TypeOK'
  BY <1>5 DEF RejectCancelled, RejectExpired, Return, Goto
<1>6. ASSUME NEW t \in Threads, Admit(t) PROVE TypeOK'
  BY <1>6 DEF Admit, Goto
<1>7. ASSUME NEW t \in Threads, CreateArena(t) PROVE TypeOK'
  <2>1. PICK m \in Mmap : /\ arena' = [arena EXCEPT ![t] = m]
                          /\ maps' = maps \cup ({m} \ {NULL})
    BY <1>7 DEF CreateArena, Mapped
  <2>2. m \in MapIds \cup {NULL}
    BY DEF Mmap
  <2>3. call[t].kind \in Kinds
    BY <1>7 DEF PlaceInv, CreateArena, Mapped, At
  <2>4. Plan(call[t].kind) \in Seq(Readers)
    BY <2>3, PlanType
  <2>5. todo' \in [Threads -> Seq(Readers)]
    BY <1>7, <2>4 DEF CreateArena, Mapped
  <2>6. arena' \in [Threads -> MapIds \cup {NULL}] /\ maps' \subseteq MapIds
    BY <2>1, <2>2
  <2>7. refused' \in BOOLEAN
    BY <1>7 DEF CreateArena, Refused
  <2> QED BY <1>7, <2>5, <2>6, <2>7 DEF CreateArena, Mapped, Goto
<1>8. ASSUME NEW t \in Threads, ReaderAborts(t) \/ ScanFaults(t) \/ FrequencyAborts(t)
      PROVE  TypeOK'
  BY <1>8 DEF ReaderAborts, ScanFaults, FrequencyAborts
<1>9. ASSUME NEW t \in Threads, todo[t] # <<>>, Took(t)
      PROVE  taken' \in [Threads -> [Readers -> Times \cup {-1}]]
  <2>1. Head(todo[t]) \in Readers
    BY <1>9
  <2> QED BY <1>9, <2>1 DEF Took, Times
<1>10. ASSUME NEW t \in Threads, NEW reader \in Readers, Read(t, reader) PROVE TypeOK'
  <2>1. todo[t] # <<>> /\ Took(t)
    BY <1>10 DEF Read, Reading, At, PlaceInv
  <2> QED BY <1>9, <1>10, <2>1 DEF Read, Goto
<1>11. ASSUME NEW t \in Threads, OpenMeminfo(t) PROVE TypeOK'
  <2>1. PICK m \in Mmap : /\ scratch' = [scratch EXCEPT ![t] = m]
                          /\ maps' = maps \cup ({m} \ {NULL})
    BY <1>11 DEF OpenMeminfo, Mapped
  <2>2. m \in MapIds \cup {NULL}
    BY DEF Mmap
  <2>3. refused' \in BOOLEAN
    BY <1>11 DEF OpenMeminfo, Refused
  <2> QED BY <1>11, <2>1, <2>2, <2>3 DEF OpenMeminfo, Mapped, Goto
<1>12. ASSUME NEW t \in Threads, ScanMeminfo(t) PROVE TypeOK'
  <2>1. todo[t] # <<>> /\ Took(t)
    BY <1>12 DEF ScanMeminfo, ScratchGone, At, PlaceInv
  <2> QED BY <1>9, <1>12, <2>1 DEF ScanMeminfo, ScratchGone, Goto
<1>13. ASSUME NEW t \in Threads, GiveUp(t) PROVE TypeOK'
  BY <1>13 DEF GiveUp, Return, Goto
<1>14. ASSUME NEW t \in Threads, Continue(t) PROVE TypeOK'
  <2>1. Tail(todo[t]) \in Seq(Readers)
    BY <1>14 DEF Continue, Rest, At, PlaceInv
  <2> QED BY <1>14, <2>1 DEF Continue, Rest, Goto
<1>15. ASSUME NEW t \in Threads, Finish(t) PROVE TypeOK'
  BY <1>15 DEF Finish, ArenaGone, Return, Goto
<1>16. ASSUME NEW t \in Threads, Deliver(t) PROVE TypeOK'
  <2>1. call' \in [Threads -> [kind : Kinds \cup {"none"}, deadline : Times, start : Times]]
    BY <1>16, ServiceAssumption DEF Deliver, NoCall, Times
  <2>2. taken' \in [Threads -> [Readers -> Times \cup {-1}]]
    BY <1>16 DEF Deliver, NotTaken
  <2>3. todo' \in [Threads -> Seq(Readers)]
    BY <1>16 DEF Deliver
  <2>4. cancelled' \in [Threads -> BOOLEAN]
    BY <1>16 DEF Deliver
  <2> QED BY <1>16, <2>1, <2>2, <2>3, <2>4 DEF Deliver, Goto
<1>17. ASSUME NEW t \in Threads, cpu_read_arm64(t) PROVE TypeOK'
  <2>1. core' \in [Threads -> -I8_MAX - 1 .. I8_MAX]
    BY <1>17, ServiceAssumption DEF cpu_read_arm64
  <2> QED BY <1>17, <2>1 DEF cpu_read_arm64, Goto
<1>18. ASSUME NEW t \in Threads, NextCore(t) PROVE TypeOK'
  <2>1. Increment(core[t]) \in -I8_MAX - 1 .. I8_MAX
    BY ServiceAssumption DEF Increment
  <2> QED BY <1>18, <2>1 DEF NextCore
<1>19. ASSUME NEW t \in Threads, ReadFrequency(t) PROVE TypeOK'
  <2>1. todo[t] # <<>> /\ Took(t)
    BY <1>19 DEF ReadFrequency, At, PlaceInv
  <2>2. core' \in [Threads -> -I8_MAX - 1 .. I8_MAX]
    BY <1>19, ServiceAssumption DEF ReadFrequency
  <2> QED BY <1>9, <1>19, <2>1, <2>2 DEF ReadFrequency, Goto
<1>20. ASSUME NEW t \in Threads, device_read(t) PROVE TypeOK'
  <2>1. todo[t] # <<>> /\ (taken' = taken \/ Took(t))
    BY <1>20 DEF device_read, Reading, At, PlaceInv
  <2> QED BY <1>9, <1>20, <2>1 DEF device_read, Goto
<1>21. CASE UNCHANGED vars
  BY <1>21 DEF vars
<1> QED
  BY <1>1, <1>2, <1>3, <1>4, <1>5, <1>6, <1>7, <1>8, <1>10, <1>11, <1>12, <1>13, <1>14,
     <1>15, <1>16, <1>17, <1>18, <1>19, <1>20, <1>21
  DEF Next, Step, cpu_read, cpu_read_amd64, disk_read, Readers

-----------------------------------------------------------------------------
(* A step of thread t leaves the place and the pointers of the others. *)

LEMMA PlaceStep ==
  ASSUME TypeOK, TypeOK', PlaceInv, [Next]_vars
  PROVE  PlaceInv'
<1> USE DEF TypeOK, locals, memory, PlaceInv
<1>1. CASE StartServing \/ StartFails \/ Tick
  BY <1>1 DEF StartServing, StartFails, Tick
<1>3. ASSUME NEW t \in Threads, NEW kind \in Kinds, NEW deadline \in 0 .. MaxTime,
             Accept(t, kind, deadline)
      PROVE  PlaceInv'
  BY <1>3 DEF Accept, Goto, At
<1>4. ASSUME NEW t \in Threads, Cancel(t) PROVE PlaceInv'
  BY <1>4 DEF Cancel
<1>5. ASSUME NEW t \in Threads, RejectCancelled(t) \/ RejectExpired(t) PROVE PlaceInv'
  BY <1>5 DEF RejectCancelled, RejectExpired, Return, Goto, At
<1>6. ASSUME NEW t \in Threads, Admit(t) PROVE PlaceInv'
  BY <1>6 DEF Admit, Goto, At
<1>7. ASSUME NEW t \in Threads, CreateArena(t) PROVE PlaceInv'
  <2>1. PICK m \in Mmap : arena' = [arena EXCEPT ![t] = m]
    BY <1>7 DEF CreateArena, Mapped
  <2>2. Plan(call[t].kind) # <<>>
    BY <1>7, PlanType DEF CreateArena, Mapped, At
  <2>3. /\ pc[t] = "map" /\ pc' = [pc EXCEPT ![t] = "read"]
        /\ todo' = [todo EXCEPT ![t] = Plan(call[t].kind)]
        /\ call' = call /\ scratch' = scratch
    BY <1>7 DEF CreateArena, Mapped, Goto, At
  <2> QED BY <2>1, <2>2, <2>3
<1>8. ASSUME NEW t \in Threads, ReaderAborts(t) \/ ScanFaults(t) \/ FrequencyAborts(t)
      PROVE  PlaceInv'
  BY <1>8 DEF ReaderAborts, ScanFaults, FrequencyAborts
<1>10. ASSUME NEW t \in Threads, NEW reader \in Readers, Read(t, reader) PROVE PlaceInv'
  BY <1>10 DEF Read, Reading, Goto, At, CanRead
<1>11. ASSUME NEW t \in Threads, OpenMeminfo(t) PROVE PlaceInv'
  <2>1. PICK m \in Mmap : scratch' = [scratch EXCEPT ![t] = m]
    BY <1>11 DEF OpenMeminfo, Mapped
  <2> QED BY <1>11, <2>1 DEF OpenMeminfo, Mapped, Reading, Goto, At, CanRead
<1>12. ASSUME NEW t \in Threads, ScanMeminfo(t) PROVE PlaceInv'
  BY <1>12 DEF ScanMeminfo, ScratchGone, Goto, At
<1>13. ASSUME NEW t \in Threads, GiveUp(t) PROVE PlaceInv'
  BY <1>13 DEF GiveUp, Return, Goto, At
<1>14. ASSUME NEW t \in Threads, Continue(t) PROVE PlaceInv'
  BY <1>14 DEF Continue, Rest, Goto, At
<1>15. ASSUME NEW t \in Threads, Finish(t) PROVE PlaceInv'
  BY <1>15 DEF Finish, ArenaGone, Return, Goto, At
<1>16. ASSUME NEW t \in Threads, Deliver(t) PROVE PlaceInv'
  BY <1>16 DEF Deliver, Goto, At
<1>17. ASSUME NEW t \in Threads, cpu_read_arm64(t) \/ device_read(t) PROVE PlaceInv'
  BY <1>17 DEF cpu_read_arm64, device_read, Reading, Goto, At, CanRead
<1>18. ASSUME NEW t \in Threads, NextCore(t) \/ ReadFrequency(t) PROVE PlaceInv'
  BY <1>18 DEF NextCore, ReadFrequency, Goto, At
<1>19. CASE UNCHANGED vars
  BY <1>19 DEF vars
<1> QED
  BY <1>1, <1>3, <1>4, <1>5, <1>6, <1>7, <1>8, <1>10, <1>11, <1>12, <1>13, <1>14,
     <1>15, <1>16, <1>17, <1>18, <1>19
  DEF Next, Step, cpu_read, cpu_read_amd64, disk_read, Readers

-----------------------------------------------------------------------------
(* Isolation.  A new mapping is none that exists, so it is nobody's.        *)

LEMMA MmapIsFresh ==
  ASSUME NEW m \in Mmap, m # NULL
  PROVE  m \in MapIds /\ m \notin maps
  BY DEF Mmap

LEMMA IsolationStep ==
  ASSUME TypeOK, PlaceInv, Isolation, [Next]_vars
  PROVE  Isolation'
<1> USE DEF TypeOK, locals, memory, Isolation
<1>1. CASE UNCHANGED memory
  BY <1>1
<1>2. ASSUME NEW t \in Threads, CreateArena(t) PROVE Isolation'
  <2>1. PICK m \in Mmap : /\ arena' = [arena EXCEPT ![t] = m]
                          /\ maps' = maps \cup ({m} \ {NULL})
    BY <1>2 DEF CreateArena, Mapped
  <2>2. scratch' = scratch
    BY <1>2 DEF CreateArena, Mapped
  <2> QED BY <2>1, <2>2, MmapIsFresh
<1>3. ASSUME NEW t \in Threads, OpenMeminfo(t) PROVE Isolation'
  <2>1. PICK m \in Mmap : /\ scratch' = [scratch EXCEPT ![t] = m]
                          /\ maps' = maps \cup ({m} \ {NULL})
    BY <1>3 DEF OpenMeminfo, Mapped
  <2>2. arena' = arena
    BY <1>3 DEF OpenMeminfo, Mapped
  <2> QED BY <2>1, <2>2, MmapIsFresh
<1>4. ASSUME NEW t \in Threads, ScanMeminfo(t) PROVE Isolation'
  BY <1>4 DEF ScanMeminfo, ScratchGone
<1>5. ASSUME NEW t \in Threads, GiveUp(t) PROVE Isolation'
  BY <1>5 DEF GiveUp
<1>6. ASSUME NEW t \in Threads, Finish(t) PROVE Isolation'
  BY <1>6 DEF Finish, ArenaGone
<1>7. ASSUME NEW t \in Threads,
             \/ Deliver(t) \/ RejectCancelled(t) \/ RejectExpired(t) \/ Admit(t)
             \/ ReaderAborts(t) \/ (\E reader \in Readers : Read(t, reader))
             \/ ScanFaults(t) \/ Continue(t) \/ Cancel(t) \/ cpu_read(t) \/ device_read(t)
      PROVE  UNCHANGED memory
  BY <1>7 DEF Deliver, RejectCancelled, RejectExpired, Admit, ReaderAborts, Read,
              ScanFaults, Continue, Cancel, device_read, cpu_read, cpu_read_amd64,
              cpu_read_arm64, NextCore, ReadFrequency, FrequencyAborts
<1>8. ASSUME \/ StartServing \/ StartFails \/ Tick \/ UNCHANGED vars
             \/ \E t \in Threads, kind \in Kinds, deadline \in 0 .. MaxTime :
                  Accept(t, kind, deadline)
      PROVE  UNCHANGED memory
  BY <1>8 DEF StartServing, StartFails, Tick, Accept, vars
<1> QED
  BY <1>1, <1>2, <1>3, <1>4, <1>5, <1>6, <1>7, <1>8 DEF Next, Step, disk_read, Readers

-----------------------------------------------------------------------------
(* Readings.  What a call has read does not change while others run. *)

LEMMA CallFrame ==
  ASSUME TypeOK, NEW u \in Threads, CallInv(u),
         pc'[u] = pc[u], call'[u] = call[u], todo'[u] = todo[u],
         taken'[u] = taken[u], status'[u] = status[u], machine' = machine,
         now' \in Int, now <= now'
  PROVE  CallInv(u)'
<1>1. /\ now \in Int /\ call[u].start \in Int
      /\ \A r \in Readers : taken[u][r] \in Int
  BY ServiceAssumption DEF TypeOK, Times
<1>2. ReadingsOrdered(u)'
  BY <1>1 DEF CallInv, ReadingsOrdered
<1>3. SystemProgress(u) => SystemProgress(u)'
  BY DEF SystemProgress, Progress, Reads
<1> QED BY <1>2, <1>3 DEF CallInv, Answered, Reads

(* Nothing of another thread's call is touched. *)
OthersKept(t) ==
  \A u \in Threads \ {t} :
    /\ pc'[u] = pc[u] /\ call'[u] = call[u] /\ todo'[u] = todo[u]
    /\ taken'[u] = taken[u] /\ status'[u] = status[u]

LEMMA OthersFrame ==
  ASSUME TypeOK, ReadInv, NEW t \in Threads, OthersKept(t), now' = now, machine' = machine,
         CallInv(t)'
  PROVE  ReadInv'
<1>1. now \in Int /\ now <= now'
  BY ServiceAssumption DEF TypeOK, Times
<1>2. ASSUME NEW u \in Threads \ {t} PROVE CallInv(u)'
  BY <1>1, CallFrame DEF ReadInv, OthersKept
<1> QED BY <1>2 DEF ReadInv

(* A reader that reads now adds a reading not before those already taken.   *)
LEMMA TookCallInv ==
  ASSUME TypeOK, NEW t \in Threads, CallInv(t), pc[t] \in {"read", "loop", "scan"},
         todo[t] # <<>>, Took(t), pc'[t] = "check",
         call'[t] = call[t], todo'[t] = todo[t], now' = now, machine' = machine
  PROVE  CallInv(t)'
<1>1. Head(todo[t]) \in Readers
  BY DEF TypeOK
<1>2. taken'[t] = [taken[t] EXCEPT ![Head(todo[t])] = now]
  BY DEF Took, TypeOK
<1>3. /\ now \in Nat /\ call[t].start \in Nat /\ call[t].start <= now
      /\ taken[t] \in [Readers -> Int]
      /\ \A r \in Readers :
           taken[t][r] # -1 => call[t].start <= taken[t][r] /\ taken[t][r] <= now
  BY ServiceAssumption DEF TypeOK, Times, CallInv, ReadingsOrdered
<1>4. \A r \in Readers : taken'[t][r] = IF r = Head(todo[t]) THEN now ELSE taken[t][r]
  BY <1>2, <1>3
<1>5. ReadingsOrdered(t)'
  BY <1>3, <1>4 DEF ReadingsOrdered
<1>6. ASSUME call[t].kind = "GetSystemResources"
      PROVE  /\ SystemProgress(t)'
             /\ taken'[t]["ram"] # -1 =>
                  taken'[t]["cpu"] # -1 /\ taken'[t]["cpu"] <= taken'[t]["ram"]
  <2>1. /\ SystemProgress(t)
        /\ taken[t]["ram"] # -1 =>
             taken[t]["cpu"] # -1 /\ taken[t]["cpu"] <= taken[t]["ram"]
    BY <1>6 DEF CallInv
  <2>2. ASSUME NEW next \in Readers, NEW left, NEW done \in SUBSET Readers,
               Progress(t, next, left, done), Head(left) = next
        PROVE  Progress(t, next, left, done)' /\ Head(todo[t]) = next
    BY <1>3, <1>4, <2>2 DEF Progress
  <2>3. CASE Progress(t, "cpu", <<"cpu", "ram", "disk", "device">>, {})
    <3>1. Head(<<"cpu", "ram", "disk", "device">>) = "cpu"
      OBVIOUS
    <3>2. /\ Progress(t, "cpu", <<"cpu", "ram", "disk", "device">>, {})'
          /\ Head(todo[t]) = "cpu"
      BY <2>2, <2>3, <3>1 DEF Readers
    <3>3. taken'[t]["ram"] = -1
      BY <2>3, <3>2, <1>4 DEF Progress, Readers
    <3> QED BY <3>2, <3>3 DEF SystemProgress
  <2>4. CASE Progress(t, "ram", <<"ram", "disk", "device">>, {"cpu"})
    <3>1. Head(<<"ram", "disk", "device">>) = "ram"
      OBVIOUS
    <3>2. /\ Progress(t, "ram", <<"ram", "disk", "device">>, {"cpu"})'
          /\ Head(todo[t]) = "ram"
      BY <2>2, <2>4, <3>1 DEF Readers
    <3>3. taken'[t]["ram"] = now /\ taken'[t]["cpu"] = taken[t]["cpu"]
      BY <3>2, <1>4 DEF Readers
    <3>4. taken[t]["cpu"] # -1 /\ taken[t]["cpu"] <= now
      BY <2>4, <1>3 DEF Progress, Readers
    <3> QED BY <3>2, <3>3, <3>4 DEF SystemProgress
  <2>5. CASE Progress(t, "disk", <<"disk", "device">>, {"cpu", "ram"})
    <3>1. Head(<<"disk", "device">>) = "disk"
      OBVIOUS
    <3>2. /\ Progress(t, "disk", <<"disk", "device">>, {"cpu", "ram"})'
          /\ Head(todo[t]) = "disk"
      BY <2>2, <2>5, <3>1 DEF Readers
    <3>3. taken'[t]["ram"] = taken[t]["ram"] /\ taken'[t]["cpu"] = taken[t]["cpu"]
      BY <3>2, <1>4 DEF Readers
    <3> QED BY <2>1, <3>2, <3>3 DEF SystemProgress
  <2>6. CASE Progress(t, "device", <<"device">>, {"cpu", "ram", "disk"})
    <3>1. Head(<<"device">>) = "device"
      OBVIOUS
    <3>2. /\ Progress(t, "device", <<"device">>, {"cpu", "ram", "disk"})'
          /\ Head(todo[t]) = "device"
      BY <2>2, <2>6, <3>1 DEF Readers
    <3>3. taken'[t]["ram"] = taken[t]["ram"] /\ taken'[t]["cpu"] = taken[t]["cpu"]
      BY <3>2, <1>4 DEF Readers
    <3> QED BY <2>1, <3>2, <3>3 DEF SystemProgress
  <2> QED BY <2>1, <2>3, <2>4, <2>5, <2>6 DEF SystemProgress
<1> QED BY <1>5, <1>6 DEF CallInv, Answered

(* Without os-release device_read passes on without a reading. *)
LEMMA SkippedCallInv ==
  ASSUME TypeOK, NEW t \in Threads, CallInv(t), Head(todo[t]) = "device",
         "os-release" \in machine.missing, pc[t] = "read", pc'[t] = "check",
         call'[t] = call[t], todo'[t] = todo[t], taken' = taken, now' = now,
         machine' = machine
  PROVE  CallInv(t)'
<1>1. ReadingsOrdered(t)'
  BY DEF CallInv, ReadingsOrdered
<1>2. ASSUME call[t].kind = "GetSystemResources"
      PROVE  SystemProgress(t)'
  <2>1. SystemProgress(t)
    BY <1>2 DEF CallInv
  <2>2. /\ Head(<<"cpu", "ram", "disk", "device">>) # "device"
        /\ Head(<<"ram", "disk", "device">>) # "device"
        /\ Head(<<"disk", "device">>) # "device"
    OBVIOUS
  <2>3. Progress(t, "device", <<"device">>, {"cpu", "ram", "disk"})
    BY <2>1, <2>2 DEF SystemProgress, Progress
  <2>4. "device" \notin Reads'
    BY DEF Reads
  <2> QED BY <2>3, <2>4 DEF SystemProgress, Progress
<1> QED BY <1>1, <1>2 DEF CallInv, Answered

(* Passing the deadline check moves on to the next reader; after the last   *)
(* one every reading is at most now, hence at most the deadline.            *)
LEMMA ContinueCallInv ==
  ASSUME TypeOK, NEW t \in Threads, CallInv(t), PlaceInv, Continue(t)
  PROVE  CallInv(t)'
<1>1. /\ pc[t] = "check" /\ Checked(t)
      /\ pc'[t] = (IF Tail(todo[t]) = <<>> THEN "finish" ELSE "read")
      /\ todo'[t] = Tail(todo[t])
      /\ call' = call /\ taken' = taken /\ now' = now /\ machine' = machine
  BY DEF Continue, Rest, At, Goto, TypeOK
<1>2. ReadingsOrdered(t)'
  BY <1>1 DEF CallInv, ReadingsOrdered
<1>3. ASSUME call[t].kind = "GetSystemResources"
      PROVE  /\ Tail(todo[t]) # <<>> => SystemProgress(t)'
             /\ Tail(todo[t]) = <<>> =>
                  \A r \in Reads : taken[t][r] # -1 /\ taken[t][r] <= call[t].deadline
  <2>1. SystemProgress(t)
    BY <1>1, <1>3 DEF CallInv
  <2>2. now <= call[t].deadline
    BY <1>1, <1>3, ServiceAssumption DEF Checked, Expired, TypeOK, Times
  <2>3. /\ Tail(<<"cpu", "ram", "disk", "device">>) = <<"ram", "disk", "device">>
        /\ Tail(<<"ram", "disk", "device">>) = <<"disk", "device">>
        /\ Tail(<<"disk", "device">>) = <<"device">>
        /\ Tail(<<"device">>) = <<>>
    OBVIOUS
  <2>4. <<"ram", "disk", "device">> # <<>> /\ <<"disk", "device">> # <<>> /\ <<"device">> # <<>>
    OBVIOUS
  <2>5. CASE Progress(t, "cpu", <<"cpu", "ram", "disk", "device">>, {})
    <3>1. Tail(todo[t]) = <<"ram", "disk", "device">>
      BY <2>5, <2>3 DEF Progress
    <3>2. Progress(t, "ram", <<"ram", "disk", "device">>, {"cpu"})'
      BY <1>1, <2>4, <2>5, <3>1 DEF Progress, Readers, Reads
    <3> QED BY <2>4, <3>1, <3>2 DEF SystemProgress
  <2>6. CASE Progress(t, "ram", <<"ram", "disk", "device">>, {"cpu"})
    <3>1. Tail(todo[t]) = <<"disk", "device">>
      BY <2>6, <2>3 DEF Progress
    <3>2. Progress(t, "disk", <<"disk", "device">>, {"cpu", "ram"})'
      BY <1>1, <2>4, <2>6, <3>1 DEF Progress, Readers, Reads
    <3> QED BY <2>4, <3>1, <3>2 DEF SystemProgress
  <2>7. CASE Progress(t, "disk", <<"disk", "device">>, {"cpu", "ram"})
    <3>1. Tail(todo[t]) = <<"device">>
      BY <2>7, <2>3 DEF Progress
    <3>2. Progress(t, "device", <<"device">>, {"cpu", "ram", "disk"})'
      BY <1>1, <2>4, <2>7, <3>1 DEF Progress, Readers, Reads
    <3> QED BY <2>4, <3>1, <3>2 DEF SystemProgress
  <2>8. CASE Progress(t, "device", <<"device">>, {"cpu", "ram", "disk"})
    <3>1. Tail(todo[t]) = <<>>
      BY <2>8, <2>3 DEF Progress
    <3>2. \A r \in Reads : r \in Readers /\ taken[t][r] # -1
      BY <1>1, <2>8 DEF Progress, Readers, Reads
    <3>3. \A r \in Reads : taken[t][r] <= now /\ taken[t][r] \in Int
      BY <3>2, ServiceAssumption DEF CallInv, ReadingsOrdered, TypeOK, Times
    <3>4. now \in Int /\ call[t].deadline \in Int
      BY ServiceAssumption DEF TypeOK, Times
    <3> QED BY <2>2, <3>1, <3>2, <3>3, <3>4
  <2> QED BY <2>1, <2>5, <2>6, <2>7, <2>8 DEF SystemProgress
<1> QED BY <1>1, <1>2, <1>3 DEF CallInv, Answered, Reads

LEMMA ReadStep ==
  ASSUME TypeOK, PlaceInv, ReadInv, [Next]_vars
  PROVE  ReadInv'
<1> USE DEF locals, memory
<1>1. now \in Int
  BY ServiceAssumption DEF TypeOK, Times
<1>0. machine' = machine
  BY MachineStays
<1>2. CASE UNCHANGED <<pc, call, todo, taken, status>> /\ now' \in Int /\ now <= now'
  BY <1>0, <1>2, CallFrame DEF ReadInv
<1>3. CASE StartServing \/ StartFails \/ Tick \/ UNCHANGED vars
  BY <1>1, <1>2, <1>3 DEF StartServing, StartFails, Tick, vars
<1>4. ASSUME NEW t \in Threads,
             Cancel(t) \/ ReaderAborts(t) \/ ScanFaults(t) \/ FrequencyAborts(t) \/ NextCore(t)
      PROVE  ReadInv'
  BY <1>1, <1>2, <1>4 DEF Cancel, ReaderAborts, ScanFaults, FrequencyAborts, NextCore
<1>5. ASSUME NEW t \in Threads, NEW kind \in Kinds, NEW deadline \in 0 .. MaxTime,
             Accept(t, kind, deadline)
      PROVE  ReadInv'
  <2>1. OthersKept(t) /\ now' = now
    BY <1>5 DEF Accept, Goto, OthersKept, TypeOK
  <2>2. \A r \in Readers : taken'[t][r] = -1
    BY <1>5 DEF Accept, At, ReadInv, CallInv, ReadingsOrdered
  <2>3. pc'[t] = "entry" /\ call'[t].start = now
    BY <1>5 DEF Accept, Goto, TypeOK
  <2>4. CallInv(t)'
    BY <1>1, <2>1, <2>2, <2>3 DEF CallInv, ReadingsOrdered, Answered, Readers
  <2> QED BY <2>1, <2>4, <1>0, OthersFrame
<1>6. ASSUME NEW t \in Threads, RejectCancelled(t) \/ RejectExpired(t) \/ GiveUp(t)
      PROVE  ReadInv'
  <2>1. OthersKept(t) /\ now' = now
    BY <1>6 DEF RejectCancelled, RejectExpired, GiveUp, Return, Goto, OthersKept, TypeOK
  <2>2. pc'[t] = "returned" /\ status'[t] # "OK" /\ call' = call /\ taken' = taken
    BY <1>6 DEF RejectCancelled, RejectExpired, GiveUp, Return, Goto, TypeOK
  <2>3. CallInv(t)'
    BY <2>1, <2>2 DEF ReadInv, CallInv, ReadingsOrdered, Answered
  <2> QED BY <2>1, <2>3, <1>0, OthersFrame
<1>7. ASSUME NEW t \in Threads, Admit(t) PROVE ReadInv'
  <2>1. OthersKept(t) /\ now' = now
    BY <1>7 DEF Admit, Goto, OthersKept, TypeOK
  <2>2. pc[t] = "entry" /\ pc'[t] = "map" /\ call' = call /\ taken' = taken
    BY <1>7 DEF Admit, At, Goto, TypeOK
  <2>3. CallInv(t)'
    BY <2>1, <2>2 DEF ReadInv, CallInv, ReadingsOrdered, Answered
  <2> QED BY <2>1, <2>3, <1>0, OthersFrame
<1>8. ASSUME NEW t \in Threads, CreateArena(t) PROVE ReadInv'
  <2>1. OthersKept(t) /\ now' = now
    BY <1>8 DEF CreateArena, Mapped, Goto, OthersKept, TypeOK
  <2>2. /\ pc[t] = "map" /\ pc'[t] = "read" /\ call' = call /\ taken' = taken
        /\ todo'[t] = Plan(call[t].kind)
    BY <1>8 DEF CreateArena, Mapped, At, Goto, TypeOK
  <2>3. \A r \in Readers : taken[t][r] = -1
    BY <2>2 DEF ReadInv, CallInv, ReadingsOrdered
  <2>4. call[t].kind = "GetSystemResources" => SystemProgress(t)'
    BY <2>2, <2>3 DEF SystemProgress, Progress, Plan
  <2>5. CallInv(t)'
    BY <2>1, <2>2, <2>3, <2>4 DEF ReadInv, CallInv, ReadingsOrdered, Answered, Readers
  <2> QED BY <2>1, <2>5, <1>0, OthersFrame
<1>9. ASSUME NEW t \in Threads, NEW reader \in Readers, Read(t, reader) PROVE ReadInv'
  <2>1. OthersKept(t) /\ now' = now
    BY <1>9 DEF Read, Took, Goto, OthersKept, TypeOK
  <2>2. /\ pc[t] = "read" /\ todo[t] # <<>> /\ Took(t) /\ pc'[t] = "check"
        /\ call'[t] = call[t] /\ todo'[t] = todo[t]
    BY <1>9 DEF Read, Reading, At, Goto, TypeOK, PlaceInv
  <2>3. CallInv(t)'
    BY <2>1, <2>2, <1>0, TookCallInv DEF ReadInv
  <2> QED BY <2>1, <2>3, <1>0, OthersFrame
<1>10. ASSUME NEW t \in Threads, OpenMeminfo(t) PROVE ReadInv'
  <2>1. OthersKept(t) /\ now' = now
    BY <1>10 DEF OpenMeminfo, Mapped, Goto, OthersKept, TypeOK
  <2>2. pc[t] = "read" /\ pc'[t] = "scan" /\ call' = call /\ taken' = taken /\ todo' = todo
    BY <1>10 DEF OpenMeminfo, Mapped, Reading, At, Goto, TypeOK
  <2>3. SystemProgress(t) => SystemProgress(t)'
    BY <2>2 DEF SystemProgress, Progress
  <2>4. CallInv(t)'
    BY <2>1, <2>2, <2>3 DEF ReadInv, CallInv, ReadingsOrdered, Answered
  <2> QED BY <2>1, <2>4, <1>0, OthersFrame
<1>15. ASSUME NEW t \in Threads, cpu_read_arm64(t) PROVE ReadInv'
  <2>1. OthersKept(t) /\ now' = now
    BY <1>15 DEF cpu_read_arm64, Goto, OthersKept, TypeOK
  <2>2. pc[t] = "read" /\ pc'[t] = "loop" /\ call' = call /\ taken' = taken /\ todo' = todo
    BY <1>15 DEF cpu_read_arm64, Reading, At, Goto, TypeOK
  <2>3. SystemProgress(t) => SystemProgress(t)'
    BY <2>2 DEF SystemProgress, Progress
  <2>4. CallInv(t)'
    BY <2>1, <2>2, <2>3 DEF ReadInv, CallInv, ReadingsOrdered, Answered
  <2> QED BY <2>1, <2>4, <1>0, OthersFrame
<1>16. ASSUME NEW t \in Threads, ReadFrequency(t) PROVE ReadInv'
  <2>1. OthersKept(t) /\ now' = now
    BY <1>16 DEF ReadFrequency, Took, Goto, OthersKept, TypeOK
  <2>2. /\ pc[t] = "loop" /\ todo[t] # <<>> /\ Took(t) /\ pc'[t] = "check"
        /\ call'[t] = call[t] /\ todo'[t] = todo[t]
    BY <1>16 DEF ReadFrequency, At, Goto, TypeOK, PlaceInv
  <2>3. CallInv(t)'
    BY <2>1, <2>2, <1>0, TookCallInv DEF ReadInv
  <2> QED BY <2>1, <2>3, <1>0, OthersFrame
<1>17. ASSUME NEW t \in Threads, device_read(t) PROVE ReadInv'
  <2>1. OthersKept(t) /\ now' = now
    BY <1>17 DEF device_read, Took, Goto, OthersKept, TypeOK
  <2>2. /\ pc[t] = "read" /\ todo[t] # <<>> /\ Head(todo[t]) = "device" /\ pc'[t] = "check"
        /\ call'[t] = call[t] /\ todo'[t] = todo[t]
    BY <1>17 DEF device_read, Reading, At, Goto, TypeOK, PlaceInv
  <2>3. CASE Took(t)
    <3>1. CallInv(t)'
      BY <2>1, <2>2, <2>3, <1>0, TookCallInv DEF ReadInv
    <3> QED BY <2>1, <3>1, <1>0, OthersFrame
  <2>4. CASE "os-release" \in machine.missing /\ taken' = taken
    <3>1. CallInv(t)'
      BY <2>1, <2>2, <2>4, <1>0, SkippedCallInv DEF ReadInv
    <3> QED BY <2>1, <3>1, <1>0, OthersFrame
  <2> QED BY <1>17, <2>3, <2>4 DEF device_read
<1>11. ASSUME NEW t \in Threads, ScanMeminfo(t) PROVE ReadInv'
  <2>1. OthersKept(t) /\ now' = now
    BY <1>11 DEF ScanMeminfo, ScratchGone, Took, Goto, OthersKept, TypeOK
  <2>2. /\ pc[t] = "scan" /\ todo[t] # <<>> /\ Took(t) /\ pc'[t] = "check"
        /\ call'[t] = call[t] /\ todo'[t] = todo[t]
    BY <1>11 DEF ScanMeminfo, ScratchGone, At, Goto, TypeOK, PlaceInv
  <2>3. CallInv(t)'
    BY <2>1, <2>2, <1>0, TookCallInv DEF ReadInv
  <2> QED BY <2>1, <2>3, <1>0, OthersFrame
<1>12. ASSUME NEW t \in Threads, Continue(t) PROVE ReadInv'
  <2>1. OthersKept(t) /\ now' = now
    BY <1>12 DEF Continue, Rest, Goto, OthersKept, TypeOK
  <2>2. CallInv(t)'
    BY <1>12, ContinueCallInv DEF ReadInv
  <2> QED BY <2>1, <2>2, <1>0, OthersFrame
<1>13. ASSUME NEW t \in Threads, Finish(t) PROVE ReadInv'
  <2>1. OthersKept(t) /\ now' = now
    BY <1>13 DEF Finish, ArenaGone, Return, Goto, OthersKept, TypeOK
  <2>2. pc[t] = "finish" /\ pc'[t] = "returned" /\ call' = call /\ taken' = taken
    BY <1>13 DEF Finish, ArenaGone, Return, At, Goto, TypeOK
  <2>3. CallInv(t)'
    BY <1>0, <2>1, <2>2 DEF ReadInv, CallInv, ReadingsOrdered, Answered, Reads
  <2> QED BY <2>1, <2>3, <1>0, OthersFrame
<1>14. ASSUME NEW t \in Threads, Deliver(t) PROVE ReadInv'
  <2>1. OthersKept(t) /\ now' = now
    BY <1>14 DEF Deliver, Goto, OthersKept, TypeOK
  <2>2. pc'[t] = "idle" /\ call'[t] = NoCall /\ taken'[t] = NotTaken
    BY <1>14 DEF Deliver, Goto, TypeOK
  <2>3. 0 <= now
    BY ServiceAssumption DEF TypeOK, Times
  <2>4. CallInv(t)'
    BY <2>1, <2>2, <2>3 DEF CallInv, ReadingsOrdered, Answered, NoCall, NotTaken, Readers
  <2> QED BY <2>1, <2>4, <1>0, OthersFrame
<1> QED
  BY <1>3, <1>4, <1>5, <1>6, <1>7, <1>8, <1>9, <1>10, <1>11, <1>12, <1>13, <1>14, <1>15,
     <1>16, <1>17
  DEF Next, Step, cpu_read, cpu_read_amd64, disk_read, Readers

-----------------------------------------------------------------------------
(* The inductive invariant holds in every behaviour of the server. *)
THEOREM Invariance == Spec => []IInv
<1>1. Init => IInv
  BY InitIInv
<1>2. IInv /\ [Next]_vars => IInv'
  BY TypeStep, PlaceStep, IsolationStep, ReadStep DEF IInv
<1> QED BY <1>1, <1>2, PTL DEF Spec

(* Every variable of the server keeps its type. *)
THEOREM TypeCorrect == Spec => []TypeOK
  BY Invariance, PTL DEF IInv

(* However many calls run at once, no two of them share a mapping, and none *)
(* works in one that has been unmapped.                                     *)
THEOREM CallsIsolated == Spec => []Isolation
  BY Invariance, PTL DEF IInv

(* An OK reply to GetSystemResources was read within the call, cpu before   *)
(* memory, and entirely by the deadline.                                    *)
THEOREM ReadingsTimely == Spec => []ReadingsInCall
<1>1. IInv => ReadingsInCall
  BY DEF IInv, ReadInv, CallInv, ReadingsOrdered, ReadingsInCall, Answered, Readers, Reads
<1> QED BY <1>1, Invariance, PTL

-----------------------------------------------------------------------------
(* Counting mappings.  Each one that exists is held by one thread or was    *)
(* lost by a late call, so both sides of LostOnlyWhenLate move together.    *)

Pointers == Held \ {NULL}

LEMMA PointersMapped ==
  ASSUME TypeOK, Isolation
  PROVE  /\ Pointers \subseteq maps
         /\ IsFiniteSet(maps) /\ IsFiniteSet(Pointers)
         /\ Cardinality(maps) \in Nat /\ Cardinality(Pointers) \in Nat
<1>1. Pointers \subseteq maps
  BY DEF Pointers, Held, Isolation
<1>2. IsFiniteSet(maps)
  BY ServiceAssumption, FS_Subset DEF TypeOK
<1>3. IsFiniteSet(Pointers)
  BY <1>1, <1>2, FS_Subset
<1> QED BY <1>1, <1>2, <1>3, FS_CardinalityType

(* Thread t, which held nothing there, gets m as its arena or its scratch.  *)
LEMMA PointersGain ==
  ASSUME TypeOK, NEW t \in Threads, NEW m,
         \/ arena[t] = NULL /\ arena' = [arena EXCEPT ![t] = m] /\ scratch' = scratch
         \/ scratch[t] = NULL /\ scratch' = [scratch EXCEPT ![t] = m] /\ arena' = arena
  PROVE  Pointers' = Pointers \cup ({m} \ {NULL})
<1>1. arena \in [Threads -> MapIds \cup {NULL}] /\ scratch \in [Threads -> MapIds \cup {NULL}]
  BY DEF TypeOK
<1>2. CASE arena[t] = NULL /\ arena' = [arena EXCEPT ![t] = m] /\ scratch' = scratch
  <2>1. arena'[t] = m /\ \A u \in Threads \ {t} : arena'[u] = arena[u]
    BY <1>1, <1>2
  <2> QED BY <1>2, <2>1 DEF Pointers, Held
<1>3. CASE scratch[t] = NULL /\ scratch' = [scratch EXCEPT ![t] = m] /\ arena' = arena
  <2>1. scratch'[t] = m /\ \A u \in Threads \ {t} : scratch'[u] = scratch[u]
    BY <1>1, <1>3
  <2> QED BY <1>3, <2>1 DEF Pointers, Held
<1> QED BY <1>2, <1>3

(* Thread t drops a pointer, which by Isolation nobody else has.            *)
LEMMA PointersDrop ==
  ASSUME TypeOK, Isolation, NEW t \in Threads, NEW p, p # NULL,
         \/ arena[t] = p /\ arena' = [arena EXCEPT ![t] = NULL] /\ scratch' = scratch
         \/ scratch[t] = p /\ scratch' = [scratch EXCEPT ![t] = NULL] /\ arena' = arena
  PROVE  Pointers' = Pointers \ {p} /\ p \in Pointers
<1>1. arena \in [Threads -> MapIds \cup {NULL}] /\ scratch \in [Threads -> MapIds \cup {NULL}]
  BY DEF TypeOK
<1>2. CASE arena[t] = p /\ arena' = [arena EXCEPT ![t] = NULL] /\ scratch' = scratch
  <2>1. arena'[t] = NULL /\ \A u \in Threads \ {t} : arena'[u] = arena[u] /\ arena[u] # p
    BY <1>1, <1>2 DEF Isolation
  <2>2. \A u \in Threads : scratch[u] # p
    BY <1>2 DEF Isolation
  <2> QED BY <1>2, <2>1, <2>2 DEF Pointers, Held
<1>3. CASE scratch[t] = p /\ scratch' = [scratch EXCEPT ![t] = NULL] /\ arena' = arena
  <2>1. scratch'[t] = NULL /\ \A u \in Threads \ {t} : scratch'[u] = scratch[u] /\ scratch[u] # p
    BY <1>1, <1>3 DEF Isolation
  <2>2. \A u \in Threads : arena[u] # p
    BY <1>3 DEF Isolation
  <2> QED BY <1>3, <2>1, <2>2 DEF Pointers, Held
<1> QED BY <1>2, <1>3

LEMMA CountMapped ==
  ASSUME TypeOK, Isolation, LostOnlyWhenLate, NEW m \in Mmap,
         maps' = Mapped(m), Pointers' = Pointers \cup ({m} \ {NULL}), late' = late
  PROVE  LostOnlyWhenLate'
<1>1. Cardinality(maps) = Cardinality(Pointers) + late /\ late \in Nat
  BY DEF LostOnlyWhenLate, Pointers, TypeOK
<1>2. SUFFICES Cardinality(maps') = Cardinality(Pointers') + late'
  BY DEF LostOnlyWhenLate, Pointers
<1>3. CASE m = NULL
  <2>1. maps' = maps /\ Pointers' = Pointers
    BY <1>3 DEF Mapped
  <2> QED BY <1>1, <2>1
<1>4. CASE m # NULL
  <2>1. m \notin maps
    BY <1>4, MmapIsFresh
  <2>2. maps' = maps \cup {m} /\ Pointers' = Pointers \cup {m} /\ m \notin Pointers
    BY <1>4, <2>1, PointersMapped DEF Mapped
  <2>3. Cardinality(maps') = Cardinality(maps) + 1
    <3>1. IsFiniteSet(maps)
      BY PointersMapped
    <3>2. Cardinality(maps \cup {m}) = Cardinality(maps) + 1
      BY <2>1, <3>1, FS_AddElement
    <3> QED BY <2>2, <3>2
  <2>4. Cardinality(Pointers') = Cardinality(Pointers) + 1
    BY <2>2, PointersMapped, FS_AddElement
  <2> QED BY <1>1, <2>3, <2>4, PointersMapped
<1> QED BY <1>3, <1>4

LEMMA CountUnmapped ==
  ASSUME TypeOK, Isolation, LostOnlyWhenLate, NEW p \in Pointers,
         Pointers' = Pointers \ {p},
         \/ maps' = maps \ {p} /\ late' = late
         \/ maps' = maps /\ late' = late + 1
  PROVE  LostOnlyWhenLate'
<1>1. Cardinality(maps) = Cardinality(Pointers) + late /\ late \in Nat
  BY DEF LostOnlyWhenLate, Pointers, TypeOK
<1>2. SUFFICES Cardinality(maps') = Cardinality(Pointers') + late'
  BY DEF LostOnlyWhenLate, Pointers
<1>3. Cardinality(Pointers') = Cardinality(Pointers) - 1
  BY PointersMapped, FS_RemoveElement
<1>4. CASE maps' = maps \ {p} /\ late' = late
  <2>1. Cardinality(maps') = Cardinality(maps) - 1
    BY <1>4, PointersMapped, FS_RemoveElement
  <2> QED BY <1>1, <1>3, <1>4, <2>1, PointersMapped
<1>5. CASE maps' = maps /\ late' = late + 1
  BY <1>1, <1>3, <1>5, PointersMapped
<1> QED BY <1>4, <1>5

LEMMA CountStep ==
  ASSUME TypeOK, PlaceInv, Isolation, LostOnlyWhenLate, [Next]_vars
  PROVE  LostOnlyWhenLate'
<1> USE DEF locals, memory
<1>1. CASE UNCHANGED memory
  BY <1>1 DEF LostOnlyWhenLate, Held
<1>2. ASSUME NEW t \in Threads, CreateArena(t) PROVE LostOnlyWhenLate'
  <2>1. PICK m \in Mmap : arena' = [arena EXCEPT ![t] = m] /\ maps' = Mapped(m)
    BY <1>2 DEF CreateArena
  <2>2. arena[t] = NULL /\ scratch' = scratch /\ late' = late
    BY <1>2 DEF CreateArena, At, PlaceInv
  <2>3. Pointers' = Pointers \cup ({m} \ {NULL})
    BY <2>1, <2>2, PointersGain
  <2> QED BY <2>1, <2>2, <2>3, CountMapped
<1>3. ASSUME NEW t \in Threads, OpenMeminfo(t) PROVE LostOnlyWhenLate'
  <2>1. PICK m \in Mmap : scratch' = [scratch EXCEPT ![t] = m] /\ maps' = Mapped(m)
    BY <1>3 DEF OpenMeminfo
  <2>2. scratch[t] = NULL /\ arena' = arena /\ late' = late
    BY <1>3 DEF OpenMeminfo, Reading, At, PlaceInv
  <2>3. Pointers' = Pointers \cup ({m} \ {NULL})
    BY <2>1, <2>2, PointersGain
  <2> QED BY <2>1, <2>2, <2>3, CountMapped
<1>4. ASSUME NEW t \in Threads, ScanMeminfo(t) PROVE LostOnlyWhenLate'
  <2>1. /\ scratch[t] # NULL /\ maps' = maps \ {scratch[t]} /\ late' = late
        /\ scratch' = [scratch EXCEPT ![t] = NULL] /\ arena' = arena
    BY <1>4 DEF ScanMeminfo, ScratchGone
  <2>2. Pointers' = Pointers \ {scratch[t]} /\ scratch[t] \in Pointers
    BY <2>1, PointersDrop
  <2> QED BY <2>1, <2>2, CountUnmapped
<1>5. ASSUME NEW t \in Threads, GiveUp(t) PROVE LostOnlyWhenLate'
  <2>1. /\ arena[t] # NULL /\ maps' = maps /\ late' = late + 1
        /\ arena' = [arena EXCEPT ![t] = NULL] /\ scratch' = scratch
    BY <1>5 DEF GiveUp, At, PlaceInv
  <2>2. Pointers' = Pointers \ {arena[t]} /\ arena[t] \in Pointers
    BY <2>1, PointersDrop
  <2> QED BY <2>1, <2>2, CountUnmapped
<1>6. ASSUME NEW t \in Threads, Finish(t) PROVE LostOnlyWhenLate'
  <2>1. /\ arena[t] # NULL /\ maps' = maps \ {arena[t]} /\ late' = late
        /\ arena' = [arena EXCEPT ![t] = NULL] /\ scratch' = scratch
    BY <1>6 DEF Finish, ArenaGone, At, PlaceInv
  <2>2. Pointers' = Pointers \ {arena[t]} /\ arena[t] \in Pointers
    BY <2>1, PointersDrop
  <2> QED BY <2>1, <2>2, CountUnmapped
<1>7. ASSUME NEW t \in Threads,
             \/ Cancel(t) \/ RejectCancelled(t) \/ RejectExpired(t) \/ Admit(t)
             \/ ReaderAborts(t) \/ ScanFaults(t) \/ Continue(t) \/ Deliver(t)
             \/ cpu_read(t) \/ disk_read(t) \/ device_read(t)
      PROVE  UNCHANGED memory
  BY <1>7 DEF Cancel, RejectCancelled, RejectExpired, Admit, ReaderAborts, ScanFaults,
     Continue, Deliver, Read, disk_read, device_read, cpu_read, cpu_read_amd64,
     cpu_read_arm64, NextCore, ReadFrequency, FrequencyAborts
<1>8. ASSUME \/ StartServing \/ StartFails \/ Tick \/ UNCHANGED vars
             \/ \E t \in Threads, kind \in Kinds, deadline \in 0 .. MaxTime :
                  Accept(t, kind, deadline)
      PROVE  UNCHANGED memory
  BY <1>8 DEF StartServing, StartFails, Tick, Accept, vars
<1> QED
  BY <1>1, <1>2, <1>3, <1>4, <1>5, <1>6, <1>7, <1>8 DEF Next, Step

(* Only get_system_resources_impl's return between two readers leaves a     *)
(* mapping behind: every other one is held by exactly one running call.     *)
THEOREM LostByLateCalls == Spec => []LostOnlyWhenLate
<1>1. Init => LostOnlyWhenLate
  <2> SUFFICES ASSUME Init PROVE LostOnlyWhenLate
    OBVIOUS
  <2>1. maps = {} /\ late = 0
    BY DEF Init
  <2>2. Held \ {NULL} = {}
    BY DEF Init, Held
  <2> QED BY <2>1, <2>2, FS_EmptySet DEF LostOnlyWhenLate
<1>2. IInv /\ LostOnlyWhenLate /\ [Next]_vars => LostOnlyWhenLate'
  BY CountStep DEF IInv
<1> QED BY <1>1, <1>2, Invariance, PTL DEF Spec

-----------------------------------------------------------------------------
(* Going down.  When no mapping is left, each other thread holds at most    *)
(* two of them, and the failing one at most its arena.                      *)

LEMMA ImageBound ==
  ASSUME NEW S, IsFiniteSet(S), NEW f
  PROVE  LET T == {f[x] : x \in S}
         IN  /\ IsFiniteSet(T)
             /\ Cardinality(T) \in Nat /\ Cardinality(T) <= Cardinality(S)
<1> DEFINE T == {f[x] : x \in S}
           g == [x \in S |-> f[x]]
<1>1. g \in Surjection(S, T)
  BY DEF Surjection
<1>2. IsFiniteSet(T) /\ Cardinality(T) <= Cardinality(S)
  BY <1>1, FS_Surjection
<1> QED BY <1>2, FS_CardinalityType

LEMMA PointersBound ==
  ASSUME TypeOK, Isolation, NEW t \in Threads, scratch[t] = NULL
  PROVE  Cardinality(Pointers) <= 2 * Cardinality(Threads) - 1
<1> DEFINE Others == Threads \ {t}
           Arenas == {arena[u] : u \in Others}
           Scratches == {scratch[u] : u \in Others}
<1>1. /\ IsFiniteSet(Others) /\ Cardinality(Others) \in Nat
      /\ Cardinality(Others) = Cardinality(Threads) - 1 /\ Cardinality(Threads) \in Nat
  BY ServiceAssumption, FS_RemoveElement, FS_CardinalityType
<1>2. /\ IsFiniteSet(Arenas) /\ Cardinality(Arenas) \in Nat
      /\ Cardinality(Arenas) <= Cardinality(Others)
  BY <1>1, ImageBound
<1>3. /\ IsFiniteSet(Scratches) /\ Cardinality(Scratches) \in Nat
      /\ Cardinality(Scratches) <= Cardinality(Others)
  BY <1>1, ImageBound
<1> HIDE DEF Others, Arenas, Scratches
<1>4. /\ IsFiniteSet(Arenas \cup Scratches) /\ Cardinality(Arenas \cup Scratches) \in Nat
      /\ Cardinality(Arenas \cup Scratches) <= 2 * Cardinality(Others)
  <2>1. /\ IsFiniteSet(Arenas \cup Scratches)
        /\ Cardinality(Arenas \cup Scratches)
             = Cardinality(Arenas) + Cardinality(Scratches) - Cardinality(Arenas \cap Scratches)
    BY <1>2, <1>3, FS_Union
  <2>2. Cardinality(Arenas \cap Scratches) \in Nat
    BY <1>2, FS_Intersection, FS_CardinalityType
  <2>3. Cardinality(Arenas \cup Scratches) \in Nat
    BY <2>1, FS_CardinalityType
  <2> QED BY <1>1, <1>2, <1>3, <2>1, <2>2, <2>3
<1> DEFINE All == (Arenas \cup Scratches) \cup {arena[t]}
<1>5. /\ IsFiniteSet(All) /\ Cardinality(All) \in Nat
      /\ Cardinality(All) <= 2 * Cardinality(Others) + 1
  <2>1. /\ IsFiniteSet(All)
        /\ Cardinality(All) = IF arena[t] \in Arenas \cup Scratches
                              THEN Cardinality(Arenas \cup Scratches)
                              ELSE Cardinality(Arenas \cup Scratches) + 1
    BY <1>4, FS_AddElement
  <2> QED BY <1>1, <1>4, <2>1
<1>6. Pointers \subseteq All
  BY DEF Pointers, Held, Arenas, Scratches, Others
<1> HIDE DEF All
<1>7. Cardinality(Pointers) <= Cardinality(All) /\ Cardinality(Pointers) \in Nat
  BY <1>5, <1>6, FS_Subset, FS_CardinalityType
<1> QED BY <1>1, <1>5, <1>7

LEMMA ExhaustedMeansUsedUp ==
  ASSUME TypeOK, Isolation, LostOnlyWhenLate, NEW t \in Threads, scratch[t] = NULL,
         MapIds \ maps = {}
  PROVE  UsedUp
<1>1. maps = MapIds
  BY DEF TypeOK
<1>2. Cardinality(MapIds) = Cardinality(Pointers) + late
  BY <1>1 DEF LostOnlyWhenLate, Pointers
<1>3. late \in Nat /\ Cardinality(Pointers) \in Nat /\ Cardinality(Threads) \in Nat
  BY PointersMapped, ServiceAssumption, FS_CardinalityType DEF TypeOK
<1>4. Cardinality(Pointers) <= 2 * Cardinality(Threads) - 1
  BY PointersBound
<1> QED BY <1>2, <1>3, <1>4 DEF UsedUp

(* The kernel has refused memory, or late calls have taken it. *)
Short == refused \/ UsedUp

LEMMA ShortStays ==
  ASSUME TypeOK, Short, [Next]_vars
  PROVE  Short'
<1>1. /\ late' = late \/ late' = late + 1
      /\ refused' = refused \/ \E m \in Mmap : refused' = Refused(m)
  BY DEF Next, vars, memory, Step, StartServing, StartFails, Tick, Accept, Cancel, Deliver,
     RejectCancelled, RejectExpired, Admit, CreateArena, ReaderAborts, cpu_read,
     cpu_read_amd64, cpu_read_arm64, NextCore, ReadFrequency, FrequencyAborts, disk_read,
     device_read, Read, OpenMeminfo, ScanFaults, ScanMeminfo, GiveUp, Continue, Finish
<1>2. late \in Nat /\ Cardinality(MapIds) \in Nat /\ Cardinality(Threads) \in Nat
  BY ServiceAssumption, FS_CardinalityType DEF TypeOK
<1>3. UsedUp => UsedUp'
  BY <1>1, <1>2 DEF UsedUp
<1>4. refused => refused'
  BY <1>1, Zenon DEF Refused
<1> QED BY <1>3, <1>4 DEF Short

(* A thread that gets no mapping while memory was plenty makes it short. *)
LEMMA NullMakesShort ==
  ASSUME TypeOK, Isolation, LostOnlyWhenLate, ~Short, NEW t \in Threads, scratch[t] = NULL,
         refused' = Refused(NULL)
  PROVE  refused'
<1>1. ~UsedUp
  BY DEF Short
<1>2. MapIds \ maps # {}
  BY <1>1, ExhaustedMeansUsedUp
<1> QED BY <1>2 DEF Refused

LEMMA NeedsReadable ==
  ASSUME Readable, NEW reader \in Readers
  PROVE  Needs(reader) \cap machine.missing = {}
<1>1. CASE reader = "cpu"
  <2>1. Needs(reader) \subseteq {"enabled", "model", "cpuinfo"}
    BY <1>1 DEF Needs
  <2> QED BY <2>1 DEF Readable
<1>2. CASE reader = "ram"
  <2>1. Needs(reader) = {"meminfo"}
    BY <1>2 DEF Needs
  <2> QED BY <2>1 DEF Readable
<1>3. CASE reader = "disk"
  <2>1. Needs(reader) = {"partitions"}
    BY <1>3 DEF Needs
  <2> QED BY <2>1 DEF Readable
<1>4. CASE reader = "device"
  <2>1. Needs(reader) \subseteq {"uptime"}
    BY <1>4 DEF Needs, DeviceFiles
  <2> QED BY <2>1 DEF Readable
<1> QED BY <1>1, <1>2, <1>3, <1>4 DEF Readers

(* No thread is about to find a null arena. *)
NoNull ==
  \A u \in Threads : /\ pc[u] = "read" => arena[u] # NULL
                     /\ pc[u] = "scan" => scratch[u] # NULL

LEMMA FailStep ==
  ASSUME IInv, LostOnlyWhenLate, FailInv, DownOnlyAfterLeaks, [Next]_vars
  PROVE  FailInv' /\ DownOnlyAfterLeaks'
<1> USE DEF locals, memory
<1>1. TypeOK /\ PlaceInv /\ Isolation
  BY DEF IInv
<1>2. CASE Short
  BY <1>1, <1>2, ShortStays DEF FailInv, DownOnlyAfterLeaks, Short
<1>3. CASE ~Short
  <2>1. NoNull
    BY <1>3 DEF FailInv, Short, NoNull
  <2>2. Readable => proc # "aborted"
    BY <1>3 DEF DownOnlyAfterLeaks, Short
  <2>3. Readable' = Readable
    BY MachineStays DEF Readable
  <2>4. SUFFICES (refused' \/ NoNull') /\ (Readable => proc' # "aborted")
    BY <2>3 DEF FailInv, DownOnlyAfterLeaks, NoNull
  <2>5. ASSUME NEW t \in Threads, ReaderAborts(t) \/ ScanFaults(t) \/ FrequencyAborts(t)
        PROVE  NoNull' /\ ~Readable
    <3>1. NoNull'
      BY <2>1, <2>5 DEF NoNull, ReaderAborts, ScanFaults, FrequencyAborts
    <3>2. ~ScanFaults(t)
      BY <2>1 DEF ScanFaults, At, NoNull
    <3>3. CASE FrequencyAborts(t)
      BY <3>1, <3>3 DEF FrequencyAborts, Readable
    <3>4. CASE ReaderAborts(t)
      <4>1. pc[t] = "read" /\ ~CanRead(t)
        BY <3>4 DEF ReaderAborts, At
      <4>2. Head(todo[t]) \in Readers
        BY <1>1, <4>1 DEF PlaceInv, TypeOK
      <4> QED BY <2>1, <3>1, <4>1, <4>2, NeedsReadable DEF CanRead, NoNull
    <3> QED BY <2>5, <3>2, <3>3, <3>4
  <2>6. ASSUME NEW t \in Threads, CreateArena(t) PROVE refused' \/ NoNull'
    <3>1. PICK m \in Mmap : arena' = [arena EXCEPT ![t] = m] /\ refused' = Refused(m)
      BY <2>6 DEF CreateArena
    <3>2. scratch[t] = NULL
      BY <1>1, <2>6 DEF CreateArena, At, PlaceInv
    <3>3. CASE m = NULL
      BY <1>1, <1>3, <3>1, <3>2, <3>3, NullMakesShort
    <3>4. CASE m # NULL
      BY <1>1, <2>1, <2>6, <3>1, <3>4 DEF CreateArena, Goto, TypeOK, NoNull
    <3> QED BY <3>3, <3>4
  <2>7. ASSUME NEW t \in Threads, OpenMeminfo(t) PROVE refused' \/ NoNull'
    <3>1. PICK m \in Mmap : scratch' = [scratch EXCEPT ![t] = m] /\ refused' = Refused(m)
      BY <2>7 DEF OpenMeminfo
    <3>2. scratch[t] = NULL
      BY <1>1, <2>7 DEF OpenMeminfo, Reading, At, PlaceInv
    <3>3. CASE m = NULL
      BY <1>1, <1>3, <3>1, <3>2, <3>3, NullMakesShort
    <3>4. CASE m # NULL
      BY <1>1, <2>1, <2>7, <3>1, <3>4 DEF OpenMeminfo, Goto, TypeOK, NoNull
    <3> QED BY <3>3, <3>4
  <2>8. ASSUME NEW t \in Threads,
               \/ RejectCancelled(t) \/ RejectExpired(t) \/ Admit(t) \/ ScanMeminfo(t)
               \/ GiveUp(t) \/ Finish(t) \/ Deliver(t) \/ cpu_read_arm64(t)
               \/ ReadFrequency(t) \/ device_read(t)
               \/ \E reader \in Readers : Read(t, reader)
               \/ \E kind \in Kinds, deadline \in 0 .. MaxTime : Accept(t, kind, deadline)
        PROVE  NoNull'
    <3>1. PICK where \in {"entry", "map", "loop", "check", "returned", "idle"} : Goto(t, where)
      BY <2>8 DEF RejectCancelled, RejectExpired, Admit, ScanMeminfo, GiveUp, Finish, Deliver,
         cpu_read_arm64, ReadFrequency, device_read, Read, Accept, Return
    <3>2. \A u \in Threads \ {t} : arena'[u] = arena[u] /\ scratch'[u] = scratch[u]
      BY <1>1, <2>8 DEF RejectCancelled, RejectExpired, Admit, ScanMeminfo, GiveUp, Finish,
         Deliver, cpu_read_arm64, ReadFrequency, device_read, Read, Accept, Return, TypeOK
    <3> QED BY <1>1, <2>1, <3>1, <3>2 DEF Goto, TypeOK, NoNull
  <2>9. ASSUME NEW t \in Threads, Continue(t) PROVE NoNull'
    BY <1>1, <2>1, <2>9 DEF Continue, At, Goto, PlaceInv, TypeOK, NoNull
  <2>10. ASSUME NEW t \in Threads, Cancel(t) \/ NextCore(t) PROVE NoNull'
    BY <2>1, <2>10 DEF Cancel, NextCore, NoNull
  <2>11. CASE StartServing \/ StartFails \/ Tick \/ UNCHANGED vars
    BY <2>1, <2>2, <2>11 DEF StartServing, StartFails, Tick, vars, NoNull
  <2>12. ASSUME NEW t \in Threads, ~ReaderAborts(t), ~ScanFaults(t), ~FrequencyAborts(t),
                \/ Cancel(t) \/ Step(t)
                \/ \E kind \in Kinds, deadline \in 0 .. MaxTime : Accept(t, kind, deadline)
         PROVE  proc' = proc
    BY <2>12 DEF Cancel, Step, Accept, RejectCancelled, RejectExpired, Admit, CreateArena,
       cpu_read, cpu_read_amd64, cpu_read_arm64, NextCore, ReadFrequency, disk_read,
       device_read, Read, OpenMeminfo, ScanMeminfo, GiveUp, Continue, Finish, Deliver
  <2>13. ASSUME NEW t \in Threads, Step(t) PROVE refused' \/ NoNull'
    BY <2>5, <2>6, <2>7, <2>8, <2>9, <2>10, <2>13
    DEF Step, cpu_read, cpu_read_amd64, disk_read, Readers
  <2> QED
    BY <2>2, <2>5, <2>8, <2>10, <2>11, <2>12, <2>13 DEF Next
<1> QED BY <1>2, <1>3

(* With every file but os-release readable and memory to be had, only late  *)
(* calls bring the process down: it aborts when they have left at most as   *)
(* many mappings as the threads can hold at once, however calls interleave. *)
THEOREM DownAfterLeaks == Spec => []DownOnlyAfterLeaks
<1>1. Init => FailInv /\ DownOnlyAfterLeaks
  BY DEF Init, FailInv, DownOnlyAfterLeaks
<1>2. IInv /\ LostOnlyWhenLate /\ FailInv /\ DownOnlyAfterLeaks /\ [Next]_vars
        => FailInv' /\ DownOnlyAfterLeaks'
  BY FailStep
<1> QED BY <1>1, <1>2, Invariance, LostByLateCalls, PTL DEF Spec

=============================================================================
