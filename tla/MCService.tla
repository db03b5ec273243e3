------------------------------ MODULE MCService ------------------------------
(* Service on small instances. *)
EXTENDS Service, TLC

Symmetry == Permutations(Threads) \cup Permutations(MapIds)

Machine(arch, highest, missing) == [arch |-> arch, highest |-> highest, missing |-> missing]

(* A complete machine and one without os-release. *)
MCMachines == {Machine("amd64", 0, {}), Machine("amd64", 0, {"os-release"})}

(* ARM machines: the highest core below the largest i8 and at it, and one   *)
(* without cpufreq.                                                         *)
MCArmMachines ==
  {Machine("arm64", 0, {"os-release"}), Machine("arm64", 1, {}),
   Machine("arm64", 0, {"scaling_cur_freq"})}

MCOneMachine == {Machine("amd64", 0, {})}
=============================================================================
