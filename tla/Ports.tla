-------------------------------- MODULE Ports --------------------------------
(***************************************************************************)
(* port_read_tcp4 and port_read_tcp6 of libnet/net.cc: a scratch arena, a  *)
(* file that is read byte by byte as long as the byte is a newline, and no *)
(* look at what read returns.                                              *)
(***************************************************************************)
EXTENDS Parse

CONSTANTS
  PortFiles,     \* contents of the files
  Mappings,      \* arenas the process can map
  MaxPortCalls   \* bound: calls in a behaviour

ASSUME PortAssumption ==
  /\ PortFiles \subseteq Seq(Nat)
  /\ Mappings \in Nat /\ MaxPortCalls \in Nat

VARIABLES
  port_pc,       \* "idle", "reading" or "down"
  port_file,     \* the bytes of the open file
  port_pos,      \* bytes read of it
  port_buffer,   \* the first byte of the buffer; the next one stays zero
  port_arenas,   \* arenas mapped
  port_missing,  \* calls that did not find their file
  port_calls     \* calls so far

portVars == <<port_pc, port_file, port_pos, port_buffer, port_arenas, port_missing, port_calls>>

PortInit ==
  /\ port_pc = "idle"
  /\ port_file = <<>> /\ port_pos = 0 /\ port_buffer = NUL
  /\ port_arenas = 0 /\ port_missing = 0 /\ port_calls = 0

PortCall ==
  /\ port_pc = "idle" /\ port_calls < MaxPortCalls
  /\ port_calls' = port_calls + 1
  /\ port_arenas' = IF port_arenas < Mappings THEN port_arenas + 1 ELSE port_arenas

(* The return after a failed open leaves the arena mapped. *)
PortMissing ==
  /\ PortCall
  /\ port_missing' = port_missing + 1
  /\ UNCHANGED <<port_pc, port_file, port_pos, port_buffer>>

(* Without an arena the buffer is a null pointer and is compared. *)
PortOpen(file) ==
  /\ PortCall
  /\ port_file' = file /\ port_pos' = 0 /\ port_buffer' = NUL
  /\ port_pc' = IF port_arenas < Mappings THEN "reading" ELSE "down"
  /\ UNCHANGED port_missing

(* Mutant: until the end of the line. *)
GoesOn_reversed(byte) == compare_string(<<byte, NUL>>, <<NEWLINE, NUL>>)

GoesOn(byte) == ~compare_string(<<byte, NUL>>, <<NEWLINE, NUL>>)

(* At the end of the file read leaves the buffer as it is. *)
NextByte == IF port_pos < Len(port_file) THEN port_file[port_pos + 1] ELSE port_buffer

PortRead ==
  /\ port_pc = "reading"
  /\ port_buffer' = NextByte
  /\ port_pos' = IF port_pos < Len(port_file) THEN port_pos + 1 ELSE port_pos
  /\ GoesOn(NextByte)
  /\ UNCHANGED <<port_pc, port_file, port_arenas, port_missing, port_calls>>

(* Mutant: nothing is given back. *)
Destroyed_not(arenas) == arenas

Destroyed(arenas) == arenas - 1

(* The last read, arena_destroy and close. *)
PortReadLast ==
  /\ port_pc = "reading" /\ ~GoesOn(NextByte)
  /\ port_pc' = "idle" /\ port_arenas' = Destroyed(port_arenas)
  /\ UNCHANGED <<port_file, port_pos, port_buffer, port_missing, port_calls>>

PortNext == PortMissing \/ (\E f \in PortFiles : PortOpen(f)) \/ PortRead \/ PortReadLast

(* The thread of a call keeps running. *)
PortFairness == WF_portVars(PortRead \/ PortReadLast)

PortSpec == PortInit /\ [][PortNext]_portVars /\ PortFairness

-----------------------------------------------------------------------------
(* Properties *)

(* Only calls that do not find their file lose an arena, each of them one   *)
(* while there are any, and the process goes down only when such calls have *)
(* used up all of them.                                                     *)
LostOnlyWhenMissing ==
  /\ port_arenas = (IF port_missing < Mappings THEN port_missing ELSE Mappings)
                     + (IF port_pc = "reading" THEN 1 ELSE 0)
  /\ port_pc = "down" => port_missing >= Mappings

(* The loop ends on every file that is empty or has a byte other than a     *)
(* newline.  (On a file of newlines alone it never does: the last byte      *)
(* stays in the buffer.)                                                    *)
ScanEnds ==
  (port_pc = "reading" /\ (port_file = <<>> \/ \E i \in DOMAIN port_file : port_file[i] # NEWLINE))
    ~> (port_pc = "idle")

=============================================================================
