----------------------------- MODULE NachosHardware -----------------------------
(***************************************************************************)
(* The simulated hardware of a Nachos machine: its processor and devices.  *)
(* They share nothing but the list of pending interrupts (NachosCpu), so a *)
(* behaviour is one of a machine in which one of them is used: processor   *)
(* and console with USER_PROGRAM, the disk with FILESYS, the network with  *)
(* NETWORK.                                                                *)
(***************************************************************************)
EXTENDS NachosMips, NachosConsole, NachosDisk, NachosNetwork

VARIABLE device
hardwareVars == <<device, mipsVars, consoleVars, diskVars, networkVars>>

HardwareInit ==
  \/ device = "processor" /\ MipsInit /\ ConsoleIdle /\ DiskIdle /\ NetworkIdle
  \/ device = "console" /\ MipsIdle /\ ConsoleInit /\ DiskIdle /\ NetworkIdle
  \/ device = "disk" /\ MipsIdle /\ ConsoleIdle /\ DiskInit /\ NetworkIdle
  \/ device = "network" /\ MipsIdle /\ ConsoleIdle /\ DiskIdle /\ NetworkInit

HardwareNext ==
  /\ \/ device = "processor" /\ MipsNext /\ UNCHANGED <<consoleVars, diskVars, networkVars>>
     \/ device = "console" /\ ConsoleNext /\ UNCHANGED <<mipsVars, diskVars, networkVars>>
     \/ device = "disk" /\ DiskNext /\ UNCHANGED <<mipsVars, consoleVars, networkVars>>
     \/ device = "network" /\ NetworkNext /\ UNCHANGED <<mipsVars, consoleVars, diskVars>>
  /\ UNCHANGED device

HardwareSpec == HardwareInit /\ [][HardwareNext]_hardwareVars /\ ConsoleFairness
=============================================================================
