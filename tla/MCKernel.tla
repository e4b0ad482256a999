------------------------------ MODULE MCKernel -------------------------------
(* Kernel for TLC: the threads of the firmware and the objects they share.   *)
EXTENDS Kernel

MCTask == {"EthIf", "tcpip", "LinkThr", "idle"}
MCBase == [EthIf |-> 3, tcpip |-> 2, LinkThr |-> 1, idle |-> 0]

\* s_xSemaphore, lock_tcpip_core, lwip_sys_mutex, tcpip_mbox.
MCObject == {"sem", "core", "sys", "mbox"}
MCSize == [o \in MCObject |-> 1]
MCInitial == [sem |-> 1, core |-> 1, sys |-> 1, mbox |-> 0]

TakeOf(o, wait) == [do |-> "take", on |-> o, wait |-> wait]
GiveOf(o, wait) == [do |-> "give", on |-> o, wait |-> wait]
DelayOf(wait) == [do |-> "delay", on |-> None, wait |-> wait]

EthIfProgram ==
  <<TakeOf("sem", Forever), TakeOf("core", Forever), TakeOf("sys", Forever), GiveOf("sys", 0),
    GiveOf("mbox", 1), GiveOf("core", 0)>>

TcpipProgram ==
  <<TakeOf("mbox", 2), TakeOf("core", Forever), TakeOf("sys", Forever), GiveOf("sys", 0),
    GiveOf("core", 0)>>

LinkThrProgram == <<DelayOf(2), TakeOf("sys", Forever), GiveOf("sys", 0)>>

\* Not in this firmware: a mutex taken with a timeout, and a message taken back before
\* its receiver runs.
EthIfImpatient ==
  <<TakeOf("sem", Forever), GiveOf("mbox", 0), TakeOf("mbox", 0), TakeOf("sys", 1), GiveOf("sys", 0)>>

MCPrograms ==
  [EthIf |-> {EthIfProgram, EthIfImpatient}, tcpip |-> {TcpipProgram},
   LinkThr |-> {LinkThrProgram}, idle |-> {}]

\* The programs of the firmware are as the theorems about priorities want them.
MCFirmware ==
  [EthIf |-> {EthIfProgram}, tcpip |-> {TcpipProgram}, LinkThr |-> {LinkThrProgram}, idle |-> {}]

Firmware == INSTANCE Kernel WITH Programs <- MCFirmware

ASSUME FirmwareAssumption == Firmware!Patient /\ Firmware!Ranked
=============================================================================
