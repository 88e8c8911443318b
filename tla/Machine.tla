------------------------------ MODULE Machine ------------------------------
(***************************************************************************)
(* The life of the machine: all cores boot, main ends in plat_poweroff, or *)
(* (what the kernel is being built for) goes on to run threads on core 0,  *)
(* which enter the kernel with exceptions and may call sys_poweroff.       *)
(***************************************************************************)
EXTENDS Boot, Exceptions, Poweroff

vars == <<bootVars, exceptionVars, poweroffVars>>

Init == BootInit /\ ExceptionsInit /\ PoweroffInit

\* 2^32 in the model's addresses: (unsigned int) keeps the rest.
SIZE_4G == 4 * SIZE_1G
virt_to_phys(va) == (va - KBASE) % SIZE_4G

\* plat_poweroff with mbox on a stack.
Call(sp_) == plat_poweroff(StackMemory(sp_), StackAddress(sp_), virt_to_phys(StackAddress(sp_)))

Boots == BootNext /\ UNCHANGED <<exceptionVars, poweroffVars>>

\* The end of main.
MainPowersOff ==
  /\ At(0, "plat_poweroff") /\ po = "idle"
  /\ Call(core[0].sp)
  /\ UNCHANGED <<bootVars, exceptionVars>>

\* A main that does not power off.
MainGoesOn ==
  /\ At(0, "plat_poweroff") /\ po = "idle"
  /\ Goto(0, "kernel")
  /\ UNCHANGED <<flag, spin, bss, tables, kstack, exceptionVars, poweroffVars>>

\* The threads start when the other cores wait for their flag or are through;
\* the boot of a core and the exceptions of another have no state in common.
StartThreads ==
  /\ At(0, "kernel")
  /\ \A c \in Cores \ {0} : core[c].pc \in {"wait_until_smp_enabled", "secondary_start"}
  /\ \A c \in Cores \ {0} : flag[c] # 0 => At(c, "secondary_start")
  /\ Goto(0, "threads")
  /\ UNCHANGED <<flag, spin, bss, tables, kstack, exceptionVars, poweroffVars>>

InSysPoweroff == pc = <<"syscall", "poweroff">>
InPoweroff == po \in {"write", "read", "gpio", "pm"}

RunsThreads ==
  /\ At(0, "threads") /\ ~halted /\ ~InSysPoweroff
  /\ ExceptionsNext
  /\ UNCHANGED <<bootVars, poweroffVars>>

\* sys_poweroff, on the stack switch_to_cpu_stack has chosen.
sys_poweroff ==
  /\ At(0, "threads") /\ ~halted /\ InSysPoweroff /\ po = "idle"
  /\ Call(<<"KSTACK", 0>>)
  /\ UNCHANGED <<bootVars, exceptionVars>>

\* It returns before the watchdog resets the chip, and may be called again.
ReturnPoweroff ==
  /\ At(0, "threads") /\ ~halted /\ po = "done"
  /\ ReturnSyscall("poweroff")
  /\ po' = "idle"
  /\ UNCHANGED <<bootVars, mbox, r, requests, responses, armed, off>>

PowersDown == PoweroffStep /\ UNCHANGED <<bootVars, exceptionVars>>
Answers == Firmware /\ UNCHANGED <<bootVars, exceptionVars>>
Resets == Watchdog /\ UNCHANGED <<bootVars, exceptionVars>>

Next ==
  /\ ~off
  /\ \/ Boots \/ MainPowersOff \/ MainGoesOn \/ StartThreads \/ RunsThreads
     \/ sys_poweroff \/ PowersDown \/ ReturnPoweroff \/ Answers \/ Resets

\* Core 0 keeps executing, the firmware answers, and an armed watchdog expires.
Fairness ==
  /\ WF_vars(~off /\ Primary /\ UNCHANGED <<exceptionVars, poweroffVars>>)
  /\ WF_vars(~off /\ (MainPowersOff \/ MainGoesOn))
  /\ WF_vars(~off /\ PowersDown)
  /\ WF_vars(~off /\ Answers)
  /\ WF_vars(Resets)

Spec == Init /\ [][Next]_vars /\ Fairness

(***************************************************************************)
(* Properties                                                              *)
(***************************************************************************)
\* Type invariant of the three parts.
TypeOK == BootTypeOK /\ ExceptionsTypeOK /\ PoweroffTypeOK

\* The primary core gets through the boot, whatever the others do, and
\* plat_poweroff ends with the chip reset, with whatever mail it finds.
PowersOff == <>(off \/ At(0, "kernel")) /\ (InPoweroff ~> off)

\* The address written to the mailbox is that of the message.
MessageAddressed == po # "idle" => r = mbox.pa
=============================================================================
