-------------------------- MODULE DriverLifecycle --------------------------
(***************************************************************************)
(* td3_i2c_fcc.c of 02_cuat/04_driver: loading and removing the module,    *)
(* binding and unbinding the platform device, opening and closing the      *)
(* character device.                                                       *)
(*                                                                         *)
(* driverInit makes one kernel call after another, any of which may fail;  *)
(* from device_create on, a process may open the device, whether           *)
(* FCCi2cProbe has mapped the registers or not.  The module cannot be      *)
(* removed while a file is open, because the file operations name their    *)
(* owner; the device can be unbound, through sysfs.  One file is open at a *)
(* time, I2CTransfer has several.  The memory of cdev_alloc is left out.   *)
(***************************************************************************)
EXTENDS Integers

VARIABLES
    deviceTree,     \* has it a node td3_i2c_fcc with its interrupt
    at,             \* the next step of driverInit or driverExit; out, live
    held,           \* what is registered in the kernel
    probe,          \* the next step of FCCi2cProbe or FCCi2cRemove, or none
    bound,          \* is the device bound to the driver
    mapped,         \* register blocks that are mapped
    irq,            \* is FCCi2cHandlerIRQ registered
    file,           \* closed, open; lost when its process has died of a fault
    \* history
    unbound,        \* while the module was live, the open file has seen the
                    \* device unbound
    faulted         \* registers were used that were not mapped

driverVars == <<deviceTree, at, held, probe, bound, mapped, irq, file, unbound,
                faulted>>
platformVars == <<probe, bound, mapped, irq>>
fileVars == <<file, unbound, faulted>>

Names == {"region", "cdev", "class", "device"}
Blocks == {"i2c", "clk", "ctrl"}

Init ==
    /\ deviceTree \in BOOLEAN
    /\ at = "out"
    /\ held = {}
    /\ probe = "none"
    /\ bound = FALSE
    /\ mapped = {}
    /\ irq = FALSE
    /\ file = "closed"
    /\ unbound = FALSE
    /\ faulted = FALSE

-----------------------------------------------------------------------------
(* driverInit.                                                             *)

Insmod ==
    /\ at = "out"
    /\ at' = "region"
    /\ UNCHANGED <<deviceTree, held, platformVars, fileVars>>

AllocRegion ==
    /\ at = "region"
    /\ \/ held' = held \cup {"region"} /\ at' = "cdev"
       \/ at' = "out" /\ UNCHANGED held
    /\ UNCHANGED <<deviceTree, platformVars, fileVars>>

AddCdev ==
    /\ at = "cdev"
    /\ \/ held' = held \cup {"cdev"} /\ at' = "class"
       \/ held' = held \ {"region"} /\ at' = "out"
    /\ UNCHANGED <<deviceTree, platformVars, fileVars>>

\* class_create fails with an error pointer, never NULL: the test passes,
\* and insmod dies in line 71 with the module half loaded.
CreateClass ==
    /\ at = "class"
    /\ \/ held' = held \cup {"class"} /\ at' = "device"
       \/ at' = "dead" /\ UNCHANGED held
    /\ UNCHANGED <<deviceTree, platformVars, fileVars>>

\* So does device_create: driverInit goes on without a device.
CreateDevice ==
    /\ at = "device"
    /\ \/ held' = held \cup {"device"}
       \/ UNCHANGED held
    /\ at' = "register"
    /\ UNCHANGED <<deviceTree, platformVars, fileVars>>

\* Fault: the class stays when the driver cannot be registered.
UndoneByInit_NotClass == Names \ {"class"}

\* Lines 96-106.
UndoneByInit == Names

\* platform_driver_register returns 0 whether or not there is a device to
\* probe, and whether or not the probe succeeds.
RegisterDriver ==
    /\ at = "register"
    /\ \/ /\ at' = "live"
          /\ held' = held \cup {"driver"}
          /\ probe' = IF deviceTree THEN "i2c" ELSE "none"
       \/ /\ at' = "out"
          /\ held' = held \ UndoneByInit
          /\ UNCHANGED probe
    /\ UNCHANGED <<deviceTree, bound, mapped, irq, fileVars>>

-----------------------------------------------------------------------------
(* FCCi2cProbe and FCCi2cRemove.                                           *)

\* Through sysfs.
Bind ==
    /\ at = "live"
    /\ probe = "none"
    /\ deviceTree
    /\ ~bound
    /\ probe' = "i2c"
    /\ UNCHANGED <<deviceTree, at, held, bound, mapped, irq, fileVars>>

\* What each step unmaps when it fails.
Unmaps ==
    [i2c |-> {}, clk |-> {"i2c"}, ctrl |-> {"i2c", "clk"},
     clock |-> Blocks, number |-> Blocks, request |-> Blocks]

After == [i2c |-> "clk", clk |-> "ctrl", ctrl |-> "clock", clock |-> "number",
          number |-> "request", request |-> "none"]

ProbeStep ==
    /\ probe \in DOMAIN After
    /\ \/ /\ probe' = After[probe]
          /\ mapped' = mapped \cup ({probe} \cap Blocks)
          /\ irq' = (probe = "request")
          /\ bound' = (probe = "request")
       \/ /\ probe' = "none"
          /\ mapped' = mapped \ Unmaps[probe]
          /\ UNCHANGED <<irq, bound>>
    /\ UNCHANGED <<deviceTree, at, held, fileVars>>

\* free_irq, called for an unbind or by platform_driver_unregister.
Remove ==
    /\ at \in {"live", "unregister"}
    /\ probe = "none"
    /\ bound
    /\ irq' = FALSE
    /\ probe' = "unmap"
    /\ unbound' = (unbound \/ (at = "live" /\ file = "open"))
    /\ UNCHANGED <<deviceTree, at, held, bound, mapped, file, faulted>>

RemoveUnmaps ==
    /\ probe = "unmap"
    /\ mapped' = {}
    /\ bound' = FALSE
    /\ probe' = "none"
    /\ UNCHANGED <<deviceTree, at, held, irq, fileVars>>

-----------------------------------------------------------------------------
(* driverExit.                                                             *)

\* Fault: the file operations name no owner.
Unused_NoOwner == TRUE

\* .owner = THIS_MODULE.
Unused == file = "closed"

\* Up to class_destroy.
Rmmod ==
    /\ at = "live"
    /\ probe = "none"
    /\ Unused
    /\ at' = "unregister"
    /\ held' = held \ Names
    /\ UNCHANGED <<deviceTree, platformVars, fileVars>>

UnregisterDriver ==
    /\ at = "unregister"
    /\ probe = "none"
    /\ ~bound
    /\ at' = "out"
    /\ held' = held \ {"driver"}
    /\ UNCHANGED <<deviceTree, platformVars, fileVars>>

-----------------------------------------------------------------------------
(* The file.                                                               *)

\* What every access of the driver to a register needs.
Usable == "i2c" \in mapped

\* open() finds the device; FCCopen does not look whether it is bound (the
\* return of line 740 is a comment).
OpenFile ==
    /\ {"cdev", "device"} \subseteq held
    /\ file = "closed"
    /\ file' = "open"
    /\ unbound' = (~bound \/ probe = "unmap")
    /\ UNCHANGED <<deviceTree, at, held, platformVars, faulted>>

CannotOpen == ~({"cdev", "device"} \subseteq held)

\* FCCclose writes to the registers.
CloseFile ==
    /\ file = "open"
    /\ Usable
    /\ file' = "closed"
    /\ unbound' = FALSE
    /\ UNCHANGED <<deviceTree, at, held, platformVars, faulted>>

\* An access without registers: the process dies in the kernel, and its file
\* is never closed.
Fault ==
    /\ file = "open"
    /\ ~Usable
    /\ file' = "lost"
    /\ faulted' = TRUE
    /\ UNCHANGED <<deviceTree, at, held, platformVars, unbound>>

\* A bad address of another kind.
Oops ==
    /\ file = "open"
    /\ file' = "lost"
    /\ UNCHANGED <<deviceTree, at, held, platformVars, unbound, faulted>>

\* What happens to the driver whatever its user does.
Step ==
    \/ Insmod \/ AllocRegion \/ AddCdev \/ CreateClass \/ CreateDevice
    \/ RegisterDriver
    \/ Bind \/ ProbeStep \/ Remove \/ RemoveUnmaps
    \/ Rmmod \/ UnregisterDriver

DriverTypeOK ==
    /\ deviceTree \in BOOLEAN
    /\ at \in {"out", "region", "cdev", "class", "device", "register", "live",
               "unregister", "dead"}
    /\ held \subseteq Names \cup {"driver"}
    /\ probe \in DOMAIN After \cup {"none", "unmap"}
    /\ mapped \subseteq Blocks
    /\ file \in {"closed", "open", "lost"}
    /\ {bound, irq, unbound, faulted} \subseteq BOOLEAN
=============================================================================
