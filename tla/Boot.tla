-------------------------------- MODULE Boot --------------------------------
(***************************************************************************)
(* libtinynv/src/dev.c, gpu.c, flcn.c, gsp.c and tinynv.c: a process finds *)
(* the card as the last one left it, boots the firmware, and puts the card *)
(* down again.  The firmware writes into memory of the process that booted *)
(* it, which is safe while the memory is there or the card is not a bus    *)
(* master.  The card may lose its windows (the command register and the    *)
(* base addresses) under a running firmware; a step may be refused or time *)
(* out; a signal may come at any time.                                     *)
(***************************************************************************)
EXTENDS BootPlan

CONSTANTS
    Attempts,       \* tinynv_gpu_boot_firmware: attempts
    MaxProcs,       \* bound: processes, one after another
    MaxFaults       \* bound: things that go wrong

ASSUME BootAssumption == Attempts \in Nat \ {0} /\ MaxProcs \in Nat /\ MaxFaults \in Nat

VARIABLES
    gpu,            \* the card
    model,          \* what it is: how it boots, and the sizes of its firmware
    dev,            \* what early_init and reset_cold noted of the region
    drv,            \* the process's flags
    at,             \* where the process is
    made,           \* what it has placed and been given names for
    held,           \* the part of it in the process's own memory
    image,          \* what is in the two slots of video memory falcons run from
    blank,          \* what was named to the card before it was made
    adrift,         \* whose memory was released while it was using it
    run             \* processes so far, faults so far, how the last process ended

bootVars == <<gpu, model, dev, drv, at, made, held, image, blank, adrift, run>>

Alive(g) == g.fw \in {"starting", "running"}
Reads == gpu.decode /\ gpu.bars
LooksLost == gpu.name /\ ~(gpu.decode /\ gpu.bars /\ gpu.master)

Fresh == [booted |-> FALSE, boot_failed |-> FALSE, exec_ready |-> FALSE, up |-> FALSE,
          restored |-> FALSE, timed_out |-> FALSE, busy |-> FALSE, attempt |-> 1]
NoImage == [fwsec |-> "none", booter |-> "none"]

BootInit ==
    /\ gpu = [name |-> TRUE, decode |-> TRUE, bars |-> TRUE, master |-> FALSE, region |-> FALSE, fw |-> "none"]
    /\ \E fmc \in BOOLEAN, size \in ImageSizes, bootbin \in BootBinSizes, slack \in {0, 8} :
           model = [fmc |-> fmc, image |-> size, bootbin |-> bootbin, slack |-> slack]
    /\ dev = [ones |-> FALSE, was_up |-> FALSE, hi_now |-> FALSE]
    /\ drv = Fresh /\ at = [pc |-> "none", i |-> 0]
    /\ made = {} /\ held = {} /\ image = NoImage /\ blank = {} /\ adrift = {}
    /\ run = [procs |-> 0, faults |-> 0, ended |-> "never"]

Goto(pc) == at' = [pc |-> pc, i |-> 1]
Fault == run.faults < MaxFaults /\ run' = [run EXCEPT !.faults = @ + 1]
NoFault == UNCHANGED run
UnchangedSoft == UNCHANGED <<made, held, image, blank, adrift>>
UnchangedDriver == UNCHANGED <<model, dev, drv>> /\ UnchangedSoft

\* BOOT_STAGE: the process will not try again
BootFails ==
    /\ drv' = [drv EXCEPT !.boot_failed = TRUE] /\ Goto("failed")
    /\ UNCHANGED <<model, dev>> /\ UnchangedSoft

\* early_init gives up before there is anything to put down
Refuses == Goto("refused") /\ UnchangedDriver

(***************************************************************************)
(* Arrival.                                                                *)
(***************************************************************************)

\* tinynv_gpu_open, and the first read of tinynv_dev_early_init
Open ==
    /\ at.pc \in {"none", "refused"} /\ (at.pc = "none" => run.procs < MaxProcs)
    /\ run' = IF at.pc = "none" THEN [run EXCEPT !.procs = @ + 1, !.ended = "never"] ELSE run
    /\ dev' = [ones |-> ~Reads, was_up |-> Reads /\ gpu.region, hi_now |-> Reads /\ gpu.region]
    /\ drv' = Fresh /\ Goto(IF dev'.was_up THEN "warm" ELSE "enable")
    /\ UNCHANGED <<gpu, model>> /\ UnchangedSoft

Cleared == [gpu EXCEPT !.master = FALSE]
\* what a reset leaves, once the base addresses have been put back
AfterReset(bars) ==
    [gpu EXCEPT !.master = FALSE, !.decode = FALSE, !.bars = bars, !.region = FALSE, !.fw = "none"]
NotAdrift == adrift' = {}

\* warm_reset: mastering off, then the reset, then the card's name again
WarmReset ==
    /\ at.pc = "warm"
    /\ \/ /\ gpu' = AfterReset(gpu.bars) /\ NoFault
          /\ Goto("enable") /\ NotAdrift
          /\ UNCHANGED <<model, dev, drv, made, held, image, blank>>
       \/ gpu' = Cleared /\ Fault /\ Goto("enable") /\ UnchangedDriver       \* a reset that did nothing
       \/ gpu' = Cleared /\ Fault /\ Refuses                                 \* refused by the backend
       \/ /\ gpu' = [AfterReset(FALSE) EXCEPT !.name = FALSE] /\ Fault       \* not back in ten seconds
          /\ Goto("refused") /\ NotAdrift
          /\ UNCHANGED <<model, dev, drv, made, held, image, blank>>

\* mastering and the memory window; a card that is gone takes no write
Enable ==
    /\ at.pc = "enable"
    /\ gpu' = IF gpu.name THEN [gpu EXCEPT !.decode = TRUE, !.master = TRUE] ELSE gpu
    /\ Goto(IF dev.ones /\ ~dev.was_up THEN "second" ELSE "identify")
    /\ NoFault /\ UnchangedDriver

\* the first look saw nothing but ones: look again with the window on
SecondLook ==
    /\ at.pc = "second"
    /\ dev' = [dev EXCEPT !.was_up = Reads /\ gpu.region, !.hi_now = Reads /\ gpu.region]
    /\ Goto(IF dev'.was_up THEN "warm" ELSE "identify")
    /\ NoFault /\ UNCHANGED <<gpu, model, drv>> /\ UnchangedSoft

LeftUpMutant == FALSE

\* the region read again after a reset, because changing it was the point
LeftUp == dev.was_up /\ gpu.region

\* tinynv_dev_mmu_init and tinynv_mm_init: the windows mapped, page tables begun
MmuUp == made' = {"root_page_table"}

\* the rest of early_init
Identify ==
    /\ at.pc = "identify" /\ UNCHANGED gpu
    /\ \/ Reads /\ Fault /\ Refuses       \* unknown chip, firmware not done, no memory
       \/ (~Reads \/ LeftUp) /\ NoFault /\ Refuses
       \/ /\ Reads /\ ~LeftUp /\ NoFault
          /\ dev' = [dev EXCEPT !.hi_now = IF dev.was_up THEN FALSE ELSE @]
          /\ drv' = [drv EXCEPT !.booted = TRUE] /\ MmuUp
          /\ Goto("place") /\ UNCHANGED <<model, held, image, blank, adrift>>

(***************************************************************************)
(* A plan is walked a step at a time.                                      *)
(***************************************************************************)

Plan ==
    IF at.pc = "place" THEN gpu_init_sw(model.fmc, model.image, model.bootbin) ELSE RmSetup

AfterPlan == IF at.pc = "place" THEN "start" ELSE "carveout"

\* every answer comes by the queue the firmware reads and the driver rings
CanAnswer == gpu.fw = "running" /\ gpu.master /\ Reads

WalkPlan ==
    /\ at.pc \in {"place", "setup"}
    /\ LET s == Plan[at.i]
       IN  /\ s.op = "check" => s.holds /\ s.uses \subseteq made
           /\ s.op = "call" => CanAnswer
           /\ made' = made \cup {s.what}
           /\ held' = IF s.op = "host" THEN held \cup {s.what} ELSE held
           /\ blank' = blank \cup (s.uses \ made)
           /\ image' = CASE s.what = "fwsec" -> [image EXCEPT !.fwsec = "frts"]
                         [] s.what = "booter" -> [image EXCEPT !.booter = "load"]
                         [] OTHER -> image
    /\ IF at.i = Len(Plan) THEN Goto(AfterPlan) ELSE at' = [at EXCEPT !.i = @ + 1]
    /\ NoFault /\ UNCHANGED <<gpu, model, dev, drv, adrift>>

PlanRefused ==
    /\ at.pc \in {"place", "setup"}
    /\ LET s == Plan[at.i]
       IN  \/ s.op = "check" /\ ~(s.holds /\ s.uses \subseteq made) /\ NoFault
           \/ s.op = "call" /\ ~CanAnswer /\ NoFault
           \/ s.op # "check" /\ Fault
    /\ BootFails /\ UNCHANGED gpu

(***************************************************************************)
(* Starting the firmware.                                                  *)
(***************************************************************************)

\* A falcon's reset is over when its memory reads scrubbed, and the security
\* processor has answered when two registers differ: neither happens through
\* a window that reads all ones
tinynv_flcn_reset == Reads
kfsp_send_msg == Reads

\* what a core runs is what its slot holds when it is started
flcn_execute_hs(slot, command) == tinynv_flcn_reset /\ image[slot] = command

HasAddresses == {"wpr_meta", "libos_args"} \subseteq made

\* flcn_vbios_init_hw: FWSEC on the GSP falcon places the region ...
PlaceRegion ==
    /\ at.pc = "start" /\ ~model.fmc
    /\ IF HasAddresses /\ ~dev.hi_now /\ flcn_execute_hs("fwsec", "frts")
       THEN \/ gpu' = [gpu EXCEPT !.region = TRUE] /\ NoFault /\ Goto("booter") /\ UnchangedDriver
            \/ UNCHANGED gpu /\ Fault /\ BootFails
       ELSE UNCHANGED gpu /\ NoFault /\ BootFails

\* ... and booter_load on SEC2 unpacks the firmware into it and starts it
BooterLoad ==
    /\ at.pc = "booter"
    /\ \/ /\ flcn_execute_hs("booter", "load")
          /\ gpu' = [gpu EXCEPT !.fw = "starting"] /\ NoFault /\ Goto("attach") /\ UnchangedDriver
       \/ /\ flcn_execute_hs("booter", "load")
          /\ gpu' = [gpu EXCEPT !.fw = "starting"] /\ Fault /\ BootFails   \* started, and not seen to
       \/ UNCHANGED gpu /\ Fault /\ BootFails

\* tinynv_flcn_init_hw: the chain of trust does all of it on one message
ChainOfTrust ==
    /\ at.pc = "start" /\ model.fmc
    /\ IF HasAddresses /\ kfsp_send_msg
       THEN \/ /\ gpu' = [gpu EXCEPT !.region = TRUE, !.fw = "starting"]
               /\ blank' = blank \cup ({"boot_args", "fmc_image"} \ made)
               /\ NoFault /\ Goto("attach") /\ UNCHANGED <<model, dev, drv, made, held, image, adrift>>
            \/ /\ gpu' = [gpu EXCEPT !.region = TRUE, !.fw = "starting"]     \* started, and the lockdown stays
               /\ Fault /\ BootFails
            \/ UNCHANGED gpu /\ Fault /\ BootFails
       ELSE UNCHANGED gpu /\ NoFault /\ BootFails

\* tinynv_gsp_init_hw: the status queue's header is the firmware's to write
Attach ==
    /\ at.pc = "attach" /\ UNCHANGED gpu
    /\ \/ /\ gpu.master /\ NoFault /\ Goto("notice")
          /\ drv' = [drv EXCEPT !.restored = FALSE] /\ UNCHANGED <<model, dev>> /\ UnchangedSoft
       \/ gpu.master /\ Fault /\ BootFails
       \/ ~gpu.master /\ NoFault /\ BootFails

\* rpc_wait: the notice that it is up
Notice ==
    /\ at.pc = "notice" /\ gpu.master
    /\ gpu' = [gpu EXCEPT !.fw = "running"] /\ NoFault
    /\ Goto("settle") /\ UnchangedDriver

\* tinynv_dev_restore_decode, from the snapshot early_init took
RestoreDecode == gpu' = [gpu EXCEPT !.decode = TRUE, !.bars = TRUE, !.master = TRUE]

\* init_wait_report, looked at every quarter of a second
WindowsBack ==
    /\ at.pc = "notice" /\ LooksLost /\ RestoreDecode
    /\ drv' = [drv EXCEPT !.restored = TRUE] /\ NoFault
    /\ UNCHANGED <<model, dev, at>> /\ UnchangedSoft

LastAttempt == drv.attempt >= (IF model.fmc THEN 1 ELSE Attempts)

\* given up ten seconds after a restore, or after sixty: only this is retried
NoNotice ==
    /\ at.pc = "notice" /\ UNCHANGED gpu
    /\ IF drv.restored THEN NoFault ELSE Fault
    /\ IF LastAttempt THEN BootFails
       ELSE /\ drv' = [drv EXCEPT !.timed_out = TRUE] /\ Goto("undo")
            /\ UNCHANGED <<model, dev>> /\ UnchangedSoft

\* a register sequence the driver could not run, or an error reported
NoticeFails == at.pc = "notice" /\ Fault /\ BootFails /\ UNCHANGED gpu

\* the rest of tinynv_gsp_init_hw
Settle ==
    /\ at.pc = "settle" /\ (IF LooksLost THEN RestoreDecode ELSE UNCHANGED gpu)
    /\ drv' = [drv EXCEPT !.up = TRUE] /\ NoFault /\ Goto("setup")
    /\ UNCHANGED <<model, dev>> /\ UnchangedSoft

\* what tinynv_dev_reset_cold leaves of a card whose reset worked
Cold == [AfterReset(TRUE) EXCEPT !.decode = TRUE, !.master = TRUE]

\* unmake_boot, which begins with tinynv_dev_reset_cold
Undo ==
    /\ at.pc = "undo"
    /\ \/ /\ gpu' = Cold /\ NoFault /\ Goto("undone") /\ NotAdrift
          /\ dev' = [dev EXCEPT !.was_up = TRUE, !.hi_now = FALSE]
          /\ UNCHANGED <<model, drv, made, held, image, blank>>
       \/ gpu' = Cleared /\ Fault /\ BootFails                                   \* refused by the backend
       \/ gpu' = [AfterReset(FALSE) EXCEPT !.name = FALSE] /\ Fault /\ BootFails \* not back
       \/ RestoreDecode /\ Fault /\ BootFails                                    \* the region is still up
       \/ gpu' = Cold /\ Fault /\ BootFails                                      \* boot firmware not done

\* memory given back, by the processor's half of the driver
Release(b, whose, using) ==
    /\ held' = held \ b
    /\ adrift' = IF using /\ b \cap held # {} THEN adrift \cup {whose} ELSE adrift

BootMemory == held \ {"staging", "exec"}

\* ... and ends with tinynv_gsp_fini and tinynv_flcn_fini
Undone ==
    /\ at.pc = "undone" /\ Release(BootMemory, "firmware", Alive(gpu))
    /\ MmuUp /\ image' = NoImage
    /\ drv' = [drv EXCEPT !.timed_out = FALSE, !.attempt = @ + 1] /\ Goto("place")
    /\ NoFault /\ UNCHANGED <<gpu, model, dev, blank>>

(***************************************************************************)
(* The last stages of device_boot, and the card in use.                    *)
(***************************************************************************)

CarveoutCheck ==
    /\ at.pc = "carveout" /\ UNCHANGED gpu /\ NoFault
    /\ IF Reads /\ check_fw_carveout(Region(model.fmc, model.image, model.bootbin, model.slack))
       THEN Goto("exec") /\ UnchangedDriver
       ELSE BootFails

ExecInit ==
    /\ at.pc = "exec" /\ UNCHANGED gpu
    /\ \/ /\ held' = held \cup {"exec"} /\ drv' = [drv EXCEPT !.exec_ready = TRUE]
          /\ NoFault /\ Goto("ready") /\ UNCHANGED <<model, dev, made, image, blank, adrift>>
       \/ Fault /\ BootFails

Submit ==
    /\ at.pc = "ready" /\ ~drv.busy /\ CanAnswer
    /\ drv' = [drv EXCEPT !.busy = TRUE] /\ NoFault
    /\ UNCHANGED <<gpu, model, dev, at>> /\ UnchangedSoft

EngineDone ==
    /\ drv.busy /\ at.pc \in {"ready", "idle"} /\ gpu.master
    /\ drv' = [drv EXCEPT !.busy = FALSE] /\ NoFault
    /\ UNCHANGED <<gpu, model, dev, at>> /\ UnchangedSoft

\* the command register, and with it or not the base addresses, is cleared
LoseWindows ==
    /\ Alive(gpu) /\ gpu.name /\ Reads /\ at.pc \notin {"none", "refused"}
    /\ \E bars \in BOOLEAN : gpu' = [gpu EXCEPT !.decode = FALSE, !.master = FALSE, !.bars = bars]
    /\ Fault /\ UNCHANGED at /\ UnchangedDriver

(***************************************************************************)
(* Putting the card down.                                                  *)
(***************************************************************************)

Teardown == {"idle", "exec_fini", "unload", "notify", "sb", "unbooter", "quiesce", "fini"}

\* put_the_card_down, reached from exit, from close and from a signal
PutDown(g) ==
    /\ drv.booted /\ drv' = [drv EXCEPT !.booted = FALSE]
    /\ gpu' = g /\ Goto(IF drv.exec_ready THEN "idle" ELSE "unload")
    /\ UNCHANGED <<model, dev>> /\ UnchangedSoft

Exit == at.pc \in {"ready", "failed"} /\ NoFault /\ PutDown(gpu)

\* quiesce_and_continue: mastering first when the wait cannot be trusted
Signal(broken) ==
    /\ drv.booted
    /\ IF broken \/ ~drv.exec_ready THEN Fault /\ PutDown(Cleared) ELSE NoFault /\ PutDown(gpu)

\* tinynv_exec_idle: the work finishes, or thirty seconds pass
Idle ==
    /\ at.pc = "idle" /\ Goto("exec_fini")
    /\ IF drv.busy /\ gpu.master THEN Fault ELSE NoFault
    /\ UNCHANGED gpu /\ UnchangedDriver

\* tinynv_exec_fini
ExecFini ==
    /\ at.pc = "exec_fini" /\ Release({"exec"}, "engine", drv.busy)
    /\ drv' = [drv EXCEPT !.exec_ready = FALSE] /\ Goto("unload")
    /\ NoFault /\ UNCHANGED <<gpu, model, dev, made, image, blank>>

\* tinynv_gpu_unload, and tinynv_flcn_unload_prepare
UnloadPrepare ==
    /\ at.pc = "unload" /\ UNCHANGED <<gpu, model, dev, drv, made, held, blank, adrift>>
    /\ IF ~drv.up \/ model.fmc THEN NoFault /\ Goto("quiesce") /\ UNCHANGED image
       ELSE \/ /\ NoFault /\ Goto("notify")
               /\ image' = IF Reads THEN [fwsec |-> "sb", booter |-> "unload"] ELSE image
            \/ Fault /\ Goto("quiesce") /\ UNCHANGED image

\* a half of the unload that did not happen leaves the card as it is
UnloadStops == at.pc \in {"notify", "sb", "unbooter"} /\ Goto("quiesce") /\ UNCHANGED gpu /\ UnchangedDriver

\* tinynv_gsp_unload: told to leave, and waited for until it has halted
GspUnload ==
    /\ at.pc = "notify"
    /\ IF CanAnswer
       THEN \/ /\ gpu' = [gpu EXCEPT !.fw = "halted"] /\ NoFault /\ Goto("sb")
               /\ drv' = [drv EXCEPT !.up = FALSE] /\ UNCHANGED <<model, dev>> /\ UnchangedSoft
            \/ Fault /\ UnloadStops
       ELSE NoFault /\ UnloadStops

\* tinynv_flcn_unload_hw: FWSEC once more, with the other command ...
FwsecSb ==
    /\ at.pc = "sb"
    /\ \/ flcn_execute_hs("fwsec", "sb") /\ NoFault /\ Goto("unbooter") /\ UNCHANGED gpu /\ UnchangedDriver
       \/ Fault /\ UnloadStops

\* ... and booter_unload, after which the region must read zero
BooterUnload ==
    /\ at.pc = "unbooter"
    /\ \/ /\ flcn_execute_hs("booter", "unload") /\ NoFault
          /\ gpu' = [gpu EXCEPT !.region = FALSE, !.fw = "none"] /\ Goto("quiesce") /\ UnchangedDriver
       \/ Fault /\ UnloadStops

MasterDroppedMutant == gpu

MasterDropped == Cleared

\* tinynv_gpu_close: mastering is dropped before anything is unmapped
Quiesce ==
    /\ at.pc = "quiesce" /\ gpu' = MasterDropped
    /\ Goto("fini") /\ NoFault /\ UnchangedDriver

Fini ==
    /\ at.pc = "fini" /\ Release(BootMemory, "firmware", Alive(gpu)) /\ Goto("down")
    /\ NoFault /\ UNCHANGED <<gpu, model, dev, drv, made, image, blank>>

\* the process is gone, and all its memory with it
Gone(how) ==
    /\ at' = [pc |-> "none", i |-> 0] /\ made' = {} /\ held' = {} /\ image' = NoImage /\ blank' = blank
    /\ adrift' = adrift \cup (IF Alive(gpu) /\ BootMemory # {} THEN {"firmware"} ELSE {})
                        \cup (IF drv.busy /\ "exec" \in held THEN {"engine"} ELSE {})
    /\ drv' = Fresh /\ UNCHANGED <<gpu, model, dev>>
    /\ run.ended = "never"

Leave == at.pc \in {"down", "refused"} /\ Gone("left") /\ run' = [run EXCEPT !.ended = "left"]

\* a signal while the card is being put down: the handler finds the flag
\* cleared, has nothing to do, and lets the signal end the process (a second
\* signal of the kind being handled waits; any other does not)
Interrupted ==
    /\ at.pc \in Teardown /\ run.faults < MaxFaults /\ Gone("interrupted")
    /\ run' = [run EXCEPT !.ended = "interrupted", !.faults = @ + 1]

\* nothing of the driver's runs
Killed ==
    /\ at.pc # "none" /\ run.faults < MaxFaults /\ Gone("killed")
    /\ run' = [run EXCEPT !.ended = "killed", !.faults = @ + 1]

BootNext ==
    \/ Open \/ WarmReset \/ Enable \/ SecondLook \/ Identify
    \/ WalkPlan \/ PlanRefused
    \/ PlaceRegion \/ BooterLoad \/ ChainOfTrust \/ Attach
    \/ Notice \/ WindowsBack \/ NoNotice \/ NoticeFails \/ Settle
    \/ Undo \/ Undone \/ CarveoutCheck \/ ExecInit
    \/ Submit \/ EngineDone \/ LoseWindows
    \/ Exit \/ (\E broken \in BOOLEAN : Signal(broken))
    \/ Idle \/ ExecFini \/ UnloadPrepare \/ GspUnload \/ FwsecSb \/ BooterUnload
    \/ Quiesce \/ Fini \/ Leave \/ Interrupted \/ Killed

BootSpec == BootInit /\ [][BootNext]_bootVars

(***************************************************************************)
(* Properties.                                                             *)
(***************************************************************************)

\* The firmware's memory is released by the driver only when the firmware is
\* gone or the card cannot reach it: in tinynv_gpu_close, between two
\* attempts of a boot, and on every way there.  (A process that ends without
\* its teardown releases everything at once.)
ReleasedOutOfReach ==
    [][("firmware" \in adrift' \ adrift) => (~gpu.master \/ at'.pc = "none")]_bootVars

\* A firmware is only ever started on a card with no region up and no other
\* firmware in it, whatever the last process or attempt left behind
ColdBeforeBoot ==
    [][(at.pc = "start" /\ at'.pc \in {"booter", "attach"}) =>
           ~gpu.region /\ gpu.fw = "none"]_bootVars

\* What the firmware, or the driver's own later step, is given the address or
\* the handle of exists by then: queues before the arguments that name them,
\* objects before their children, a channel before its token
NamedWhatIsThere == blank = {}

Fits == model.image \in ImageLeast .. ImageBound /\ model.bootbin <= BootBinBound

\* With nothing going wrong a boot comes up: none of the driver's own checks
\* (the region's two offsets, the radix tree, the carve-out read back from the
\* chip) refuses a firmware that fits, and a card that was put down in order
\* needs no reset on the next arrival, except on the chain of trust's path,
\* which has no unload
OnlyAFaultCostsABoot ==
    (run.faults = 0 /\ Fits) =>
        /\ at.pc \notin {"failed", "refused"}
        /\ dev.was_up => model.fmc
=============================================================================
