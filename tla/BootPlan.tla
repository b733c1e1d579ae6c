------------------------------ MODULE BootPlan ------------------------------
(***************************************************************************)
(* What a boot places, and what it then asks of the firmware, in order     *)
(* (libtinynv/src/gpu.c, flcn.c, vbios.c, gsp.c, mmu.c).  A step makes     *)
(* something and names others by address or handle; C names a thing not    *)
(* made yet by a zero, and nothing notices.  Sizes are in pages of 4 KB,   *)
(* and are the real ones.                                                  *)
(***************************************************************************)
EXTENDS Integers, Sequences, FiniteSets

CONSTANTS
    VramSize,       \* vram_size
    ImageSizes,     \* gsp_image_size: the firmware's own length
    BootBinSizes    \* bootloader_size

MB == 256
ReserveTop == 256 * MB          \* TINYNV_FW_RESERVE_TOP
ImageBound == 64 * MB           \* TINYNV_FW_IMAGE_BOUND
BootBinBound == 1 * MB          \* TINYNV_FW_BOOTBIN_BOUND
ImageLeast == 37 * MB           \* below it the region is too small to be believed
FrtsFromEnd == 28 * MB          \* TINYNV_FW_FRTS_FROM_END
FrtsSize == 1 * MB              \* TINYNV_FW_FRTS_SIZE
HeapSize == 135 * MB            \* TINYNV_FW_HEAP_SIZE
NonWprHeap == 544               \* TINYNV_FW_NONWPR_HEAP
Alignments == 0 .. 8            \* MB the chain of trust's placement may round away

ASSUME BootPlanAssumption ==
    /\ VramSize \in Nat /\ VramSize > 2 * ReserveTop
    /\ ImageSizes \subseteq 1 .. 2 * ImageBound
    /\ BootBinSizes \subseteq 1 .. 2 * BootBinBound

(***************************************************************************)
(* The top of video memory.                                                *)
(***************************************************************************)

round_down(n, a) == n - (n % a)

frts_offsetMutant == VramSize - 1 * MB

\* where FWSEC is told to put the region, before the rest is laid out
frts_offset == VramSize - 1 * MB - 1 * MB

\* init_wpr_meta, downwards from the top: where each region starts
Carveout(image, bootbin) ==
    LET vga == VramSize - 1 * MB
        frts == vga - 1 * MB
        boot == frts - bootbin
        gsp == round_down(boot - image, 16)
        heap == round_down(gsp - 129 * MB, MB)
        wpr == round_down(heap - 1, MB)
    IN  [vga |-> vga, frts |-> frts, boot |-> boot, gsp |-> gsp, heap |-> heap,
         wpr |-> wpr, non_wpr |-> round_down(wpr - 1 * MB, MB)]

\* the region the chip ends up with: booter_load unpacks where the metadata
\* says; the chain of trust places it itself, from sizes
Region(fmc, image, bootbin, slack) ==
    IF fmc
    THEN LET hi == VramSize - FrtsFromEnd
             lo == hi - FrtsSize - bootbin - image - HeapSize - 1 * MB - slack * MB
         IN  [lo |-> lo, hi |-> hi, owns |-> lo - NonWprHeap]
    ELSE LET c == Carveout(image, bootbin) IN [lo |-> c.wpr, hi |-> c.vga, owns |-> c.non_wpr]

ManagerTop == VramSize - ReserveTop

\* tinynv_mm_check_fw_carveout
check_fw_carveout(r) ==
    LET span == r.hi - r.lo
    IN  /\ r.lo < r.hi /\ r.hi <= VramSize
        /\ span >= HeapSize + ImageBound \div 2 /\ span <= ReserveTop
        /\ ManagerTop <= r.lo - NonWprHeap

\* The radix tree over the image: a page of addresses covers 512 pages
RadixPages(image) ==
    LET up(n) == (n - 1) \div 512 + 1 IN <<up(up(up(image))), up(up(image)), up(image), image>>
\* ... and what init_gsp_image checks of each level before it is written
RadixFits(image) ==
    LET n == RadixPages(image)
        through == <<n[1], n[1] + n[2], n[1] + n[2] + n[3]>>
    IN  \A i \in 1 .. 3 : through[i] + n[i + 1] <= through[3] + image

(***************************************************************************)
(* Steps.  "load" reads a file or a table that may be refused (missing,    *)
(* another hash, an offset outside it); "host" and "vram" take memory the  *)
(* processor's or the card's; "call" is a request the firmware answers;    *)
(* "check" compares two of the driver's own numbers.                       *)
(***************************************************************************)

Step(op, what, uses, holds) == [op |-> op, what |-> what, uses |-> uses, holds |-> holds]
Load(f) == Step("load", f, {}, TRUE)
\* tinynv_elf_section: a named part of a file already read
elf_section(f) == Load(f)
Host(b, uses) == Step("host", b, uses, TRUE)
Video(b, uses) == Step("vram", b, uses, TRUE)
RpcCall(h, uses) == Step("call", h, uses, TRUE)
Check(what, uses, holds) == Step("check", what, uses, holds)

\* tinynv_vbios_fwsec_frts: found in the card's own rom, patched for one
\* command and put where the falcon can fetch it
find_expansion_rom == Load("expansion_rom")
find_fwsec_desc == Load("fwsec_desc")
fwsec_patch == Load("fwsec_patch")
fwsec_frts == <<find_expansion_rom, find_fwsec_desc, fwsec_patch, Video("fwsec", {})>>

flcn_parse_booter(which) == Load(which)
prep_booter == <<flcn_parse_booter("booter_load"), Video("booter", {})>>

\* tinynv_flcn_init_sw
flcn_init_sw(fmc) ==
    IF fmc
    THEN <<Host("boot_args", {}), Load("fmc"), elf_section("fmc_sections"), Host("fmc_image", {})>>
    ELSE fwsec_frts \o prep_booter

\* the arguments name the queues: the second of these is filled in as it is
\* placed, from the address of the first
init_rm_argsMutant == <<Host("rm_args", {"queues"}), Host("queues", {}), Load("queue_header")>>

init_rm_args == <<Host("queues", {}), Host("rm_args", {"queues"}), Load("queue_header")>>

init_libos_args == <<Host("logbuf", {}), Host("libos_args", {"logbuf", "rm_args"})>>

init_gsp_image(image) ==
    <<Load("gsp"), elf_section("gsp_sections"), Check("image_bound", {}, image <= ImageBound),
      Host("radix3", {}), Check("radix", {"radix3"}, RadixFits(image)), Host("signature", {})>>

init_boot_binary_image(bootbin) ==
    <<Load("bootloader"), Check("bootbin_bound", {}, bootbin <= BootBinBound), Host("bootloader_image", {})>>

init_wpr_meta(fmc, image, bootbin) ==
    init_gsp_image(image) \o init_boot_binary_image(bootbin)
    \o (IF fmc THEN <<>>
        ELSE <<Check("frts", {"fwsec"}, frts_offset = Carveout(image, bootbin).frts)>>)
    \o <<Host("wpr_meta", {"radix3", "bootloader_image", "signature"})>>

\* two records left in the ring for the firmware to find
set_gsp_system_info == <<Load("system_info")>>
set_registry_table == <<Load("registry")>>

gsp_init_sw(fmc, image, bootbin) ==
    init_rm_args \o init_libos_args \o init_wpr_meta(fmc, image, bootbin)
    \o set_gsp_system_info \o set_registry_table

\* tinynv_gpu_init_sw: both blocks place before either touches the card
gpu_init_sw(fmc, image, bootbin) == flcn_init_sw(fmc) \o gsp_init_sw(fmc, image, bootbin)

(***************************************************************************)
(* Once the firmware is up: the objects everything later hangs from.  The  *)
(* environment's experiments (TINYNV_CE_GROUP and the like) are at their   *)
(* defaults, which is off.                                                 *)
(***************************************************************************)

init_objects ==
    <<RpcCall("priv_root", {}), RpcCall("device", {"priv_root"}), RpcCall("subdevice", {"device"}),
      RpcCall("vaspace", {"device"}), RpcCall("engines", {"subdevice"}), Video("reserved", {"root_page_table"}),
      RpcCall("pdes_copied", {"vaspace", "reserved"})>>

fill_channel_state(ramfc, mthdbuf) == <<Video(ramfc, {}), Video(mthdbuf, {})>>

init_channel ==
    <<Video("gpfifo", {})>> \o fill_channel_state("ramfc", "mthdbuf")
    \o <<RpcCall("channel", {"device", "vaspace", "gpfifo", "ramfc", "mthdbuf", "engines"})>>

\* tinynv_gsp_init_gr_context: the sizes first, then what is sized by them
init_gr_context ==
    <<RpcCall("gr_sizes", {"subdevice"}), Video("grctx", {"gr_sizes"}),
      RpcCall("promoted", {"subdevice", "channel", "grctx"}),
      RpcCall("compute_obj", {"channel"}), RpcCall("dma_copy_obj", {"channel"})>>

\* tinynv_mm_reserve_bar_pool: a slice of the window, kept for what every
\* process must reach through it
reserve_bar_pool == Video("bar_pool", {})

group_and_geometry ==
    <<RpcCall("user_group", {"user_device"}), RpcCall("user_ctxshare", {"user_group", "user_vaspace"}),
      RpcCall("geometry", {"user_subdevice"}), Video("scratch", {}), Host("staging", {})>>

open_client ==
    <<reserve_bar_pool, RpcCall("user_root", {}), RpcCall("user_device", {"user_root"}),
      RpcCall("user_subdevice", {"user_device"}), RpcCall("user_virtmem", {"user_device"}),
      RpcCall("boost", {"user_subdevice"}), RpcCall("user_vaspace", {"user_device"}),
      RpcCall("page_directory", {"user_device", "user_vaspace", "root_page_table"})>>
    \o group_and_geometry

\* promote: a channel's own context buffers, by physical address and then by
\* virtual; what is placed in between is the oracle's, and is not used
promote(q) ==
    <<Video(q.grctx, {"gr_sizes"}), RpcCall(q.by_phys, {"user_subdevice", q.channel, q.grctx}),
      Video(q.discarded, {"gr_sizes"}), RpcCall(q.by_virt, {"user_subdevice", q.channel, q.grctx, q.by_phys})>>

compute_q ==
    [notifier |-> "compute_notifier", ramfc |-> "compute_ramfc", mthdbuf |-> "compute_mthdbuf",
     channel |-> "compute_channel", object |-> "compute_object", token |-> "compute_token",
     grctx |-> "compute_grctx", by_phys |-> "by_phys", discarded |-> "discarded", by_virt |-> "by_virt"]
copy_q ==
    [notifier |-> "copy_notifier", ramfc |-> "copy_ramfc", mthdbuf |-> "copy_mthdbuf",
     channel |-> "copy_channel", object |-> "copy_object", token |-> "copy_token"]

\* the queue's ring, its notifier and its channel in the group
queue_channel(q) ==
    <<Video(q.notifier, {"bar_pool"})>> \o fill_channel_state(q.ramfc, q.mthdbuf)
    \o <<RpcCall(q.channel, {"user_group", "user_ctxshare", "fifo_mem", q.notifier, q.ramfc, q.mthdbuf})>>

\* a channel in the group, its object, and the token its doorbell is made of,
\* which is refused when the firmware did not fill it in
new_queue(q, compute) ==
    queue_channel(q) \o <<RpcCall(q.object, {q.channel})>>
    \o (IF compute THEN promote(q) \o <<RpcCall("user_debugger", {"user_device", q.object})>> ELSE <<>>)
    \o <<RpcCall(q.token, {q.channel, "engines"})>>

init_queues ==
    <<Video("fifo_mem", {"bar_pool"})>> \o new_queue(compute_q, TRUE) \o new_queue(copy_q, FALSE)
    \o <<RpcCall("scheduled", {"user_group", compute_q.token, copy_q.token})>>

RmSetup == init_objects \o init_channel \o init_gr_context \o open_client \o init_queues

=============================================================================
