# A TLA+ model of fermihv

fermihv is a bare-metal AArch64 hypervisor: it runs at EL2 on one core, traps
its guests' accesses to devices and system registers, emulates a GICv3, a UART
and two virtio devices, and time-slices vCPUs. It boots through a fixed series
of demos (`M4` ... `M32`, `hv_main` in `src/src/main.c`), each with an exit loop
of its own in `src/src/vcpu.c`. This directory holds TLA+ models of its parts,
TLC configurations that check them on small instances, and proofs checked by
TLAPS. Paths below are relative to `src/`, the root of the repository.

## The system and its parts

One physical core runs everything. The hypervisor's C code is never interrupted
by another hypervisor thread; what interleaves is

- a guest's instructions, up to any trap or physical interrupt,
- the EL2 timer and keystrokes, which arrive at any point of a guest's run,
- several vCPUs, of one VM or of two, switched at ticks,
- the virtual CPU interface of the GIC and the TLB, which keep state of their own
  between hypervisor steps,
- a guest driver and the device that shares a virtqueue with it.

| Part | Source | Module |
|---|---|---|
| list registers, `vgic_inject` | `src/vcpu.c` | `ListRegs`, implements `IrqLine` |
| emulated GIC registers, SGI mailboxes | `src/vgic.c` | `VGic`, `VGicGuests`, implements `GicBanks` |
| emulated UART | `src/vdev.c` | `VUart` |
| loops of the SMP guests (M14, M15, M22, M32), PSCI | `src/vcpu.c` | `SmpLoops` = `ListRegs` + `VGic` + `VUart` + the loops |
| loops that pass on ticks (M6b, M13, M17-M19, M21, M29, M30) | `src/vcpu.c` | `TickLoops`, on `ListRegs` |
| exit decoding, trap emulation, resume address of all 23 loops, `run_vcpus` | `src/vcpu.c` | `Traps`, implements `GuestMachine`; `GuestInstrs` has the instructions |
| world switch | `src/vcpu.c`, `src/world.S`, `src/vectors.S` | `WorldSwitch` |
| virtio queues: ring indices, host offsets | `src/vvirtio.c` | `Virtqueue` |
| virtio console | `src/vvirtio.c` | `VirtioConsole`, on `Virtqueue` |
| loops of the console's guests (M23, M24, M27) | `src/vcpu.c`, `src/guest.S` | `VirtioLoops` = `VirtioConsole` + `ListRegs` + the loops |
| virtio block device | `src/vvirtio.c` | `VirtioBlk`, on `Virtqueue` |
| stage-2 tables, order of the demos | `src/stage2.c`, `src/main.c` | `Stage2` |
| EL2 timer, physical GIC | `src/timer.c`, `src/gic.c` | `HypTimer` |
| `hv_main` up to M6a, exceptions of EL2 itself | `src/main.c`, `src/vectors.S`, `src/exception.c` | `HvMain`, on `HypTimer` |

A loop is cut along what its state is about. `Traps` follows what every loop
does to the guest's registers and program counter; `SmpLoops`, `TickLoops` and
`VirtioLoops` follow the virtual interrupts and the scheduling of the loops that
have any; `Stage2` follows the tables. `WorldSwitch` is what lies between a loop
and its guest.

The eight `*Proofs` modules hold the theorems; `MC*` modules hold only constants
for TLC. `PROJECT.json` maps every definition to its source lines and lists the
hazards each property is meant for.

## How the modules correspond to the code

**IrqLine, ListRegs.** `lr[v]` is `vcpus[v].ich_lr`: per register a state and an
INTID. `vgic_inject` is a function from one vCPU's registers to its new
registers, so that a loop that injects several interrupts composes it. The
acknowledge and end-of-interrupt of a guest are hardware (external); all
priorities are equal, as the code writes them, so an active interrupt masks the
rest. `IrqLine` is the promise: two sets, pending and active, of at most `NLR`
INTIDs together.

**GicBanks, VGic, VGicGuests.** `vg`, `g_sgi_pending` and `g_ngicr` are the
arrays of `vgic.c`; a register value is the set of INTIDs whose bits are one.
`reg_write` and `reg_read` follow the code's case analysis, `Idx` its indexing by
VM plus frame and the clamp. `GicBanks` is the promise: one bank of private
registers per redistributor frame presented, one of shared registers per VM,
each write taking effect where it was addressed; the refinement mapping is what
`reg_read` returns. `VGicGuests` is the device with arbitrary guests, which may
address all frames `vgic_contains` accepts. A frame beyond those presented to a VM
is not walled off: the code's index leads to the entry of another VM, and
`GicBanks` allows such a write to take effect in one bank, its own or not. The
distributor is out of other VMs' reach.

**VUart, SmpLoops.** `demo` is the loop, chosen at the start, and `at` the place
in it: `top`, in the `guest`, or `ended`. `Enter` is everything from the top of an
iteration to `__guest_enter`, in the code's order: bring-up of vCPU 1 if a
`CPU_ON` is pending (M22, M32), the keystroke poll with its injection (M32), the
SGI popped from the mailbox. One action per exit a loop decodes: timer interrupt
(which in M32 injects the tick, and switches vCPU), vGIC access, UART access, SGI
write, PSCI call, the exits that change none of this state (`NeutralExit`), and
the exits that end the loop. Keystrokes are numbered so that the order and
repetition of bytes can be seen.

**TickLoops.** Eight loops that turn ticks into virtual interrupts. With one guest
the tick is injected as it happens; with two VMs, or the two vCPUs of M29 and
M30, it is marked due for both and `Enter` offers it to the one about to run,
according to that one's own enable bits, which a guest that addresses a frame
beyond its own may have changed for the other. What differs (which PPI, whether an
undeliverable tick stays due, the slice pattern, what `halted` does) depends on
`demo`.

**GuestInstrs, GuestMachine, Traps.** `GuestMachine` is what a guest is promised: a
machine that executes the instructions of each vCPU in order, with a timer of its
own per vCPU, and RAM, nothing, or an unknown behind an address. An instruction
names a place: an emulated device, a block not mapped yet, or one at or above the
512 GiB of the stage-2 table, for which `stage2_map_1gb` maps a block of another
address. `Traps` has a
record per loop that says whether interrupts come to EL2, which exits it decodes,
what it does with each (`psci_handle`, `cntp_emulate`,
`mmio_zero`, an emulated device, `stage2_map_1gb`, skip, log, stop), and whom it
runs next. The guest runs any instruction; hardware reports a trap with the pc of
the instruction, or of the next one for HVC; an interrupt leaves `ESR_EL2` alone,
so `exit_esr` is then an earlier trap's, perhaps of the other vCPU. Only the pc
says what happens next: HVC is left alone, SMC, system register and emulated
accesses add 4, a faulted-in access is retried. The refinement mapping counts an
instruction as attempted while its exit is handled. `run_vcpus` (M4, M5) is the
loop with the halted flags, the `active` count and the budget.

**WorldSwitch.** Registers by name, each with a live value (`hw`), a saved one
(`ctx`) and the value its guest is entitled to (`own`, a history variable). The
steps are those of the code: `RunOnce` restores the C-managed registers,
`__guest_enter` pushes a frame and loads the rest, `VEC_GUEST` frees x0 and x1,
`__guest_exit` saves and unwinds through `hyp_sp`, `RunOnceReturns` saves the
C-managed ones. `Unmanaged` are registers a guest can write and `vcpu_t` has no
field for.

**Virtqueue, VirtioConsole, VirtioLoops, VirtioBlk.** A driver's queue lives in the
block of host RAM its VM was given; indices wrap at `IdxMod`, for 2^16. Processing
a notification is one step, since the guest does not run meanwhile. The driver is
external and keeps the virtqueue protocol: descriptors in the ring's range, none
reused in flight, three-descriptor block requests. The console's device looks for
its queue where the code does, at the guest's `queue_pfn` plus `host_off`, in
1 GiB blocks and unchecked; the guest may give any address that leads into RAM,
so a device may work on another VM's queue. `KeptApart(vm)` says that in the block
of `vm` the device of `vm` works and no other. `VirtioBlk` takes the addresses a
driver gives as its own; it has the 64-bit arithmetic of the sector offset
(`WordMod`), with which sector numbers repeat from 2^55 on, in device and reference.
`VirtioLoops` adds the exit loops: M23 with a polling driver, M27 with two VMs one
after the other, and M24, whose tail turns a completion into INTID 20 and whose
guest is the handler of `guest_virtio_irq_entry` step by step. `VirtioBlk` serves
a batch turn by turn (`Step`, `AfterTurns`) and keeps beside the device a
reference disk that serves the requests one at a time when they are queued.

**Stage2.** Each demo is a record of how it uses stage-2 (tables, device
mapping, emulated devices, answer to an unknown abort, what its guest touches),
and `hv_main` runs them in order, then one of the final guests. Addresses are
1 GiB blocks. The TLB may or may not keep any translation that was walked, tagged
with its VMID; `tlbi vmalls12e1` drops those of the VMID in `VTTBR_EL2`.

**HypTimer, HvMain.** `HypTimer` has counter, comparator, acknowledge,
`hyptimer_on_irq` and end of interrupt, with the counter running between any two
of them. `HvMain` uses it: `hv_main` step by step from the BRK of M1 through the
WFI loop of M6a, an interrupt possible between any two steps, and the exception
path of `VEC`, `el2_common` and `el2_exception_dispatch` with the registers and
the frame each saves and gives back. A core asleep in WFI takes the interrupt
behind it. After M6a the demos use the timer in any order.

## What the runs check

`tlc -config <cfg> <module>`; all but `smp_rx_irq` finish without error.

| Run | Question | Distinct states |
|---|---|---|
| `list_registers` | Can an interrupt be duplicated, lost with room left, or disturb another? Do list registers implement `IrqLine`? | 2 thousand |
| `vgic` | Does every write of two VMs on one shared array take effect in one bank, and in the writer's own if the frame was presented to it? | 82 thousand |
| `smp` | Do the SMP loops start vCPU 1 once and never run it before, deliver ticks and keystrokes only where enabled, carry each SGI once and only to the other vCPU, repeat no byte? | 494 thousand |
| `smp_live` | Does a started vCPU run, does neither starve, is an SGI held up only by lower ones, does power-off end M32? | 17 thousand |
| `smp_rx_irq` | Is a waiting keystroke always accompanied by its interrupt? (violated, see below) | |
| `traps` | In every loop, is each instruction of a guest executed once and in order, whatever traps, interrupts and stale syndromes come? Which accesses trap again for ever? Does `run_vcpus` count and return as it should? | 780 thousand |
| `world_switch` | Does each vCPU keep every register with a field in `vcpu_t`, and the hypervisor its stack? | 92 thousand |
| `virtio_console` | Is every buffer printed and returned once and in order, across index wrap, in batches and with two VMs whose devices may point anywhere? Does an interrupt-driven driver learn of every completion? | 47 thousand |
| `virtio_blk` | Does a driver get the answers of a sequential disk, for batches, at the last sector, beyond it and past the wrap of byte addresses? | 1.3 million |
| `tick_loops` | Does each VM get its share and its ticks, and only according to its own GIC? Does power-off end M17 and M21? | 126 thousand |
| `stage2` | Across the boot, is any translation stale, any tenant outside its RAM, any emulated device reachable? | 1 thousand |
| `hv_main` | Does an interrupt or BRK leave a trace in `hv_main`? Does the wait of M6a end? Do ticks drift, come early, or get lost with late handlers? | 1.5 thousand |

### Bounds

- List registers: the code's four against five INTIDs in `list_registers`, so
  the full case happens; in `smp` two registers, so that ticks, an SGI and the
  UART compete; in `smp_live` one, so that SGIs queue behind each other; four in
  `tick_loops` and `virtio_console`, where few INTIDs exist.
- `smp`: two keystrokes (`MaxKeys`), enough for one to wait while another comes;
  two different `CPU_ON` arguments, so that a repeated call is visible; the guest
  enables and disables one timer PPI and enables the UART's SPI.
- `smp_live`: all but M14, which has no timer and promises no shares.
- `vgic`: one private INTID, one SPI and one SGI; registers are bit-wise
  independent. Two VMs are presented one frame each and address two: for VM 0 the
  second is VM 1's, for VM 1 the index is clamped. The two frames of an SMP guest
  are covered by the theorem and are used in `smp`.
- `traps`: two instructions per vCPU (`MaxInstrs`), so that a trap meets the
  syndrome of an earlier one, its own or the other vCPU's; a budget of two
  hypercalls; values 0 and 1, registers x0, x1 and xzr. The theorem drops the
  bounds.
- virtio: rings of two entries and indices modulo 4 (`IdxMod`), so that the index
  wraps every second round, as 2^16 does every 8192nd for eight entries; buffer
  numbers modulo `BufMod`, more than can be in flight. In M27 VM 0 queues at most
  `MaxFirst` buffers before VM 1 runs, enough to leave something in its queue; a
  queue address is one block below, in or above the guest's own (`GuestBlocks`).
  Block device: two sectors of two bytes, requests of one or two bytes, byte
  addresses modulo 6 (`WordMod`): sector 2 is beyond the disk, sector 3 is sector 0
  again. One VM, the second tenant; the theorem has any number.
- `world_switch`: two vCPUs, two values, a guest step that overwrites all of its
  registers at once; anything lost or mixed up shows in some register.
- `tick_loops`: `WaitCap` stops the history counter above any share.
- `hv_main`: M6a waits for the code's five ticks; `MaxNow` stops the counter, and
  with intervals 1 and 3 handlers can be several deadlines late. In M6a the
  counter passes the sixth deadline only while the core sleeps.

### Fairness

- The loops: the step from the top of a loop into the guest, the exit of a halted
  vCPU and the tail of a loop body are weakly fair; the code never waits there.
- The EL2 timer's exit is strongly fair: the comparator is moved on and re-fires,
  and with `HCR_EL2.IMO` set the interrupt is taken whenever a guest runs, so a
  guest that keeps trapping for other reasons cannot put it off for ever.
- In `virtio_console` the interrupt handler of M24's guest is strongly fair between
  exits: a guest takes an unmasked virtual interrupt and its handler has no waits.
- In `hv_main` the core executes its program and its handlers and takes an
  unmasked interrupt (weak fairness), time passes, and a due interrupt is
  acknowledged again and again by the demos (strong fairness, since spurious
  acknowledges may come between).
- Guests are never assumed to trap, acknowledge or power off, and progress
  properties allow for the loop ending by an unexpected exit or its budget. That
  is also why the runs whose loops may end do not check for deadlock.

## What is proved

For every value of the constants that satisfies the named assumptions, including
the type invariants of these modules:

- **List registers** (`ListRegsProofs`). `LrInv`, which is `LrTypeOK` and
  `NoDuplicate`, is inductive: `vgic_inject` writes only into an invalid slot and
  only an INTID no valid slot holds. `InjectLossless` follows from it by counting: with
  no duplicates, no free slot means `NLR` different INTIDs outstanding.
  `ListRegsRefineIrqLine` shows each action to be a step of `IrqLine`; it needs
  `NoDuplicate` too, since otherwise ending one interrupt could leave its INTID
  in the set.
- **Emulated GIC** (`SmpLoopsProofs`). Types, and `VGicRefinesGicBanks` for any array
  length, for writes to any frame, presented or not. The argument is that `Idx` is
  injective on the frames presented, so a write to one of them changes that bank
  only, and one to another frame the bank that has its entry, if any. The
  assumption is met by the code's uses: two VMs of one frame, or one VM of two.
- **World switch** (`TickLoopsProofs`). The inductive invariant says, phase by
  phase, which copy of each register is the true one (`Copies`) and where the way
  back to the hypervisor's stack is (`Stack`). `NoRegisterLost`,
  `ContextsAreTrue` and `EnterReturns` are its projections, for any number of
  vCPUs, any values, and any registers that are not switched.
- **EL2 timer** (`HvMainProofs`). `NoDrift` and `NeverEarly`, strengthened with:
  an acknowledged interrupt means the deadline has passed (`AckedIsDue`), which
  is what makes counting the tick correct however long after.
- **hv_main** (`HvMainProofs`). `InterruptsLeaveNoTrace`, for any number of ticks
  and any interval. The invariant (`Saved`) follows the interrupted registers
  from the core into the frame and back, and with them the interrupt mask that
  belongs to the place interrupted. `BootTimerExact` shows every step of `HvMain`
  to be a step of `HypTimer` or a stutter, and takes the timer's theorems over.
- **Tick loops** (`TickLoopsProofs`), for any number of list registers and any
  INTIDs. `OnlyTimers` says that nothing but timer interrupts is in a list
  register, without duplicates, so that an offered tick finds a free register or
  is already outstanding; `TicksAreKept` rests on it. `Shares` bounds how long a
  VM has waited by the place in the slice pattern. `TicksFromOwnGic`.
- **SMP loops** (`SmpLoopsProofs`), for any list registers, SGIs, `CPU_ON`
  arguments, GIC writes and keystrokes: `SecondaryWaits`, `StartedOnce`,
  `GatedByGuest`, `SgisCarriedOnce`, `KeysReadOnce`. The invariant `SmpInv` has the
  list registers well formed, vCPU 1 untouched before it is started, and the
  waiting byte newer than the last one read. A lemma per stage of `Enter` says
  what an injection can add; the action properties combine them.
- **Exit loops** (`TrapsProofs`), for programs of any length and any budget.
  `TrapsRefineMachine` shows every step of all 23 loops to be a step of
  `GuestMachine` or a stutter. It needs that `exit_esr` is the instruction the
  guest is at while a trap is handled, and that a block is mapped only in loops
  that have RAM there. `NoTrapTwice` adds that a retried instruction has had its
  block mapped (`RetryInv`), but for the accesses it names; `RunVcpusCounts` and `BudgetsAreSpent` rest on
  `RunVcpusInv`, which relates `active`, the halted flags and the hypercalls.

- **Stage-2** (`HvMainProofs`). `NoStaleTranslation`, `TenantsStayIsolated` and
  `EmulatedDevicesAlwaysTrap`. `Stage2` has no constants, so its run is the whole
  model; the proof adds the reason. It uses what the demos have in common
  (`DemoFacts`: guests on `s2_l1` or on tables of VMs, never both; a demo that
  emulates devices does not map them) and of their order only that the devices are
  unmapped before `real_guest_demo`, which does not clear the tables. The
  invariant `Stage2Inv` says that a VM's table only ever has the one mapping
  `stage2_build_vm` gives it (`Tables`), so that what an earlier demo left in the TLB
  for its VMID is still right, and that while VMs run nothing is left of VMID 0
  but block 1, which no rebuild changes (`Cache`). `TlbCoherent` alone is not
  inductive: entries of VMs that are not running matter once their VMID is used
  again.
- **virtio console** (`VirtqueueProofs`, `VirtioProofs`), for any queue size that
  divides `IdxMod`, any number of buffers, any place of the two VMs' RAM and any
  queue address in RAM. `BuffersPrintInOrder`, `BuffersCompleteOnce`, each for a VM
  that is `KeptApart`: whatever the other device does elsewhere does not show. First the
  arithmetic of indices that wrap (`ModMod`, `ModApart`, `AheadAdv`, `SlotFacts`): within a
  window of at most `QueueNum` indices, slots differ. The invariant (`QueueOK`) then
  describes each queue by two counts: n descriptors still to be printed from
  `last_avail` on, m to be reclaimed from the driver's `last_used` on, the n + m
  being the ones in flight, each once, and the n in the order of their numbers.
  The properties speak of n and m only through differences of wrapped indices,
  which by themselves say nothing of what an entry outside the window holds. For a
  VM that is not `KeptApart` the invariant says nothing; `ApartBefore` shows that one
  that is has always been, since a queue is set up once.
- **Completion interrupt of M24** (`VirtioProofs`), for any number of list
  registers. `CompletionsAreSignalled`. The invariant (`SignalKept`) follows a
  completion from the device's flag, which lives only to the tail of the exit that
  raised it, to the list register, which INTID 20 has to itself (`FileAt`), to the
  handler; `InterruptStatus` stays set until the handler has cleared it and is
  about to look at the ring. It also needs that the guest notifies only with
  INTID 20 enabled and outside its handler, as `guest_virtio_irq_entry` does.
- **virtio block device** (`VirtioBlkProofs`), for any number of VMs, disks,
  sector sizes, word sizes, requests and batches. `BlkAnswersAsDisk`,
  `BlkDiskIsOwnWrites`. They are about requests whose bytes do not run across the
  end of the 64-bit addresses (`Defined`). For these, serving one request equals
  what the reference does (`ServedAsRef`), and the bound check of the code accepts
  exactly the requests that lie on the disk (`InRangeOnDisk`). The invariant (`BlkOK`) relates a device that is behind to a
  reference that is ahead: there is a sequence of disks from the device's to the
  reference's, each the one before with the next pending request served, and the
  reference's answers are the ones given along it. The loop of `vblk_process` then
  walks along that sequence; that it ends where the sequence ends (`TurnsUnique`) is
  shown with a least turn at which the two would differ.

The assumptions on the virtio constants are the drivers': a queue size that
divides 2^16 (virtio asks for a power of two), fewer descriptors than index
values, each VM's RAM in a block of its own, and for the block device chains that
take turns, three descriptors each.

What stays model-checked: every liveness property (`CpuOnStartsSecondary`, `BothRun`,
`OffEndsRun`, `SgisDrain`, `CompletionsSeen`, `TickDelivered`, `PowerOffEndsLoop`,
`CatchesUp`, `BootProceeds`), since they depend on fairness, which is out of the
prover's reach. Every safety property a passing run checks has a theorem.

## What the model shows of the code

- `smp_rx_irq`: SPI 33 is injected only in the iteration that reads a keystroke.
  If it is then disabled, masked in the UART, still active, or finds no free list
  register, the byte stays in the FIFO without an interrupt; nothing looks at the
  level again. `PROJECT.md:224-225` says that "the UART RX IRQ is delivered to
  Linux as a virtual SPI".
- An SGI is removed from its mailbox before `vgic_inject`, which does nothing
  when the same INTID is still active. `SgiCarriedOnce` therefore says only that
  the INTID is outstanding afterwards.
- An entry takes the lowest SGI of a mailbox: lower ones that keep coming hold up a
  higher one, and `SgisDrain` says that nothing else does.
- `psci_handle` sets `halted`; the loops that test it (M17, M21, M32 and the plain
  boots of Linux and FermiOS) do so after the next run, so the vCPU is entered
  once more, and M19 never tests it.
- M18 and M19 log an abort they have no device for and run the guest into it
  again; `NeverTrapsTwice` excepts them.
- `stage2_map_1gb` masks its index, so that for an address from 512 GiB on it maps
  another block. The loops that fault in whatever their guest touches
  (`run_vcpus`, `vgic_demo`, `real_guest_demo`, `linux_boot`, `fermios_vgic_boot`)
  then run the guest into the same abort for ever; `DEVLOG.md:160-163` tells of this
  hang, against which `fermios_boot` has a test. `NeverTrapsTwice` excepts these
  accesses and shows that there are no others.
- The emulated GIC accepts all redistributor frames of every VM and adds the frame
  to the VM's index. M18, M19 and M21 present one frame to each of two VMs; there
  frame 1 of VM 0 is VM 1's bank. That the tenants' GICs are separate
  (`PROJECT.md:229-230`) holds for guests that keep to the frame they were
  presented, and for the distributors.
- A device adds `host_off` to the addresses its guest gives it and checks nothing
  (`vvirtio.c:65`, `76`, `82-84`). "Per-VM device isolation" (`vcpu.c:1678-1679`) therefore
  holds for guests that point their device into their own RAM: `PrintsInOrder` and
  `CompletesOnce` are conditional on `KeptApart`, and both fail without it.
- In `vblk_process` the product `sector * VBLK_SECSZ` and the sum `doff + dlen` are
  64 bits wide. Sectors from 2^55 on are others again, which the reference disk
  repeats. A request across the end of the addresses passes the range check
  although it is not on the disk; what it does is undefined, and the properties
  leave it out (`Defined`).
- M16, M27, M28 and `run_vcpus` decode `exit_esr` without looking at
  `exit_reason`. That is right because `HCR_EL2.IMO` is not set there;
  `ImplementsGuestMachine` depends on it.
- A load or store without a valid syndrome (`ldp`) from an emulated device or an
  absent one is skipped and changes no register; `GuestMachine` says so too.
- `fermios_vgic_boot` maps the whole 1 GiB block on an abort it does not know.
  `EmulatedDevicesTrap` therefore makes an exception once its guest has touched
  another device of block 0.
- In M6a a tick can come between the test of `hyptimer_ticks` and the WFI, which
  then sleeps on; the wait ends with the next tick (`BootProceeds`).
- Registers without a field in `vcpu_t`, such as `cntv_cval_el0`, pass from one
  vCPU to the next; `GuestSeesOwnRegisters` is about those with a field.

## What is not modelled

- `boot.S`: straight-line set-up of one core. The registers `gic_init_el2`
  programs are one step of `HvMain`.
- The UART driver and all printed text.
- The HVC and abort cases of `el2_exception_dispatch`: exits of an AArch64 guest go
  to `__guest_exit`, so they are not reached; the default case halts.
- Identification registers of the emulated devices, whose values are constants.
- The block that `stage2_map_1gb` maps for an address above 512 GiB: `Traps` has that
  the address itself is not mapped by it, `Stage2` has no such addresses.
- Instruction fetches from emulated devices: guests do not execute there.
- Drivers that set up a virtqueue twice: the code keeps `last_avail`, the
  repository's drivers do not do it, and nothing says what should happen.
- `vblk_poke` and `vblk_peek`, with which the demos seed and inspect sector 0.
- The exit loops of M25, M26 and M28 as far as interrupts go: they are those of
  M24 and M27 with the block device and INTID 21. `Traps` and `Stage2` have them.

- A console queue outside all RAM, where the hypervisor itself would fault, and a
  block device whose driver gives addresses outside its VM's RAM.

Guests that break the virtqueue protocol are outside the environment assumed here.
