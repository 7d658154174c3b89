-------------------------------- MODULE Disk --------------------------------
(***************************************************************************)
(* An IDE channel with two devices (devices/ide.c), from ide_init () to     *)
(* requests of several threads, the partitions found on the disks           *)
(* (devices/partition.c), the block layer (devices/block.c) and the choice  *)
(* of the file system's device (threads/init.c).  The two channels of the   *)
(* code are independent and alike.  The controller is external: it answers  *)
(* a command with status bits and an interrupt, and may report an error.    *)
(***************************************************************************)
EXTENDS Integers, Sequences

CONSTANTS
  DiskThreads,   \* threads that read and write
  DiskSize,      \* sectors of an ATA disk
  SectorWidth,   \* sector numbers are taken modulo this (2^32 in the code)
  DiskValues,    \* contents of a sector, 0 among them
  DiskSetups,    \* what may be plugged in as device 0 and 1: kinds, partition tables
  DiskFails,     \* devices may report errors
  MaxNesting     \* bound on the depth of read_partition_table

Boot == "boot"
Nobody == "no thread"
Devs == {0, 1}
Sectors == 0 .. DiskSize - 1
Extended == "extended"

ASSUME DiskAssumption ==
  /\ DiskSize \in Nat \ {0} /\ SectorWidth \in Nat /\ DiskSize <= SectorWidth
  /\ 0 \in DiskValues /\ DiskFails \in BOOLEAN /\ MaxNesting \in Nat
  /\ Boot \notin DiskThreads /\ Nobody \notin DiskThreads
  /\ DiskSetups \subseteq
       [kind : [Devs -> {"ata", "atapi", "huge", "none"}],
        table : [Devs -> Seq([type : STRING, offset : 0 .. SectorWidth - 1,
                              size : 0 .. SectorWidth - 1])]]

VARIABLES
  kind, table,      \* external: what is plugged in, and its partition table
  cell,             \* external: contents of the sectors
  hw,               \* external: registers of the controller
  channel,          \* lock, expecting_interrupt, completion_wait
  is_ata,
  all_blocks,       \* registered block devices, in order
  role,             \* block_by_role[BLOCK_FILESYS], an index, or 0
  dt,               \* the request of each thread and where it is
  scan,             \* stack of read_partition_table: dev and frames
  diskPanic

diskVars == <<kind, table, cell, hw, channel, is_ata, all_blocks, role, dt, scan, diskPanic>>

Idle == [pc |-> "idle", op |-> "none", dev |-> 0, sector |-> 0, val |-> 0]
DT == DiskThreads \cup {Boot}

DiskInit ==
  /\ \E s \in DiskSetups : kind = s.kind /\ table = s.table
  /\ cell = [p \in Devs \X Sectors |-> 0]
  /\ hw = [dev |-> 0, sector |-> 0, val |-> 0, cmd |-> "none", status |-> "idle", irq |-> FALSE]
  /\ channel = [lock |-> Nobody, expecting |-> FALSE, completion |-> 0]
  /\ is_ata = [d \in Devs |-> FALSE]
  /\ all_blocks = <<>> /\ role = 0
  /\ dt = [t \in DT |-> IF t = Boot THEN [Idle EXCEPT !.pc = "reset"] ELSE Idle]
  /\ scan = <<>>
  /\ diskPanic = FALSE

DAt(t, pc) == dt[t].pc = pc /\ ~ diskPanic
DGoto(t, pc) == dt' = [dt EXCEPT ![t].pc = pc]

---------------------------------------------------------------------------
\* The controller.

DeviceAnswers(status, irq) == hw' = [hw EXCEPT !.status = status, !.irq = irq]
DeviceStep ==
  /\ hw.status = "busy" /\ ~ diskPanic
  /\ \/ /\ hw.cmd \in {"read", "identify"}
        /\ DeviceAnswers("drq", TRUE) /\ UNCHANGED cell
     \/ /\ hw.cmd = "write"                    \* asks for the data; no interrupt
        /\ DeviceAnswers("drq", FALSE) /\ UNCHANGED cell
     \/ /\ hw.cmd = "store"
        /\ DeviceAnswers("idle", TRUE)
        /\ cell' = [cell EXCEPT ![<<hw.dev, hw.sector>>] = hw.val]
     \/ /\ DiskFails                           \* error: DRQ stays clear
        /\ DeviceAnswers("idle", TRUE) /\ UNCHANGED cell
  /\ UNCHANGED <<kind, table, channel, is_ata, all_blocks, role, dt, scan, diskPanic>>

\* Fault: the handler wakes the waiter without acknowledging the interrupt.
interrupt_handler_no_ack ==
  /\ hw.irq /\ ~ diskPanic
  /\ channel.completion < 2
  /\ channel' = [channel EXCEPT !.completion = IF channel.expecting THEN @ + 1 ELSE @]
  /\ UNCHANGED <<kind, table, cell, hw, is_ata, all_blocks, role, dt, scan, diskPanic>>
\* interrupt_handler: reads the status register and does sema_up.
interrupt_handler ==
  /\ hw.irq /\ ~ diskPanic
  /\ hw' = [hw EXCEPT !.irq = FALSE]
  /\ channel' = [channel EXCEPT !.completion = IF channel.expecting THEN @ + 1 ELSE @]
  /\ UNCHANGED <<kind, table, cell, is_ata, all_blocks, role, dt, scan, diskPanic>>

---------------------------------------------------------------------------
\* One request: ide_read, ide_write, or identify_ata_device, which takes no lock.

\* Fault: ide_write does not take the lock.
LockFree_reads(t) == channel.lock = Nobody \/ dt[t].op = "write"
LockFree(t) == channel.lock = Nobody
ide_lock(t) ==
  /\ DAt(t, "lock") /\ LockFree(t)
  /\ channel' = [channel EXCEPT !.lock = t]
  /\ DGoto(t, "select")
  /\ UNCHANGED <<kind, table, cell, hw, is_ata, all_blocks, role, scan, diskPanic>>

\* select_sector: wait_until_idle gives up after its timeout, so it does not wait
\* here; reading the status register clears a pending interrupt.
select_sector(t) ==
  /\ DAt(t, "select")
  /\ hw' = [hw EXCEPT !.dev = dt[t].dev, !.sector = dt[t].sector, !.irq = FALSE]
  /\ DGoto(t, "issue")
  /\ UNCHANGED <<kind, table, cell, channel, is_ata, all_blocks, role, scan, diskPanic>>

AfterIssue(op) == IF op = "write" THEN "busy" ELSE "down"
Expecting(c) == [c EXCEPT !.expecting = TRUE]
issue_pio_command(t) ==
  /\ DAt(t, "issue")
  /\ channel' = Expecting(channel)
  /\ hw' = [hw EXCEPT !.cmd = dt[t].op, !.status = "busy"]
  /\ DGoto(t, AfterIssue(dt[t].op))
  /\ UNCHANGED <<kind, table, cell, is_ata, all_blocks, role, scan, diskPanic>>

\* wait_while_busy: the answer, DRQ, decides.  A device that is busy for the 30 seconds
\* it is given counts as one that failed.
wait_while_busy(t) ==
  /\ DAt(t, "busy") /\ hw.status # "busy"
  /\ IF hw.status = "drq"
     THEN /\ DGoto(t, IF dt[t].op = "write" THEN "output" ELSE "input")
          /\ UNCHANGED <<is_ata, diskPanic>>
     ELSE IF dt[t].op = "identify"
     THEN /\ DGoto(t, "identified") /\ is_ata' = [is_ata EXCEPT ![dt[t].dev] = FALSE]
          /\ UNCHANGED diskPanic
     ELSE diskPanic' = TRUE /\ UNCHANGED <<dt, is_ata>>     \* PANIC
  /\ UNCHANGED <<kind, table, cell, hw, channel, all_blocks, role, scan>>

\* Fault: ide_read does not release the lock.
LockAfterRead_kept(t) == channel.lock
\* identify_ata_device has not taken the lock.
LockAfterRead(t) == IF channel.lock = t THEN Nobody ELSE channel.lock
input_sector(t) ==
  /\ DAt(t, "input")
  /\ hw' = [hw EXCEPT !.status = "idle", !.cmd = "none"]
  /\ channel' = [channel EXCEPT !.lock = LockAfterRead(t)]
  /\ dt' = [dt EXCEPT ![t] =
       IF @.op = "identify" THEN [@ EXCEPT !.pc = "identified"]
       ELSE [@ EXCEPT !.pc = "idle", !.val = cell[<<hw.dev, hw.sector>>]]]
  /\ UNCHANGED <<kind, table, cell, is_ata, all_blocks, role, scan, diskPanic>>

output_sector(t) ==
  /\ DAt(t, "output")
  /\ hw' = [hw EXCEPT !.status = "busy", !.cmd = "store", !.val = dt[t].val]
  /\ DGoto(t, "down")
  /\ UNCHANGED <<kind, table, cell, channel, is_ata, all_blocks, role, scan, diskPanic>>

Completed == channel.completion > 0
\* sema_down (&c->completion_wait); the end of ide_write looks at nothing else.
await_completion(t) ==
  /\ DAt(t, "down") /\ Completed
  /\ LET written == dt[t].op = "write"
     IN /\ channel' = [channel EXCEPT !.completion = @ - 1,
                                      !.lock = IF written THEN Nobody ELSE @]
        /\ dt' = [dt EXCEPT ![t] = IF written THEN Idle ELSE [@ EXCEPT !.pc = "busy"]]
  /\ UNCHANGED <<kind, table, cell, hw, is_ata, all_blocks, role, scan, diskPanic>>

---------------------------------------------------------------------------
\* ide_init, one device after the other.

\* reset_channel and check_device_type: the signature of an ATA disk.  A channel whose
\* device 0 is absent still has its device 1 looked at.
reset_channel ==
  /\ DAt(Boot, "reset")
  /\ is_ata' = [d \in Devs |-> kind[d] \in {"ata", "huge"}]
  /\ dt' = [dt EXCEPT ![Boot] = [Idle EXCEPT !.pc = "next"]]
  /\ hw' = [hw EXCEPT !.dev = 1, !.irq = FALSE]
  /\ UNCHANGED <<kind, table, cell, channel, all_blocks, role, scan, diskPanic>>

\* The loop over the devices; the second operand of `next' is the device to come.
identify_ata_device ==
  /\ DAt(Boot, "next") /\ dt[Boot].dev \in Devs
  /\ dt' = [dt EXCEPT ![Boot] =
       IF is_ata[dt[Boot].dev] THEN [@ EXCEPT !.pc = "select", !.op = "identify"]
       ELSE [@ EXCEPT !.dev = dt[Boot].dev + 1]]
  /\ UNCHANGED <<kind, table, cell, hw, channel, is_ata, all_blocks, role, scan, diskPanic>>

block_register(type, dev, start, size) ==
  all_blocks' = Append(all_blocks, [type |-> type, dev |-> dev, start |-> start, size |-> size])

\* The capacity is read; disks over 1 GB are ignored; partition_scan begins.
disk_found ==
  /\ DAt(Boot, "identified")
  /\ LET d == dt[Boot].dev
         use == is_ata[d] /\ kind[d] # "huge"
     IN /\ is_ata' = [is_ata EXCEPT ![d] = use]
        /\ IF use THEN /\ block_register("raw", d, 0, DiskSize)
                       /\ scan' = <<[sector |-> 0, primary |-> 0, i |-> 1]>>
                       /\ DGoto(Boot, "scan")
           ELSE /\ UNCHANGED <<all_blocks, scan>>
                /\ dt' = [dt EXCEPT ![Boot] = [Idle EXCEPT !.pc = "next", !.dev = d + 1]]
  /\ UNCHANGED <<kind, table, cell, hw, channel, role, diskPanic>>

\* Fault: a partition whose end wraps around is taken.
InsideDevice_wrapping(start, size) ==
  start < DiskSize /\ (start + size) % SectorWidth <= DiskSize
\* Fault: a partition that ends with the disk is refused.
InsideDevice_last(start, size) ==
  LET end == (start + size) % SectorWidth
  IN start < DiskSize /\ ~ (end < start) /\ end < DiskSize
\* The conditions of found_partition, in block_sector_t arithmetic.
InsideDevice(start, size) ==
  LET end == (start + size) % SectorWidth
  IN start < DiskSize /\ ~ (end < start) /\ end <= DiskSize

\* One entry of read_partition_table.  It reads sector 0 whatever sector it was asked
\* for (partition.c:91), so a nested table has the entries of the first one again.
read_partition_table ==
  /\ DAt(Boot, "scan") /\ scan # <<>>
  /\ LET top == scan[Len(scan)]
         entries == table[dt[Boot].dev]
         e == entries[top.i]
         rest == [scan EXCEPT ![Len(scan)].i = @ + 1]
         next == IF top.sector = 0 THEN [sector |-> e.offset, primary |-> e.offset, i |-> 1]
                 ELSE [sector |-> (e.offset + top.primary) % SectorWidth,
                       primary |-> top.primary, i |-> 1]
         start == (e.offset + top.sector) % SectorWidth
     IN \/ /\ top.sector >= DiskSize \/ top.i > Len(entries)
           /\ scan' = SubSeq(scan, 1, Len(scan) - 1) /\ UNCHANGED all_blocks
        \/ /\ top.sector < DiskSize /\ top.i <= Len(entries)
           /\ IF e.size = 0 \/ e.type = "empty" THEN scan' = rest /\ UNCHANGED all_blocks
              ELSE IF e.type = Extended
              THEN Len(scan) < MaxNesting /\ scan' = Append(rest, next) /\ UNCHANGED all_blocks
              ELSE /\ scan' = rest
                   /\ IF InsideDevice(start, e.size)
                      THEN block_register(e.type, dt[Boot].dev, start, e.size)
                      ELSE UNCHANGED all_blocks
  /\ UNCHANGED <<kind, table, cell, hw, channel, is_ata, role, dt, diskPanic>>

\* ide_read of the table fails; as a request it is like those below, with no other
\* thread about.
table_unreadable ==
  /\ DAt(Boot, "scan") /\ scan # <<>> /\ DiskFails
  /\ scan[Len(scan)].i = 1 /\ scan[Len(scan)].sector < DiskSize
  /\ diskPanic' = TRUE
  /\ UNCHANGED <<kind, table, cell, hw, channel, is_ata, all_blocks, role, dt, scan>>

scan_done ==
  /\ DAt(Boot, "scan") /\ scan = <<>>
  /\ dt' = [dt EXCEPT ![Boot] = [Idle EXCEPT !.pc = "next", !.dev = dt[Boot].dev + 1]]
  /\ UNCHANGED <<kind, table, cell, hw, channel, is_ata, all_blocks, role, scan, diskPanic>>

\* locate_block_device: the device named by -filesys, of any type, or the first of
\* type BLOCK_FILESYS.  A name that no device has is a panic, and filesys_init panics
\* when there is no device of the type.
locate_block_devices ==
  /\ DAt(Boot, "next") /\ dt[Boot].dev \notin Devs
  /\ LET found == {i \in DOMAIN all_blocks : all_blocks[i].type = "filesys"}
     IN \/ \E i \in DOMAIN all_blocks : role' = i /\ UNCHANGED diskPanic
        \/ \E i \in found : (\A j \in found : i <= j) /\ role' = i /\ UNCHANGED diskPanic
        \/ diskPanic' = TRUE /\ UNCHANGED role
  /\ DGoto(Boot, "done")
  /\ UNCHANGED <<kind, table, cell, hw, channel, is_ata, all_blocks, scan>>

---------------------------------------------------------------------------
\* block_read and block_write on the file system's device.

\* partition_read, partition_write: sectors of a partition are counted from its start.
Translate(b, s) == b.start + s
check_sector(s, size) == s < size
block_request(t, op, s, v) ==
  /\ DAt(t, "idle") /\ t \in DiskThreads /\ role # 0
  /\ LET b == all_blocks[role]
         place == Translate(b, s)
     IN /\ s < b.size
        /\ IF /\ check_sector(s, b.size) /\ check_sector(place, DiskSize)
              /\ op = "write" => b.type # "foreign"
           THEN /\ dt' = [dt EXCEPT ![t] = [pc |-> "lock", op |-> op, dev |-> b.dev,
                                            sector |-> place, val |-> v]]
                /\ UNCHANGED diskPanic
           ELSE diskPanic' = TRUE /\ UNCHANGED dt
  /\ UNCHANGED <<kind, table, cell, hw, channel, is_ata, all_blocks, role, scan>>

IdeStep(t) ==
  \/ ide_lock(t) \/ select_sector(t) \/ issue_pio_command(t) \/ wait_while_busy(t)
  \/ input_sector(t) \/ output_sector(t) \/ await_completion(t)
BootStep == \/ reset_channel \/ identify_ata_device \/ disk_found \/ read_partition_table
            \/ table_unreadable \/ scan_done \/ locate_block_devices
NewRequest == \E t \in DiskThreads, s \in Sectors :
                \/ block_request(t, "read", s, 0)
                \/ \E v \in DiskValues : block_request(t, "write", s, v)
DiskNext == \/ DeviceStep \/ interrupt_handler \/ BootStep \/ NewRequest
            \/ \E t \in DT : IdeStep(t)
\* The controller answers, interrupts are delivered and the scheduler runs every
\* thread; the waiters of the channel's lock are served in turn (lock_release).
DiskFairness == /\ WF_diskVars(DeviceStep) /\ WF_diskVars(interrupt_handler)
                /\ \A t \in DT : SF_diskVars(IdeStep(t))
DiskSpec == DiskInit /\ [][DiskNext]_diskVars /\ DiskFairness

---------------------------------------------------------------------------
\* Properties.

InCommand(t) == dt[t].pc \in {"down", "busy", "input", "output"}
\* Types of the variables.
DiskTypeOK ==
  /\ cell \in [Devs \X Sectors -> DiskValues]
  /\ channel.lock \in DT \cup {Nobody} /\ channel.completion \in Nat
  /\ hw.status \in {"idle", "busy", "drq"} /\ hw.irq \in BOOLEAN
  /\ is_ata \in [Devs -> BOOLEAN] /\ role \in 0 .. Len(all_blocks)
  /\ \A t \in DT : dt[t].sector \in Sectors /\ dt[t].val \in DiskValues

\* The completion protocol: an interrupt and the semaphore belong to the one command
\* in progress.  A completion is never counted twice, none is left over for the next
\* command, and the device is idle when a command is issued, so that wait_until_idle
\* never runs into its timeout.
OneCompletion ==
  /\ channel.completion + (IF hw.irq THEN 1 ELSE 0) <= 1
  /\ (\E t \in DT : dt[t].pc \in {"select", "issue"}) /\ ~ diskPanic =>
        /\ hw.status = "idle" /\ ~ hw.irq /\ channel.completion = 0
  /\ channel.completion = 1 \/ hw.irq => \E t \in DT : dt[t].pc \in {"down", "busy"}
  /\ \A t, u \in DT : InCommand(t) /\ InCommand(u) => t = u

\* Every block device lies on its disk, so that check_sector of the disk never panics
\* for a sector the partition has.
PartitionsInside ==
  \A i \in DOMAIN all_blocks : all_blocks[i].start + all_blocks[i].size <= DiskSize
ListedPartitions(d) ==
  SelectSeq(table[d], LAMBDA e : /\ e.type \notin {"empty", Extended} /\ e.size # 0
                                 /\ e.offset + e.size <= DiskSize)
Found(d) == SelectSeq(all_blocks, LAMBDA b : b.dev = d /\ b.type # "raw")
\* A partition table without extended partitions: its partitions that lie on the disk
\* are registered, all of them, in the order of the table.
PrimaryPartitionsFound ==
  \A d \in Devs :
    /\ dt[Boot].pc = "done" /\ is_ata[d]
    /\ \A i \in DOMAIN table[d] : table[d][i].type # Extended
    => Found(d) = [i \in DOMAIN ListedPartitions(d) |->
                     [type |-> ListedPartitions(d)[i].type, dev |-> d,
                      start |-> ListedPartitions(d)[i].offset,
                      size |-> ListedPartitions(d)[i].size]]

\* The requests as block_read and block_write promise them.
Asked(t) == CASE dt[t].pc = "idle" /\ dt[t].op = "none" -> [st |-> "none", place |-> <<>>, val |-> 0]
              [] dt[t].pc = "idle" /\ dt[t].op # "none" ->
                   [st |-> "got", place |-> <<dt[t].dev, dt[t].sector>>, val |-> dt[t].val]
              [] OTHER -> [st |-> IF dt[t].pc = "down" /\ dt[t].op = "write" /\ hw.status # "busy"
                                  THEN "done" ELSE dt[t].op,
                           place |-> <<dt[t].dev, dt[t].sector>>, val |-> dt[t].val]
Device == INSTANCE BlockDevice WITH
  Callers <- DiskThreads, Places <- Devs \X Sectors, CellValues <- DiskValues,
  cells <- cell, req <- [t \in DiskThreads |-> Asked(t)]
\* Concurrent requests through one controller behave as single reads and writes of the
\* sectors that were asked for: no thread gets another one's data, and a write changes
\* its own sector, once.
ImplementsBlockDevice == Device!BlockSpec

\* Every request returns, or the kernel has panicked.
RequestsReturn == \A t \in DiskThreads : dt[t].pc = "lock" ~> dt[t].pc = "idle" \/ diskPanic
=============================================================================
