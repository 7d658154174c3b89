----------------------------- MODULE DiskProofs ------------------------------
(***************************************************************************)
(* The completion protocol of the IDE channel, for any number of threads,   *)
(* any disks and any partition tables; every block device lies on its disk. *)
(* First the inductive invariant of Disk and the lemmas that its types, and *)
(* the place of every block device, are kept by every step; then that Disk  *)
(* implements BlockDevice.                                                  *)
(***************************************************************************)
EXTENDS Disk, TLAPS

Frames == [sector : Nat, primary : Nat, i : Nat \ {0}]
Blocks == [type : STRING \cup {"raw"}, dev : Devs, start : Nat, size : Nat]
Entries == [type : STRING, offset : 0 .. SectorWidth - 1, size : 0 .. SectorWidth - 1]
(* Places between ide_lock and the end of a request.                        *)
Active == {"select", "issue", "down", "busy", "input", "output"}
Places == Active \cup {"idle", "lock", "reset", "next", "identified", "scan", "done"}
Ops == {"none", "read", "write", "identify"}
Requests == [pc : Places, op : Ops, dev : 0 .. 2, sector : Sectors, val : DiskValues]

TypeInv ==
  /\ table \in [Devs -> Seq(Entries)]
  /\ cell \in [Devs \X Sectors -> DiskValues]
  /\ hw \in [dev : Devs, sector : Sectors, val : DiskValues, cmd : Ops \cup {"store"},
             status : {"idle", "busy", "drq"}, irq : BOOLEAN]
  /\ channel \in [lock : DT \cup {Nobody}, expecting : BOOLEAN, completion : Nat]
  /\ is_ata \in [Devs -> BOOLEAN]
  /\ all_blocks \in Seq(Blocks) /\ role \in 0 .. Len(all_blocks)
  /\ dt \in [DT -> Requests]
  /\ scan \in Seq(Frames)
  /\ diskPanic \in BOOLEAN
  /\ \A t \in DT : dt[t].pc \in Active \cup {"lock", "identified", "scan"} => dt[t].dev \in Devs

(* Whose turn it is: the thread that holds the lock, or, while the disks    *)
(* are looked for, the boot thread, which takes no lock.                    *)
Turn ==
  /\ \A t \in DiskThreads :
        /\ dt[t].pc \in Active \cup {"idle", "lock"}
        /\ dt[t].pc \in Active <=> channel.lock = t
        /\ dt[t].pc \in Active \cup {"lock"} => dt[t].op \in {"read", "write"}
  /\ channel.lock # Boot
  /\ dt[Boot].pc \in (Active \ {"output"}) \cup {"reset", "next", "identified", "scan", "done"}
  /\ dt[Boot].pc \in Active => dt[Boot].op = "identify"
  /\ dt[Boot].pc # "done" =>
        role = 0 /\ channel.lock = Nobody /\ \A t \in DiskThreads : dt[t].pc = "idle"
  /\ \A t \in DT : /\ dt[t].pc = "input" => dt[t].op # "write"
                   /\ dt[t].pc = "output" => dt[t].op = "write"

NothingPending == ~ hw.irq /\ channel.completion = 0
Quiet == hw.status = "idle" /\ NothingPending
OnePending == \/ hw.irq /\ channel.completion = 0
              \/ ~ hw.irq /\ channel.completion = 1
CommandOf(op) == IF op = "write" THEN "store" ELSE op

(* What the place of the thread whose turn it is says of the controller.    *)
PlaceOK(t) ==
  /\ dt[t].pc \in {"select", "issue"} => Quiet
  /\ dt[t].pc = "down" =>
        /\ hw.cmd = CommandOf(dt[t].op) /\ channel.expecting
        /\ \/ hw.status = "busy" /\ NothingPending
           \/ hw.status # "busy" /\ OnePending
        /\ dt[t].op = "write" => hw.status # "drq"
  /\ dt[t].pc = "busy" /\ dt[t].op # "write" => hw.status # "busy" /\ NothingPending
  /\ dt[t].pc = "busy" /\ dt[t].op = "write" =>
        /\ hw.cmd = "write" /\ channel.expecting
        /\ NothingPending \/ (hw.status = "idle" /\ OnePending)
  /\ dt[t].pc \in {"input", "output"} => hw.status = "drq" /\ NothingPending
  /\ dt[t].pc = "output" => channel.expecting

Protocol ==
  /\ \A t \in DT : PlaceOK(t)
  /\ (\A t \in DT : dt[t].pc \notin Active) => Quiet

DiskIInv == TypeInv /\ Turn /\ Protocol /\ PartitionsInside
-----------------------------------------------------------------------------
LEMMA Constants ==
  /\ DiskSize \in Nat \ {0} /\ SectorWidth \in Nat /\ DiskSize <= SectorWidth
  /\ 0 \in DiskValues /\ MaxNesting \in Nat
  /\ Boot \notin DiskThreads /\ Nobody \notin DiskThreads /\ Boot # Nobody
  BY DiskAssumption, Zenon DEF Boot, Nobody

LEMMA IdleRequest == Idle \in Requests /\ 0 \in Sectors
<1>1. 0 \in Sectors
  BY Constants DEF Sectors
<1>. QED BY <1>1, Constants DEF Idle, Requests, Places, Ops

LEMMA DiskInitially == DiskInit => DiskIInv
<1> SUFFICES ASSUME DiskInit PROVE DiskIInv
  BY Zenon
<1>1. PICK s \in DiskSetups : kind = s.kind /\ table = s.table
  BY Zenon DEF DiskInit
<1>2. table \in [Devs -> Seq(Entries)]
  BY <1>1, DiskAssumption, Zenon DEF Entries
<1>3. dt \in [DT -> Requests] /\ \A t \in DT : dt[t].pc = IF t = Boot THEN "reset" ELSE "idle"
  BY IdleRequest, Zenon DEF DiskInit, Requests, Idle, Places
<1>4. TypeInv
  <2>1. cell \in [Devs \X Sectors -> DiskValues]
    BY Constants, Zenon DEF DiskInit
  <2>2. all_blocks \in Seq(Blocks) /\ role \in 0 .. Len(all_blocks) /\ scan \in Seq(Frames)
    BY DEF DiskInit
  <2>3. \A t \in DT : dt[t].pc \notin Active \cup {"lock", "identified", "scan"}
    BY <1>3, Zenon DEF Active
  <2>4. channel \in [lock : DT \cup {Nobody}, expecting : BOOLEAN, completion : Nat]
    BY Zenon DEF DiskInit
  <2>5. hw \in [dev : Devs, sector : Sectors, val : DiskValues, cmd : Ops \cup {"store"},
               status : {"idle", "busy", "drq"}, irq : BOOLEAN]
    BY IdleRequest, Constants, Zenon DEF DiskInit, Devs, Ops
  <2>. QED BY <1>2, <1>3, <2>1, <2>4, <2>5, <2>2, <2>3, Zenon DEF DiskInit, TypeInv, Devs
<1>5. Turn
  <2>1. \A t \in DiskThreads : dt[t].pc = "idle" /\ channel.lock # t
    BY <1>3, Constants, Zenon DEF DiskInit, DT
  <2>2. dt[Boot].pc = "reset" /\ channel.lock = Nobody /\ role = 0
    BY <1>3, Zenon DEF DiskInit, DT
  <2>3. \A t \in DT : dt[t].pc \notin {"input", "output"}
    BY <1>3, Zenon
  <2>. QED BY <2>1, <2>2, <2>3, Constants, Zenon DEF Turn, Active
<1>6. Protocol
  BY <1>3 DEF DiskInit, Protocol, PlaceOK, Quiet, NothingPending, Active
<1>7. PartitionsInside
  BY DEF DiskInit, PartitionsInside
<1>. QED BY <1>4, <1>5, <1>6, <1>7, Zenon DEF DiskIInv
-----------------------------------------------------------------------------
(* How a step changes the requests.                                         *)

LEMMA Move ==
  ASSUME dt \in [DT -> Requests], NEW t \in DT, NEW p \in Places, DGoto(t, p)
  PROVE  /\ dt' \in [DT -> Requests]
         /\ dt'[t].pc = p /\ dt'[t].op = dt[t].op /\ dt'[t].dev = dt[t].dev
         /\ dt'[t].sector = dt[t].sector /\ dt'[t].val = dt[t].val
         /\ \A u \in DT \ {t} : dt'[u] = dt[u]
<1>1. dt[t] \in Requests /\ dt' = [dt EXCEPT ![t] = [dt[t] EXCEPT !.pc = p]]
  BY Zenon DEF DGoto
<1>2. [dt[t] EXCEPT !.pc = p] \in Requests
  BY <1>1, Zenon DEF Requests
<1>3. dt' \in [DT -> Requests] /\ dt'[t] = [dt[t] EXCEPT !.pc = p]
      /\ \A u \in DT \ {t} : dt'[u] = dt[u]
  BY <1>1, <1>2, Zenon
<1>. QED BY <1>1, <1>3, Zenon DEF Requests

LEMMA Put ==
  ASSUME dt \in [DT -> Requests], NEW t \in DT, NEW r \in Requests, dt' = [dt EXCEPT ![t] = r]
  PROVE  dt' \in [DT -> Requests] /\ dt'[t] = r /\ \A u \in DT \ {t} : dt'[u] = dt[u]
  BY Zenon

LEMMA IsPlace ==
  /\ Active \subseteq Places
  /\ {"idle", "lock", "reset", "next", "identified", "scan", "done"} \subseteq Places
  BY Zenon DEF Places

LEMMA BootIsThread == Boot \in DT /\ DiskThreads \subseteq DT
  BY Zenon DEF DT

(* The record a boot step leaves.                                           *)
LEMMA Fresh ==
  ASSUME NEW p \in Places, NEW d \in 0 .. 2
  PROVE  /\ [Idle EXCEPT !.pc = p, !.dev = d] \in Requests
         /\ [Idle EXCEPT !.pc = p, !.dev = d].pc = p
         /\ [Idle EXCEPT !.pc = p, !.dev = d].dev = d
  BY IdleRequest, Zenon DEF Idle, Requests
-----------------------------------------------------------------------------
(* Types are kept.                                                          *)

Requesting == Active \cup {"lock", "identified", "scan"}
DevicesKnown == \A t \in DT : dt[t].pc \in Requesting => dt[t].dev \in Devs
ThreadsOK == dt \in [DT -> Requests] /\ DevicesKnown
Registers == [dev : Devs, sector : Sectors, val : DiskValues, cmd : Ops \cup {"store"},
              status : {"idle", "busy", "drq"}, irq : BOOLEAN]
Channels == [lock : DT \cup {Nobody}, expecting : BOOLEAN, completion : Nat]
BlocksOK == all_blocks \in Seq(Blocks) /\ role \in 0 .. Len(all_blocks)

LEMMA ThreadsStep == TypeInv /\ Turn /\ [DiskNext]_diskVars => ThreadsOK'
<1> SUFFICES ASSUME TypeInv, Turn, [DiskNext]_diskVars PROVE ThreadsOK'
  BY Zenon
<1>0. ThreadsOK
  BY Zenon DEF TypeInv, ThreadsOK, DevicesKnown, Requesting
<1>1. CASE UNCHANGED dt
  BY <1>0, <1>1, Zenon DEF ThreadsOK, DevicesKnown
<1>2. ASSUME NEW t \in DT, NEW p \in Places, DGoto(t, p), p \in Requesting => dt[t].dev \in Devs
      PROVE  ThreadsOK'
  <2>1. /\ dt' \in [DT -> Requests] /\ dt'[t].pc = p /\ dt'[t].dev = dt[t].dev
        /\ \A u \in DT \ {t} : dt'[u] = dt[u]
    BY <1>0, <1>2, Move, Zenon DEF ThreadsOK
  <2>. QED BY <1>0, <1>2, <2>1, Zenon DEF ThreadsOK, DevicesKnown
<1>3. ASSUME NEW t \in DT, NEW r \in Requests, dt' = [dt EXCEPT ![t] = r],
             r.pc \in Requesting => r.dev \in Devs
      PROVE  ThreadsOK'
  <2>1. dt' \in [DT -> Requests] /\ dt'[t] = r /\ \A u \in DT \ {t} : dt'[u] = dt[u]
    BY <1>0, <1>3, Put, Zenon DEF ThreadsOK
  <2>. QED BY <1>0, <1>3, <2>1, Zenon DEF ThreadsOK, DevicesKnown
<1> USE DEF DAt
<1>4. ASSUME NEW t \in DT, IdeStep(t) PROVE ThreadsOK'
  <2>0. dt[t] \in Requests /\ (dt[t].pc \in Requesting => dt[t].dev \in Devs)
    BY <1>0, Zenon DEF ThreadsOK, DevicesKnown
  <2>1. CASE ide_lock(t)
    <3>1. DGoto(t, "select") /\ dt[t].pc = "lock"
      BY <2>1, Zenon DEF ide_lock
    <3>. QED BY <1>2, <2>0, <3>1, IsPlace, Zenon DEF Requesting, Active
  <2>2. CASE select_sector(t)
    <3>1. DGoto(t, "issue") /\ dt[t].pc = "select"
      BY <2>2, Zenon DEF select_sector
    <3>. QED BY <1>2, <2>0, <3>1, IsPlace, Zenon DEF Requesting, Active
  <2>3. CASE issue_pio_command(t)
    <3>1. DGoto(t, AfterIssue(dt[t].op)) /\ dt[t].pc = "issue"
      BY <2>3, Zenon DEF issue_pio_command
    <3>. QED BY <1>2, <2>0, <3>1, IsPlace, Zenon DEF Requesting, Active, AfterIssue
  <2>4. CASE wait_while_busy(t)
    <3>1. UNCHANGED dt \/ DGoto(t, "output") \/ DGoto(t, "input") \/ DGoto(t, "identified")
      BY <2>4, Zenon DEF wait_while_busy
    <3>2. dt[t].dev \in Devs
      <4>1. dt[t].pc = "busy"
        BY <2>4, Zenon DEF wait_while_busy
      <4>. QED BY <2>0, <4>1, Zenon DEF Requesting, Active
    <3>3. {"output", "input", "identified"} \subseteq Places
      BY IsPlace, Zenon DEF Active
    <3>. QED BY <1>1, <1>2, <3>1, <3>2, <3>3, Zenon
  <2>5. CASE input_sector(t)
    <3>1. CASE dt[t].op = "identify"
      <4>1. DGoto(t, "identified") /\ dt[t].pc = "input"
        BY <2>5, <3>1, <1>0, Zenon DEF input_sector, DGoto, ThreadsOK
      <4>. QED BY <1>2, <2>0, <4>1, IsPlace, Zenon DEF Requesting, Active
    <3>2. CASE dt[t].op # "identify"
      <4> DEFINE r == [dt[t] EXCEPT !.pc = "idle", !.val = cell[<<hw.dev, hw.sector>>]]
      <4>1. dt' = [dt EXCEPT ![t] = r]
        BY <2>5, <3>2, <1>0, Zenon DEF input_sector, ThreadsOK
      <4>2. cell[<<hw.dev, hw.sector>>] \in DiskValues
        BY Zenon DEF TypeInv
      <4>3. r \in Requests /\ r.pc = "idle"
        BY <2>0, <4>2, IsPlace, Zenon DEF Requests
      <4>. QED BY <1>3, <4>1, <4>3, Zenon DEF Requesting, Active
    <3>. QED BY <3>1, <3>2, Zenon
  <2>6. CASE output_sector(t)
    <3>1. DGoto(t, "down") /\ dt[t].pc = "output"
      BY <2>6, Zenon DEF output_sector
    <3>. QED BY <1>2, <2>0, <3>1, IsPlace, Zenon DEF Requesting, Active
  <2>7. CASE await_completion(t)
    <3>1. CASE dt[t].op = "write"
      <4>1. dt' = [dt EXCEPT ![t] = Idle]
        BY <2>7, <3>1, Zenon DEF await_completion
      <4>. QED BY <1>3, <4>1, IdleRequest, Zenon DEF Idle, Requesting, Active
    <3>2. CASE dt[t].op # "write"
      <4>1. DGoto(t, "busy") /\ dt[t].pc = "down"
        BY <2>7, <3>2, Zenon DEF await_completion, DGoto
      <4>. QED BY <1>2, <2>0, <4>1, IsPlace, Zenon DEF Requesting, Active
    <3>. QED BY <3>1, <3>2, Zenon
  <2>. QED BY <1>4, <2>1, <2>2, <2>3, <2>4, <2>5, <2>6, <2>7, Zenon DEF IdeStep
<1>5. ASSUME NEW d \in 0 .. 2, dt' = [dt EXCEPT ![Boot] = [Idle EXCEPT !.pc = "next", !.dev = d]]
      PROVE  ThreadsOK'
  BY <1>3, <1>5, Fresh, IsPlace, BootIsThread, ZenonT(40) DEF Requesting, Active
<1>6. dt[Boot] \in Requests /\ (dt[Boot].pc \in Requesting => dt[Boot].dev \in Devs)
  BY <1>0, BootIsThread, ZenonT(40) DEF ThreadsOK, DevicesKnown
<1>7. CASE reset_channel
  <2> DEFINE r == [Idle EXCEPT !.pc = "next"]
  <2>1. r \in Requests /\ r.pc = "next"
    BY IdleRequest, IsPlace, Zenon DEF Idle, Requests
  <2>2. dt' = [dt EXCEPT ![Boot] = r]
    BY <1>7, Zenon DEF reset_channel
  <2>. QED BY <1>3, <2>1, <2>2, BootIsThread, Zenon DEF Requesting, Active
<1>8. CASE identify_ata_device
  <2>1. CASE is_ata[dt[Boot].dev]
    <3> DEFINE r == [dt[Boot] EXCEPT !.pc = "select", !.op = "identify"]
    <3>1. dt' = [dt EXCEPT ![Boot] = r] /\ dt[Boot].dev \in Devs
      BY <1>8, <2>1, Zenon DEF identify_ata_device
    <3>2. r \in Requests /\ r.dev = dt[Boot].dev
      BY <1>6, IsPlace, Zenon DEF Requests, Active, Ops
    <3>. QED BY <1>3, <3>1, <3>2, BootIsThread, Zenon
  <2>2. CASE ~ is_ata[dt[Boot].dev]
    <3> DEFINE r == [dt[Boot] EXCEPT !.dev = dt[Boot].dev + 1]
    <3>1. dt[Boot].pc = "next" /\ dt[Boot].dev \in Devs
      BY <1>8, Zenon DEF identify_ata_device
    <3>2. dt' = [dt EXCEPT ![Boot] = r]
      BY <1>8, <2>2, Zenon DEF identify_ata_device
    <3>3. r \in Requests /\ r.pc = "next"
      BY <1>6, <3>1 DEF Requests, Devs
    <3>. QED BY <1>3, <3>2, <3>3, BootIsThread, Zenon DEF Requesting, Active
  <2>. QED BY <2>1, <2>2, Zenon
<1>9. CASE disk_found
  <2>1. dt[Boot].pc = "identified" /\ dt[Boot].dev \in Devs
    BY <1>6, <1>9, Zenon DEF disk_found, Requesting
  <2>2. \/ DGoto(Boot, "scan")
        \/ dt' = [dt EXCEPT ![Boot] = [Idle EXCEPT !.pc = "next", !.dev = dt[Boot].dev + 1]]
    BY <1>9, Zenon DEF disk_found
  <2>3. dt[Boot].dev + 1 \in 0 .. 2
    BY <2>1 DEF Devs
  <2>. QED BY <1>2, <1>5, <2>1, <2>2, <2>3, IsPlace, BootIsThread, Zenon
<1>10. CASE scan_done
  <2>1. dt[Boot].pc = "scan" /\ dt[Boot].dev \in Devs
    BY <1>6, <1>10, Zenon DEF scan_done, Requesting
  <2>2. dt' = [dt EXCEPT ![Boot] = [Idle EXCEPT !.pc = "next", !.dev = dt[Boot].dev + 1]]
    BY <1>10, Zenon DEF scan_done
  <2>3. dt[Boot].dev + 1 \in 0 .. 2
    BY <2>1 DEF Devs
  <2>. QED BY <1>5, <2>2, <2>3, Zenon
<1>11. CASE locate_block_devices
  BY <1>2, <1>11, IsPlace, BootIsThread, Zenon DEF locate_block_devices, Requesting, Active
<1>12. CASE NewRequest
  <2>1. PICK t \in DiskThreads, s \in Sectors, op \in {"read", "write"}, v \in DiskValues :
          block_request(t, op, s, v)
    BY <1>12, Constants, Zenon DEF NewRequest
  <2>2. CASE UNCHANGED dt
    BY <1>1, <2>2, Zenon
  <2>3. CASE ~ UNCHANGED dt
    <3> DEFINE b == all_blocks[role]
               r == [pc |-> "lock", op |-> op, dev |-> b.dev, sector |-> Translate(b, s), val |-> v]
    <3>1. role # 0 /\ Translate(b, s) < DiskSize /\ dt' = [dt EXCEPT ![t] = r]
      BY <2>1, <2>3, Zenon DEF block_request, check_sector
    <3>2. b \in Blocks
      BY <3>1 DEF TypeInv
    <3>3. b.dev \in Devs /\ b.start \in Nat
      BY <3>2, Zenon DEF Blocks
    <3>4. Translate(b, s) \in Sectors
      BY <3>1, <3>3, Constants DEF Translate, Sectors
    <3>5. r \in Requests
      BY <3>3, <3>4, IsPlace DEF Requests, Ops, Devs
    <3>. QED BY <1>3, <3>1, <3>3, <3>5, BootIsThread, Zenon
  <2>. QED BY <2>2, <2>3, Zenon
<1>13. CASE DeviceStep \/ interrupt_handler \/ read_partition_table \/ table_unreadable
  BY <1>1, <1>13, Zenon DEF DeviceStep, interrupt_handler, read_partition_table, table_unreadable
<1>. QED BY <1>1, <1>4, <1>7, <1>8, <1>9, <1>10, <1>11, <1>12, <1>13, Zenon
         DEF DiskNext, BootStep, diskVars

LEMMA RegistersStep == TypeInv /\ [DiskNext]_diskVars => hw' \in Registers /\ channel' \in Channels
<1> SUFFICES ASSUME TypeInv, [DiskNext]_diskVars PROVE hw' \in Registers /\ channel' \in Channels
  BY Zenon
<1>0. hw \in Registers /\ channel \in Channels /\ \A t \in DT : dt[t] \in Requests
  BY Zenon DEF TypeInv, Registers, Channels
<1>1. CASE UNCHANGED <<hw, channel>>
  BY <1>0, <1>1, Zenon
<1>2. CASE DeviceStep
  <2>1. PICK st \in {"drq", "idle"}, irq \in BOOLEAN : hw' = [hw EXCEPT !.status = st, !.irq = irq]
    BY <1>2, Zenon DEF DeviceStep, DeviceAnswers
  <2>. QED BY <1>0, <1>2, <2>1, Zenon DEF DeviceStep, Registers
<1>3. CASE interrupt_handler
  <2>1. PICK n \in Nat : channel' = [channel EXCEPT !.completion = n]
    BY <1>0, <1>3 DEF interrupt_handler, Channels
  <2>2. hw' = [hw EXCEPT !.irq = FALSE]
    BY <1>3, Zenon DEF interrupt_handler
  <2>. QED BY <1>0, <2>1, <2>2, Zenon DEF Registers, Channels
<1>4. ASSUME NEW t \in DT, IdeStep(t) PROVE hw' \in Registers /\ channel' \in Channels
  <2>0. dt[t] \in Requests
    BY <1>0, Zenon
  <2>1. CASE ide_lock(t)
    BY <1>0, <2>1, Zenon DEF ide_lock, Channels
  <2>2. CASE select_sector(t)
    <3>1. dt[t].dev \in Devs
      BY <2>2, Zenon DEF select_sector, DAt, TypeInv, Active
    <3>2. dt[t].sector \in Sectors
      BY <2>0, Zenon DEF Requests
    <3>. QED BY <1>0, <2>2, <3>1, <3>2, Zenon DEF select_sector, Registers
  <2>3. CASE issue_pio_command(t)
    <3>1. dt[t].op \in Ops
      BY <2>0, Zenon DEF Requests
    <3>. QED BY <1>0, <2>3, <3>1, Zenon DEF issue_pio_command, Expecting, Registers, Channels
  <2>4. CASE wait_while_busy(t)
    BY <1>1, <2>4, Zenon DEF wait_while_busy
  <2>5. CASE input_sector(t)
    <3>1. LockAfterRead(t) \in DT \cup {Nobody}
      BY <1>0, Zenon DEF LockAfterRead, Channels
    <3>. QED BY <1>0, <2>5, <3>1, Zenon DEF input_sector, Registers, Channels, Ops
  <2>6. CASE output_sector(t)
    <3>1. dt[t].val \in DiskValues
      BY <2>0, Zenon DEF Requests
    <3>. QED BY <1>0, <2>6, <3>1, Zenon DEF output_sector, Registers
  <2>7. CASE await_completion(t)
    <3>1. PICK n \in Nat, l \in DT \cup {Nobody} :
            channel' = [channel EXCEPT !.completion = n, !.lock = l]
      <4>1. channel.completion \in Nat /\ channel.completion > 0 /\ channel.lock \in DT \cup {Nobody}
        BY <1>0, <2>7, Zenon DEF await_completion, Completed, Channels
      <4>2. channel.completion - 1 \in Nat
        BY <4>1
      <4>. QED BY <2>7, <4>1, <4>2, Zenon DEF await_completion
    <3>2. UNCHANGED hw
      BY <2>7, Zenon DEF await_completion
    <3>. QED BY <1>0, <3>1, <3>2, Zenon DEF Channels
  <2>. QED BY <1>4, <2>1, <2>2, <2>3, <2>4, <2>5, <2>6, <2>7, Zenon DEF IdeStep
<1>5. CASE reset_channel
  BY <1>0, <1>5, Zenon DEF reset_channel, Registers, Devs
<1>6. CASE NewRequest
  <2>1. UNCHANGED <<hw, channel>>
    BY <1>6, Zenon DEF NewRequest, block_request
  <2>. QED BY <1>1, <2>1, Zenon
<1>7. CASE identify_ata_device \/ disk_found \/ read_partition_table \/ table_unreadable
           \/ scan_done \/ locate_block_devices
  BY <1>1, <1>7, Zenon DEF identify_ata_device, disk_found, read_partition_table, table_unreadable,
                    scan_done, locate_block_devices
<1>8. CASE UNCHANGED diskVars
  BY <1>1, <1>8, Zenon DEF diskVars
<1>. QED BY <1>2, <1>3, <1>4, <1>5, <1>6, <1>7, <1>8, Zenon DEF DiskNext, BootStep

LEMMA DevicesStep ==
  TypeInv /\ [DiskNext]_diskVars =>
    /\ table' = table
    /\ cell' \in [Devs \X Sectors -> DiskValues]
    /\ is_ata' \in [Devs -> BOOLEAN]
    /\ diskPanic' \in BOOLEAN
<1> SUFFICES ASSUME TypeInv, [DiskNext]_diskVars
             PROVE  /\ table' = table
                    /\ cell' \in [Devs \X Sectors -> DiskValues]
                    /\ is_ata' \in [Devs -> BOOLEAN]
                    /\ diskPanic' \in BOOLEAN
  BY Zenon
<1>1. CASE UNCHANGED <<table, cell, is_ata, diskPanic>>
  BY <1>1, Zenon DEF TypeInv
<1>2. CASE DeviceStep
  BY <1>2, Zenon DEF DeviceStep, TypeInv
<1>3. CASE interrupt_handler
  BY <1>1, <1>3, Zenon DEF interrupt_handler
<1>4. ASSUME NEW t \in DT, IdeStep(t), ~ UNCHANGED <<table, cell, is_ata, diskPanic>>
      PROVE  UNCHANGED <<table, cell>> /\ is_ata' \in [Devs -> BOOLEAN] /\ diskPanic' \in BOOLEAN
  <2>1. wait_while_busy(t)
    BY <1>4, Zenon DEF IdeStep, ide_lock, select_sector, issue_pio_command, input_sector,
                output_sector, await_completion
  <2>. QED BY <2>1, Zenon DEF wait_while_busy, TypeInv
<1>5. CASE reset_channel
  BY <1>5 DEF reset_channel, TypeInv
<1>6. CASE disk_found
  <2>1. (is_ata[dt[Boot].dev] /\ kind[dt[Boot].dev] # "huge") \in BOOLEAN
    BY Zenon
  <2>. QED BY <1>6, <2>1, Zenon DEF disk_found, TypeInv
<1>7. CASE NewRequest
  <2>1. UNCHANGED <<table, cell, is_ata>> /\ diskPanic' \in {diskPanic, TRUE}
    BY <1>7, Zenon DEF NewRequest, block_request
  <2>. QED BY <2>1, Zenon DEF TypeInv
<1>8. CASE identify_ata_device \/ read_partition_table \/ scan_done
  BY <1>1, <1>8, Zenon DEF identify_ata_device, read_partition_table, scan_done
<1>9. CASE table_unreadable \/ locate_block_devices
  BY <1>9, Zenon DEF table_unreadable, locate_block_devices, TypeInv
<1>10. CASE UNCHANGED diskVars
  BY <1>1, <1>10, Zenon DEF diskVars
<1>. QED BY <1>1, <1>2, <1>3, <1>4, <1>5, <1>6, <1>7, <1>8, <1>9, <1>10, Zenon
         DEF DiskNext, BootStep, TypeInv

(* The table on top of the stack of read_partition_table, and the rest.      *)
LEMMA TopOfStack ==
  ASSUME NEW S, NEW s \in Seq(S), s # <<>>
  PROVE  /\ SubSeq(s, 1, Len(s) - 1) \in Seq(S) /\ s[Len(s)] \in S
         /\ \A x \in S : [s EXCEPT ![Len(s)] = x] \in Seq(S)
<1>1. Len(s) \in Nat \ {0} /\ s[Len(s)] \in S
  OBVIOUS
<1>2. SubSeq(s, 1, Len(s) - 1) \in Seq(S)
  BY <1>1
<1>3. \A x \in S : [s EXCEPT ![Len(s)] = x] \in Seq(S)
  BY <1>1
<1>. QED BY <1>1, <1>2, <1>3, Zenon

(* The conditions of found_partition are enough, though its sums may wrap.   *)
LEMMA InsideIsInside ==
  ASSUME NEW a \in 0 .. SectorWidth - 1, NEW n \in 0 .. SectorWidth - 1, InsideDevice(a, n)
  PROVE  a + n <= DiskSize
<1>1. CASE a + n < SectorWidth
  <2>1. (a + n) % SectorWidth = a + n
    BY <1>1, Constants
  <2>. QED BY <2>1, Zenon DEF InsideDevice
<1>2. CASE a + n >= SectorWidth
  <2>1. (a + n) % SectorWidth = a + n - SectorWidth
    BY <1>2, Constants
  <2>. QED BY <2>1, Constants DEF InsideDevice
<1>. QED BY <1>1, <1>2, Constants

LEMMA Remainder ==
  ASSUME NEW a \in Nat
  PROVE  a % SectorWidth \in 0 .. SectorWidth - 1
  BY Constants

LEMMA NextFrame ==
  ASSUME NEW f \in Frames
  PROVE  [f EXCEPT !.i = @ + 1] \in Frames
<1>1. f.i + 1 \in Nat \ {0}
  BY DEF Frames
<1>. QED BY <1>1, Zenon DEF Frames

LEMMA Registered ==
  ASSUME all_blocks \in Seq(Blocks), PartitionsInside,
         NEW type \in STRING \cup {"raw"}, NEW dev \in Devs, NEW a \in Nat, NEW n \in Nat,
         a + n <= DiskSize, block_register(type, dev, a, n)
  PROVE  all_blocks' \in Seq(Blocks) /\ Len(all_blocks') = Len(all_blocks) + 1 /\ PartitionsInside'
<1> DEFINE b == [type |-> type, dev |-> dev, start |-> a, size |-> n]
<1>1. b \in Blocks /\ b.start + b.size <= DiskSize
  BY Zenon DEF Blocks
<1>2. all_blocks' = Append(all_blocks, b)
  BY Zenon DEF block_register
<1>3. /\ all_blocks' \in Seq(Blocks) /\ Len(all_blocks') = Len(all_blocks) + 1
      /\ \A i \in 1 .. Len(all_blocks) : all_blocks'[i] = all_blocks[i]
      /\ all_blocks'[Len(all_blocks) + 1] = b
  BY <1>1, <1>2
<1>4. ASSUME NEW i \in DOMAIN all_blocks' PROVE all_blocks'[i].start + all_blocks'[i].size <= DiskSize
  <2>1. i \in 1 .. Len(all_blocks) \/ i = Len(all_blocks) + 1
    BY <1>3
  <2>. QED BY <1>1, <1>3, <2>1 DEF PartitionsInside
<1>. QED BY <1>3, <1>4, Zenon DEF PartitionsInside

LEMMA BlocksStep ==
  TypeInv /\ PartitionsInside /\ [DiskNext]_diskVars =>
    BlocksOK' /\ scan' \in Seq(Frames) /\ PartitionsInside'
<1> SUFFICES ASSUME TypeInv, PartitionsInside, [DiskNext]_diskVars
             PROVE  BlocksOK' /\ scan' \in Seq(Frames) /\ PartitionsInside'
  BY Zenon
<1>0. /\ all_blocks \in Seq(Blocks) /\ role \in 0 .. Len(all_blocks) /\ scan \in Seq(Frames)
      /\ dt[Boot].pc \in {"identified", "scan"} => dt[Boot].dev \in Devs
  BY BootIsThread, Zenon DEF TypeInv
<1>1. CASE UNCHANGED <<all_blocks, role, scan>>
  BY <1>0, <1>1, Zenon DEF BlocksOK, PartitionsInside
<1>2. CASE disk_found
  <2>1. dt[Boot].dev \in Devs /\ UNCHANGED role
    BY <1>0, <1>2, Zenon DEF disk_found, DAt
  <2>2. \/ UNCHANGED <<all_blocks, scan>>
        \/ /\ block_register("raw", dt[Boot].dev, 0, DiskSize)
           /\ scan' = <<[sector |-> 0, primary |-> 0, i |-> 1]>>
    BY <1>2, Zenon DEF disk_found
  <2>3. [sector |-> 0, primary |-> 0, i |-> 1] \in Frames
    BY DEF Frames
  <2>4. CASE block_register("raw", dt[Boot].dev, 0, DiskSize)
    <3>1. all_blocks' \in Seq(Blocks) /\ Len(all_blocks') = Len(all_blocks) + 1 /\ PartitionsInside'
      BY <1>0, <2>1, <2>4, Registered, Constants
    <3>2. scan' \in Seq(Frames)
      <4>1. scan' = scan \/ scan' = <<[sector |-> 0, primary |-> 0, i |-> 1]>>
        BY <2>2, Zenon
      <4>2. <<[sector |-> 0, primary |-> 0, i |-> 1]>> \in Seq(Frames)
        BY <2>3
      <4>. QED BY <1>0, <4>1, <4>2, Zenon
    <3>. QED BY <1>0, <2>1, <3>1, <3>2 DEF BlocksOK
  <2>. QED BY <1>1, <2>1, <2>2, <2>4, Zenon
<1>3. CASE read_partition_table
  <2> DEFINE top == scan[Len(scan)]
             entries == table[dt[Boot].dev]
             e == entries[top.i]
             rest == [scan EXCEPT ![Len(scan)].i = @ + 1]
             first == (e.offset + top.sector) % SectorWidth
             next == IF top.sector = 0 THEN [sector |-> e.offset, primary |-> e.offset, i |-> 1]
                     ELSE [sector |-> (e.offset + top.primary) % SectorWidth,
                           primary |-> top.primary, i |-> 1]
  <2>1. dt[Boot].dev \in Devs /\ scan # <<>> /\ UNCHANGED role
    BY <1>0, <1>3, Zenon DEF read_partition_table, DAt
  <2>2. entries \in Seq(Entries)
    BY <2>1, Zenon DEF TypeInv
  <2>3. SubSeq(scan, 1, Len(scan) - 1) \in Seq(Frames) /\ top \in Frames
    BY <1>0, <2>1, TopOfStack, Zenon
  <2>4. [top EXCEPT !.i = @ + 1] \in Frames
    BY <2>3, NextFrame, Zenon
  <2>5. rest \in Seq(Frames)
    <3>1. rest = [scan EXCEPT ![Len(scan)] = [top EXCEPT !.i = @ + 1]]
      BY Zenon
    <3>. QED BY <1>0, <2>1, <2>4, <3>1, TopOfStack, Zenon
  <2>a. \/ scan' = SubSeq(scan, 1, Len(scan) - 1) /\ UNCHANGED all_blocks
        \/ top.sector < DiskSize /\ top.i <= Len(entries)
    BY <1>3, Zenon DEF read_partition_table
  <2>b. \/ top.sector >= DiskSize \/ top.i > Len(entries)
        \/ /\ scan' = rest \/ scan' = Append(rest, next)
           /\ \/ UNCHANGED all_blocks
              \/ InsideDevice(first, e.size) /\ block_register(e.type, dt[Boot].dev, first, e.size)
    BY <1>3, Zenon DEF read_partition_table
  <2>c. top.sector \in Nat /\ top.primary \in Nat /\ top.i \in Nat \ {0} /\ Len(entries) \in Nat
    BY <2>2, <2>3 DEF Frames
  <2> HIDE DEF top, entries, rest
  <2>6. CASE top.sector >= DiskSize \/ top.i > Len(entries)
    <3>1. scan' = SubSeq(scan, 1, Len(scan) - 1) /\ UNCHANGED all_blocks
      BY <2>6, <2>a, <2>c, Constants
    <3>. QED BY <1>0, <2>1, <2>3, <3>1, Zenon DEF BlocksOK, PartitionsInside
  <2>7. CASE ~ (top.sector >= DiskSize \/ top.i > Len(entries))
    <3>1. top.i \in 1 .. Len(entries) /\ top.sector \in Nat /\ top.primary \in Nat
      BY <2>7, <2>c
    <3>2. e \in Entries
      BY <2>2, <3>1
    <3>3. /\ e.type \in STRING /\ e.offset \in 0 .. SectorWidth - 1
          /\ e.size \in 0 .. SectorWidth - 1
      BY <3>2, Zenon DEF Entries
    <3>4. /\ first \in 0 .. SectorWidth - 1
          /\ (e.offset + top.primary) % SectorWidth \in Nat
      <4>1. e.offset + top.sector \in Nat /\ e.offset + top.primary \in Nat
        BY <3>1, <3>3, Constants, SMTT(30)
      <4>. QED BY <4>1, Remainder, Constants
    <3> HIDE DEF first, e
    <3>5. next \in Frames
      BY <3>1, <3>3, <3>4, Constants DEF Frames
    <3>6. Append(rest, next) \in Seq(Frames)
      <4> HIDE DEF next
      <4>. QED BY <2>5, <3>5
    <3>7. /\ scan' = rest \/ scan' = Append(rest, next)
          /\ \/ UNCHANGED all_blocks
             \/ InsideDevice(first, e.size) /\ block_register(e.type, dt[Boot].dev, first, e.size)
      BY <2>7, <2>b, Zenon
    <3>8. scan' \in Seq(Frames)
      BY <2>5, <3>6, <3>7, Zenon
    <3>9. CASE UNCHANGED all_blocks
      BY <1>0, <2>1, <3>8, <3>9, Zenon DEF BlocksOK, PartitionsInside
    <3>10. CASE InsideDevice(first, e.size) /\ block_register(e.type, dt[Boot].dev, first, e.size)
      <4>1. first + e.size <= DiskSize /\ first \in Nat /\ e.size \in Nat
        BY <3>3, <3>4, <3>10, InsideIsInside, Constants
      <4>2. all_blocks' \in Seq(Blocks) /\ Len(all_blocks') = Len(all_blocks) + 1 /\ PartitionsInside'
        BY <1>0, <2>1, <3>3, <3>10, <4>1, Registered, Zenon
      <4>. QED BY <1>0, <2>1, <3>8, <4>2 DEF BlocksOK
    <3>. QED BY <3>7, <3>9, <3>10, Zenon
  <2>. QED BY <2>6, <2>7, Zenon
<1>4. CASE locate_block_devices
  <2>1. UNCHANGED <<all_blocks, scan>>
    BY <1>4, Zenon DEF locate_block_devices
  <2>2. role' \in 0 .. Len(all_blocks)
    <3>1. UNCHANGED role \/ role' \in DOMAIN all_blocks
      BY <1>4, Zenon DEF locate_block_devices
    <3>. QED BY <1>0, <3>1
  <2>. QED BY <1>0, <2>1, <2>2, Zenon DEF BlocksOK, PartitionsInside
<1>5. CASE NewRequest
  <2>1. UNCHANGED <<all_blocks, role, scan>>
    BY <1>5, Zenon DEF NewRequest, block_request
  <2>. QED BY <1>1, <2>1, Zenon
<1>6. ASSUME NEW t \in DT, IdeStep(t) PROVE UNCHANGED <<all_blocks, role, scan>>
  BY <1>6, Zenon DEF IdeStep, ide_lock, select_sector, issue_pio_command, wait_while_busy,
              input_sector, output_sector, await_completion
<1>7. CASE DeviceStep \/ interrupt_handler \/ UNCHANGED diskVars
  BY <1>1, <1>7, Zenon DEF DeviceStep, interrupt_handler, diskVars
<1>8. CASE reset_channel \/ identify_ata_device \/ table_unreadable \/ scan_done
  BY <1>1, <1>8, Zenon DEF reset_channel, identify_ata_device, table_unreadable, scan_done
<1>. QED BY <1>1, <1>2, <1>3, <1>4, <1>5, <1>6, <1>7, <1>8, Zenon DEF DiskNext, BootStep

LEMMA TypeStep ==
  TypeInv /\ Turn /\ PartitionsInside /\ [DiskNext]_diskVars => TypeInv' /\ PartitionsInside'
<1> SUFFICES ASSUME TypeInv, Turn, PartitionsInside, [DiskNext]_diskVars
             PROVE  TypeInv' /\ PartitionsInside'
  BY Zenon
<1>1. ThreadsOK'
  BY ThreadsStep, Zenon
<1>2. hw' \in Registers /\ channel' \in Channels
  BY RegistersStep, Zenon
<1>3. /\ table' = table /\ cell' \in [Devs \X Sectors -> DiskValues]
      /\ is_ata' \in [Devs -> BOOLEAN] /\ diskPanic' \in BOOLEAN
  BY DevicesStep, Zenon
<1>4. BlocksOK' /\ scan' \in Seq(Frames) /\ PartitionsInside'
  BY BlocksStep, Zenon
<1>5. table' \in [Devs -> Seq(Entries)]
  BY <1>3, Zenon DEF TypeInv
<1>. QED BY <1>1, <1>2, <1>3, <1>4, <1>5, Zenon
         DEF TypeInv, ThreadsOK, DevicesKnown, Requesting, Registers, Channels, BlocksOK
-----------------------------------------------------------------------------
(* Whose turn it is is kept: first for a step of a thread, then for one of   *)
(* the boot thread while the disks are looked for.                          *)

LEMMA ThreadTurn ==
  ASSUME Turn, NEW t \in DiskThreads, \A u \in DT \ {t} : dt'[u] = dt[u], dt[Boot].pc = "done",
         dt'[t].pc \in Active \cup {"idle", "lock"},
         dt'[t].pc \in Active <=> channel'.lock = t,
         dt'[t].pc \in Active \cup {"lock"} => dt'[t].op \in {"read", "write"},
         dt'[t].pc = "input" => dt'[t].op # "write",
         dt'[t].pc = "output" => dt'[t].op = "write",
         channel'.lock \in {channel.lock, t, Nobody},
         channel'.lock # channel.lock => channel.lock \in {t, Nobody}
  PROVE  Turn'
<1>1. dt'[Boot] = dt[Boot] /\ t # Boot
  BY Constants, Zenon DEF DT
<1>2. channel'.lock # Boot
  BY Constants, <1>1, Zenon DEF Turn
<1>3. ASSUME NEW u \in DiskThreads
      PROVE  /\ dt'[u].pc \in Active \cup {"idle", "lock"}
             /\ dt'[u].pc \in Active <=> channel'.lock = u
             /\ dt'[u].pc \in Active \cup {"lock"} => dt'[u].op \in {"read", "write"}
  <2>1. CASE u = t
    BY <2>1, Zenon
  <2>2. CASE u # t
    <3>1. dt'[u] = dt[u] /\ u # Nobody
      BY <2>2, Constants, Zenon DEF DT
    <3>2. channel'.lock = u <=> channel.lock = u
      BY <2>2, <3>1, Zenon
    <3>. QED BY <3>1, <3>2, Zenon DEF Turn
  <2>. QED BY <2>1, <2>2, Zenon
<1>4. \A u \in DT : /\ dt'[u].pc = "input" => dt'[u].op # "write"
                    /\ dt'[u].pc = "output" => dt'[u].op = "write"
  BY DEF Turn
<1>. QED BY <1>1, <1>2, <1>3, <1>4, Zenon DEF Turn, Active

BootPlaces == (Active \ {"output"}) \cup {"reset", "next", "identified", "scan", "done"}
LEMMA BootTurn ==
  ASSUME Turn, \A u \in DT \ {Boot} : dt'[u] = dt[u], channel'.lock = channel.lock,
         dt[Boot].pc # "done", dt'[Boot].pc \in BootPlaces,
         dt'[Boot].pc \in Active => dt'[Boot].op = "identify",
         dt'[Boot].pc # "done" => role' = role
  PROVE  Turn'
<1>1. \A u \in DiskThreads : dt'[u] = dt[u]
  BY Constants, Zenon DEF DT
<1>2. \A u \in DT : u \in DiskThreads \/ u = Boot
  BY Zenon DEF DT
<1>3. \A u \in DiskThreads :
        /\ dt'[u].pc \in Active \cup {"idle", "lock"}
        /\ dt'[u].pc \in Active <=> channel'.lock = u
        /\ dt'[u].pc \in Active \cup {"lock"} => dt'[u].op \in {"read", "write"}
  BY <1>1, Zenon DEF Turn
<1>4. dt'[Boot].pc # "output" /\ (dt'[Boot].pc = "input" => dt'[Boot].op # "write")
  BY Zenon DEF BootPlaces, Active
<1>5. \A u \in DT : /\ dt'[u].pc = "input" => dt'[u].op # "write"
                    /\ dt'[u].pc = "output" => dt'[u].op = "write"
  BY <1>1, <1>2, <1>4, Zenon DEF Turn
<1>6. dt'[Boot].pc # "done" =>
        role' = 0 /\ channel'.lock = Nobody /\ \A u \in DiskThreads : dt'[u].pc = "idle"
  BY <1>1 DEF Turn
<1>. QED BY <1>3, <1>5, <1>6, Zenon DEF Turn, BootPlaces
-----------------------------------------------------------------------------
(* What the turn says of a thread with a request.                           *)
LEMMA TurnFacts ==
  ASSUME TypeInv, Turn, NEW t \in DT, dt[t].pc \in Active \cup {"lock"}
  PROVE  /\ dt[t] \in Requests
         /\ \/ t \in DiskThreads /\ dt[Boot].pc = "done" /\ dt[t].op \in {"read", "write"}
            \/ t = Boot /\ dt[t].pc \in Active \ {"output"} /\ dt[t].op = "identify"
         /\ t = Boot => channel.lock = Nobody
         /\ dt[t].pc \in Active => \A u \in DT \ {t} : dt[u].pc \notin Active
<1>1. dt[t] \in Requests
  BY Zenon DEF TypeInv
<1>2. CASE t = Boot
  <2>1. dt[Boot].pc \in Active \ {"output"} /\ dt[Boot].pc # "done"
    BY <1>2, Zenon DEF Turn, Active
  <2>2. dt[t].op = "identify" /\ channel.lock = Nobody /\ \A u \in DiskThreads : dt[u].pc = "idle"
    BY <1>2, <2>1, Zenon DEF Turn
  <2>3. \A u \in DT \ {t} : dt[u].pc \notin Active
    BY <1>2, <2>2, Zenon DEF DT, Active
  <2>. QED BY <1>1, <1>2, <2>1, <2>2, <2>3, Zenon
<1>3. CASE t # Boot
  <2>1. t \in DiskThreads /\ dt[t].pc # "idle"
    BY <1>3, Zenon DEF DT, Active
  <2>2. dt[Boot].pc = "done" /\ dt[t].op \in {"read", "write"}
    BY <2>1, Zenon DEF Turn
  <2>3. ASSUME dt[t].pc \in Active, NEW u \in DT \ {t} PROVE dt[u].pc \notin Active
    <3>1. CASE u = Boot
      BY <2>2, <3>1, Zenon DEF Active
    <3>2. CASE u \in DiskThreads
      BY <2>1, <2>3, <3>2, Zenon DEF Turn
    <3>. QED BY <3>1, <3>2, Zenon DEF DT
  <2>. QED BY <1>1, <1>3, <2>1, <2>2, <2>3, Zenon
<1>. QED BY <1>2, <1>3, Zenon

LEMMA ProtocolOf ==
  ASSUME NEW t \in DT, \A u \in DT \ {t} : dt'[u].pc \notin Active,
         PlaceOK(t)', dt'[t].pc \notin Active => Quiet'
  PROVE  Protocol'
<1>1. ASSUME NEW u \in DT \ {t} PROVE PlaceOK(u)'
  <2>1. dt'[u].pc \notin {"select", "issue", "down", "busy", "input", "output"}
    BY Zenon DEF Active
  <2>. QED BY <2>1, Zenon DEF PlaceOK
<1>. QED BY <1>1, Zenon DEF Protocol

LEMMA MoveTurn ==
  ASSUME TypeInv, Turn, NEW t \in DT, dt[t].pc \in Active, NEW p \in Active, DGoto(t, p),
         channel'.lock = channel.lock, role' = role,
         p = "input" => dt[t].op # "write", p = "output" => dt[t].op = "write"
  PROVE  /\ Turn'
         /\ dt'[t].pc = p /\ dt'[t].op = dt[t].op
         /\ \A u \in DT \ {t} : dt'[u].pc \notin Active
<1>1. /\ dt'[t].pc = p /\ dt'[t].op = dt[t].op
      /\ \A u \in DT \ {t} : dt'[u] = dt[u]
  BY Move, IsPlace DEF TypeInv
<1>2. \A u \in DT \ {t} : dt[u].pc \notin Active
  BY TurnFacts, Zenon
<1>3. \/ t \in DiskThreads /\ dt[Boot].pc = "done" /\ dt[t].op \in {"read", "write"}
      \/ t = Boot /\ dt[t].op = "identify"
  BY TurnFacts, Zenon
<1>4. CASE t \in DiskThreads
  <2>1. dt[Boot].pc = "done" /\ dt[t].op \in {"read", "write"} /\ channel.lock = t
    BY <1>3, <1>4, Constants, Zenon DEF Turn
  <2>. QED BY <1>1, <1>2, <1>4, <2>1, ThreadTurn, Zenon
<1>5. CASE t = Boot
  <2>1. dt[t].op = "identify" /\ dt[Boot].pc # "done"
    BY <1>3, <1>5, Constants, Zenon DEF Active
  <2>2. p \in BootPlaces
    BY <2>1, Zenon DEF BootPlaces
  <2>. QED BY <1>1, <1>2, <1>5, <2>1, <2>2, BootTurn, Zenon
<1>. QED BY <1>3, <1>4, <1>5, Zenon
-----------------------------------------------------------------------------
(* One lemma for each step of a request.                                    *)

LEMMA LockStep ==
  ASSUME DiskIInv, NEW t \in DT, ide_lock(t)
  PROVE  Turn' /\ Protocol'
<1>0. TypeInv /\ Turn /\ Protocol
  BY Zenon DEF DiskIInv
<1>1. dt[t].pc = "lock" /\ channel.lock = Nobody /\ DGoto(t, "select") /\ UNCHANGED <<hw, role>>
  BY Zenon DEF ide_lock, DAt, LockFree
<1>2. t \in DiskThreads /\ dt[Boot].pc = "done" /\ dt[t].op \in {"read", "write"}
  BY <1>0, <1>1, TurnFacts, Zenon DEF Active
<1>3. dt'[t].pc = "select" /\ dt'[t].op = dt[t].op /\ \A u \in DT \ {t} : dt'[u] = dt[u]
  BY <1>0, <1>1, Move, IsPlace, Zenon DEF TypeInv, Active
<1>4. channel'.lock = t /\ channel'.completion = channel.completion
  BY <1>0, Zenon DEF ide_lock, TypeInv
<1>5. Turn'
  BY <1>0, <1>1, <1>2, <1>3, <1>4, ThreadTurn, Zenon DEF Active
<1>6. \A u \in DT : dt[u].pc \notin Active
  BY <1>0, <1>1, <1>2, Constants, Zenon DEF Turn, DT, Active
<1>7. Quiet'
  BY <1>0, <1>1, <1>4, <1>6, Zenon DEF Protocol, Quiet, NothingPending
<1>8. PlaceOK(t)'
  BY <1>3, <1>7, Zenon DEF PlaceOK
<1>. QED BY <1>3, <1>5, <1>6, <1>7, <1>8, ProtocolOf, Zenon

LEMMA SelectStep ==
  ASSUME DiskIInv, NEW t \in DT, select_sector(t)
  PROVE  Turn' /\ Protocol'
<1>0. TypeInv /\ Turn /\ PlaceOK(t)
  BY Zenon DEF DiskIInv, Protocol
<1>1. dt[t].pc = "select" /\ DGoto(t, "issue") /\ UNCHANGED <<channel, role>>
  BY Zenon DEF select_sector, DAt
<1>2. Turn' /\ dt'[t].pc = "issue" /\ \A u \in DT \ {t} : dt'[u].pc \notin Active
  BY <1>0, <1>1, MoveTurn, Zenon DEF Active
<1>3. hw'.status = hw.status /\ ~ hw'.irq
  BY <1>0, Zenon DEF select_sector, TypeInv
<1>4. Quiet'
  BY <1>0, <1>1, <1>3, Zenon DEF PlaceOK, Quiet, NothingPending
<1>. QED BY <1>2, <1>4, ProtocolOf, Zenon DEF PlaceOK, Active

LEMMA IssueStep ==
  ASSUME DiskIInv, NEW t \in DT, issue_pio_command(t)
  PROVE  Turn' /\ Protocol'
<1>0. TypeInv /\ Turn /\ PlaceOK(t)
  BY Zenon DEF DiskIInv, Protocol
<1>1. dt[t].pc = "issue" /\ DGoto(t, AfterIssue(dt[t].op)) /\ UNCHANGED role
  BY Zenon DEF issue_pio_command, DAt
<1>2. /\ channel'.lock = channel.lock /\ channel'.expecting
      /\ channel'.completion = channel.completion
  BY <1>0, Zenon DEF issue_pio_command, Expecting, TypeInv
<1>3. hw'.status = "busy" /\ hw'.irq = hw.irq /\ hw'.cmd = dt[t].op
  BY <1>0, Zenon DEF issue_pio_command, TypeInv
<1>4. AfterIssue(dt[t].op) \in {"busy", "down"}
  BY Zenon DEF AfterIssue
<1>5. /\ Turn' /\ dt'[t].pc = AfterIssue(dt[t].op) /\ dt'[t].op = dt[t].op
      /\ \A u \in DT \ {t} : dt'[u].pc \notin Active
  BY <1>0, <1>1, <1>2, <1>4, MoveTurn, Zenon DEF Active
<1>6. NothingPending'
  BY <1>0, <1>1, <1>2, <1>3, Zenon DEF PlaceOK, Quiet, NothingPending
<1>7. PlaceOK(t)'
  BY <1>2, <1>3, <1>5, <1>6, Zenon DEF PlaceOK, AfterIssue, CommandOf
<1>. QED BY <1>4, <1>5, <1>7, ProtocolOf, Zenon DEF Active

LEMMA OutputStep ==
  ASSUME DiskIInv, NEW t \in DT, output_sector(t)
  PROVE  Turn' /\ Protocol'
<1>0. TypeInv /\ Turn /\ PlaceOK(t)
  BY Zenon DEF DiskIInv, Protocol
<1>1. dt[t].pc = "output" /\ DGoto(t, "down") /\ UNCHANGED <<channel, role>>
  BY Zenon DEF output_sector, DAt
<1>2. /\ Turn' /\ dt'[t].pc = "down" /\ dt'[t].op = dt[t].op
      /\ \A u \in DT \ {t} : dt'[u].pc \notin Active
  BY <1>0, <1>1, MoveTurn, Zenon DEF Active
<1>3. hw'.status = "busy" /\ hw'.irq = hw.irq /\ hw'.cmd = "store"
  BY <1>0, Zenon DEF output_sector, TypeInv
<1>4. dt[t].op = "write"
  BY <1>0, <1>1, Zenon DEF Turn
<1>5. PlaceOK(t)'
  BY <1>0, <1>1, <1>2, <1>3, <1>4, Zenon DEF PlaceOK, NothingPending, CommandOf
<1>. QED BY <1>2, <1>5, ProtocolOf, Zenon DEF Active

(* The boot thread is done with a device.                                   *)
LEMMA IdentifiedTurn ==
  ASSUME TypeInv, Turn, NEW t \in DT, dt[t].pc \in Active, dt[t].op = "identify",
         DGoto(t, "identified"), channel'.lock = channel.lock, role' = role
  PROVE  Turn' /\ \A u \in DT : dt'[u].pc \notin Active
<1>1. t = Boot /\ \A u \in DT \ {t} : dt[u].pc \notin Active
  BY TurnFacts, Zenon
<1>2. dt'[t].pc = "identified" /\ \A u \in DT \ {t} : dt'[u] = dt[u]
  BY Move, IsPlace, Zenon DEF TypeInv
<1>3. dt[Boot].pc # "done" /\ dt'[Boot].pc \in BootPlaces /\ dt'[Boot].pc \notin Active
  BY <1>1, <1>2, Zenon DEF Active, BootPlaces
<1>4. Turn'
  BY <1>1, <1>2, <1>3, BootTurn, Zenon
<1>. QED BY <1>1, <1>2, <1>3, <1>4, Zenon

LEMMA BusyStep ==
  ASSUME DiskIInv, NEW t \in DT, wait_while_busy(t)
  PROVE  Turn' /\ Protocol'
<1>0. TypeInv /\ Turn /\ PlaceOK(t) /\ Protocol
  BY Zenon DEF DiskIInv, Protocol
<1>1. dt[t].pc = "busy" /\ hw.status # "busy" /\ UNCHANGED <<hw, channel, role>>
  BY Zenon DEF wait_while_busy, DAt
<1>2. CASE hw.status = "drq"
  <2> DEFINE p == IF dt[t].op = "write" THEN "output" ELSE "input"
  <2>1. DGoto(t, p)
    BY <1>2, Zenon DEF wait_while_busy
  <2>2. p \in Active /\ p \in {"input", "output"}
    BY Zenon DEF Active
  <2>3. /\ Turn' /\ dt'[t].pc = p /\ dt'[t].op = dt[t].op
        /\ \A u \in DT \ {t} : dt'[u].pc \notin Active
    BY <1>0, <1>1, <2>1, <2>2, MoveTurn, Zenon DEF Active
  <2>4. NothingPending
    BY <1>0, <1>1, <1>2, Zenon DEF PlaceOK
  <2>5. PlaceOK(t)'
    BY <1>0, <1>1, <1>2, <2>3, <2>4, Zenon DEF PlaceOK, NothingPending
  <2>. QED BY <2>2, <2>3, <2>5, ProtocolOf, Zenon
<1>3. CASE hw.status # "drq" /\ dt[t].op = "identify"
  <2>1. DGoto(t, "identified")
    BY <1>3, Zenon DEF wait_while_busy
  <2>2. Turn' /\ \A u \in DT : dt'[u].pc \notin Active
    BY <1>0, <1>1, <1>3, <2>1, IdentifiedTurn, Zenon DEF Active
  <2>3. hw.status = "idle" /\ NothingPending
    BY <1>0, <1>1, <1>3, Zenon DEF PlaceOK, TypeInv
  <2>4. Quiet'
    BY <1>1, <2>3, Zenon DEF Quiet, NothingPending
  <2>5. PlaceOK(t)'
    BY <2>2, Zenon DEF PlaceOK, Active
  <2>. QED BY <2>2, <2>4, <2>5, ProtocolOf, Zenon
<1>4. CASE hw.status # "drq" /\ dt[t].op # "identify"
  <2>1. UNCHANGED dt
    BY <1>4, Zenon DEF wait_while_busy
  <2>. QED BY <1>0, <1>1, <2>1 DEF Turn, Protocol, PlaceOK, Quiet, NothingPending, OnePending
<1>. QED BY <1>2, <1>3, <1>4, Zenon

LEMMA InputStep ==
  ASSUME DiskIInv, NEW t \in DT, input_sector(t)
  PROVE  Turn' /\ Protocol'
<1>0. TypeInv /\ Turn /\ PlaceOK(t) /\ dt \in [DT -> Requests]
  BY Zenon DEF DiskIInv, Protocol, TypeInv
<1>1. dt[t].pc = "input" /\ UNCHANGED role
  BY Zenon DEF input_sector, DAt
<1>2. hw'.status = "idle" /\ hw'.irq = hw.irq /\ channel'.completion = channel.completion
      /\ channel'.lock = LockAfterRead(t)
  BY <1>0, Zenon DEF input_sector, TypeInv
<1>3. Quiet'
  BY <1>0, <1>1, <1>2, Zenon DEF PlaceOK, Quiet, NothingPending
<1>4. CASE dt[t].op = "identify"
  <2>1. DGoto(t, "identified")
    BY <1>0, <1>4, Zenon DEF input_sector, DGoto
  <2>2. channel'.lock = channel.lock
    BY <1>0, <1>1, <1>2, <1>4, TurnFacts, Constants, Zenon DEF LockAfterRead, Active, Turn
  <2>3. Turn' /\ \A u \in DT : dt'[u].pc \notin Active
    BY <1>0, <1>1, <1>4, <2>1, <2>2, IdentifiedTurn, Zenon DEF Active
  <2>4. PlaceOK(t)'
    BY <2>3, Zenon DEF PlaceOK, Active
  <2>. QED BY <1>3, <2>3, <2>4, ProtocolOf, Zenon
<1>5. CASE dt[t].op # "identify"
  <2> DEFINE r == [dt[t] EXCEPT !.pc = "idle", !.val = cell[<<hw.dev, hw.sector>>]]
  <2>1. dt' = [dt EXCEPT ![t] = r]
    BY <1>0, <1>5, Zenon DEF input_sector
  <2>2. r.pc = "idle"
    BY <1>0, Zenon DEF Requests
  <2>3. dt'[t].pc = "idle" /\ \A u \in DT \ {t} : dt'[u] = dt[u]
    BY <1>0, <2>1, <2>2, Zenon
  <2>4. /\ t \in DiskThreads /\ dt[Boot].pc = "done"
        /\ \A u \in DT \ {t} : dt[u].pc \notin Active
    BY <1>0, <1>1, <1>5, TurnFacts, Zenon DEF Active
  <2>5. channel.lock = t /\ channel'.lock = Nobody /\ t # Nobody
    BY <1>0, <1>1, <1>2, <2>4, Constants, Zenon DEF Turn, LockAfterRead, Active
  <2>6. Turn'
    BY <1>0, <2>3, <2>4, <2>5, ThreadTurn, Zenon DEF Active
  <2>7. PlaceOK(t)'
    BY <2>3, Zenon DEF PlaceOK
  <2>. QED BY <1>3, <2>3, <2>4, <2>6, <2>7, ProtocolOf, Zenon
<1>. QED BY <1>4, <1>5, Zenon

LEMMA AwaitStep ==
  ASSUME DiskIInv, NEW t \in DT, await_completion(t)
  PROVE  Turn' /\ Protocol'
<1>0. TypeInv /\ Turn /\ PlaceOK(t) /\ dt \in [DT -> Requests]
  BY Zenon DEF DiskIInv, Protocol, TypeInv
<1>1. dt[t].pc = "down" /\ channel.completion > 0 /\ UNCHANGED <<hw, role>>
  BY Zenon DEF await_completion, DAt, Completed
<1>2. channel'.completion = channel.completion - 1
      /\ channel'.lock = IF dt[t].op = "write" THEN Nobody ELSE channel.lock
  BY <1>0, Zenon DEF await_completion, TypeInv
<1>3. channel.completion = 1 /\ ~ hw.irq /\ hw.status # "busy"
  BY <1>0, <1>1 DEF PlaceOK, NothingPending, OnePending
<1>4. NothingPending'
  BY <1>1, <1>2, <1>3 DEF NothingPending
<1>5. CASE dt[t].op = "write"
  <2>1. dt'[t].pc = "idle" /\ \A u \in DT \ {t} : dt'[u] = dt[u]
    BY <1>0, <1>5, Zenon DEF await_completion, Idle
  <2>2. /\ t \in DiskThreads /\ dt[Boot].pc = "done"
        /\ \A u \in DT \ {t} : dt[u].pc \notin Active
    BY <1>0, <1>1, <1>5, TurnFacts, Zenon DEF Active
  <2>3. channel.lock = t /\ channel'.lock = Nobody /\ t # Nobody
    BY <1>0, <1>1, <1>2, <1>5, <2>2, Constants, Zenon DEF Turn, Active
  <2>4. Turn'
    BY <1>0, <2>1, <2>2, <2>3, ThreadTurn, Zenon DEF Active
  <2>5. hw.status = "idle"
    BY <1>0, <1>1, <1>3, <1>5, Zenon DEF PlaceOK, TypeInv
  <2>6. Quiet' /\ PlaceOK(t)'
    BY <1>1, <1>4, <2>1, <2>5, Zenon DEF Quiet, PlaceOK
  <2>. QED BY <2>1, <2>2, <2>4, <2>6, ProtocolOf, Zenon
<1>6. CASE dt[t].op # "write"
  <2>1. DGoto(t, "busy") /\ channel'.lock = channel.lock
    BY <1>2, <1>6, Zenon DEF await_completion, DGoto
  <2>2. /\ Turn' /\ dt'[t].pc = "busy" /\ dt'[t].op = dt[t].op
        /\ \A u \in DT \ {t} : dt'[u].pc \notin Active
    BY <1>0, <1>1, <2>1, MoveTurn, Zenon DEF Active
  <2>3. PlaceOK(t)'
    BY <1>1, <1>3, <1>4, <1>6, <2>2, Zenon DEF PlaceOK
  <2>. QED BY <2>2, <2>3, ProtocolOf, Zenon DEF Active
<1>. QED BY <1>5, <1>6, Zenon

(* The controller answers, or its interrupt is handled: only while the       *)
(* thread whose turn it is waits for it.                                    *)
LEMMA ControllerStep ==
  ASSUME DiskIInv, DeviceStep \/ interrupt_handler
  PROVE  Turn' /\ Protocol'
<1>0. TypeInv /\ Turn /\ Protocol
  BY Zenon DEF DiskIInv
<1>1. UNCHANGED <<dt, role>> /\ channel'.lock = channel.lock
  BY <1>0, Zenon DEF DeviceStep, interrupt_handler, TypeInv
<1>2. Turn'
  BY <1>0, <1>1, Zenon DEF Turn
<1>3. hw.status = "busy" \/ hw.irq
  BY Zenon DEF DeviceStep, interrupt_handler
<1>4. PICK t \in DT : dt[t].pc \in Active
  BY <1>0, <1>3, Zenon DEF Protocol, Quiet, NothingPending
<1>5. (\A u \in DT \ {t} : dt'[u].pc \notin Active) /\ dt'[t].pc \in Active
  BY <1>0, <1>1, <1>4, TurnFacts, Zenon
<1>6. PlaceOK(t) /\ dt'[t] = dt[t]
  BY <1>0, <1>1, Zenon DEF Protocol
<1>7. \/ dt[t].pc = "down"
      \/ dt[t].pc = "busy" /\ dt[t].op = "write"
  BY <1>3, <1>4, <1>6, Zenon DEF PlaceOK, Active, Quiet, NothingPending
<1>8. CASE DeviceStep
  <2>1. hw.status = "busy" /\ UNCHANGED channel
    BY <1>8, Zenon DEF DeviceStep
  <2>2. /\ hw'.cmd = hw.cmd
        /\ \/ hw.cmd = "write" /\ hw'.status = "drq" /\ ~ hw'.irq
           \/ hw.cmd \in {"read", "identify"} /\ hw'.status = "drq" /\ hw'.irq
           \/ hw'.status = "idle" /\ hw'.irq
    BY <1>0, <1>8, Zenon DEF DeviceStep, DeviceAnswers, TypeInv
  <2>3. NothingPending
    BY <1>6, <1>7, <2>1, Zenon DEF PlaceOK
  <2>4. CASE dt[t].pc = "down"
    <3>1. hw.cmd = CommandOf(dt[t].op) /\ channel.expecting
      BY <1>6, <2>4, Zenon DEF PlaceOK
    <3>2. hw.cmd # "write" /\ (dt[t].op = "write" => hw.cmd = "store")
      BY <3>1, Zenon DEF CommandOf
    <3>3. PlaceOK(t)'
      BY <1>6, <2>1, <2>2, <2>3, <2>4, <3>1, <3>2, Zenon DEF PlaceOK, NothingPending, OnePending
    <3>. QED BY <1>2, <1>5, <3>3, ProtocolOf, Zenon
  <2>5. CASE dt[t].pc = "busy" /\ dt[t].op = "write"
    <3>1. hw.cmd = "write" /\ channel.expecting
      BY <1>6, <2>5, Zenon DEF PlaceOK
    <3>2. PlaceOK(t)'
      BY <1>6, <2>1, <2>2, <2>3, <2>5, <3>1, Zenon DEF PlaceOK, NothingPending, OnePending
    <3>. QED BY <1>2, <1>5, <3>2, ProtocolOf, Zenon
  <2>. QED BY <1>7, <2>4, <2>5, Zenon
<1>9. CASE interrupt_handler
  <2>1. hw.irq /\ ~ hw'.irq /\ hw'.status = hw.status /\ hw'.cmd = hw.cmd
        /\ channel'.expecting = channel.expecting
    BY <1>0, <1>9, Zenon DEF interrupt_handler, TypeInv
  <2>2. channel.expecting /\ OnePending /\ channel.completion = 0
    BY <1>6, <1>7, <2>1, Zenon DEF PlaceOK, NothingPending, OnePending
  <2>3. channel'.completion = 1
    BY <1>0, <1>9, <2>2 DEF interrupt_handler, TypeInv
  <2>4. OnePending'
    BY <2>1, <2>3, Zenon DEF OnePending
  <2>5. PlaceOK(t)'
    BY <1>6, <1>7, <2>1, <2>2, <2>4, Zenon DEF PlaceOK, NothingPending, OnePending
  <2>. QED BY <1>2, <1>5, <2>5, ProtocolOf, Zenon
<1>. QED BY <1>8, <1>9, Zenon

(* While the disks are looked for and no command is in progress: no thread   *)
(* has a request, and nothing is pending.                                    *)
LEMMA BootLemma ==
  ASSUME DiskIInv, BootStep
  PROVE  Turn' /\ Protocol'
<1>0. TypeInv /\ Turn /\ Protocol /\ dt \in [DT -> Requests] /\ Boot \in DT
  BY BootIsThread, Zenon DEF DiskIInv, TypeInv
<1>1. dt[Boot].pc \in {"reset", "next", "identified", "scan"}
  BY Zenon DEF BootStep, reset_channel, identify_ata_device, disk_found, read_partition_table,
         table_unreadable, scan_done, locate_block_devices, DAt
<1>2. \A u \in DT : dt[u].pc \notin Active
  BY <1>0, <1>1, Zenon DEF Turn, DT, Active
<1>3. Quiet
  BY <1>0, <1>2, Zenon DEF Protocol
<1>4. UNCHANGED channel /\ hw'.status = hw.status /\ (hw'.irq => hw.irq)
  <2>1. UNCHANGED channel /\ (UNCHANGED hw \/ hw' = [hw EXCEPT !.dev = 1, !.irq = FALSE])
    BY Zenon DEF BootStep, reset_channel, identify_ata_device, disk_found, read_partition_table,
           table_unreadable, scan_done, locate_block_devices
  <2>. QED BY <1>0, <2>1, Zenon DEF TypeInv
<1>5. Quiet'
  BY <1>3, <1>4, Zenon DEF Quiet, NothingPending
<1>6. ASSUME \A u \in DT \ {Boot} : dt'[u] = dt[u],
             \/ dt'[Boot].pc \in {"next", "identified", "scan", "reset"} /\ role' = role
             \/ dt'[Boot].pc = "select" /\ dt'[Boot].op = "identify" /\ role' = role
             \/ dt'[Boot].pc = "done"
      PROVE  Turn' /\ Protocol'
  <2>1. Turn'
    BY <1>0, <1>1, <1>4, <1>6, BootTurn, Zenon DEF BootPlaces, Active
  <2>2. PlaceOK(Boot)'
    BY <1>5, <1>6, Zenon DEF PlaceOK
  <2>. QED BY <1>0, <1>2, <1>5, <1>6, <2>1, <2>2, ProtocolOf, Zenon
<1>7. CASE UNCHANGED <<dt, role>>
  BY <1>1, <1>6, <1>7, Zenon
<1>8. CASE reset_channel \/ scan_done
  <2>1. PICK r : dt' = [dt EXCEPT ![Boot] = r] /\ r.pc = "next" /\ role' = role
    BY <1>8, Zenon DEF reset_channel, scan_done, Idle
  <2>. QED BY <1>0, <1>6, <2>1, Zenon
<1>9. CASE identify_ata_device
  <2>1. PICK r : /\ dt' = [dt EXCEPT ![Boot] = r] /\ role' = role
                 /\ r.pc = "next" \/ (r.pc = "select" /\ r.op = "identify")
    <3>1. dt[Boot] \in Requests /\ dt[Boot].pc = "next"
      BY <1>0, <1>9, Zenon DEF identify_ata_device, DAt
    <3>2. [dt[Boot] EXCEPT !.dev = dt[Boot].dev + 1].pc = "next"
      BY <3>1, Zenon DEF Requests
    <3>3. /\ [dt[Boot] EXCEPT !.pc = "select", !.op = "identify"].pc = "select"
          /\ [dt[Boot] EXCEPT !.pc = "select", !.op = "identify"].op = "identify"
      BY <3>1, Zenon DEF Requests
    <3>. QED BY <1>9, <3>2, <3>3, Zenon DEF identify_ata_device
  <2>. QED BY <1>0, <1>6, <2>1, Zenon
<1>10. CASE disk_found
  <2>1. CASE DGoto(Boot, "scan")
    <3>1. dt'[Boot].pc = "scan" /\ \A u \in DT \ {Boot} : dt'[u] = dt[u]
      BY <1>0, <2>1, Move, IsPlace, Zenon
    <3>. QED BY <1>6, <1>10, <3>1, Zenon DEF disk_found
  <2>2. CASE dt' = [dt EXCEPT ![Boot] = [Idle EXCEPT !.pc = "next", !.dev = dt[Boot].dev + 1]]
    <3>1. [Idle EXCEPT !.pc = "next", !.dev = dt[Boot].dev + 1].pc = "next"
      BY Zenon DEF Idle
    <3>. QED BY <1>0, <1>6, <1>10, <2>2, <3>1, Zenon DEF disk_found
  <2>. QED BY <1>10, <2>1, <2>2, Zenon DEF disk_found
<1>11. CASE locate_block_devices
  <2>1. dt'[Boot].pc = "done" /\ \A u \in DT \ {Boot} : dt'[u] = dt[u]
    BY <1>0, <1>11, Move, IsPlace, Zenon DEF locate_block_devices
  <2>. QED BY <1>6, <2>1, Zenon
<1>12. CASE read_partition_table \/ table_unreadable
  BY <1>7, <1>12, Zenon DEF read_partition_table, table_unreadable
<1>. QED BY <1>8, <1>9, <1>10, <1>11, <1>12, Zenon DEF BootStep

LEMMA RequestStep ==
  ASSUME DiskIInv, NewRequest
  PROVE  Turn' /\ Protocol'
<1>0. TypeInv /\ Turn /\ Protocol /\ dt \in [DT -> Requests]
  BY Zenon DEF DiskIInv, TypeInv
<1>1. PICK t \in DiskThreads, s \in Sectors, op \in {"read", "write"}, v \in DiskValues :
        block_request(t, op, s, v)
  BY Constants, Zenon DEF NewRequest
<1>2. dt[t].pc = "idle" /\ role # 0 /\ UNCHANGED <<hw, channel, role>> /\ t \in DT
  BY <1>1, BootIsThread, Zenon DEF block_request, DAt
<1>3. CASE UNCHANGED dt
  BY <1>0, <1>2, <1>3 DEF Turn, Protocol, PlaceOK, Quiet, NothingPending, OnePending
<1>4. CASE ~ UNCHANGED dt
  <2> DEFINE r == [pc |-> "lock", op |-> op, dev |-> all_blocks[role].dev,
                   sector |-> Translate(all_blocks[role], s), val |-> v]
  <2>1. dt' = [dt EXCEPT ![t] = r]
    BY <1>1, <1>4, Zenon DEF block_request
  <2>2. dt'[t].pc = "lock" /\ dt'[t].op = op /\ \A u \in DT \ {t} : dt'[u] = dt[u]
    BY <1>0, <1>2, <2>1, Zenon
  <2>3. dt[Boot].pc = "done" /\ channel.lock # t
    BY <1>0, <1>2, Zenon DEF Turn, Active
  <2>4. Turn'
    BY <1>0, <1>2, <2>2, <2>3, ThreadTurn, Zenon DEF Active
  <2>5. ASSUME NEW u \in DT PROVE PlaceOK(u)'
    <3>1. CASE u = t
      BY <2>2, <3>1, Zenon DEF PlaceOK
    <3>2. CASE u # t
      <4>1. dt'[u] = dt[u] /\ PlaceOK(u)
        BY <1>0, <2>2, <3>2, Zenon DEF Protocol
      <4>. QED BY <1>2, <4>1, Zenon DEF PlaceOK, Quiet, NothingPending, OnePending
    <3>. QED BY <3>1, <3>2, Zenon
  <2>6. (\A u \in DT : dt'[u].pc \notin Active) => \A u \in DT : dt[u].pc \notin Active
    BY <1>2, <2>2, Zenon DEF Active
  <2>7. (\A u \in DT : dt'[u].pc \notin Active) => Quiet'
    BY <1>0, <1>2, <2>6, Zenon DEF Protocol, Quiet, NothingPending
  <2>. QED BY <2>4, <2>5, <2>7, Zenon DEF Protocol
<1>. QED BY <1>3, <1>4, Zenon
-----------------------------------------------------------------------------
LEMMA DiskStep == DiskIInv /\ [DiskNext]_diskVars => DiskIInv'
<1> SUFFICES ASSUME DiskIInv, [DiskNext]_diskVars PROVE DiskIInv'
  BY Zenon
<1>1. TypeInv' /\ PartitionsInside'
  BY TypeStep, Zenon DEF DiskIInv
<1>2. ASSUME NEW t \in DT, IdeStep(t) PROVE Turn' /\ Protocol'
  BY <1>2, LockStep, SelectStep, IssueStep, BusyStep, InputStep, OutputStep, AwaitStep, Zenon DEF IdeStep
<1>3. ASSUME UNCHANGED diskVars PROVE Turn' /\ Protocol'
  <2>1. UNCHANGED <<dt, hw, channel, role>> /\ Turn /\ Protocol
    BY <1>3, Zenon DEF diskVars, DiskIInv
  <2>2. Turn'
    BY <2>1, Zenon DEF Turn
  <2>3. Protocol'
    BY <2>1, Zenon DEF Protocol, PlaceOK, Quiet, NothingPending, OnePending
  <2>. QED BY <2>2, <2>3, Zenon
<1>4. Turn' /\ Protocol'
  BY <1>2, <1>3, ControllerStep, BootLemma, RequestStep, Zenon DEF DiskNext, DiskIInv
<1>. QED BY <1>1, <1>4, Zenon DEF DiskIInv

LEMMA DiskInductive == DiskSpec => []DiskIInv
BY DiskInitially, DiskStep, PTL DEF DiskSpec

(* The variables of the disk driver keep their types.                       *)
THEOREM DiskTypes == DiskSpec => []DiskTypeOK
<1>1. DiskIInv => DiskTypeOK
  BY Zenon DEF DiskIInv, TypeInv, DiskTypeOK, Requests
<1>. QED BY <1>1, DiskInductive, PTL

(* The completion protocol of ide.c: interrupt_handler ups the semaphore     *)
(* exactly once for the one command in progress, and no completion is left   *)
(* over for the next command.                                                *)
THEOREM CompletionsMatch == DiskSpec => []OneCompletion
<1>1. DiskIInv => OneCompletion
  <2> SUFFICES ASSUME DiskIInv PROVE OneCompletion
    BY Zenon
  <2>0. TypeInv /\ Turn /\ Protocol
    BY Zenon DEF DiskIInv
  <2>1. CASE \A t \in DT : dt[t].pc \notin Active
    <3>1. Quiet
      BY <2>0, <2>1, Zenon DEF Protocol
    <3>. QED BY <2>1, <3>1 DEF OneCompletion, InCommand, Active, Quiet, NothingPending
  <2>2. CASE \E t \in DT : dt[t].pc \in Active
    <3>1. PICK t \in DT : dt[t].pc \in Active
      BY <2>2, Zenon
    <3>2. PlaceOK(t) /\ \A u \in DT \ {t} : dt[u].pc \notin Active
      BY <2>0, <3>1, TurnFacts, Zenon DEF Protocol
    <3>3. \A u \in DT : dt[u].pc \in Active => u = t
      BY <3>2, Zenon
    <3>4. NothingPending \/ (OnePending /\ dt[t].pc \in {"down", "busy"})
      BY <3>1, <3>2, Zenon DEF PlaceOK, Quiet, Active
    <3>5. channel.completion + (IF hw.irq THEN 1 ELSE 0) <= 1
      BY <3>4 DEF NothingPending, OnePending
    <3>6. dt[t].pc \in {"select", "issue"} => Quiet
      BY <3>2, Zenon DEF PlaceOK
    <3>7. (\E u \in DT : dt[u].pc \in {"select", "issue"}) => Quiet
      BY <3>3, <3>6, Zenon DEF Active
    <3>8. channel.completion = 1 \/ hw.irq => \E u \in DT : dt[u].pc \in {"down", "busy"}
      BY <3>4 DEF NothingPending
    <3>9. \A u, w \in DT : InCommand(u) /\ InCommand(w) => u = w
      BY <3>3, Zenon DEF InCommand, Active
    <3>. QED BY <3>5, <3>7, <3>8, <3>9, Zenon DEF OneCompletion, Quiet, NothingPending
  <2>. QED BY <2>1, <2>2, Zenon
<1>. QED BY <1>1, DiskInductive, PTL

(* found_partition registers no partition that leaves its disk, though it    *)
(* computes in 32-bit sector numbers and read_partition_table adds offsets   *)
(* of any size.                                                              *)
THEOREM PartitionsOnDisk == DiskSpec => []PartitionsInside
<1>1. DiskIInv => PartitionsInside
  BY Zenon DEF DiskIInv
<1>. QED BY <1>1, DiskInductive, PTL

-----------------------------------------------------------------------------
(* The registers name the sector of the thread whose turn it is, and the    *)
(* data of its write.                                                       *)
SelectedBy(t) ==
  dt[t].pc \in Active \ {"select"} =>
    /\ hw.dev = dt[t].dev /\ hw.sector = dt[t].sector
    /\ dt[t].pc = "down" /\ dt[t].op = "write" => hw.val = dt[t].val
Selected == \A t \in DT : SelectedBy(t)

RequestInv == DiskIInv /\ Selected

LEMMA SelectedOf ==
  ASSUME NEW t \in DT, \A u \in DT \ {t} : dt'[u].pc \notin Active, SelectedBy(t)'
  PROVE  Selected'
  BY Zenon DEF Selected, SelectedBy

LEMMA SelectedKept ==
  ASSUME RequestInv, \A u \in DT : dt'[u] = dt[u] \/ dt'[u].pc \notin Active,
         hw'.dev = hw.dev, hw'.sector = hw.sector, hw'.val = hw.val
  PROVE  Selected'
<1>1. ASSUME NEW u \in DT PROVE SelectedBy(u)'
  <2>1. SelectedBy(u)
    BY Zenon DEF RequestInv, Selected
  <2>2. CASE dt'[u] = dt[u]
    BY <2>1, <2>2, Zenon DEF SelectedBy
  <2>3. CASE dt'[u].pc \notin Active
    BY <2>3, Zenon DEF SelectedBy
  <2>. QED BY <2>2, <2>3, Zenon
<1>. QED BY <1>1, Zenon DEF Selected

(* A thread's step to another place of its request.                         *)
LEMMA SelectedMove ==
  ASSUME RequestInv, NEW t \in DT, dt[t].pc \in Active, NEW p \in Active, DGoto(t, p),
         hw'.dev = dt[t].dev, hw'.sector = dt[t].sector,
         p = "down" /\ dt[t].op = "write" => hw'.val = dt[t].val
  PROVE  Selected'
<1>1. TypeInv /\ Turn /\ dt \in [DT -> Requests] /\ p \in Places
  BY IsPlace, Zenon DEF RequestInv, DiskIInv, TypeInv
<1>2. /\ dt'[t].pc = p /\ dt'[t].op = dt[t].op /\ dt'[t].dev = dt[t].dev
      /\ dt'[t].sector = dt[t].sector /\ dt'[t].val = dt[t].val
      /\ \A u \in DT \ {t} : dt'[u] = dt[u]
  BY <1>1, Move, Zenon
<1>3. \A u \in DT \ {t} : dt[u].pc \notin Active
  BY <1>1, TurnFacts, Zenon
<1>4. SelectedBy(t)'
  BY <1>2, Zenon DEF SelectedBy
<1>. QED BY <1>2, <1>3, <1>4, SelectedOf, Zenon
-----------------------------------------------------------------------------
(* The abstract state: the requests as a caller sees them.                  *)
Req == [t \in DiskThreads |-> Asked(t)]
Refines == [Device!BlockNext]_<<cell, Req>>

Shown(s, p, v) == [st |-> s, place |-> p, val |-> v]

LEMMA Fields ==
  \A s, p, v : Shown(s, p, v).st = s /\ Shown(s, p, v).place = p /\ Shown(s, p, v).val = v
  BY Zenon DEF Shown

LEMMA Restated == \A s, p, v, w : [Shown(s, p, v) EXCEPT !.st = w] = Shown(w, p, v)
<1> TAKE s, p, v, w
<1> DEFINE r == [Shown(s, p, v) EXCEPT !.st = w]
<1>1. DOMAIN r = {"st", "place", "val"} /\ r.st = w /\ r.place = p /\ r.val = v
  BY DEF Shown
<1>. QED BY <1>1 DEF Shown

LEMMA Revalued == \A s, p, v, w : [Shown(s, p, v) EXCEPT !.val = w] = Shown(s, p, w)
<1> TAKE s, p, v, w
<1> DEFINE r == [Shown(s, p, v) EXCEPT !.val = w]
<1>1. DOMAIN r = {"st", "place", "val"} /\ r.st = s /\ r.place = p /\ r.val = w
  BY DEF Shown
<1>. QED BY <1>1 DEF Shown

LEMMA ReqIs == \A t \in DiskThreads : Req[t] = Asked(t)
  BY Zenon DEF Req

(* What a request looks like while it is in progress.                       *)
LEMMA AskedIs ==
  ASSUME NEW t \in DiskThreads, dt[t].pc # "idle"
  PROVE  Asked(t) = [st |-> IF dt[t].pc = "down" /\ dt[t].op = "write" /\ hw.status # "busy"
                            THEN "done" ELSE dt[t].op,
                     place |-> <<dt[t].dev, dt[t].sector>>, val |-> dt[t].val]
  BY DEF Asked

LEMMA AskedKept ==
  ASSUME NEW t \in DiskThreads, dt'[t] = dt[t],
         dt[t].pc = "down" /\ dt[t].op = "write" => hw'.status = hw.status
  PROVE  Asked(t)' = Asked(t)
<1>1. CASE dt[t].pc = "down" /\ dt[t].op = "write"
  BY <1>1, Zenon DEF Asked
<1>2. CASE ~ (dt[t].pc = "down" /\ dt[t].op = "write")
  <2>1. ~ (dt[t].pc = "down" /\ dt[t].op = "write" /\ hw.status # "busy")
    BY <1>2, Zenon
  <2>2. ~ (dt'[t].pc = "down" /\ dt'[t].op = "write" /\ hw'.status # "busy")
    BY <1>2, Zenon
  <2>. QED BY <2>1, <2>2 DEF Asked
<1>. QED BY <1>1, <1>2, Zenon

(* A step that no caller sees.                                              *)
LEMMA Unseen ==
  ASSUME UNCHANGED cell, \A t \in DiskThreads : Asked(t)' = Asked(t)
  PROVE  Refines
<1>1. Req' = Req
  BY Zenon DEF Req
<1>. QED BY <1>1, Zenon DEF Refines

(* A step of one request.                                                   *)
LEMMA OnlyMine ==
  ASSUME RequestInv, NEW t \in DiskThreads, \A u \in DT \ {t} : dt'[u] = dt[u],
         dt[t].pc \in Active \/ hw'.status = hw.status
  PROVE  /\ \A u \in DiskThreads \ {t} : Asked(u)' = Asked(u)
         /\ Req' = [Req EXCEPT ![t] = Asked(t)']
<1>1. ASSUME NEW u \in DiskThreads \ {t} PROVE Asked(u)' = Asked(u)
  <2>1. u \in DT /\ t \in DT /\ dt'[u] = dt[u]
    BY BootIsThread, Zenon
  <2>2. dt[t].pc \in Active => dt[u].pc \notin Active
    BY <2>1, TurnFacts, Zenon DEF RequestInv, DiskIInv
  <2>3. dt[u].pc = "down" => hw'.status = hw.status
    BY <2>2, Zenon DEF Active
  <2>. QED BY <2>1, <2>3, AskedKept, Zenon
<1>2. Req' = [Req EXCEPT ![t] = Asked(t)']
  BY <1>1, Zenon DEF Req
<1>. QED BY <1>1, <1>2, Zenon

(* A thread's step to another place of its request that its caller does not *)
(* see.                                                                     *)
LEMMA UnseenMove ==
  ASSUME RequestInv, NEW t \in DT, dt[t].pc \in Active \cup {"lock"}, NEW p \in Active,
         DGoto(t, p), UNCHANGED cell, dt[t].pc = "lock" => hw'.status = hw.status,
         dt[t].op = "write" => /\ dt[t].pc # "down" \/ hw.status = "busy"
                               /\ p # "down" \/ hw'.status = "busy"
  PROVE  Refines
<1>1. TypeInv /\ Turn /\ dt \in [DT -> Requests] /\ p \in Places
  BY IsPlace, Zenon DEF RequestInv, DiskIInv, TypeInv
<1>2. /\ dt'[t].pc = p /\ dt'[t].op = dt[t].op /\ dt'[t].dev = dt[t].dev
      /\ dt'[t].sector = dt[t].sector /\ dt'[t].val = dt[t].val
      /\ \A u \in DT \ {t} : dt'[u] = dt[u]
  BY <1>1, Move, Zenon
<1>3. CASE t \in DiskThreads
  <2>1. \A u \in DiskThreads \ {t} : Asked(u)' = Asked(u)
    BY <1>2, <1>3, OnlyMine, Zenon
  <2>2. dt[t].pc # "idle" /\ dt'[t].pc # "idle"
    BY <1>2, Zenon DEF Active
  <2>3. Asked(t)' = Asked(t)
    BY <1>2, <2>2, Zenon DEF Asked
  <2>. QED BY <2>1, <2>3, Unseen, Zenon
<1>4. CASE t = Boot
  <2>1. ASSUME NEW u \in DiskThreads PROVE Asked(u)' = Asked(u)
    <3>1. u \in DT /\ u # t /\ dt'[u] = dt[u]
      BY <1>2, <1>4, BootIsThread, Constants, Zenon
    <3>2. dt[t].pc \in Active
      BY <1>1, <1>4, TurnFacts, Zenon
    <3>3. dt[u].pc # "down"
      BY <1>1, <3>1, <3>2, TurnFacts, Zenon DEF Active
    <3>. QED BY <3>1, <3>3, AskedKept, Zenon
  <2>. QED BY <2>1, Unseen, Zenon
<1>. QED BY <1>3, <1>4, Zenon DEF DT
-----------------------------------------------------------------------------
LEMMA LockRefines ==
  ASSUME RequestInv, NEW t \in DT, ide_lock(t)
  PROVE  Refines /\ Selected'
<1>1. /\ dt[t].pc = "lock" /\ DGoto(t, "select") /\ UNCHANGED <<hw, cell>> /\ "select" \in Active
      /\ dt \in [DT -> Requests] /\ "select" \in Places
  BY IsPlace, Zenon DEF ide_lock, DAt, Active, RequestInv, DiskIInv, TypeInv
<1>2. Refines
  BY <1>1, UnseenMove, Zenon
<1>3. dt'[t].pc = "select" /\ \A u \in DT \ {t} : dt'[u] = dt[u]
  BY <1>1, Move, Zenon
<1>4. ASSUME NEW u \in DT PROVE SelectedBy(u)'
  <2>1. CASE u = t
    BY <1>3, <2>1, Zenon DEF SelectedBy
  <2>2. CASE u # t
    BY <1>1, <1>3, <2>2, Zenon DEF SelectedBy, RequestInv, Selected
  <2>. QED BY <2>1, <2>2, Zenon
<1>. QED BY <1>2, <1>4, Zenon DEF Selected

LEMMA SelectRefines ==
  ASSUME RequestInv, NEW t \in DT, select_sector(t)
  PROVE  Refines /\ Selected'
<1>1. /\ dt[t].pc = "select" /\ DGoto(t, "issue") /\ UNCHANGED cell
      /\ "issue" \in Active /\ "select" \in Active
  BY Zenon DEF select_sector, DAt, Active
<1>2. hw'.dev = dt[t].dev /\ hw'.sector = dt[t].sector
  BY Zenon DEF select_sector, RequestInv, DiskIInv, TypeInv
<1>3. Refines
  BY <1>1, UnseenMove, Zenon
<1>4. Selected'
  BY <1>1, <1>2, SelectedMove, Zenon
<1>. QED BY <1>3, <1>4, Zenon

(* The facts that a step after select_sector starts from.                   *)
LEMMA Aimed ==
  ASSUME RequestInv, NEW t \in DT, dt[t].pc \in Active \ {"select"}
  PROVE  hw.dev = dt[t].dev /\ hw.sector = dt[t].sector
  BY Zenon DEF RequestInv, Selected, SelectedBy

LEMMA IssueRefines ==
  ASSUME RequestInv, NEW t \in DT, issue_pio_command(t)
  PROVE  Refines /\ Selected'
<1>1. /\ dt[t].pc = "issue" /\ DGoto(t, AfterIssue(dt[t].op)) /\ UNCHANGED cell
      /\ "issue" \in Active /\ dt[t].pc \in Active \ {"select"}
  BY Zenon DEF issue_pio_command, DAt, Active
<1>2. AfterIssue(dt[t].op) \in Active /\ (dt[t].op = "write" => AfterIssue(dt[t].op) # "down")
  BY Zenon DEF AfterIssue, Active
<1>3. hw'.dev = hw.dev /\ hw'.sector = hw.sector
  BY Zenon DEF issue_pio_command, RequestInv, DiskIInv, TypeInv
<1>4. hw.dev = dt[t].dev /\ hw.sector = dt[t].sector
  BY <1>1, Aimed, Zenon
<1>5. Refines
  BY <1>1, <1>2, UnseenMove, Zenon
<1>6. Selected'
  BY <1>1, <1>2, <1>3, <1>4, SelectedMove, Zenon
<1>. QED BY <1>5, <1>6, Zenon

LEMMA OutputRefines ==
  ASSUME RequestInv, NEW t \in DT, output_sector(t)
  PROVE  Refines /\ Selected'
<1>1. /\ dt[t].pc = "output" /\ DGoto(t, "down") /\ UNCHANGED cell
      /\ "output" \in Active /\ dt[t].pc \in Active \ {"select"} /\ "down" \in Active
  BY Zenon DEF output_sector, DAt, Active
<1>2. hw'.dev = hw.dev /\ hw'.sector = hw.sector /\ hw'.val = dt[t].val /\ hw'.status = "busy"
  BY Zenon DEF output_sector, RequestInv, DiskIInv, TypeInv
<1>3. hw.dev = dt[t].dev /\ hw.sector = dt[t].sector
  BY <1>1, Aimed, Zenon
<1>4. Refines
  BY <1>1, <1>2, UnseenMove, Zenon
<1>5. Selected'
  BY <1>1, <1>2, <1>3, SelectedMove, Zenon
<1>. QED BY <1>4, <1>5, Zenon

(* The boot thread, while it looks for disks, is alone.                     *)
LEMMA BootAlone ==
  ASSUME RequestInv, dt[Boot].pc # "done", \A u \in DT \ {Boot} : dt'[u] = dt[u], UNCHANGED cell,
         dt'[Boot].pc \notin Active \ {"select"}
  PROVE  Refines /\ Selected'
<1>1. \A u \in DiskThreads : dt[u].pc = "idle" /\ dt'[u] = dt[u]
  BY BootIsThread, Constants, Zenon DEF RequestInv, DiskIInv, Turn
<1>2. \A u \in DiskThreads : Asked(u)' = Asked(u)
  BY <1>1, AskedKept, Zenon
<1>3. Refines
  BY <1>2, Unseen, Zenon
<1>4. ASSUME NEW u \in DT PROVE SelectedBy(u)'
  <2>1. dt'[u].pc \notin Active \ {"select"}
    BY <1>1, Zenon DEF DT, Active
  <2>. QED BY <2>1, Zenon DEF SelectedBy
<1>. QED BY <1>3, <1>4, Zenon DEF Selected

LEMMA BusyRefines ==
  ASSUME RequestInv, NEW t \in DT, wait_while_busy(t)
  PROVE  Refines /\ Selected'
<1>1. /\ dt[t].pc = "busy" /\ UNCHANGED <<hw, cell>> /\ dt[t].pc \in Active \ {"select"}
      /\ dt \in [DT -> Requests] /\ TypeInv /\ Turn
  BY Zenon DEF wait_while_busy, DAt, Active, RequestInv, DiskIInv, TypeInv
<1>2. CASE hw.status = "drq"
  <2> DEFINE p == IF dt[t].op = "write" THEN "output" ELSE "input"
  <2>1. DGoto(t, p) /\ p \in Active /\ p # "down"
    BY <1>2, Zenon DEF wait_while_busy, Active
  <2> HIDE DEF p
  <2>2. hw.dev = dt[t].dev /\ hw.sector = dt[t].sector
    BY <1>1, Aimed, Zenon
  <2>3. Refines
    BY <1>1, <2>1, UnseenMove, Zenon
  <2>4. Selected'
    BY <1>1, <2>1, <2>2, SelectedMove, Zenon
  <2>. QED BY <2>3, <2>4, Zenon
<1>3. CASE hw.status # "drq" /\ dt[t].op = "identify"
  <2>1. DGoto(t, "identified") /\ t = Boot /\ dt[Boot].pc # "done" /\ "identified" \in Places
    BY <1>1, <1>3, TurnFacts, IsPlace, Zenon DEF wait_while_busy, Active
  <2>2. dt'[Boot].pc = "identified" /\ \A u \in DT \ {Boot} : dt'[u] = dt[u]
    BY <1>1, <2>1, Move, Zenon
  <2>. QED BY <1>1, <2>1, <2>2, BootAlone, Zenon DEF Active
<1>4. CASE hw.status # "drq" /\ dt[t].op # "identify"
  <2>1. UNCHANGED dt
    BY <1>4, Zenon DEF wait_while_busy
  <2>2. \A u \in DiskThreads : Asked(u)' = Asked(u)
    BY <1>1, <2>1, AskedKept, Zenon
  <2>3. Selected'
    BY <1>1, <2>1, SelectedKept, Zenon
  <2>. QED BY <1>1, <2>2, <2>3, Unseen, Zenon
<1>. QED BY <1>2, <1>3, <1>4, Zenon

(* ide_read returns what the sector that was asked for contains.            *)
LEMMA InputRefines ==
  ASSUME RequestInv, NEW t \in DT, input_sector(t)
  PROVE  Refines /\ Selected'
<1>1. /\ dt[t].pc = "input" /\ UNCHANGED cell /\ dt[t].pc \in Active \ {"select"}
      /\ dt \in [DT -> Requests] /\ TypeInv /\ Turn /\ dt[t] \in Requests
  BY Zenon DEF input_sector, DAt, Active, RequestInv, DiskIInv, TypeInv
<1>2. hw'.dev = hw.dev /\ hw'.sector = hw.sector /\ hw'.val = hw.val
  BY <1>1, Zenon DEF input_sector, TypeInv
<1>3. CASE dt[t].op = "identify"
  <2>1. t = Boot /\ dt[Boot].pc # "done"
    BY <1>1, <1>3, TurnFacts, Zenon DEF Active
  <2>2. DGoto(t, "identified") /\ "identified" \in Places
    BY <1>1, <1>3, IsPlace, Zenon DEF input_sector, DGoto
  <2>3. dt'[Boot].pc = "identified" /\ \A u \in DT \ {Boot} : dt'[u] = dt[u]
    BY <1>1, <2>1, <2>2, Move, Zenon
  <2>. QED BY <1>1, <2>1, <2>3, BootAlone, Zenon DEF Active
<1>4. CASE dt[t].op # "identify"
  <2> DEFINE r == [dt[t] EXCEPT !.pc = "idle", !.val = cell[<<hw.dev, hw.sector>>]]
  <2>1. t \in DiskThreads /\ dt[t].op \in {"read", "write"}
    BY <1>1, <1>4, TurnFacts, Zenon
  <2>2. dt[t].op = "read"
    BY <1>1, <2>1, Zenon DEF Turn
  <2>3. dt' = [dt EXCEPT ![t] = r]
    BY <1>1, <1>4, Zenon DEF input_sector
  <2>4. dt'[t] = r /\ \A u \in DT \ {t} : dt'[u] = dt[u]
    BY <1>1, <2>3, Zenon
  <2>5. /\ dt'[t].pc = "idle" /\ dt'[t].op = "read" /\ dt'[t].dev = dt[t].dev
        /\ dt'[t].sector = dt[t].sector /\ dt'[t].val = cell[<<hw.dev, hw.sector>>]
    BY <1>1, <2>2, <2>4, Zenon DEF Requests
  <2>6. hw.dev = dt[t].dev /\ hw.sector = dt[t].sector
    BY <1>1, Aimed, Zenon
  <2>7. Asked(t) = Shown("read", <<dt[t].dev, dt[t].sector>>, dt[t].val)
    BY <1>1, <2>1, <2>2 DEF Asked, Shown
  <2>8. Asked(t)' = Shown("got", <<dt[t].dev, dt[t].sector>>, cell[<<dt[t].dev, dt[t].sector>>])
    BY <2>5, <2>6 DEF Asked, Shown
  <2>9. Asked(t)' = [Asked(t) EXCEPT !.st = "got", !.val = cell[Asked(t).place]]
    <3> DEFINE P == <<dt[t].dev, dt[t].sector>>
    <3> HIDE DEF P
    <3>1. /\ Asked(t) = Shown("read", P, dt[t].val) /\ Asked(t)' = Shown("got", P, cell[P])
          /\ Shown("read", P, dt[t].val).place = P
      BY <2>7, <2>8, Fields DEF P
    <3>2. [Shown("read", P, dt[t].val) EXCEPT !.st = "got"] = Shown("got", P, dt[t].val)
      BY Restated
    <3>3. [Shown("got", P, dt[t].val) EXCEPT !.val = cell[P]] = Shown("got", P, cell[P])
      BY Revalued
    <3>4. Asked(t).place = P /\ [Asked(t) EXCEPT !.st = "got"] = Shown("got", P, dt[t].val)
      BY <3>1, <3>2, Zenon
    <3>. QED BY <3>1, <3>3, <3>4, Zenon
  <2>10. Req' = [Req EXCEPT ![t] = Asked(t)']
    BY <1>1, <2>1, <2>4, OnlyMine, Zenon
  <2>11. Req[t] = Asked(t) /\ Req[t].st = "read"
    <3>1. Req[t] = Asked(t)
      BY <2>1, ReqIs, Zenon
    <3>2. Shown("read", <<dt[t].dev, dt[t].sector>>, dt[t].val).st = "read"
      BY Fields
    <3>. QED BY <2>7, <3>1, <3>2, Zenon
  <2>12. Req' = [Req EXCEPT ![t] = [Req[t] EXCEPT !.st = "got", !.val = cell[Req[t].place]]]
    BY <2>9, <2>10, <2>11, Zenon
  <2>13. Device!Read(t)
    BY <1>1, <2>11, <2>12, Zenon DEF Device!Read, Req
  <2>14. Selected'
    BY <1>2, <2>4, <2>5, SelectedKept, Zenon DEF Active
  <2>. QED BY <2>1, <2>13, <2>14, Zenon DEF Refines, Device!BlockNext
<1>. QED BY <1>3, <1>4, Zenon

LEMMA AwaitRefines ==
  ASSUME RequestInv, NEW t \in DT, await_completion(t)
  PROVE  Refines /\ Selected'
<1>1. /\ dt[t].pc = "down" /\ UNCHANGED <<hw, cell>> /\ dt[t].pc \in Active \ {"select"}
      /\ dt \in [DT -> Requests] /\ TypeInv /\ Turn /\ PlaceOK(t) /\ channel.completion > 0
  BY Zenon DEF await_completion, Completed, DAt, Active, RequestInv, DiskIInv, TypeInv, Protocol
<1>2. CASE dt[t].op # "write"
  <2>1. DGoto(t, "busy") /\ "busy" \in Active
    BY <1>2, Zenon DEF await_completion, DGoto, Active
  <2>2. hw.dev = dt[t].dev /\ hw.sector = dt[t].sector
    BY <1>1, Aimed, Zenon
  <2>3. Refines
    BY <1>1, <1>2, <2>1, UnseenMove, Zenon
  <2>4. Selected'
    BY <1>1, <1>2, <2>1, <2>2, SelectedMove, Zenon
  <2>. QED BY <2>3, <2>4, Zenon
<1>3. CASE dt[t].op = "write"
  <2>1. t \in DiskThreads
    BY <1>1, <1>3, TurnFacts, Zenon
  <2>2. dt'[t] = Idle /\ \A u \in DT \ {t} : dt'[u] = dt[u]
    BY <1>1, <1>3, Zenon DEF await_completion
  <2>3. hw.status # "busy"
    BY <1>1 DEF PlaceOK, NothingPending
  <2>4. Asked(t) = Shown("done", <<dt[t].dev, dt[t].sector>>, dt[t].val)
    <3>1. dt[t].pc # "idle" /\ dt[t].pc = "down" /\ dt[t].op = "write" /\ hw.status # "busy"
      BY <1>1, <1>3, <2>3, Zenon
    <3>2. (IF dt[t].pc = "down" /\ dt[t].op = "write" /\ hw.status # "busy"
           THEN "done" ELSE dt[t].op) = "done"
      BY <3>1, Zenon
    <3>. QED BY <2>1, <3>1, <3>2, AskedIs, Zenon DEF Shown
  <2>5. Asked(t)' = [st |-> "none", place |-> <<>>, val |-> 0]
    <3>1. dt'[t].pc = "idle" /\ dt'[t].op = "none"
      BY <2>2 DEF Idle
    <3>. QED BY <3>1, Zenon DEF Asked
  <2>6. Req' = [Req EXCEPT ![t] = Device!NoRequest]
    BY <1>1, <2>1, <2>2, <2>5, OnlyMine, Zenon DEF Device!NoRequest
  <2>7. Req[t].st = "done"
    <3>1. Req[t] = Asked(t)
      BY <2>1, ReqIs, Zenon
    <3>2. Shown("done", <<dt[t].dev, dt[t].sector>>, dt[t].val).st = "done"
      BY Fields
    <3>. QED BY <2>4, <3>1, <3>2, Zenon
  <2>8. Device!Acknowledge(t)
    BY <1>1, <2>6, <2>7, Zenon DEF Device!Acknowledge, Req
  <2>9. dt'[t].pc = "idle"
    BY <2>2 DEF Idle
  <2>10. Selected'
    BY <1>1, <2>2, <2>9, SelectedKept, Zenon DEF Active
  <2>. QED BY <2>1, <2>8, <2>10, Zenon DEF Refines, Device!BlockNext
<1>. QED BY <1>2, <1>3, Zenon

(* The controller stores a sector, or loses it: the data and the place are  *)
(* those of the one request that writes.                                    *)
LEMMA DeviceRefines ==
  ASSUME RequestInv, DeviceStep \/ interrupt_handler
  PROVE  Refines /\ Selected'
<1>1. /\ UNCHANGED dt /\ TypeInv /\ Turn /\ Protocol /\ dt \in [DT -> Requests]
      /\ hw'.dev = hw.dev /\ hw'.sector = hw.sector /\ hw'.val = hw.val
  BY Zenon DEF DeviceStep, DeviceAnswers, interrupt_handler, RequestInv, DiskIInv, TypeInv
<1>2. Selected'
  BY <1>1, SelectedKept, Zenon
<1>3. ASSUME UNCHANGED cell,
             \A u \in DiskThreads : dt[u].pc = "down" /\ dt[u].op = "write" => hw'.status = hw.status
      PROVE  Refines
  <2>1. \A u \in DiskThreads : Asked(u)' = Asked(u)
    BY <1>1, <1>3, AskedKept, Zenon
  <2>. QED BY <1>3, <2>1, Unseen, Zenon
<1>4. CASE interrupt_handler
  <2>1. UNCHANGED cell /\ hw'.status = hw.status
    BY <1>1, <1>4, Zenon DEF interrupt_handler, TypeInv
  <2>. QED BY <1>2, <1>3, <2>1, Zenon
<1>5. CASE DeviceStep /\ \A u \in DiskThreads : ~ (dt[u].pc = "down" /\ dt[u].op = "write")
  <2>1. hw.status = "busy"
    BY <1>5, Zenon DEF DeviceStep
  <2>2. PICK t \in DT : dt[t].pc \in Active
    BY <1>1, <2>1, Zenon DEF Protocol, Quiet
  <2>3. PlaceOK(t) /\ dt[t] \in Requests
    BY <1>1, Zenon DEF Protocol
  <2>4. t = Boot => dt[t].op = "identify"
    BY <1>1, <2>2, TurnFacts, Constants, Zenon
  <2>5. ~ (dt[t].pc = "down" /\ dt[t].op = "write")
    BY <1>5, <2>4, Zenon DEF DT
  <2>6. hw.cmd # "store"
    <3>1. \/ dt[t].pc = "down" /\ hw.cmd = CommandOf(dt[t].op)
          \/ dt[t].pc = "busy" /\ hw.cmd = "write"
      BY <2>1, <2>2, <2>3, Zenon DEF PlaceOK, Active, Quiet
    <3>. QED BY <2>3, <2>5, <3>1, Zenon DEF CommandOf, Requests, Ops
  <2>7. UNCHANGED cell
    BY <1>5, <2>6, Zenon DEF DeviceStep
  <2>. QED BY <1>2, <1>3, <1>5, <2>7, Zenon
<1>6. CASE DeviceStep /\ \E u \in DiskThreads : dt[u].pc = "down" /\ dt[u].op = "write"
  <2>1. PICK t \in DiskThreads : dt[t].pc = "down" /\ dt[t].op = "write"
    BY <1>6, Zenon
  <2>2. t \in DT /\ dt[t].pc \in Active \ {"select"} /\ PlaceOK(t) /\ dt[t].pc \in Active
    BY <1>1, <2>1, BootIsThread, Zenon DEF Active, Protocol
  <2>3. hw.status = "busy" /\ hw.cmd = "store"
    BY <1>6, <2>1, <2>2, Zenon DEF DeviceStep, PlaceOK, CommandOf
  <2>4. hw.dev = dt[t].dev /\ hw.sector = dt[t].sector /\ hw.val = dt[t].val
    BY <2>1, <2>2, Zenon DEF RequestInv, Selected, SelectedBy
  <2>5. /\ hw'.status = "idle"
        /\ cell' \in {cell, [cell EXCEPT ![<<dt[t].dev, dt[t].sector>>] = dt[t].val]}
    BY <1>1, <1>6, <2>3, <2>4, Zenon DEF DeviceStep, DeviceAnswers, TypeInv
  <2>6. Asked(t) = Shown("write", <<dt[t].dev, dt[t].sector>>, dt[t].val)
    BY <2>1, <2>3 DEF Asked, Shown
  <2>7. Asked(t)' = Shown("done", <<dt[t].dev, dt[t].sector>>, dt[t].val)
    BY <1>1, <2>1, <2>5 DEF Asked, Shown
  <2>8. Asked(t)' = [Asked(t) EXCEPT !.st = "done"]
    <3> DEFINE P == <<dt[t].dev, dt[t].sector>>
    <3>1. [Shown("write", P, dt[t].val) EXCEPT !.st = "done"] = Shown("done", P, dt[t].val)
      BY Restated
    <3>. QED BY <2>6, <2>7, <3>1, Zenon
  <2>9. Req' = [Req EXCEPT ![t] = Asked(t)']
    BY <1>1, <2>1, <2>2, OnlyMine, Zenon
  <2>10. /\ Req[t] = Asked(t) /\ Req[t].st = "write" /\ Req[t].val = dt[t].val
         /\ Req[t].place = <<dt[t].dev, dt[t].sector>>
    <3> DEFINE P == <<dt[t].dev, dt[t].sector>>
    <3>1. Req[t] = Asked(t)
      BY <2>1, ReqIs, Zenon
    <3>2. /\ Shown("write", P, dt[t].val).st = "write" /\ Shown("write", P, dt[t].val).place = P
          /\ Shown("write", P, dt[t].val).val = dt[t].val
      BY Fields
    <3>. QED BY <2>6, <3>1, <3>2, Zenon
  <2>11. Req' = [Req EXCEPT ![t].st = "done"]
    BY <2>8, <2>9, <2>10, Zenon
  <2>12. cell' \in {cell, [cell EXCEPT ![Req[t].place] = Req[t].val]}
    BY <2>5, <2>10, Zenon
  <2>13. Device!Store(t)
    BY <2>10, <2>11, <2>12, Zenon DEF Device!Store, Req
  <2>. QED BY <1>2, <2>1, <2>13, Zenon DEF Refines, Device!BlockNext
<1>. QED BY <1>4, <1>5, <1>6, Zenon

LEMMA BootRefines ==
  ASSUME RequestInv, BootStep
  PROVE  Refines /\ Selected'
<1>1. TypeInv /\ dt \in [DT -> Requests] /\ Boot \in DT /\ dt[Boot] \in Requests
  BY BootIsThread, Zenon DEF RequestInv, DiskIInv, TypeInv
<1>2. UNCHANGED cell
  BY Zenon DEF BootStep, reset_channel, identify_ata_device, disk_found, read_partition_table,
         table_unreadable, scan_done, locate_block_devices
<1>3. dt[Boot].pc \in {"reset", "next", "identified", "scan"}
  BY Zenon DEF BootStep, reset_channel, identify_ata_device, disk_found, read_partition_table,
         table_unreadable, scan_done, locate_block_devices, DAt
<1>4. ASSUME \A u \in DT \ {Boot} : dt'[u] = dt[u],
             dt'[Boot].pc \in {"reset", "next", "identified", "scan", "select", "done"}
      PROVE  Refines /\ Selected'
  BY <1>2, <1>3, <1>4, BootAlone, Zenon DEF Active
<1>5. CASE UNCHANGED dt
  BY <1>3, <1>4, <1>5, Zenon
<1>6. CASE reset_channel \/ scan_done
  <2>1. PICK r : dt' = [dt EXCEPT ![Boot] = r] /\ r.pc = "next"
    <3>1. [Idle EXCEPT !.pc = "next"].pc = "next"
      BY Zenon DEF Idle
    <3>2. [Idle EXCEPT !.pc = "next", !.dev = dt[Boot].dev + 1].pc = "next"
      BY Zenon DEF Idle
    <3>. QED BY <1>6, <3>1, <3>2, Zenon DEF reset_channel, scan_done
  <2>. QED BY <1>1, <1>4, <2>1, Zenon
<1>7. CASE identify_ata_device
  <2>1. PICK r : dt' = [dt EXCEPT ![Boot] = r] /\ r.pc \in {"next", "select"}
    <3>1. dt[Boot].pc = "next"
      BY <1>7, Zenon DEF identify_ata_device, DAt
    <3>2. [dt[Boot] EXCEPT !.dev = dt[Boot].dev + 1].pc = "next"
      BY <1>1, <3>1, Zenon DEF Requests
    <3>3. [dt[Boot] EXCEPT !.pc = "select", !.op = "identify"].pc = "select"
      BY <1>1, Zenon DEF Requests
    <3>. QED BY <1>7, <3>2, <3>3, Zenon DEF identify_ata_device
  <2>. QED BY <1>1, <1>4, <2>1, Zenon
<1>8. CASE disk_found
  <2>1. CASE DGoto(Boot, "scan")
    <3>1. dt'[Boot].pc = "scan" /\ \A u \in DT \ {Boot} : dt'[u] = dt[u]
      BY <1>1, <2>1, Move, IsPlace, Zenon
    <3>. QED BY <1>4, <3>1, Zenon
  <2>2. CASE dt' = [dt EXCEPT ![Boot] = [Idle EXCEPT !.pc = "next", !.dev = dt[Boot].dev + 1]]
    <3>1. [Idle EXCEPT !.pc = "next", !.dev = dt[Boot].dev + 1].pc = "next"
      BY Zenon DEF Idle
    <3>. QED BY <1>1, <1>4, <2>2, <3>1, Zenon
  <2>. QED BY <1>8, <2>1, <2>2, Zenon DEF disk_found
<1>9. CASE locate_block_devices
  <2>1. dt'[Boot].pc = "done" /\ \A u \in DT \ {Boot} : dt'[u] = dt[u]
    BY <1>1, <1>9, Move, IsPlace, Zenon DEF locate_block_devices
  <2>. QED BY <1>4, <2>1, Zenon
<1>10. CASE read_partition_table \/ table_unreadable
  BY <1>5, <1>10, Zenon DEF read_partition_table, table_unreadable
<1>. QED BY <1>6, <1>7, <1>8, <1>9, <1>10, Zenon DEF BootStep

(* block_read and block_write hand on a sector of the disk.                 *)
LEMMA RequestRefines ==
  ASSUME RequestInv, RequestInv', NewRequest
  PROVE  Refines
<1>1. PICK t \in DiskThreads, s \in Sectors, op \in {"read", "write"}, v \in DiskValues :
        block_request(t, op, s, v)
  BY Constants, Zenon DEF NewRequest
<1>2. /\ dt[t].pc = "idle" /\ UNCHANGED <<hw, cell>> /\ t \in DT
      /\ dt \in [DT -> Requests] /\ TypeInv /\ TypeInv'
  BY <1>1, BootIsThread, Zenon DEF block_request, DAt, RequestInv, DiskIInv, TypeInv
<1>3. CASE UNCHANGED dt
  <2>1. \A u \in DiskThreads : Asked(u)' = Asked(u)
    BY <1>2, <1>3, AskedKept, Zenon
  <2>. QED BY <1>2, <2>1, Unseen, Zenon
<1>4. CASE ~ UNCHANGED dt
  <2> DEFINE r == [pc |-> "lock", op |-> op, dev |-> all_blocks[role].dev,
                   sector |-> Translate(all_blocks[role], s), val |-> v]
  <2>1. dt' = [dt EXCEPT ![t] = r]
    BY <1>1, <1>4, Zenon DEF block_request
  <2>2. /\ dt'[t].pc = "lock" /\ dt'[t].op = op /\ dt'[t].val = v
        /\ \A u \in DT \ {t} : dt'[u] = dt[u]
    BY <1>2, <2>1, Zenon
  <2>3. dt'[t].dev \in Devs /\ dt'[t].sector \in Sectors
    BY <1>2, <2>2, Zenon DEF TypeInv, Requests
  <2>4. Asked(t)' = Shown(op, <<dt'[t].dev, dt'[t].sector>>, v)
    BY <2>2 DEF Asked, Shown
  <2>5. Asked(t)' \in Device!Request /\ Asked(t)'.st # "done"
    BY <2>3, <2>4 DEF Device!Request, Shown
  <2>6. Asked(t).st \in {"none", "got"}
    BY <1>2 DEF Asked
  <2>7. Req' = [Req EXCEPT ![t] = Asked(t)']
    BY <1>2, <2>2, OnlyMine, Zenon
  <2>8. Req[t] = Asked(t) /\ Req'[t] = Asked(t)'
    BY ReqIs, Zenon DEF Req
  <2>9. Device!Ask(t)
    BY <1>2, <2>5, <2>6, <2>7, <2>8, Zenon DEF Device!Ask, Req
  <2>. QED BY <2>9, Zenon DEF Refines, Device!BlockNext
<1>. QED BY <1>3, <1>4, Zenon

LEMMA RequestSelected ==
  ASSUME RequestInv, NewRequest
  PROVE  Selected'
<1>1. PICK t \in DiskThreads, s \in Sectors, op \in {"read", "write"}, v \in DiskValues :
        block_request(t, op, s, v)
  BY Constants, Zenon DEF NewRequest
<1>2. UNCHANGED hw /\ t \in DT /\ dt \in [DT -> Requests]
  BY <1>1, BootIsThread, Zenon DEF block_request, RequestInv, DiskIInv, TypeInv
<1>3. \A u \in DT : dt'[u] = dt[u] \/ dt'[u].pc = "lock"
  <2> DEFINE r == [pc |-> "lock", op |-> op, dev |-> all_blocks[role].dev,
                   sector |-> Translate(all_blocks[role], s), val |-> v]
  <2>1. UNCHANGED dt \/ dt' = [dt EXCEPT ![t] = r]
    BY <1>1, Zenon DEF block_request
  <2>2. CASE dt' = [dt EXCEPT ![t] = r]
    BY <1>2, <2>2, Zenon
  <2>. QED BY <2>1, <2>2, Zenon
<1>. QED BY <1>2, <1>3, SelectedKept, Zenon DEF Active

LEMMA RefinesInductive == RequestInv /\ [DiskNext]_diskVars => RequestInv' /\ Refines
<1> SUFFICES ASSUME RequestInv, [DiskNext]_diskVars PROVE RequestInv' /\ Refines
  BY Zenon
<1>1. DiskIInv'
  BY DiskStep, Zenon DEF RequestInv
<1>2. ASSUME NEW t \in DT, IdeStep(t) PROVE Refines /\ Selected'
  BY <1>2, LockRefines, SelectRefines, IssueRefines, BusyRefines, InputRefines, OutputRefines,
     AwaitRefines, Zenon DEF IdeStep
<1>3. ASSUME NewRequest PROVE Refines /\ Selected'
  <2>1. Selected'
    BY <1>3, RequestSelected, Zenon
  <2>2. RequestInv'
    BY <1>1, <2>1, Zenon DEF RequestInv
  <2>. QED BY <1>3, <2>1, <2>2, RequestRefines, Zenon
<1>4. ASSUME UNCHANGED diskVars PROVE Refines /\ Selected'
  <2>1. UNCHANGED <<dt, hw, cell>>
    BY <1>4, Zenon DEF diskVars
  <2>2. \A u \in DiskThreads : Asked(u)' = Asked(u)
    BY <2>1, AskedKept, Zenon
  <2>3. Selected'
    BY <2>1, SelectedKept, Zenon
  <2>. QED BY <2>1, <2>2, <2>3, Unseen, Zenon
<1>5. Refines /\ Selected'
  BY <1>2, <1>3, <1>4, DeviceRefines, BootRefines, Zenon DEF DiskNext
<1>. QED BY <1>1, <1>5, Zenon DEF RequestInv

(* Requests of several threads through one controller are single reads and  *)
(* writes of the sectors that were asked for: no thread gets another one's  *)
(* data, and a write changes its own sector, once.  The refinement mapping  *)
(* reads a request's state off dt and the status register.                  *)
THEOREM DiskImplementsBlockDevice == DiskSpec => ImplementsBlockDevice
<1>1. DiskInit => RequestInv /\ Device!BlockInit
  <2> SUFFICES ASSUME DiskInit PROVE RequestInv /\ Device!BlockInit
    BY Zenon
  <2>1. DiskIInv /\ cell \in [Devs \X Sectors -> DiskValues]
    BY DiskInitially, Zenon DEF DiskIInv, TypeInv
  <2>2. \A t \in DiskThreads : dt[t] = Idle
    BY Constants, Zenon DEF DiskInit, DT
  <2>3. \A t \in DT : dt[t].pc \notin Active
    BY Constants, Zenon DEF DiskInit, DT, Idle, Active
  <2>4. ASSUME NEW t \in DiskThreads PROVE Asked(t) = Device!NoRequest
    <3>1. dt[t].pc = "idle" /\ dt[t].op = "none"
      BY <2>2, <2>4 DEF Idle
    <3>. QED BY <3>1, Zenon DEF Asked, Device!NoRequest
  <2>5. Req = [t \in DiskThreads |-> Device!NoRequest]
    BY <2>4, Zenon DEF Req
  <2>. QED BY <2>1, <2>3, <2>5, Zenon
       DEF RequestInv, Selected, SelectedBy, Device!BlockInit, Req
<1>2. RequestInv /\ [DiskNext]_diskVars => RequestInv' /\ Refines
  BY RefinesInductive, Zenon
<1>. QED BY <1>1, <1>2, PTL DEF DiskSpec, ImplementsBlockDevice, Device!BlockSpec, Refines, Req
=============================================================================
