------------------------------- MODULE InodeIO -------------------------------
(***************************************************************************)
(* inode_read_at and inode_write_at of filesys/inode.c, a sector at a time: *)
(* the sectors of one file on the device, with a sector of other data on    *)
(* each side.  Filesys takes these calls as whole steps; the device's calls *)
(* block_read and block_write are those of Disk.                            *)
(***************************************************************************)
EXTENDS Integers, Sequences, SequencesExt, FiniteSetsExt

CONSTANTS BLOCK_SECTOR_SIZE, Lengths, MaxOffset, MaxSize

VARIABLES flen, device, io, deny_write_cnt, before
ioVars == <<flen, device, io, deny_write_cnt, before>>

bytes_to_sectors(n) == (n + BLOCK_SECTOR_SIZE - 1) \div BLOCK_SECTOR_SIZE
\* The file starts at sector 1; bytes of a sector are numbered from 0.
start == 1
InSector == 0 .. BLOCK_SECTOR_SIZE - 1
byte_to_sector(pos) == IF pos < flen THEN start + pos \div BLOCK_SECTOR_SIZE ELSE -1
OldByte(s, b) == 1 + s * BLOCK_SECTOR_SIZE + b          \* what the device holds at first
New(i) == 1000 + i                                  \* byte i of the caller's buffer
zeros == [b \in InSector |-> 0]

NoIo == [op |-> "none", size |-> 0, offset |-> 0, done |-> 0, buffer |-> <<>>, bounce |-> FALSE,
         wanted |-> 0, from |-> 0]
IoInit ==
  /\ flen \in Lengths
  /\ device = [s \in 0 .. start + bytes_to_sectors(flen) |-> [b \in InSector |-> OldByte(s, b)]]
  /\ before = device
  /\ deny_write_cnt \in 0 .. 1
  /\ io = NoIo
\* Block 0 .. sectors - 1 of the new file are zeroed; the inode's own sector is elsewhere.
Zeroed(n) == bytes_to_sectors(n)
inode_create ==
  /\ io.op = "none"
  /\ device' = [s \in DOMAIN device |-> IF s \in start .. start + Zeroed(flen) - 1 THEN zeros
                                        ELSE device[s]]
  /\ io' = [NoIo EXCEPT !.op = "created"]
  /\ UNCHANGED <<flen, deny_write_cnt, before>>
StartIo == \E op \in {"read", "write"}, n \in 0 .. MaxSize, ofs \in 0 .. MaxOffset :
  /\ io.op = "none"
  /\ io' = [op |-> IF op = "write" /\ deny_write_cnt # 0 THEN "denied" ELSE op,
            size |-> n, offset |-> ofs, done |-> 0, buffer |-> <<>>, bounce |-> FALSE,
            wanted |-> n, from |-> ofs]
  /\ UNCHANGED <<flen, device, deny_write_cnt, before>>

sector_ofs == io.offset % BLOCK_SECTOR_SIZE
inode_left == flen - io.offset
sector_left == BLOCK_SECTOR_SIZE - sector_ofs
min_left == IF inode_left < sector_left THEN inode_left ELSE sector_left
chunk_size == Min({io.size, min_left})
Whole == sector_ofs = 0 /\ chunk_size = BLOCK_SECTOR_SIZE
\* Fault: the sector is read first only when there is data before the chunk.
ReadFirst_before == sector_ofs > 0
ReadFirst == sector_ofs > 0 \/ chunk_size < sector_left
sector_idx == byte_to_sector(io.offset)

Ended == io.size = 0 \/ chunk_size <= 0
AdvanceIo(op) == io' = [io EXCEPT !.size = @ - chunk_size, !.offset = @ + chunk_size,
                                  !.done = @ + chunk_size, !.buffer = op,
                                  !.bounce = @ \/ ~ Whole]
\* The bounce buffer, allocated at most once in a call, may not be had.
BounceFails == ~ Whole /\ ~ io.bounce
GiveUp == /\ Ended \/ BounceFails
          /\ io' = [io EXCEPT !.op = IF @ = "read" THEN "was_read" ELSE "written"]
          /\ UNCHANGED device
Chunk == [i \in 1 .. chunk_size |-> device[sector_idx][sector_ofs + i - 1]]
inode_read_at ==
  /\ io.op = "read"
  /\ GiveUp \/ (/\ ~ Ended
                /\ AdvanceIo(io.buffer \o Chunk)
                /\ UNCHANGED device)
  /\ UNCHANGED <<flen, deny_write_cnt, before>>
inode_write_at ==
  /\ io.op = "write"
  /\ GiveUp \/ (/\ ~ Ended
                /\ LET base == IF Whole \/ ReadFirst THEN device[sector_idx] ELSE zeros
                   IN device' = [device EXCEPT ![sector_idx] =
                        [b \in InSector |-> IF b \in sector_ofs .. sector_ofs + chunk_size - 1
                                            THEN New(io.done + b - sector_ofs) ELSE base[b]]]
                /\ AdvanceIo(io.buffer))
  /\ UNCHANGED <<flen, deny_write_cnt, before>>
IoNext == inode_create \/ StartIo \/ inode_read_at \/ inode_write_at
IoSpec == IoInit /\ [][IoNext]_ioVars
---------------------------------------------------------------------------
ByteOf(dev, pos) == dev[start + pos \div BLOCK_SECTOR_SIZE][pos % BLOCK_SECTOR_SIZE]
Reachable == Max({0, Min({io.wanted, flen - io.from})})
\* inode_read_at "Returns the number of bytes actually read, which may be less than SIZE if an
\* error occurs or end of file is reached": the bytes are those of the file from OFFSET on, in
\* order, and all of them unless the bounce buffer could not be had.
BytesRead ==
  io.op \in {"read", "was_read"} =>
    /\ io.buffer = [i \in 1 .. io.done |-> ByteOf(before, io.from + i - 1)]
    /\ io.done <= Reachable
    /\ io.op = "was_read" /\ io.done < Reachable =>
         (io.offset % BLOCK_SECTOR_SIZE # 0 \/ io.size < BLOCK_SECTOR_SIZE
            \/ flen - io.offset < BLOCK_SECTOR_SIZE)
\* inode_write_at changes the bytes it counts and no other byte of the device, inside of a
\* sector or outside of the file, and nothing at all while writing is denied.
BytesWritten ==
  io.op \in {"write", "written", "denied"} =>
    /\ io.done <= Reachable
    /\ deny_write_cnt # 0 => device = before
    /\ \A s \in DOMAIN device, b \in InSector :
         LET pos == (s - start) * BLOCK_SECTOR_SIZE + b
         IN device[s][b] = IF pos \in io.from .. io.from + io.done - 1 THEN New(pos - io.from)
                           ELSE before[s][b]
\* A new file reads as zeros over its whole length, and its neighbours on the device keep
\* their data.
CreatedZero ==
  io.op = "created" =>
    /\ \A pos \in 0 .. flen - 1 : ByteOf(device, pos) = 0
    /\ device[0] = before[0]
    /\ LET last == start + bytes_to_sectors(flen) IN device[last] = before[last]

\* inode_create, inode_read_at and inode_write_at transfer exactly the bytes asked for.
TransfersExact == BytesRead /\ BytesWritten /\ CreatedZero
=============================================================================
