------------------------------ MODULE Filesys ------------------------------
(***************************************************************************)
(* The file system (filesys/*.c) under the file system calls of            *)
(* userprog/syscall.c and the files that load () and process_exit () open   *)
(* and close.  Every block write and every point at which the caller sleeps *)
(* for the disk is a step of its own, so that another process, a power-off  *)
(* (halt_w does not wait for anybody) or a failed allocation can come in    *)
(* between.  Lengths and positions are counted in sectors.  The inode of    *)
(* the root directory is opened and closed within each call and can never   *)
(* be removed; only its contents, fsDisk.dir, are kept.                     *)
(***************************************************************************)
EXTENDS Integers, Sequences, FiniteSets, SequencesExt, FiniteSetsExt

CONSTANTS
  Procs,          \* threads that use files
  Main,           \* the initial thread, which runs the actions of fsutil.c
  Names,          \* names of files
  SectorCount,    \* size of the file system device
  Lengths,        \* sizes given to create ()
  DirSlots,       \* entries of the root directory (16 in do_format)
  FdSlots,        \* descriptors a process may have open
  Inodes,         \* blocks of memory for struct inode, numbered from 1
  Orderly,        \* nobody loads or ends inside another one's file call
  MemoryFails     \* malloc () may return a null pointer

CONSTANT None
FREE_MAP_SECTOR == 0
ROOT_DIR_SECTOR == 1
Sector == 0 .. SectorCount - 1

ASSUME FilesysAssumption ==
  /\ SectorCount \in Nat /\ SectorCount > 4
  /\ Main \in Procs /\ Inodes \subseteq Nat \ {0}
  /\ None \notin Names \cup Procs
  /\ Lengths \subseteq Nat /\ DirSlots \in Nat \ {0} /\ FdSlots \in Nat \ {0}
  /\ Orderly \in BOOLEAN /\ MemoryFails \in BOOLEAN

VARIABLES
  fsDisk,       \* what is on the device: free map, directory, other sectors
  free_map,     \* the bitmap in memory, as the set of its marked bits
  open_inodes,  \* the list open_inodes
  inode,        \* struct inode, by block of memory
  fds,          \* fd_list of each process: open files by descriptor
  executable,   \* the executable of each process
  file_lock,    \* holder of file_lock
  call,         \* what each process still has to do in its call
  leaked        \* history: sectors marked for nobody

fsVars == <<fsDisk, free_map, open_inodes, inode, fds, executable, file_lock,
            call, leaked>>
fsMemory == <<free_map, open_inodes, inode, fds, executable>>

NoFile == [inode |-> 0, pos |-> 0, deny_write |-> FALSE]
FreeSlot == [name |-> None, sector |-> 0]
Idle == [todo |-> <<>>, name |-> None, length |-> 0, sector |-> 0, start |-> 0,
         inode |-> 0, snapshot |-> {}, slot |-> 0]
Unused == [live |-> FALSE, sector |-> 0, open_cnt |-> 0, deny_write_cnt |-> 0,
           removed |-> FALSE, start |-> 0, length |-> 0]
Run(start, cnt) == start .. start + cnt - 1

\* What a sector holds: data, which is zero or not, or an inode.
Data(v) == <<v>>
DiskInode(start, length) == <<start, length>>

(***************************************************************************)
(* do_format: free_map_create () takes sector 2 for the free map file,      *)
(* dir_create () sector 3 for the entries of the root directory.            *)
(***************************************************************************)
System == {FREE_MAP_SECTOR, ROOT_DIR_SECTOR, 2, 3}
Formatted(block) ==
  [map |-> System, dir |-> [i \in 1 .. DirSlots |-> FreeSlot], block |-> block]

FsInit ==
  /\ fsDisk = Formatted([s \in Sector |-> Data(0)])
  /\ free_map = System
  /\ open_inodes = <<>>
  /\ inode = [i \in Inodes |-> Unused]
  /\ fds = [p \in Procs |-> [d \in 1 .. FdSlots |-> NoFile]]
  /\ executable = [p \in Procs |-> NoFile]
  /\ file_lock = None
  /\ call = [p \in Procs |-> Idle]
  /\ leaked = {}

---------------------------------------------------------------------------
\* Steps of a call.  `todo' holds the names of the steps still to be taken.

At(p, step) == call[p].todo # <<>> /\ Head(call[p].todo) = step
Rest(p) == Tail(call[p].todo)
\* The registers of a call that is over are forgotten.
Continue(p, todo) == call' = [call EXCEPT ![p] = IF todo = <<>> THEN Idle
                                                ELSE [@ EXCEPT !.todo = todo]]
Set(p, todo, field, value) ==
  call' = [call EXCEPT ![p] = IF todo = <<>> THEN Idle
                              ELSE [@ EXCEPT !.todo = todo, ![field] = value]]
Return(p) == IF file_lock = p THEN <<"unlock">> ELSE <<>>
Memory(ok) == ok \in IF MemoryFails THEN BOOLEAN ELSE {TRUE}
Mine(p) == inode[call[p].inode]
Holding(p) == Mine(p).live

\* Inside a call, and not waiting for file_lock.
Busy(p) == call[p].todo # <<>> /\ "lock" # Head(call[p].todo)
Undisturbed(p) == Orderly => \A o \in Procs \ {p} : ~ Busy(o)

\* A call begins; if it takes file_lock, that is its first step, because nothing
\* happens before.  The initial thread calls filesys_create () and the others
\* directly, without file_lock.
Unlocked(todo) == SelectSeq(todo, LAMBDA o : o \notin {"lock", "unlock"})
Begin(p, todo, regs) ==
  LET locks == p # Main /\ Head(todo) = "lock"
      ops == IF p = Main THEN Unlocked(todo) ELSE IF locks THEN Tail(todo) ELSE todo
  IN /\ call[p].todo = <<>> /\ Undisturbed(p)
     /\ IF locks THEN file_lock = None /\ file_lock' = p ELSE UNCHANGED file_lock
     /\ call' = [call EXCEPT ![p] = [f \in DOMAIN Idle |->
                   IF f = "todo" THEN ops
                   ELSE IF f \in DOMAIN regs THEN regs[f] ELSE Idle[f]]]
     /\ UNCHANGED <<fsDisk, fsMemory, leaked>>
Loaded(p) == p = Main \/ executable[p] # NoFile

lock_acquire(p) ==
  /\ At(p, "lock") /\ file_lock = None /\ Undisturbed(p)
  /\ file_lock' = p
  /\ Continue(p, Rest(p))
  /\ UNCHANGED <<fsDisk, fsMemory, leaked>>
lock_release(p) ==
  /\ At(p, "unlock")
  /\ file_lock' = None
  /\ Continue(p, Rest(p))
  /\ UNCHANGED <<fsDisk, fsMemory, leaked>>

---------------------------------------------------------------------------
\* Free map.

\* bitmap_scan: the first of CNT clear bits in a row; CNT 0 is found at 0.
Candidates(cnt) == {s \in Sector : s + cnt <= SectorCount
                                   /\ Run(s, cnt) \cap free_map = {}}
MapOps(write) == <<"copy_map", write>>

\* The bits bitmap_scan_and_flip marks.
Marked(start, cnt) == Run(start, cnt)
free_map_allocate(p, what, cnt, failed) ==
  IF Candidates(cnt) = {}
  THEN Continue(p, failed) /\ UNCHANGED free_map
  ELSE /\ Set(p, Rest(p), what, Min(Candidates(cnt)))
       /\ free_map' = free_map \cup Marked(Min(Candidates(cnt)), cnt)

\* free_map_release, up to bitmap_write: its ASSERT is the property MarkedWhenReleased.
free_map_release(p, start, cnt) ==
  /\ free_map' = free_map \ Run(start, cnt)
  /\ Continue(p, MapOps("write_map") \o Rest(p))

\* bitmap_write: the bits are copied to the buffer, and later written.
copy_map(p) ==
  /\ At(p, "copy_map")
  /\ Set(p, Rest(p), "snapshot", free_map)
  /\ UNCHANGED <<fsDisk, fsMemory, file_lock, leaked>>
bitmap_write(p) ==
  /\ At(p, "write_map")
  /\ \E ok \in BOOLEAN :
       /\ Memory(ok)
       /\ fsDisk' = IF ok THEN [fsDisk EXCEPT !.map = call[p].snapshot] ELSE fsDisk
  /\ Set(p, Rest(p), "snapshot", {})
  /\ UNCHANGED <<fsMemory, file_lock, leaked>>
\* The same inside free_map_allocate, which takes the bits back if it fails.
bitmap_write_or_undo(p, step, start, cnt, failed) ==
  /\ At(p, step)
  /\ \E ok \in BOOLEAN :
       /\ Memory(ok)
       /\ IF ok
          THEN /\ fsDisk' = [fsDisk EXCEPT !.map = call[p].snapshot]
               /\ Set(p, Rest(p), "snapshot", {}) /\ UNCHANGED free_map
          ELSE /\ free_map' = free_map \ Run(start, cnt)
               /\ Continue(p, failed) /\ UNCHANGED fsDisk
  /\ UNCHANGED <<open_inodes, inode, fds, executable, file_lock, leaked>>

---------------------------------------------------------------------------
\* filesys_create.

CreateOps == <<"lock", "alloc_inode", "copy_map", "map_inode", "alloc_data",
               "copy_map", "map_data", "put_inode", "zero", "dir_add", "unlock">>
create_w(p, n, len) ==
  Loaded(p) /\ Begin(p, CreateOps, [name |-> n, length |-> len])
\* What is left to do when inode_create or dir_add has failed.
ReleaseInode(p) == <<"release_inode">> \o Return(p)

filesys_create(p) ==
  \/ /\ At(p, "alloc_inode")
     /\ free_map_allocate(p, "sector", 1, Return(p))
     /\ UNCHANGED <<fsDisk, open_inodes, inode, fds, executable, file_lock, leaked>>
  \/ bitmap_write_or_undo(p, "map_inode", call[p].sector, 1, Return(p))
  \/ /\ At(p, "release_inode")
     /\ free_map_release(p, call[p].sector, 1)
     /\ UNCHANGED <<fsDisk, open_inodes, inode, fds, executable, file_lock, leaked>>

inode_create(p) ==
  \/ /\ At(p, "alloc_data")
     /\ \E ok \in BOOLEAN :
          /\ Memory(ok)
          /\ IF ok THEN free_map_allocate(p, "start", call[p].length, ReleaseInode(p))
                   ELSE Continue(p, ReleaseInode(p)) /\ UNCHANGED free_map
     /\ UNCHANGED <<fsDisk, open_inodes, inode, fds, executable, file_lock, leaked>>
  \/ bitmap_write_or_undo(p, "map_data", call[p].start, call[p].length, ReleaseInode(p))
  \/ /\ At(p, "put_inode")
     /\ fsDisk' = [fsDisk EXCEPT !.block[call[p].sector] =
                     DiskInode(call[p].start, call[p].length)]
     /\ Continue(p, [i \in 1 .. call[p].length |-> "zero"] \o Tail(Rest(p)))
     /\ UNCHANGED <<fsMemory, file_lock, leaked>>
  \/ /\ At(p, "zero")
     /\ LET left == Cardinality({i \in 1 .. Len(call[p].todo) : call[p].todo[i] = "zero"})
            s == call[p].start + call[p].length - left
        IN fsDisk' = [fsDisk EXCEPT !.block[s] = Data(0)]
     /\ Continue(p, Rest(p))
     /\ UNCHANGED <<fsMemory, file_lock, leaked>>

\* lookup: the slot of the entry called N, 0 if there is none.
lookup(n) == LET S == {i \in 1 .. DirSlots : fsDisk.dir[i].name = n}
             IN IF S = {} THEN 0 ELSE Min(S)
FreeSlots == {i \in 1 .. DirSlots : fsDisk.dir[i] = FreeSlot}

\* Fault: dir_add does not look for an entry of that name.
Acceptable_unchecked(n) == FreeSlots # {}
\* The conditions of dir_add: the name is not in use and there is a free slot.  A full
\* directory does not grow: inode_write_at at its end writes nothing.  A name that is
\* too long fails the same way as a lack of memory.
Acceptable(n) == lookup(n) = 0 /\ FreeSlots # {}
dir_add(p) ==
  /\ At(p, "dir_add")
  /\ \E ok \in BOOLEAN :
       /\ Memory(ok)
       /\ IF ok /\ Acceptable(call[p].name)
          THEN /\ fsDisk' = [fsDisk EXCEPT !.dir[Min(FreeSlots)] =
                               [name |-> call[p].name, sector |-> call[p].sector]]
               /\ Continue(p, Rest(p)) /\ UNCHANGED leaked
          ELSE /\ leaked' = leaked \cup Run(call[p].start, call[p].length)
               /\ Continue(p, ReleaseInode(p)) /\ UNCHANGED fsDisk
  /\ UNCHANGED <<fsMemory, file_lock>>

---------------------------------------------------------------------------
\* inode_open, inode_close.

\* dir_lookup, and the lookup of dir_remove.
dir_lookup(p) ==
  /\ At(p, "lookup")
  /\ LET slot == lookup(call[p].name)
     IN IF slot = 0 THEN Continue(p, Return(p))
        ELSE call' = [call EXCEPT ![p].todo = Rest(p), ![p].slot = slot, ![p].name = None,
                                  ![p].sector = fsDisk.dir[slot].sector]
  /\ UNCHANGED <<fsDisk, fsMemory, file_lock, leaked>>

\* The search of open_inodes, from the front.
Found(s) == SelectSeq(open_inodes, LAMBDA i : inode[i].sector = s)
inode_open(p) ==
  \/ /\ At(p, "find")
     /\ LET f == Found(call[p].sector)
        IN IF f = <<>> THEN Continue(p, <<"new_inode", "read_inode">> \o Rest(p))
           ELSE Set(p, <<"reopen">> \o Rest(p), "inode", f[1])
     /\ UNCHANGED <<fsDisk, fsMemory, file_lock, leaked>>
  \/ /\ At(p, "reopen") /\ Holding(p)
     /\ inode' = [inode EXCEPT ![call[p].inode].open_cnt = @ + 1]
     /\ Continue(p, Rest(p))
     /\ UNCHANGED <<fsDisk, free_map, open_inodes, fds, executable, file_lock, leaked>>
  \/ /\ At(p, "new_inode")
     /\ \E ok \in BOOLEAN :
          /\ Memory(ok)
          /\ IF ok
             THEN LET i == Min({b \in Inodes : ~ inode[b].live}) IN
                  /\ inode' = [inode EXCEPT ![i] =
                        [Unused EXCEPT !.live = TRUE, !.sector = call[p].sector,
                                       !.open_cnt = 1]]
                  /\ open_inodes' = <<i>> \o open_inodes
                  /\ Set(p, Rest(p), "inode", i)
             ELSE Continue(p, Return(p)) /\ UNCHANGED <<inode, open_inodes>>
     /\ UNCHANGED <<fsDisk, free_map, fds, executable, file_lock, leaked>>
  \/ /\ At(p, "read_inode") /\ Holding(p)
     /\ LET d == fsDisk.block[call[p].sector]
        IN inode' = [inode EXCEPT ![call[p].inode].start = d[1],
                                  ![call[p].inode].length = d[2]]
     /\ Continue(p, Rest(p))
     /\ UNCHANGED <<fsDisk, free_map, open_inodes, fds, executable, file_lock, leaked>>

\* Fault: the sectors of a removed file are not freed by the last closer.
Freed_not(p) == <<>>
\* Fault: the last closer frees the sectors of a file that still has a name.
Freed_always(p) == <<"rel_inode", "rel_data">>
\* What the last closer frees.
Freed(p) == IF Mine(p).removed THEN <<"rel_inode", "rel_data">> ELSE <<>>
inode_close(p) ==
  \/ /\ At(p, "close") /\ Holding(p)
     /\ inode' = [inode EXCEPT ![call[p].inode].open_cnt = @ - 1]
     /\ Continue(p, IF Mine(p).open_cnt = 1 THEN <<"unlist">> \o Rest(p) ELSE Rest(p))
     /\ UNCHANGED <<fsDisk, free_map, open_inodes, fds, executable, file_lock, leaked>>
  \/ /\ At(p, "unlist") /\ Holding(p)
     /\ open_inodes' = SelectSeq(open_inodes, LAMBDA i : i # call[p].inode)
     /\ Continue(p, Freed(p) \o <<"free_inode">> \o Rest(p))
     /\ UNCHANGED <<fsDisk, free_map, inode, fds, executable, file_lock, leaked>>
  \/ /\ At(p, "rel_inode") /\ Holding(p)
     /\ free_map_release(p, Mine(p).sector, 1)
     /\ UNCHANGED <<fsDisk, open_inodes, inode, fds, executable, file_lock, leaked>>
  \/ /\ At(p, "rel_data") /\ Holding(p)
     /\ free_map_release(p, Mine(p).start, Mine(p).length)
     /\ UNCHANGED <<fsDisk, open_inodes, inode, fds, executable, file_lock, leaked>>
  \/ /\ At(p, "free_inode") /\ Holding(p)
     /\ inode' = [inode EXCEPT ![call[p].inode] = Unused]
     /\ Continue(p, Rest(p))
     /\ UNCHANGED <<fsDisk, free_map, open_inodes, fds, executable, file_lock, leaked>>

---------------------------------------------------------------------------
\* Opening, closing and removing.

\* file_open: takes over the inode, or closes it if there is no memory.
file_open(p) ==
  /\ At(p, "file_open")
  /\ \E ok \in BOOLEAN :
       /\ Memory(ok)
       /\ Continue(p, IF ok THEN Rest(p) ELSE <<"close">> \o Return(p))
  /\ UNCHANGED <<fsDisk, fsMemory, file_lock, leaked>>

open_w(p, n) ==
  \/ /\ executable[p] # NoFile /\ \E d \in 1 .. FdSlots : fds[p][d] = NoFile
     /\ Begin(p, <<"lock", "lookup", "find", "file_open", "unlock", "add_fd">>,
              [name |-> n])
  \/ /\ At(p, "add_fd")
     /\ LET d == Min({i \in 1 .. FdSlots : fds[p][i] = NoFile})
        IN fds' = [fds EXCEPT ![p][d] = [NoFile EXCEPT !.inode = call[p].inode]]
     /\ call' = [call EXCEPT ![p] = Idle]
     /\ UNCHANGED <<fsDisk, free_map, open_inodes, inode, executable, file_lock, leaked>>

\* load, as far as files go: filesys_open without file_lock, file_deny_write.
load(p, n) ==
  \/ /\ ~ Loaded(p)
     /\ Begin(p, <<"lookup", "find", "file_open", "deny">>, [name |-> n])
  \/ /\ At(p, "deny") /\ Holding(p)
     /\ inode' = [inode EXCEPT ![call[p].inode].deny_write_cnt = @ + 1]
     /\ executable' = [executable EXCEPT ![p] =
                         [inode |-> call[p].inode, pos |-> 0, deny_write |-> TRUE]]
     /\ call' = [call EXCEPT ![p] = Idle]
     /\ UNCHANGED <<fsDisk, free_map, open_inodes, fds, file_lock, leaked>>

\* The file being closed: descriptor `slot', or the executable for slot 0.
Closing(p) == IF call[p].slot = 0 THEN executable[p] ELSE fds[p][call[p].slot]

\* Fault: file_close does not take back the denial of its file.
Allowed_not(f) == 0
\* What file_allow_write takes from deny_write_cnt.
Allowed(f) == IF f.deny_write THEN 1 ELSE 0
\* file_close up to inode_close.
file_allow_write(p) ==
  /\ At(p, "allow") /\ inode[Closing(p).inode].live
  /\ inode' = [inode EXCEPT ![Closing(p).inode].deny_write_cnt = @ - Allowed(Closing(p))]
  /\ Set(p, Rest(p), "inode", Closing(p).inode)
  /\ UNCHANGED <<fsDisk, free_map, open_inodes, fds, executable, file_lock, leaked>>

CloseFd == <<"lock", "allow", "close", "unlock", "drop_fd">>
close_w(p, d) ==
  \/ fds[p][d] # NoFile /\ Begin(p, CloseFd, [slot |-> d])
  \/ /\ At(p, "drop_fd") /\ call[p].slot = d
     /\ fds' = [fds EXCEPT ![p][d] = NoFile]
     /\ call' = [call EXCEPT ![p] = [Idle EXCEPT !.todo = Rest(p)]]
     /\ UNCHANGED <<fsDisk, free_map, open_inodes, inode, executable, file_lock, leaked>>

\* The executable is closed without file_lock, then each descriptor with it.
process_exit(p) ==
  \/ /\ executable[p] # NoFile
     /\ Begin(p, <<"allow", "close", "drop_executable", "next_fd">>, [slot |-> 0])
  \/ /\ At(p, "drop_executable")
     /\ executable' = [executable EXCEPT ![p] = NoFile]
     /\ Continue(p, Rest(p))
     /\ UNCHANGED <<fsDisk, free_map, open_inodes, inode, fds, file_lock, leaked>>
  \/ /\ At(p, "next_fd")
     /\ LET open == {d \in 1 .. FdSlots : fds[p][d] # NoFile}
        IN call' = [call EXCEPT ![p] =
             IF open = {} THEN Idle
             ELSE [Idle EXCEPT !.slot = Min(open), !.todo = CloseFd \o <<"next_fd">>]]
     /\ UNCHANGED <<fsDisk, fsMemory, file_lock, leaked>>

remove_w(p, n) ==
  /\ Loaded(p)
  /\ Begin(p, <<"lock", "lookup", "find", "erase", "mark", "close", "unlock">>,
           [name |-> n])

inode_remove(p) == inode' = [inode EXCEPT ![call[p].inode].removed = TRUE]

dir_remove(p) ==
  \/ /\ At(p, "erase")
     /\ \E ok \in BOOLEAN :
          /\ Memory(ok)
          /\ IF ok
             THEN /\ fsDisk' = [fsDisk EXCEPT !.dir[call[p].slot] = FreeSlot]
                  /\ Continue(p, Rest(p))
             ELSE Continue(p, Tail(Rest(p))) /\ UNCHANGED fsDisk
     /\ UNCHANGED <<fsMemory, file_lock, leaked>>
  \/ /\ At(p, "mark") /\ Holding(p)
     /\ inode_remove(p)
     /\ Continue(p, Rest(p))
     /\ UNCHANGED <<fsDisk, free_map, open_inodes, fds, executable, file_lock, leaked>>

---------------------------------------------------------------------------
\* Reading, writing and positions.  How inode_read_at and inode_write_at cut a
\* request into sectors is in InodeIO; here one sector is one request.  Descriptors 0
\* and 1, the keyboard and the console, are in Serial; a descriptor that is not in
\* fd_list returns -1 and changes nothing; a bad pointer is a process_exit.

FileOfFd(p) == fds[p][call[p].slot]
InodeOfFd(p) == inode[FileOfFd(p).inode]
rw_w(p, d, step) ==
  fds[p][d] # NoFile /\ Begin(p, <<"lock", step, "unlock">>, [slot |-> d])
read_w(p, d) == rw_w(p, d, "read")
write_w(p, d) == rw_w(p, d, "write")
seek_w(p, d) == rw_w(p, d, "seek")

Advance(p, pos) == fds' = [fds EXCEPT ![p][call[p].slot].pos = pos]
file_read(p) ==
  /\ At(p, "read")
  /\ Advance(p, IF FileOfFd(p).pos < InodeOfFd(p).length THEN FileOfFd(p).pos + 1
                ELSE FileOfFd(p).pos)
  /\ Continue(p, Rest(p))
  /\ UNCHANGED <<fsDisk, free_map, open_inodes, inode, executable, file_lock, leaked>>
file_seek(p) ==
  /\ At(p, "seek")
  /\ \E pos \in Lengths \cup {0} : Advance(p, pos)
  /\ Continue(p, Rest(p))
  /\ UNCHANGED <<fsDisk, free_map, open_inodes, inode, executable, file_lock, leaked>>

\* Fault: inode_write_at forgets deny_write_cnt.
Writable_always(p) == FileOfFd(p).pos < InodeOfFd(p).length
\* The tests of inode_write_at; a file does not grow.
Writable(p) == InodeOfFd(p).deny_write_cnt = 0 /\ FileOfFd(p).pos < InodeOfFd(p).length
file_write(p) ==
  \/ /\ At(p, "write") /\ InodeOfFd(p).live
     /\ Continue(p, IF Writable(p) THEN <<"put_data">> \o Rest(p) ELSE Rest(p))
     /\ UNCHANGED <<fsDisk, fsMemory, file_lock, leaked>>
  \/ /\ At(p, "put_data") /\ InodeOfFd(p).live
     /\ fsDisk' = [fsDisk EXCEPT !.block[InodeOfFd(p).start + FileOfFd(p).pos] = Data(1)]
     /\ Advance(p, FileOfFd(p).pos + 1)
     /\ Continue(p, Rest(p))
     /\ UNCHANGED <<free_map, open_inodes, inode, executable, file_lock, leaked>>

---------------------------------------------------------------------------
\* Power-off and boot.

\* The sectors of the files a set of directory entries names.
Extent(s) == {s} \cup Run(fsDisk.block[s][1], fsDisk.block[s][2])
Entries == {i \in 1 .. DirSlots : fsDisk.dir[i] # FreeSlot}
NamedSectors == UNION {Extent(fsDisk.dir[i].sector) : i \in Entries}

Restart(disk) ==
  /\ fsDisk' = disk
  /\ free_map' = disk.map
  /\ open_inodes' = <<>>
  /\ inode' = [i \in Inodes |-> Unused]
  /\ fds' = [p \in Procs |-> [d \in 1 .. FdSlots |-> NoFile]]
  /\ executable' = [p \in Procs |-> NoFile]
  /\ file_lock' = None
  /\ call' = [p \in Procs |-> Idle]
\* halt_w, or a loss of power, and filesys_init (false).
halt_w == /\ Restart(fsDisk)
          /\ leaked' = fsDisk.map \ (System \cup NamedSectors)
\* filesys_init (true).
do_format == Restart(Formatted(fsDisk.block)) /\ leaked' = {}

Step(p) ==
  \/ lock_acquire(p) \/ lock_release(p) \/ copy_map(p) \/ bitmap_write(p)
  \/ filesys_create(p) \/ inode_create(p) \/ dir_add(p)
  \/ dir_lookup(p) \/ inode_open(p) \/ inode_close(p) \/ dir_remove(p)
  \/ file_open(p) \/ file_allow_write(p) \/ process_exit(p)
  \/ file_read(p) \/ file_seek(p) \/ file_write(p)
FsNext ==
  \/ \E p \in Procs :
       \/ Step(p)
       \/ \E n \in Names : \/ open_w(p, n) \/ load(p, n) \/ remove_w(p, n)
                           \/ \E len \in Lengths : create_w(p, n, len)
       \/ \E d \in 1 .. FdSlots : \/ close_w(p, d) \/ read_w(p, d)
                                  \/ write_w(p, d) \/ seek_w(p, d)
  \/ halt_w \/ do_format
FsSpec == FsInit /\ [][FsNext]_fsVars
---------------------------------------------------------------------------
\* Properties.

Todo(p) == Range(call[p].todo)
\* A call that has an inode open which no file owns yet.
HoldsRef(p) ==
  /\ Todo(p) \cap {"file_open", "add_fd", "deny", "erase", "mark", "close"} # {}
  /\ Todo(p) \cap {"find", "reopen", "new_inode", "drop_fd", "drop_executable"} = {}
\* Descriptor D, or the executable for 0, is closed but still listed.
Closed(p, d) == /\ call[p].slot = d /\ "close" \notin Todo(p)
                /\ (IF d = 0 THEN "drop_executable" ELSE "drop_fd") \in Todo(p)
Users(i) ==
  {<<p, d>> \in Procs \X (1 .. FdSlots) : fds[p][d].inode = i /\ ~ Closed(p, d)}
  \cup {<<p, 0>> : p \in {q \in Procs : executable[q].inode = i /\ ~ Closed(q, 0)}}
  \cup {<<p, -1>> : p \in {q \in Procs : call[q].inode = i /\ HoldsRef(q)}}
Deniers(i) ==
  {p \in Procs : /\ executable[p].inode = i
                 /\ ~ ("drop_executable" \in Todo(p) /\ "allow" \notin Todo(p))}

\* Types of the variables.
FsTypeOK ==
  /\ fsDisk.map \subseteq Sector
  /\ fsDisk.dir \in [1 .. DirSlots -> [name : Names \cup {None}, sector : Sector]]
  /\ \A s \in Sector : \/ fsDisk.block[s] \in {Data(0), Data(1)}
                       \/ fsDisk.block[s] \in Sector \X (Lengths \cup {0})
  /\ free_map \subseteq Sector
  /\ open_inodes \in Seq(Inodes) /\ file_lock \in Procs \cup {None}
  /\ inode \in [Inodes -> [live : BOOLEAN, sector : Sector, open_cnt : Nat,
                           deny_write_cnt : Nat, removed : BOOLEAN, start : Sector,
                           length : Lengths \cup {0}]]

\* "opening a single inode twice returns the same `struct inode'" (inode.c:56): no
\* two open inodes are for the same sector.
OneInodePerSector ==
  \A i, j \in Range(open_inodes) : inode[i].sector = inode[j].sector => i = j

\* inode_open, inode_close and the ASSERTs of inode_deny_write and inode_allow_write:
\* open_cnt counts exactly the files and calls that use the inode, deny_write_cnt the
\* processes that execute it, and an inode in use is on the list.
CountsExact ==
  \A i \in Inodes :
    /\ inode[i].open_cnt = Cardinality(Users(i))
    /\ inode[i].deny_write_cnt = Cardinality(Deniers(i))
    /\ Users(i) # {} => inode[i].live /\ i \in Range(open_inodes)

\* What the sectors of the device are used for: files with a name, removed files
\* that are still open or being freed, and the file that a create () has not finished.
OpenExtent(i) ==
  {inode[i].sector} \cup
  IF \E p \in Procs : call[p].inode = i /\ At(p, "read_inode")
  THEN {} ELSE Run(inode[i].start, inode[i].length)
Creating(p) ==
  (IF /\ Todo(p) \cap {"map_inode", "alloc_data", "map_data", "put_inode", "dir_add",
                       "release_inode"} # {}
      /\ "alloc_inode" \notin Todo(p)
   THEN {call[p].sector} ELSE {})
  \cup
  (IF /\ Todo(p) \cap {"map_data", "put_inode", "dir_add"} # {}
      /\ "alloc_data" \notin Todo(p)
   THEN Run(call[p].start, call[p].length) ELSE {})
Freeing(p) ==
  (IF "rel_inode" \in Todo(p) THEN {Mine(p).sector} ELSE {})
  \cup (IF "rel_data" \in Todo(p) THEN Run(Mine(p).start, Mine(p).length) ELSE {})
Used == System \cup NamedSectors
        \cup UNION {OpenExtent(i) : i \in Range(open_inodes)}
        \cup UNION {Creating(p) \cup Freeing(p) : p \in Procs}
\* free_map_allocate and free_map_release: exactly the sectors in use are marked, and
\* those whose loss the code accepts (data of a create () that failed in dir_add,
\* filesys.c:54, and what was open or half created when the power went).
SectorsAccounted == free_map = Used \cup leaked /\ Used \cap leaked = {}

\* The order of the writes of filesys_create and of dir_remove with inode_close: at
\* every moment the free map on the device marks the sectors of all files that have
\* an entry in the directory on the device, and no two of them share a sector or a name.
DiskConsistent ==
  /\ NamedSectors \cup System \subseteq fsDisk.map
  /\ \A i, j \in Entries :
       /\ Extent(fsDisk.dir[i].sector) \cap System = {}
       /\ i # j => /\ Extent(fsDisk.dir[i].sector) \cap Extent(fsDisk.dir[j].sector) = {}
                   /\ fsDisk.dir[i].name # fsDisk.dir[j].name

\* The ASSERT of free_map_release: what is released is marked.
MarkedWhenReleased ==
  \A p \in Procs :
    /\ At(p, "release_inode") => call[p].sector \in free_map
    /\ At(p, "rel_inode") => Mine(p).sector \in free_map
    /\ At(p, "rel_data") => Run(Mine(p).start, Mine(p).length) \subseteq free_map

\* file_deny_write in load: what a process executes does not change under it.
ExecutableUnchanged ==
  [][\A p \in Procs : executable[p] # NoFile /\ executable'[p] = executable[p] =>
       LET i == executable[p].inode IN
       \A s \in Run(inode[i].start, inode[i].length) : fsDisk'.block[s] = fsDisk.block[s]
    ]_fsVars

Live == {fsDisk.dir[i].sector : i \in Entries}
        \cup {inode[i].sector : i \in Range(open_inodes)}
Store == INSTANCE FileStore WITH
  FileNames <- Names, FileIds <- Sector, FileLengths <- Lengths, NoId <- -1, Gone <- <<-1>>,
  named <- [n \in Names |-> LET i == lookup(n) IN IF i = 0 THEN -1 ELSE fsDisk.dir[i].sector],
  content <- LET live == Live
             IN [s \in Sector |-> IF s \notin live THEN <<-1>>
                   ELSE LET d == fsDisk.block[s]
                        IN [k \in 1 .. d[2] |-> fsDisk.block[d[1] + k - 1][1]]]
\* The file system implements the store of named files: nothing a call does to one
\* file shows in another, no sector is reused while somebody can read it, removed
\* files live until they are closed, and a power-off loses only what has no name.
ImplementsStore == Store!StoreSpec

\* The inodes in memory: one for each file in use, with exact counts.
InodesExact == FsTypeOK /\ OneInodePerSector /\ CountsExact

\* The free map: what is marked is in use, and what is released was marked.
SectorsExact == SectorsAccounted /\ MarkedWhenReleased
=============================================================================
