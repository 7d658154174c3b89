-------------------------------- MODULE Relay --------------------------------
(***************************************************************************)
(* relay() of utils/squish-pty.c: one process copies stdin to a             *)
(* pseudoterminal and the pseudoterminal to stdout, with two buffers and    *)
(* select(), until the child on the other side is gone.  Bytes are numbered *)
(* in the order they are typed and printed.  External: the user, the child  *)
(* and the kernel's side of the descriptors.                                *)
(***************************************************************************)
EXTENDS Integers, Sequences, FiniteSets, SequencesExt, FiniteSetsExt

CONSTANTS BUFSIZ, MaxTyped, MaxPrinted

VARIABLES pipes, rpc, read_fds, write_fds,
          stdin, typing, ptyin, ptyout, printing, slave, child, stdout
relayVars == <<pipes, rpc, read_fds, write_fds, stdin, typing, ptyin, ptyout, printing, slave,
               child, stdout>>
envVars == <<stdin, typing, ptyout, printing, slave, child>>

\* The bytes in a buffer are buf; they start at ofs and size is their number.
EmptyPipe == [in |-> TRUE, buf |-> <<>>, ofs |-> 0, active |-> FALSE]
size(p) == Len(p.buf)
RelayInit == /\ pipes = [i \in 0 .. 1 |-> EmptyPipe] /\ rpc = "select"
             /\ read_fds = {} /\ write_fds = {}
             /\ stdin = <<>> /\ typing = 0 /\ ptyin = <<>> /\ ptyout = <<>> /\ printing = 0
             /\ slave = TRUE /\ child = "alive" /\ stdout = <<>>
Eof == 0
\* The user types or ends the input; the child prints, closes its terminal and dies.
Typing == /\ typing < MaxTyped /\ typing' = typing + 1 /\ stdin' = Append(stdin, typing + 1)
          /\ UNCHANGED <<ptyout, printing, slave, child>>
TypesEof == /\ typing # MaxTyped + 1 /\ typing' = MaxTyped + 1 /\ stdin' = Append(stdin, Eof)
            /\ UNCHANGED <<ptyout, printing, slave, child>>
Printing == /\ slave /\ child = "alive" /\ printing < MaxPrinted
            /\ printing' = printing + 1 /\ ptyout' = Append(ptyout, printing + 1)
            /\ UNCHANGED <<stdin, typing, slave, child>>
ClosesTerminal == /\ slave /\ slave' = FALSE
                  /\ UNCHANGED <<stdin, typing, ptyout, printing, child>>
\* sigchld_handler writes to the pipe of dead_child_fd; exit closed the terminal before.
Dies == /\ child = "alive" /\ ~ slave /\ child' = "dead"
        /\ UNCHANGED <<stdin, typing, ptyout, printing, slave>>
RelayWorld == /\ Typing \/ TypesEof \/ Printing \/ ClosesTerminal \/ Dies
              /\ UNCHANGED <<pipes, rpc, read_fds, write_fds, ptyin, stdout>>

Used(i) == i = 1 \/ pipes[1].active
WantsRead(i) == Used(i) /\ pipes[i].in /\ size(pipes[i]) + pipes[i].ofs < BUFSIZ
WantsWrite(i) == Used(i) /\ size(pipes[i]) > 0
Readable(i) == IF i = 0 THEN stdin # <<>> ELSE ptyout # <<>> \/ ~ slave
AfterSelect == IF child = "dead" THEN "final" ELSE "r0"
\* select() reports all that may be read, and of what may be written any part.
select ==
  /\ rpc = "select"
  /\ \E w \in SUBSET {i \in 0 .. 1 : WantsWrite(i)} :
       LET r == {i \in 0 .. 1 : WantsRead(i) /\ Readable(i)}
       IN /\ r \cup w # {} \/ child = "dead"
          /\ read_fds' = r /\ write_fds' = w
          /\ rpc' = AfterSelect
  /\ UNCHANGED <<pipes, ptyin, stdout>> /\ UNCHANGED envVars
\* Fault: only the buffer is written.
Rest_buffer == pipes[1].buf
Rest == pipes[1].buf \o ptyout
\* Child died: write the buffer, and what is left on the terminal until a read fails.
final == /\ rpc = "final"
         /\ stdout' = stdout \o Rest
         /\ pipes' = [pipes EXCEPT ![1].buf = <<>>, ![1].ofs = 0] /\ ptyout' = <<>>
         /\ rpc' = "done"
         /\ UNCHANGED <<read_fds, write_fds, ptyin, stdin, typing, printing, slave, child>>

After0(i) == IF i = 0 THEN "w0" ELSE "w1"
Room(p) == BUFSIZ - p.ofs - size(p)
Taken(p, bytes) == LET q == [p EXCEPT !.buf = @ \o bytes, !.active = TRUE]
                   IN IF size(q) = BUFSIZ /\ q.ofs # 0 THEN [q EXCEPT !.ofs = 0] ELSE q
relay_read(i) ==
  LET src == IF i = 0 THEN stdin ELSE ptyout
  IN /\ rpc = (IF i = 0 THEN "r0" ELSE "r1")
     /\ CASE i \notin read_fds \/ (i = 1 /\ src = <<>> /\ slave) ->
               rpc' = After0(i) /\ UNCHANGED <<pipes, stdin, ptyout>>
          [] i \in read_fds /\ i = 1 /\ src = <<>> /\ ~ slave ->     \* EIO
               rpc' = "closed" /\ UNCHANGED <<pipes, stdin, ptyout>>
          [] i \in read_fds /\ src # <<>> /\ Head(src) = Eof ->
               /\ pipes' = [pipes EXCEPT ![0].in = FALSE] /\ rpc' = "w0"
               /\ stdin' = Tail(stdin) /\ UNCHANGED ptyout
          [] OTHER -> \E n \in 1 .. Min({Room(pipes[i]), Len(src)}) :
               /\ \A k \in 1 .. n : src[k] # Eof
               /\ pipes' = [pipes EXCEPT ![i] = Taken(@, SubSeq(src, 1, n))]
               /\ rpc' = After0(i)
               /\ IF i = 0 THEN stdin' = SubSeq(stdin, n + 1, Len(stdin)) /\ UNCHANGED ptyout
                  ELSE ptyout' = SubSeq(ptyout, n + 1, Len(ptyout)) /\ UNCHANGED stdin
     /\ UNCHANGED <<read_fds, write_fds, ptyin, stdout, typing, printing, slave, child>>
Written(p, n) == LET left == SubSeq(p.buf, n + 1, size(p))
                 IN [p EXCEPT !.buf = left, !.ofs = IF left = <<>> THEN 0 ELSE @ + n]
relay_write(i) ==
  /\ rpc = (IF i = 0 THEN "w0" ELSE "w1")
  /\ rpc' = IF i = 0 THEN "r1" ELSE "select"
  /\ IF i \notin write_fds THEN UNCHANGED <<pipes, ptyin, stdout>>
     ELSE \E n \in 1 .. size(pipes[i]) :
            /\ pipes' = [pipes EXCEPT ![i] = Written(@, n)]
            /\ IF i = 0 THEN ptyin' = ptyin \o SubSeq(pipes[0].buf, 1, n) /\ UNCHANGED stdout
               ELSE stdout' = stdout \o SubSeq(pipes[1].buf, 1, n) /\ UNCHANGED ptyin
  /\ UNCHANGED <<read_fds, write_fds>> /\ UNCHANGED envVars
RelayStep == select \/ final \/ \E i \in 0 .. 1 : relay_read(i) \/ relay_write(i)
RelayNext == RelayWorld \/ RelayStep
RelaySpec == RelayInit /\ [][RelayNext]_relayVars
\* The process is scheduled, and descriptors that stay ready are reported.
RelayFairness == WF_relayVars(RelayStep)
---------------------------------------------------------------------------
UpTo(n) == [i \in 1 .. n |-> i]
\* Over partial reads and writes no byte is lost, doubled or put out of order on either side,
\* and a buffer is never filled past its end.
BytesInOrder ==
  /\ stdout = UpTo(Len(stdout)) /\ ptyin = UpTo(Len(ptyin))
  /\ rpc \notin {"done"} => stdout \o pipes[1].buf \o ptyout = UpTo(printing)
  /\ \A i \in 0 .. 1 : pipes[i].ofs + size(pipes[i]) <= BUFSIZ
\* "Don't do anything with the stdin->pty pipe until we have some data for the pty->stdout
\* pipe": the child gets no input before it has printed something that was read.
InputHeldBack == (ptyin # <<>> \/ pipes[0].buf # <<>>) => pipes[1].active
\* After "Child died.  Do final relaying" all that the child printed is on stdout.  A return
\* on EIO (the terminal closed, the child not yet reported dead) makes no such promise.
AllRelayed == rpc = "done" => stdout = UpTo(printing)
\* Once the child is dead relay() returns.
RelayReturns == child = "dead" ~> rpc \in {"done", "closed"}

\* relay () passes on every byte in both directions, in time and in order, and comes to
\* an end.
RelayRight == [](BytesInOrder /\ InputHeldBack /\ AllRelayed) /\ RelayReturns
=============================================================================
