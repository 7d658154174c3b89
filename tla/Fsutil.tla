-------------------------------- MODULE Fsutil -------------------------------
(***************************************************************************)
(* filesys/fsutil.c: extract puts the files of an archive on the scratch    *)
(* device into the file system, append writes files to it.  A sector is a   *)
(* header, data, zeros or other; the machine may be switched off at any      *)
(* step.  The byte that append reads after its buffer is stray.             *)
(***************************************************************************)
EXTENDS Integers, Sequences, FiniteSets, SequencesExt, FiniteSetsExt

CONSTANTS Archives,      \* what the scratch device holds at first, sector by sector
          FileNames, SectorBytes, MaxBoots

VARIABLES scratch, archive, files, utpc, cur, extract_sector, append_sector, appended, stray,
          boots, utpanic, extracted
utVars == <<scratch, archive, files, utpc, cur, extract_sector, append_sector, appended, stray,
            boots, utpanic, extracted>>

Zeros == [kind |-> "zeros"]
Header(type, name, n) == [kind |-> "header", type |-> type, name |-> name, size |-> n]
Data(bytes) == [kind |-> "data", bytes |-> bytes]
NoFile == [name |-> "", left |-> 0, bytes |-> <<>>]
NoFiles == [n \in {} |-> <<>>]
UtInit == /\ archive \in Archives /\ scratch = archive /\ files = NoFiles
          /\ utpc = "idle" /\ cur = NoFile /\ extract_sector = 1 /\ append_sector = 1
          /\ appended = <<>> /\ stray \in BOOLEAN /\ boots = 1 /\ utpanic = FALSE
          /\ extracted = FALSE
Running == ~ utpanic
UtGoto(pc) == utpc' = pc
PANIC == utpanic' = TRUE
OnScratch(s) == s <= Len(scratch)
ChunkSize(n) == IF n > SectorBytes THEN SectorBytes ELSE n

\* The command line of a boot has one extract, and "`extract' should precede all `append's".
\* archive keeps what the extraction is about to read.
fsutil_extract == /\ Running /\ utpc = "idle" /\ append_sector = 1 /\ extract_sector = 1
                  /\ UtGoto("header") /\ archive' = IF extracted THEN archive ELSE scratch
                  /\ UNCHANGED <<scratch, files, cur, extract_sector, append_sector,
                                 appended, stray, boots, utpanic, extracted>>
PutFile(name, bytes) == [n \in DOMAIN files \cup {name} |-> IF n = name THEN bytes ELSE files[n]]
\* Fault: the header at the start of the device is left there.
Erased_not(s) == scratch
Erased(s) == [scratch EXCEPT ![s] = Zeros]
extract_erase ==
  /\ Running
  /\ \/ utpc = "erase0" /\ scratch' = Erased(1) /\ UtGoto("erase1") /\ UNCHANGED extracted
     \/ utpc = "erase1" /\ scratch' = Erased(2) /\ UtGoto("idle") /\ extracted' = TRUE
  /\ UNCHANGED <<archive, files, cur, extract_sector, append_sector, appended, stray, boots, utpanic>>
\* A turn of the loop: the next header, and the file it is for.
extract_header ==
  /\ Running /\ utpc = "header"
  /\ IF ~ OnScratch(extract_sector) \/ scratch[extract_sector].kind \notin {"zeros", "header"}
     THEN PANIC /\ UNCHANGED <<files, utpc, cur, extract_sector>>
     ELSE LET h == scratch[extract_sector]
          IN /\ extract_sector' = extract_sector + 1
             /\ CASE h.kind = "zeros" ->
                       UtGoto("erase0") /\ UNCHANGED <<files, cur, utpanic>>
                  [] h.kind = "header" /\ h.type = "directory" ->
                       UNCHANGED <<files, utpc, cur, utpanic>>
                  [] h.kind = "header" /\ h.type = "regular" ->
                       IF h.name \in DOMAIN files           \* create failed
                       THEN PANIC /\ UNCHANGED <<files, utpc, cur>>
                       ELSE /\ files' = PutFile(h.name, [i \in 1 .. h.size |-> 0])
                            /\ cur' = [name |-> h.name, left |-> h.size, bytes |-> <<>>]
                            /\ UtGoto("copy") /\ UNCHANGED utpanic
  /\ UNCHANGED <<scratch, archive, append_sector, appended, stray, boots, extracted>>
Written(bytes) == cur.bytes \o bytes
extract_data ==
  /\ Running /\ utpc = "copy"
  /\ IF cur.left = 0 THEN UtGoto("header") /\ UNCHANGED <<files, cur, extract_sector, utpanic>>
     ELSE IF ~ OnScratch(extract_sector) THEN PANIC /\ UNCHANGED <<files, utpc, cur, extract_sector>>
     ELSE LET n == ChunkSize(cur.left)
              s == scratch[extract_sector]
              bytes == IF s.kind = "data" THEN SubSeq(s.bytes, 1, n) ELSE [i \in 1 .. n |-> 0]
              whole == Written(bytes)
          IN /\ cur' = [cur EXCEPT !.left = @ - n, !.bytes = whole]
             /\ files' = PutFile(cur.name, [i \in DOMAIN files[cur.name] |->
                            IF i <= Len(whole) THEN whole[i] ELSE 0])
             /\ extract_sector' = extract_sector + 1
             /\ UNCHANGED <<utpc, utpanic>>
  /\ UNCHANGED <<scratch, archive, append_sector, appended, stray, boots, extracted>>

\* The header of the file that is appended; block_write panics past the end of the device.
fsutil_append(name) ==
  /\ Running /\ utpc = "idle" /\ extracted' = FALSE
  /\ IF name \notin DOMAIN files \/ ~ OnScratch(append_sector)
     THEN PANIC /\ UNCHANGED <<scratch, utpc, cur, append_sector>>
     ELSE /\ scratch' = [scratch EXCEPT ![append_sector] =
                           Header("regular", name, Len(files[name]))]
          /\ append_sector' = append_sector + 1
          /\ cur' = [name |-> name, left |-> Len(files[name]), bytes |-> <<>>]
          /\ UtGoto("write") /\ UNCHANGED utpanic
  /\ UNCHANGED <<archive, files, extract_sector, appended, stray, boots>>
Padded(bytes) == [i \in 1 .. SectorBytes |-> IF i <= Len(bytes) THEN bytes[i] ELSE 0]
\* The end mark: the second block_write goes to the same sector, from one byte further.
EndMark == IF stray THEN [kind |-> "other"] ELSE Zeros
NextSector == append_sector + 1
append_data ==
  /\ Running /\ utpc = "write"
  /\ IF ~ OnScratch(append_sector)
     THEN PANIC /\ UNCHANGED <<scratch, utpc, cur, append_sector, appended>>
     ELSE IF cur.left > 0
     THEN LET n == ChunkSize(cur.left)
              done == Len(cur.bytes)
              bytes == SubSeq(files[cur.name], done + 1, done + n)
          IN /\ scratch' = [scratch EXCEPT ![append_sector] = Data(Padded(bytes))]
             /\ append_sector' = NextSector
             /\ cur' = [cur EXCEPT !.left = @ - n, !.bytes = @ \o bytes]
             /\ UNCHANGED <<utpc, appended, utpanic>>
     ELSE /\ scratch' = [scratch EXCEPT ![append_sector] = EndMark]
          /\ appended' = Append(appended, cur.name) /\ UtGoto("idle")
          /\ UNCHANGED <<cur, append_sector, utpanic>>
  /\ UNCHANGED <<archive, files, extract_sector, stray, boots, extracted>>
\* The machine is switched off and started again; both devices keep their data.
reboot == /\ boots < MaxBoots /\ boots' = boots + 1 /\ utpc' = "idle" /\ cur' = NoFile
          /\ extract_sector' = 1 /\ append_sector' = 1 /\ appended' = <<>> /\ utpanic' = FALSE
          /\ UNCHANGED <<scratch, archive, files, stray, extracted>>
UtNext == \/ fsutil_extract \/ extract_header \/ extract_erase \/ extract_data \/ append_data \/ reboot
          \/ \E n \in FileNames : fsutil_append(n)
UtSpec == UtInit /\ [][UtNext]_utVars
---------------------------------------------------------------------------
RECURSIVE Listing(_, _)
Listing(dev, s) ==
  IF s > Len(dev) \/ dev[s].kind # "header" THEN <<>>
  ELSE LET h == dev[s]
           n == IF h.type = "directory" THEN 0 ELSE (h.size + SectorBytes - 1) \div SectorBytes
           byte(i) == LET t == s + 1 + (i - 1) \div SectorBytes
                      IN IF t <= Len(dev) /\ dev[t].kind = "data"
                         THEN dev[t].bytes[((i - 1) % SectorBytes) + 1] ELSE -1
       IN (IF h.type = "directory" THEN <<>> ELSE <<<<h.name, [i \in 1 .. h.size |-> byte(i)]>>>>)
            \o Listing(dev, s + n + 1)
\* Once extract has come to its end, the file system holds every regular file of the archive
\* that it read, with all of its bytes, whatever boots, extractions and appends came before.
ExtractsAll ==
  extracted => \A i \in DOMAIN Listing(archive, 1) :
                 LET f == Listing(archive, 1)[i] IN f[1] \in DOMAIN files /\ files[f[1]] = f[2]
\* "Erase the ustar header ... so that the extraction operation is idempotent": after an
\* extraction that came to its end, and no append since, an extraction of a later boot cannot panic.
ExtractIdempotent ==
  [][extracted /\ utpc \in {"header", "copy", "erase0", "erase1"} => ~ utpanic']_utVars
\* The archive that append has written lists the appended files, in order, with their contents.
\* (The end mark after it is one sector, and not zero when the stray byte is not.)
AppendsReadable ==
  utpc = "idle" /\ appended # <<>> /\ ~ utpanic =>
    /\ LET l == Listing(scratch, 1)
       IN SubSeq(l, 1, Len(appended)) = [i \in DOMAIN appended |-> <<appended[i], files[appended[i]]>>]
    /\ ~ stray => Len(Listing(scratch, 1)) = Len(appended)

\* Archives survive the way through extract and append, over boots and power-offs.
ArchivesTransferred == [](ExtractsAll /\ AppendsReadable) /\ ExtractIdempotent
=============================================================================
