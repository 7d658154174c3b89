----------------------------- MODULE FileStore -----------------------------
(***************************************************************************)
(* What the file system promises: names refer to files, a file keeps what   *)
(* was written to it while it has a name or a user, a new file reads as     *)
(* zeros, and a power failure loses nothing that has a name.                *)
(***************************************************************************)
EXTENDS Integers, Sequences

CONSTANTS FileNames, FileIds, FileLengths, NoId, Gone

VARIABLES
  named,    \* the file each name refers to, or NoId
  content   \* what each file holds, Gone for a file that does not exist

Exists(f) == content[f] # Gone
IsNamed(f) == \E n \in FileNames : named[n] = f
Zeros(len) == [i \in 1 .. len |-> 0]

StoreInit == /\ named = [n \in FileNames |-> NoId]
             /\ content = [f \in FileIds |-> Gone]

Create(n, f, len) ==
  /\ named[n] = NoId /\ ~ Exists(f)
  /\ named' = [named EXCEPT ![n] = f]
  /\ content' = [content EXCEPT ![f] = Zeros(len)]
\* The file stays until its last user has closed it.
Unlink(n) ==
  /\ named[n] # NoId
  /\ named' = [named EXCEPT ![n] = NoId]
  /\ UNCHANGED content
Release(f) ==
  /\ Exists(f) /\ ~ IsNamed(f)
  /\ content' = [content EXCEPT ![f] = Gone]
  /\ UNCHANGED named
Write(f) ==
  /\ Exists(f)
  /\ \E i \in 1 .. Len(content[f]) : content' = [content EXCEPT ![f][i] = 1]
  /\ UNCHANGED named
PowerOff ==
  /\ content' = [f \in FileIds |-> IF IsNamed(f) THEN content[f] ELSE Gone]
  /\ UNCHANGED named
Erase == /\ named' = [n \in FileNames |-> NoId]
         /\ content' = [f \in FileIds |-> Gone]

StoreNext ==
  \/ UNCHANGED <<named, content>>
  \/ \E n \in FileNames : Unlink(n) \/ \E f \in FileIds, len \in FileLengths : Create(n, f, len)
  \/ \E f \in FileIds : Release(f) \/ Write(f)
  \/ PowerOff \/ Erase
StoreSpec == StoreInit /\ [][StoreNext]_<<named, content>>
=============================================================================
