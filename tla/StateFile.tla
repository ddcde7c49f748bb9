------------------------------ MODULE StateFile ------------------------------
(***************************************************************************)
(* One durable state file: writeStateFile and readStateFile of             *)
(* src/src/runtime/state.ts, at the level of inodes and directory entries. *)
(* A write creates or truncates a temp file named after the hash of the    *)
(* path and the body, fills it, and renames it over the target.  A process *)
(* may crash between any two system calls; what it left behind stays.      *)
(*                                                                         *)
(* A body is serialised in one write call (the state files are far below   *)
(* Node's 512 KiB chunk).  Loss of power is not modelled: the code calls   *)
(* no fsync, so it promises nothing there.                                 *)
(***************************************************************************)
EXTENDS Integers, FiniteSets

CONSTANTS
  Writers,
  Readers,
  Bodies,
  BodiesOf,    \* the bodies each writer may be asked to write
  Inodes,
  NoBody, NoInode

ASSUME BodiesAssumption ==
  /\ BodiesOf \in [Writers -> SUBSET Bodies]
  /\ NoBody \notin Bodies
  /\ "OML_STATE_PARTIAL_WRITE" \notin Bodies \cup {NoBody}
ASSUME InodesAssumption == NoInode \notin Inodes

VARIABLES
  temp,      \* the temp path of each body: an inode or NoInode
  target,    \* the state file's path: an inode or NoInode
  content,   \* what each inode holds
  writer,    \* the locals of each writeStateFile
  reader     \* the locals and last result of each readStateFile

stateFileVars == <<temp, target, content, writer, reader>>

(* full: the whole envelope; otherwise the file is empty.                  *)
Contents == [body : Bodies \cup {NoBody}, full : BOOLEAN]

WriterStates == [pc : {"idle", "opened", "written"}, body : Bodies \cup {NoBody},
                 fd : Inodes \cup {NoInode}]

ReaderStates == [pc : {"idle", "open"}, fd : Inodes \cup {NoInode},
                 result : Bodies \cup {NoBody, "OML_STATE_PARTIAL_WRITE"}]

IdleWriter == [pc |-> "idle", body |-> NoBody, fd |-> NoInode]
Resting(result) == [pc |-> "idle", fd |-> NoInode, result |-> result]

FileInit ==
  /\ temp = [b \in Bodies |-> NoInode]
  /\ target = NoInode
  /\ content = [i \in Inodes |-> [body |-> NoBody, full |-> FALSE]]
  /\ writer = [w \in Writers |-> IdleWriter]
  /\ reader = [r \in Readers |-> Resting(NoBody)]

(* An inode with no name and no open descriptor may be allocated.          *)
Free(i) ==
  /\ i # target
  /\ \A b \in Bodies : temp[b] # i
  /\ \A w \in Writers : writer[w].fd # i
  /\ \A r \in Readers : reader[r].fd # i

-----------------------------------------------------------------------------
(* writeFile with flag "w": open and truncate, or create.                  *)
Open(w, b) ==
  /\ writer[w].pc = "idle"
  /\ \E i \in Inodes :
       /\ IF temp[b] = NoInode THEN Free(i) ELSE i = temp[b]
       /\ temp' = [temp EXCEPT ![b] = i]
       /\ content' = [content EXCEPT ![i] = [body |-> b, full |-> FALSE]]
       /\ writer' = [writer EXCEPT ![w] = [pc |-> "opened", body |-> b, fd |-> i]]
  /\ UNCHANGED <<target, reader>>

(* Through the descriptor, wherever its inode has been renamed to.         *)
Write(w) ==
  /\ writer[w].pc = "opened"
  /\ content' = [content EXCEPT ![writer[w].fd] = [body |-> writer[w].body, full |-> TRUE]]
  /\ writer' = [writer EXCEPT ![w].pc = "written", ![w].fd = NoInode]
  /\ UNCHANGED <<temp, target, reader>>

(* Seeded faults of Rename: the write is not awaited, an existing target   *)
(* is not replaced.                                                        *)
RenameUnawaited(w) ==
  /\ writer[w].pc \in {"opened", "written"}
  /\ temp[writer[w].body] # NoInode
  /\ target' = temp[writer[w].body]
  /\ temp' = [temp EXCEPT ![writer[w].body] = NoInode]
  /\ writer' = [writer EXCEPT ![w] = IdleWriter]
  /\ UNCHANGED <<content, reader>>

RenameOntoNothing(w) ==
  /\ writer[w].pc = "written"
  /\ temp[writer[w].body] # NoInode
  /\ target = NoInode
  /\ target' = temp[writer[w].body]
  /\ temp' = [temp EXCEPT ![writer[w].body] = NoInode]
  /\ writer' = [writer EXCEPT ![w] = IdleWriter]
  /\ UNCHANGED <<content, reader>>

(* By name, whichever inode the temp path names by now; if it names none,  *)
(* rename fails with ENOENT and the caller is told.                        *)
Rename(w) ==
  /\ writer[w].pc = "written"
  /\ IF temp[writer[w].body] = NoInode
       THEN UNCHANGED <<temp, target>>
       ELSE /\ target' = temp[writer[w].body]
            /\ temp' = [temp EXCEPT ![writer[w].body] = NoInode]
  /\ writer' = [writer EXCEPT ![w] = IdleWriter]
  /\ UNCHANGED <<content, reader>>

(* The process dies, or an I/O error is thrown: the temp file stays.       *)
Crash(w) ==
  /\ writer[w].pc # "idle"
  /\ writer' = [writer EXCEPT ![w] = IdleWriter]
  /\ UNCHANGED <<temp, target, content, reader>>

-----------------------------------------------------------------------------
(* readFile opens the target and reads its inode.  A missing target is an  *)
(* error that changes nothing.                                             *)
OpenRead(r) ==
  /\ reader[r].pc = "idle"
  /\ target # NoInode
  /\ reader' = [reader EXCEPT ![r] = [pc |-> "open", fd |-> target, result |-> NoBody]]
  /\ UNCHANGED <<temp, target, content, writer>>

(* An empty file is not JSON, and readStateFile says so.                   *)
Parsed(i) == IF content[i].full THEN content[i].body ELSE "OML_STATE_PARTIAL_WRITE"

FinishRead(r) ==
  /\ reader[r].pc = "open"
  /\ reader' = [reader EXCEPT ![r] = Resting(Parsed(reader[r].fd))]
  /\ UNCHANGED <<temp, target, content, writer>>

FileNext ==
  \/ \E w \in Writers :
       \/ \E b \in BodiesOf[w] : Open(w, b)
       \/ Write(w)
       \/ Rename(w)
       \/ Crash(w)
  \/ \E r \in Readers : OpenRead(r) \/ FinishRead(r)

(* System calls return.                                                    *)
FileFairness ==
  /\ \A w \in Writers : WF_stateFileVars(Write(w) \/ Rename(w))
  /\ \A r \in Readers : WF_stateFileVars(FinishRead(r))

FileSpec == FileInit /\ [][FileNext]_stateFileVars /\ FileFairness

-----------------------------------------------------------------------------
FileTypeOK ==
  /\ temp \in [Bodies -> Inodes \cup {NoInode}]
  /\ target \in Inodes \cup {NoInode}
  /\ content \in [Inodes -> Contents]
  /\ writer \in [Writers -> WriterStates]
  /\ reader \in [Readers -> ReaderStates]

(* No reader is ever told the file is torn, at whatever point of a write   *)
(* it opens the file, and whatever crashed before (state.ts:59-60).        *)
ReadsNeverTorn == \A r \in Readers : reader[r].result # "OML_STATE_PARTIAL_WRITE"

(* A write that reached its rename puts its own body in place: no crash    *)
(* of an earlier attempt and no other writer makes rename fail or move     *)
(* another's file (state.ts:69-71).                                        *)
RenameFindsOwnBody ==
  \A w \in Writers :
    writer[w].pc = "written" =>
      /\ temp[writer[w].body] # NoInode
      /\ content[temp[writer[w].body]] = [body |-> writer[w].body, full |-> TRUE]

(* The file is one register (AtomicFile): what a read of the target would  *)
(* return now, what each writer is about to put there, and what each open  *)
(* reader will return.                                                     *)
Value == IF target = NoInode THEN NoBody ELSE Parsed(target)
Pending == [w \in Writers |-> writer[w].body]
Reading == [r \in Readers |->
              IF reader[r].pc = "open" THEN Parsed(reader[r].fd) ELSE NoBody]

Register == INSTANCE AtomicFile WITH
  value <- Value, pending <- Pending, reading <- Reading

ImplementsRegister == Register!Spec

(* Every write comes back to its caller, or its process has died.          *)
WritesReturn == \A w \in Writers : writer[w].pc # "idle" ~> writer[w].pc = "idle"

(* state.ts:59-60: "A crash between write and rename leaves the temp file, *)
(* never a torn target."                                                   *)
TargetNeverTorn == target # NoInode => content[target].full
=============================================================================
