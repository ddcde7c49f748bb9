------------------------ MODULE DurableStateProofs -------------------------
(***************************************************************************)
(* Theorems about what survives a crash on disk: StateFile, for any number *)
(* of writers, readers, bodies and inodes, when no two writers are asked   *)
(* to write the same body; and Provision, for any tables of repositories   *)
(* and commits.                                                            *)
(*                                                                         *)
(* The inductive invariant of the first says which names and descriptors   *)
(* may share an inode and that an inode outside the temp paths is          *)
(* complete. The one of the second says that every step of the plan behind *)
(* the script still holds, and that what is half-filled is what the child  *)
(* is at or has been cut short.                                            *)
(***************************************************************************)
EXTENDS StateFile, Provision, InductionLemmas

(* The case of a store with one recorder per file: without it the target   *)
(* can be torn (run state_file_torn).                                      *)
Disjoint ==
  \A v, w \in Writers : v # w => BodiesOf[v] \cap BodiesOf[w] = {}

NamesDistinct ==
  /\ \A b, c \in Bodies : temp[b] = temp[c] /\ temp[b] # NoInode => b = c
  /\ \A b \in Bodies : temp[b] # NoInode => temp[b] # target

(* A writer's body is its own, and its temp path names the inode it fills. *)
WritersOwnTemps ==
  \A w \in Writers :
    /\ writer[w].pc # "idle" => writer[w].body \in BodiesOf[w]
    /\ writer[w].pc = "idle" => writer[w] = IdleWriter
    /\ writer[w].pc = "opened" =>
         /\ writer[w].fd # NoInode
         /\ temp[writer[w].body] = writer[w].fd
    /\ writer[w].pc = "written" =>
         /\ writer[w].fd = NoInode
         /\ temp[writer[w].body] # NoInode
         /\ content[temp[writer[w].body]] = [body |-> writer[w].body, full |-> TRUE]

Complete(i) == content[i].full /\ content[i].body \in Bodies

TargetComplete == target # NoInode => Complete(target)

ReadersSeeComplete ==
  \A r \in Readers :
    /\ reader[r].result # "OML_STATE_PARTIAL_WRITE"
    /\ reader[r].pc = "open" =>
         /\ reader[r].fd # NoInode
         /\ Complete(reader[r].fd)
         /\ \A b \in Bodies : temp[b] # reader[r].fd

IInv ==
  /\ FileTypeOK
  /\ NamesDistinct
  /\ WritersOwnTemps
  /\ TargetComplete
  /\ ReadersSeeComplete

-----------------------------------------------------------------------------
LEMMA InitIInv == FileInit => IInv
<1> SUFFICES ASSUME FileInit PROVE IInv
  OBVIOUS
<1>1. FileTypeOK
  BY DEF FileInit, FileTypeOK, Contents, WriterStates, ReaderStates, IdleWriter, Resting
<1>2. NamesDistinct /\ TargetComplete
  BY DEF FileInit, NamesDistinct, TargetComplete
<1>3. WritersOwnTemps
  BY DEF FileInit, WritersOwnTemps, IdleWriter
<1>4. ReadersSeeComplete
  BY BodiesAssumption DEF FileInit, ReadersSeeComplete, Resting
<1> QED
  BY <1>1, <1>2, <1>3, <1>4 DEF IInv

(* Another writer's body differs from the one written here.                *)
LEMMA OtherBody ==
  ASSUME Disjoint, WritersOwnTemps,
         NEW w \in Writers, NEW v \in Writers, v # w,
         NEW b \in BodiesOf[w], writer[v].pc # "idle"
  PROVE  writer[v].body # b
BY DEF Disjoint, WritersOwnTemps

LEMMA OpenIInv ==
  ASSUME Disjoint, IInv, NEW w \in Writers, NEW b \in BodiesOf[w], Open(w, b)
  PROVE  IInv'
<1> USE DEF IInv
<1>0. b \in Bodies
  BY BodiesAssumption
<1> PICK i \in Inodes :
      /\ IF temp[b] = NoInode THEN Free(i) ELSE i = temp[b]
      /\ temp' = [temp EXCEPT ![b] = i]
      /\ content' = [content EXCEPT ![i] = [body |-> b, full |-> FALSE]]
      /\ writer' = [writer EXCEPT ![w] = [pc |-> "opened", body |-> b, fd |-> i]]
  BY DEF Open
<1>u. target' = target /\ reader' = reader
  BY DEF Open
<1>1. i # target /\ i # NoInode /\ \A c \in Bodies \ {b} : temp[c] # i
  BY <1>0, InodesAssumption DEF NamesDistinct, Free
<1>2. \A r \in Readers : reader[r].pc = "open" => reader[r].fd # i
  BY <1>0 DEF ReadersSeeComplete, Free
<1>3. FileTypeOK'
  BY <1>0, <1>u DEF FileTypeOK, Contents, WriterStates
<1>4. NamesDistinct'
  BY <1>0, <1>1, <1>u DEF NamesDistinct, FileTypeOK
<1>5. TargetComplete'
  BY <1>1, <1>u DEF TargetComplete, Complete, FileTypeOK
<1>6. ReadersSeeComplete'
  <2> SUFFICES ASSUME NEW r \in Readers
               PROVE  /\ reader[r].result # "OML_STATE_PARTIAL_WRITE"
                      /\ reader[r].pc = "open" =>
                           /\ reader[r].fd # NoInode
                           /\ Complete(reader[r].fd)'
                           /\ \A c \in Bodies : temp'[c] # reader[r].fd
    BY <1>u DEF ReadersSeeComplete, Complete
  <2>1. reader[r].pc = "open" => reader[r].fd \in Inodes
    BY DEF ReadersSeeComplete, FileTypeOK, ReaderStates
  <2> QED
    BY <1>0, <1>2, <1>u, <2>1 DEF ReadersSeeComplete, Complete, FileTypeOK
<1>7. WritersOwnTemps'
  <2> SUFFICES ASSUME NEW v \in Writers
               PROVE  /\ writer'[v].pc # "idle" => writer'[v].body \in BodiesOf[v]
                      /\ writer'[v].pc = "idle" => writer'[v] = IdleWriter
                      /\ writer'[v].pc = "opened" =>
                           /\ writer'[v].fd # NoInode
                           /\ temp'[writer'[v].body] = writer'[v].fd
                      /\ writer'[v].pc = "written" =>
                           /\ writer'[v].fd = NoInode
                           /\ temp'[writer'[v].body] # NoInode
                           /\ content'[temp'[writer'[v].body]]
                                = [body |-> writer'[v].body, full |-> TRUE]
    BY DEF WritersOwnTemps
  <2>1. CASE v = w
    BY <1>0, <1>1, <2>1 DEF FileTypeOK
  <2>2. CASE v # w
    <3>1. writer'[v] = writer[v]
      BY <2>2 DEF FileTypeOK
    <3>2. writer[v].pc # "idle" =>
            /\ writer[v].body \in Bodies \ {b}
            /\ temp'[writer[v].body] = temp[writer[v].body]
            /\ temp[writer[v].body] # i
      <4> SUFFICES ASSUME writer[v].pc # "idle"
                   PROVE  writer[v].body \in Bodies \ {b}
        BY <1>0, <1>1 DEF FileTypeOK
      <4>1. writer[v].body # b
        BY <2>2, OtherBody
      <4> QED
        BY <4>1, BodiesAssumption DEF WritersOwnTemps
    <3>3. writer[v].pc = "written" => temp[writer[v].body] \in Inodes
      BY <3>2 DEF WritersOwnTemps, FileTypeOK
    <3>4. writer[v].pc = "written" =>
            content'[temp[writer[v].body]] = content[temp[writer[v].body]]
      BY <3>2, <3>3 DEF FileTypeOK
    <3> QED
      BY <3>1, <3>2, <3>4 DEF WritersOwnTemps
  <2> QED
    BY <2>1, <2>2
<1> QED
  BY <1>3, <1>4, <1>5, <1>6, <1>7

LEMMA WriteIInv ==
  ASSUME Disjoint, IInv, NEW w \in Writers, Write(w)
  PROVE  IInv'
<1> USE DEF IInv
<1> DEFINE b == writer[w].body
           i == writer[w].fd
<1>0. b \in BodiesOf[w] /\ b \in Bodies /\ i \in Inodes /\ temp[b] = i
  BY BodiesAssumption DEF Write, WritersOwnTemps, FileTypeOK, WriterStates
<1>u. /\ temp' = temp /\ target' = target /\ reader' = reader
      /\ content' = [content EXCEPT ![i] = [body |-> b, full |-> TRUE]]
      /\ writer' = [writer EXCEPT ![w].pc = "written", ![w].fd = NoInode]
      /\ writer[w].pc = "opened"
  BY DEF Write
<1>w. writer'[w] = [pc |-> "written", body |-> b, fd |-> NoInode]
  BY <1>u DEF FileTypeOK, WriterStates
<1> HIDE DEF b, i
<1>1. FileTypeOK'
  <2>1. content' \in [Inodes -> Contents]
    BY <1>0, <1>u DEF FileTypeOK, Contents
  <2>2. writer'[w] \in WriterStates
    BY <1>0, <1>w DEF WriterStates
  <2>3. writer' \in [Writers -> WriterStates]
    BY <1>u, <2>2 DEF FileTypeOK
  <2> QED
    BY <1>u, <2>1, <2>3 DEF FileTypeOK
<1>2. NamesDistinct'
  BY <1>u DEF NamesDistinct
<1>3. TargetComplete'
  BY <1>0, <1>u DEF TargetComplete, Complete, FileTypeOK
<1>4. ReadersSeeComplete'
  <2> SUFFICES ASSUME NEW r \in Readers, reader[r].pc = "open"
               PROVE  Complete(reader[r].fd)'
    BY <1>u DEF ReadersSeeComplete
  <2>1. reader[r].fd \in Inodes /\ Complete(reader[r].fd)
    BY DEF ReadersSeeComplete, FileTypeOK, ReaderStates
  <2> QED
    BY <1>0, <1>u, <2>1 DEF Complete, FileTypeOK
<1>5. WritersOwnTemps'
  <2> SUFFICES ASSUME NEW v \in Writers
               PROVE  /\ writer'[v].pc # "idle" => writer'[v].body \in BodiesOf[v]
                      /\ writer'[v].pc = "idle" => writer'[v] = IdleWriter
                      /\ writer'[v].pc = "opened" =>
                           /\ writer'[v].fd # NoInode
                           /\ temp'[writer'[v].body] = writer'[v].fd
                      /\ writer'[v].pc = "written" =>
                           /\ writer'[v].fd = NoInode
                           /\ temp'[writer'[v].body] # NoInode
                           /\ content'[temp'[writer'[v].body]]
                                = [body |-> writer'[v].body, full |-> TRUE]
    BY DEF WritersOwnTemps
  <2>1. CASE v = w
    BY <1>0, <1>u, <1>w, <2>1, InodesAssumption DEF FileTypeOK
  <2>2. CASE v # w
    <3>1. writer'[v] = writer[v]
      BY <1>u, <2>2 DEF FileTypeOK
    <3>2. writer[v].pc = "written" =>
            content'[temp[writer[v].body]] = content[temp[writer[v].body]]
      <4> SUFFICES ASSUME writer[v].pc = "written"
                   PROVE  content'[temp[writer[v].body]] = content[temp[writer[v].body]]
        OBVIOUS
      <4>1. writer[v].body # b /\ writer[v].body \in Bodies
        BY <1>0, <2>2, OtherBody, BodiesAssumption DEF WritersOwnTemps
      <4>2. temp[writer[v].body] \in Inodes \ {i}
        BY <1>0, <4>1 DEF WritersOwnTemps, NamesDistinct, FileTypeOK
      <4> QED
        BY <1>u, <4>2 DEF FileTypeOK
    <3> QED
      BY <1>u, <3>1, <3>2 DEF WritersOwnTemps
  <2> QED
    BY <2>1, <2>2
<1> QED
  BY <1>1, <1>2, <1>3, <1>4, <1>5

LEMMA RenameIInv ==
  ASSUME Disjoint, IInv, NEW w \in Writers, Rename(w)
  PROVE  IInv'
<1> USE DEF IInv
<1> DEFINE b == writer[w].body
           i == temp[b]
<1>0. /\ b \in BodiesOf[w] /\ b \in Bodies /\ i \in Inodes
      /\ content[i] = [body |-> b, full |-> TRUE]
  BY BodiesAssumption DEF Rename, WritersOwnTemps, FileTypeOK
<1>u. /\ target' = i /\ content' = content /\ reader' = reader
      /\ temp' = [temp EXCEPT ![b] = NoInode]
      /\ writer' = [writer EXCEPT ![w] = IdleWriter]
  BY <1>0, InodesAssumption DEF Rename
<1> HIDE DEF b
<1>1. FileTypeOK'
  BY <1>0, <1>u DEF FileTypeOK, WriterStates, IdleWriter
<1>2. NamesDistinct'
  BY <1>0, <1>u DEF NamesDistinct, FileTypeOK
<1>3. TargetComplete'
  BY <1>0, <1>u DEF TargetComplete, Complete
<1>4. ReadersSeeComplete'
  <2> SUFFICES ASSUME NEW r \in Readers, reader[r].pc = "open"
               PROVE  \A c \in Bodies : temp'[c] # reader[r].fd
    BY <1>u DEF ReadersSeeComplete, Complete
  <2> QED
    BY <1>0, <1>u DEF ReadersSeeComplete, FileTypeOK
<1>5. WritersOwnTemps'
  <2> SUFFICES ASSUME NEW v \in Writers
               PROVE  /\ writer'[v].pc # "idle" => writer'[v].body \in BodiesOf[v]
                      /\ writer'[v].pc = "idle" => writer'[v] = IdleWriter
                      /\ writer'[v].pc = "opened" =>
                           /\ writer'[v].fd # NoInode
                           /\ temp'[writer'[v].body] = writer'[v].fd
                      /\ writer'[v].pc = "written" =>
                           /\ writer'[v].fd = NoInode
                           /\ temp'[writer'[v].body] # NoInode
                           /\ content'[temp'[writer'[v].body]]
                                = [body |-> writer'[v].body, full |-> TRUE]
    BY DEF WritersOwnTemps
  <2>1. CASE v = w
    BY <1>u, <2>1 DEF FileTypeOK, IdleWriter
  <2>2. CASE v # w
    <3>1. writer'[v] = writer[v]
      BY <1>u, <2>2 DEF FileTypeOK
    <3>2. writer[v].pc # "idle" => temp'[writer[v].body] = temp[writer[v].body]
      <4> SUFFICES ASSUME writer[v].pc # "idle"
                   PROVE  temp'[writer[v].body] = temp[writer[v].body]
        OBVIOUS
      <4>1. writer[v].body # b /\ writer[v].body \in Bodies
        BY <1>0, <2>2, OtherBody, BodiesAssumption DEF WritersOwnTemps
      <4> QED
        BY <1>u, <4>1 DEF FileTypeOK
    <3> QED
      BY <1>u, <3>1, <3>2 DEF WritersOwnTemps
  <2> QED
    BY <2>1, <2>2
<1> QED
  BY <1>1, <1>2, <1>3, <1>4, <1>5

LEMMA NextIInv == Disjoint /\ IInv /\ [FileNext]_stateFileVars => IInv'
<1> SUFFICES ASSUME Disjoint, IInv, [FileNext]_stateFileVars PROVE IInv'
  OBVIOUS
<1>1. ASSUME NEW w \in Writers, Crash(w)
      PROVE  IInv'
  <2>1. FileTypeOK'
    BY <1>1 DEF IInv, Crash, FileTypeOK, WriterStates, IdleWriter
  <2>2. WritersOwnTemps'
    BY <1>1 DEF IInv, Crash, FileTypeOK, WritersOwnTemps, IdleWriter
  <2>3. NamesDistinct' /\ TargetComplete' /\ ReadersSeeComplete'
    BY <1>1 DEF IInv, Crash, NamesDistinct, TargetComplete,
                ReadersSeeComplete, Complete
  <2> QED
    BY <2>1, <2>2, <2>3 DEF IInv
<1>2. ASSUME NEW r \in Readers, OpenRead(r)
      PROVE  IInv'
  <2>1. FileTypeOK'
    BY <1>2 DEF IInv, OpenRead, FileTypeOK, ReaderStates
  <2>2. ReadersSeeComplete'
    BY <1>2, BodiesAssumption
    DEF IInv, OpenRead, FileTypeOK, ReadersSeeComplete, TargetComplete, Complete, NamesDistinct
  <2>3. NamesDistinct' /\ TargetComplete' /\ WritersOwnTemps'
    BY <1>2 DEF IInv, OpenRead, NamesDistinct, TargetComplete, WritersOwnTemps, Complete
  <2> QED
    BY <2>1, <2>2, <2>3 DEF IInv
<1>3. ASSUME NEW r \in Readers, FinishRead(r)
      PROVE  IInv'
  <2>0. Parsed(reader[r].fd) \in Bodies
    BY <1>3 DEF IInv, FinishRead, ReadersSeeComplete, Complete, Parsed
  <2>1. FileTypeOK'
    BY <1>3, <2>0 DEF IInv, FinishRead, FileTypeOK, ReaderStates, Resting
  <2>2. ReadersSeeComplete'
    BY <1>3, <2>0, BodiesAssumption
    DEF IInv, FinishRead, FileTypeOK, ReadersSeeComplete, Complete, Resting
  <2>3. NamesDistinct' /\ TargetComplete' /\ WritersOwnTemps'
    BY <1>3 DEF IInv, FinishRead, NamesDistinct, TargetComplete, WritersOwnTemps, Complete
  <2> QED
    BY <2>1, <2>2, <2>3 DEF IInv
<1>4. CASE UNCHANGED stateFileVars
  BY <1>4 DEF stateFileVars, IInv, FileTypeOK, NamesDistinct, TargetComplete, WritersOwnTemps,
              ReadersSeeComplete, Complete
<1> QED
  BY <1>1, <1>2, <1>3, <1>4, OpenIInv, WriteIInv, RenameIInv DEF FileNext

LEMMA IInvHolds == Disjoint /\ FileSpec => []IInv
<1>1. ASSUME Disjoint
      PROVE  FileSpec => []IInv
  BY <1>1, InitIInv, NextIInv, PTL DEF FileSpec
<1> QED
  BY <1>1

(* Every variable keeps its type.                                          *)
THEOREM TypeCorrect == Disjoint /\ FileSpec => []FileTypeOK
BY IInvHolds, PTL DEF IInv

(* No reader ever meets a torn file.                                       *)
THEOREM ReadsWhole == Disjoint /\ FileSpec => []ReadsNeverTorn
<1>1. IInv => ReadsNeverTorn
  BY DEF IInv, ReadersSeeComplete, ReadsNeverTorn
<1> QED
  BY <1>1, IInvHolds, PTL

(* A write that reached its rename always succeeds, with its own body.     *)
THEOREM RenameSucceeds == Disjoint /\ FileSpec => []RenameFindsOwnBody
<1>1. IInv => RenameFindsOwnBody
  BY DEF IInv, WritersOwnTemps, RenameFindsOwnBody
<1> QED
  BY <1>1, IInvHolds, PTL

-----------------------------------------------------------------------------
(* The refinement: Open is Begin, Rename is Commit, a crash is Abandon,    *)
(* OpenRead is Sample, FinishRead is Return, and Write changes nothing     *)
(* anyone can see.                                                         *)

(* Rewriting an inode that is neither the target nor open in a reader is   *)
(* invisible.                                                              *)
LEMMA SameView ==
  ASSUME IInv, NEW i \in Inodes, NEW c,
         target # i, \A r \in Readers : reader[r].pc = "open" => reader[r].fd # i,
         content' = [content EXCEPT ![i] = c],
         target' = target, reader' = reader
  PROVE  Value' = Value /\ Reading' = Reading
<1>1. \A j \in Inodes \ {i} : content'[j] = content[j]
  BY DEF IInv, FileTypeOK
<1>2. Value' = Value
  BY <1>1 DEF IInv, FileTypeOK, Value, Parsed
<1>3. \A r \in Readers : reader[r].pc = "open" => reader[r].fd \in Inodes \ {i}
  BY DEF IInv, FileTypeOK, ReaderStates, ReadersSeeComplete
<1> QED
  BY <1>1, <1>2, <1>3 DEF Reading, Parsed

LEMMA OpenRefines ==
  ASSUME Disjoint, IInv, NEW w \in Writers, NEW b \in BodiesOf[w], Open(w, b)
  PROVE  Register!Begin(w, b)
<1>0. b \in Bodies
  BY BodiesAssumption
<1>1. PICK i \in Inodes :
      /\ IF temp[b] = NoInode THEN Free(i) ELSE i = temp[b]
      /\ content' = [content EXCEPT ![i] = [body |-> b, full |-> FALSE]]
      /\ writer' = [writer EXCEPT ![w] = [pc |-> "opened", body |-> b, fd |-> i]]
  BY DEF Open
<1>2. target # i /\ \A r \in Readers : reader[r].pc = "open" => reader[r].fd # i
  BY <1>0, <1>1 DEF IInv, NamesDistinct, ReadersSeeComplete, Free
<1>3. Value' = Value /\ Reading' = Reading
  BY <1>1, <1>2, SameView DEF Open
<1>4. Pending' = [Pending EXCEPT ![w] = b]
  BY <1>1 DEF IInv, FileTypeOK, Pending
<1>5. writer[w] = IdleWriter
  BY DEF Open, IInv, WritersOwnTemps
<1>6. Pending[w] = NoBody
  BY <1>5 DEF IdleWriter, Pending
<1> QED
  BY <1>3, <1>4, <1>6 DEF Register!Begin

LEMMA WriteRefines ==
  ASSUME Disjoint, IInv, NEW w \in Writers, Write(w)
  PROVE  UNCHANGED Register!fileVars
<1> DEFINE i == writer[w].fd
<1>1. /\ i \in Inodes /\ temp[writer[w].body] = i /\ writer[w].body \in Bodies
  BY BodiesAssumption DEF Write, IInv, WritersOwnTemps, FileTypeOK, WriterStates
<1>2. target # i /\ \A r \in Readers : reader[r].pc = "open" => reader[r].fd # i
  BY <1>1, InodesAssumption DEF IInv, NamesDistinct, ReadersSeeComplete
<1>3. Value' = Value /\ Reading' = Reading
  BY <1>1, <1>2, SameView DEF Write
<1>4. Pending' = Pending
  BY DEF Write, IInv, FileTypeOK, WriterStates, Pending
<1> QED
  BY <1>3, <1>4 DEF Register!fileVars

LEMMA RenameRefines ==
  ASSUME Disjoint, IInv, NEW w \in Writers, Rename(w)
  PROVE  Register!Commit(w)
<1> DEFINE b == writer[w].body
<1>1. /\ b \in Bodies /\ temp[b] \in Inodes
      /\ content[temp[b]] = [body |-> b, full |-> TRUE]
  BY BodiesAssumption DEF Rename, IInv, WritersOwnTemps, FileTypeOK
<1>2. Pending[w] = b /\ b # NoBody
  BY <1>1, BodiesAssumption DEF Pending
<1>3. Value' = b
  BY <1>1, InodesAssumption DEF Rename, Value, Parsed
<1>4. Pending' = [Pending EXCEPT ![w] = NoBody]
  BY DEF Rename, IInv, FileTypeOK, Pending, IdleWriter
<1>5. Reading' = Reading
  BY DEF Rename, Reading, Parsed
<1> QED
  BY <1>2, <1>3, <1>4, <1>5 DEF Register!Commit

LEMMA AbandonRefines ==
  ASSUME IInv, NEW w \in Writers, Crash(w)
  PROVE  Register!Abandon(w)
<1>1. \A v \in Writers : writer'[v].body = IF v = w THEN NoBody ELSE writer[v].body
  BY DEF Crash, IInv, FileTypeOK, IdleWriter
<1>3. Pending' = [Pending EXCEPT ![w] = NoBody]
  BY <1>1 DEF Pending
<1>2. Value' = Value /\ Reading' = Reading
  BY DEF Crash, Value, Reading, Parsed
<1> QED
  BY <1>2, <1>3 DEF Register!Abandon

LEMMA OpenReadRefines ==
  ASSUME IInv, NEW r \in Readers, OpenRead(r)
  PROVE  Register!Sample(r)
<1>1. Value \in Bodies
  BY DEF OpenRead, IInv, TargetComplete, Complete, Value, Parsed
<1>2. Reading[r] = NoBody /\ Value # NoBody
  BY <1>1, BodiesAssumption DEF OpenRead, Reading
<1>3. Value' = Value /\ Pending' = Pending
  BY DEF OpenRead, Value, Parsed, Pending
<1>4. /\ reader'[r].pc = "open" /\ reader'[r].fd = target
      /\ \A s \in Readers \ {r} : reader'[s] = reader[s]
      /\ content' = content /\ target # NoInode
  BY DEF OpenRead, IInv, FileTypeOK
<1>6. \A s \in Readers :
        Reading'[s] = IF s = r THEN Value ELSE Reading[s]
  BY <1>4 DEF Reading, Parsed, Value
<1>5. Reading' = [Reading EXCEPT ![r] = Value]
  BY <1>6 DEF Reading
<1> QED
  BY <1>2, <1>3, <1>5 DEF Register!Sample

LEMMA FinishReadRefines ==
  ASSUME IInv, NEW r \in Readers, FinishRead(r)
  PROVE  Register!Return(r)
<1>1. Value' = Value /\ Pending' = Pending
  BY DEF FinishRead, Value, Parsed, Pending
<1>2. /\ reader'[r].pc = "idle"
      /\ \A s \in Readers \ {r} : reader'[s] = reader[s]
      /\ content' = content
  BY DEF FinishRead, IInv, FileTypeOK, Resting
<1>4. \A s \in Readers :
        Reading'[s] = IF s = r THEN NoBody ELSE Reading[s]
  BY <1>2 DEF Reading, Parsed
<1>3. Reading' = [Reading EXCEPT ![r] = NoBody]
  BY <1>4 DEF Reading
<1> QED
  BY <1>1, <1>3 DEF Register!Return

LEMMA StepRefines ==
  Disjoint /\ IInv /\ [FileNext]_stateFileVars => [Register!Next]_(Register!fileVars)
<1> SUFFICES ASSUME Disjoint, IInv, [FileNext]_stateFileVars
             PROVE  [Register!Next]_(Register!fileVars)
  OBVIOUS
<1>1. ASSUME NEW w \in Writers, NEW b \in BodiesOf[w], Open(w, b)
      PROVE  Register!Next
  BY <1>1, OpenRefines, BodiesAssumption DEF Register!Next
<1>2. ASSUME NEW w \in Writers, Write(w)
      PROVE  UNCHANGED Register!fileVars
  BY <1>2, WriteRefines
<1>3. ASSUME NEW w \in Writers, Rename(w) \/ Crash(w)
      PROVE  Register!Next
  BY <1>3, RenameRefines, AbandonRefines DEF Register!Next
<1>4. ASSUME NEW r \in Readers, OpenRead(r) \/ FinishRead(r)
      PROVE  Register!Next
  BY <1>4, OpenReadRefines, FinishReadRefines DEF Register!Next
<1>5. CASE UNCHANGED stateFileVars
  BY <1>5 DEF stateFileVars, Register!fileVars, Value, Pending, Reading, Parsed
<1> QED
  BY <1>1, <1>2, <1>3, <1>4, <1>5 DEF FileNext

(* writeStateFile and readStateFile implement one atomic register.         *)
THEOREM StateFileIsRegister == Disjoint /\ FileSpec => ImplementsRegister
<1>1. FileInit => Register!Init
  BY DEF FileInit, Register!Init, Value, Pending, Reading, IdleWriter, Resting
<1>2. ASSUME Disjoint
      PROVE  FileSpec => ImplementsRegister
  BY <1>1, <1>2, InitIInv, NextIInv, StepRefines, PTL
  DEF FileSpec, ImplementsRegister, Register!Spec
<1> QED
  BY <1>2

-----------------------------------------------------------------------------
(* Provision.  First the plans: for any tables of repositories and         *)
(* commits, a plan has every step that a green run vouches for, ends with  *)
(* its receipt, and has no step that undoes an earlier one.  What          *)
(* FlattenSeq makes of the table is known by induction (InductionLemmas).  *)

(* y makes a worktree anew that x has made or filled.                      *)
Undoes(y, x) == y.kind = "worktree" /\ x.kind \in {"worktree", "install"} /\ x.unit = y.unit

NothingUndone(p) == \A a, b \in 1..Len(p) : a < b => ~Undoes(p[b], p[a])

PlanSteps ==
  [kind : {"clone"}, unit : ReposSet]
    \cup [kind : {"commit", "archive", "worktree"}, unit : CommitsSet]
    \cup [kind : {"install"}, unit : NeedsInstall]
    \cup {PlanStep("preflight", "tools"), PlanStep("compiler", "typescript"),
          PlanStep("receipt", "receipt")}

(* Two stretches of a plan, one after the other.                           *)
LEMMA ConcatSteps ==
  ASSUME NEW s \in Seq(PlanSteps), NEW t \in Seq(PlanSteps)
  PROVE  /\ s \o t \in Seq(PlanSteps)
         /\ ToSet(s \o t) = ToSet(s) \cup ToSet(t)
         /\ NothingUndone(s) /\ NothingUndone(t)
              /\ (\A x \in ToSet(s), y \in ToSet(t) : ~Undoes(y, x)) => NothingUndone(s \o t)
<1>1. /\ s \o t \in Seq(PlanSteps)
      /\ Len(s \o t) = Len(s) + Len(t)
      /\ \A a \in 1..Len(s) : (s \o t)[a] = s[a]
      /\ \A a \in 1..Len(t) : (s \o t)[Len(s) + a] = t[a]
      /\ \A a \in 1..Len(s \o t) :
           a \in 1..Len(s) \/ (a - Len(s) \in 1..Len(t) /\ (s \o t)[a] = t[a - Len(s)])
  <2> HIDE DEF PlanSteps
  <2> QED BY ConcatMembers
<1>2. Len(s) \in Nat /\ Len(t) \in Nat /\ DOMAIN s = 1..Len(s) /\ DOMAIN t = 1..Len(t)
      /\ DOMAIN (s \o t) = 1..Len(s \o t)
  BY <1>1
<1>3. ToSet(s \o t) = ToSet(s) \cup ToSet(t)
  <2>1. ASSUME NEW a \in 1..Len(s) PROVE s[a] \in ToSet(s \o t)
    <3>1. a \in 1..Len(s \o t)
      BY <1>1, <1>2
    <3> QED BY <3>1, <1>1, <1>2 DEF ToSet
  <2>2. ASSUME NEW a \in 1..Len(t) PROVE t[a] \in ToSet(s \o t)
    <3>1. Len(s) + a \in 1..Len(s \o t)
      BY <1>1, <1>2
    <3> QED BY <3>1, <1>1, <1>2 DEF ToSet
  <2>3. ASSUME NEW a \in 1..Len(s \o t) PROVE (s \o t)[a] \in ToSet(s) \cup ToSet(t)
    BY <1>1, <1>2 DEF ToSet
  <2>4. ToSet(s) = {s[a] : a \in 1..Len(s)} /\ ToSet(t) = {t[a] : a \in 1..Len(t)}
        /\ ToSet(s \o t) = {(s \o t)[a] : a \in 1..Len(s \o t)}
    BY <1>2 DEF ToSet
  <2> QED BY <2>1, <2>2, <2>3, <2>4
<1>4. ASSUME NothingUndone(s), NothingUndone(t), \A x \in ToSet(s), y \in ToSet(t) : ~Undoes(y, x)
      PROVE  NothingUndone(s \o t)
  <2> SUFFICES ASSUME NEW a \in 1..Len(s \o t), NEW b \in 1..Len(s \o t), a < b,
                      Undoes((s \o t)[b], (s \o t)[a])
               PROVE  FALSE
    BY DEF NothingUndone
  <2>1. CASE b \in 1..Len(s)
    <3>1. a \in 1..Len(s)
      BY <2>1, <1>2
    <3> QED BY <2>1, <3>1, <1>1, <1>4 DEF NothingUndone
  <2>2. CASE a \in 1..Len(s) /\ b - Len(s) \in 1..Len(t) /\ (s \o t)[b] = t[b - Len(s)]
    <3>1. s[a] \in ToSet(s) /\ t[b - Len(s)] \in ToSet(t)
      BY <2>2, <1>2 DEF ToSet
    <3> QED BY <3>1, <2>2, <1>1, <1>4
  <2>3. CASE /\ a - Len(s) \in 1..Len(t) /\ (s \o t)[a] = t[a - Len(s)]
             /\ b - Len(s) \in 1..Len(t) /\ (s \o t)[b] = t[b - Len(s)]
    <3>1. a - Len(s) < b - Len(s)
      BY <1>2
    <3> QED BY <2>3, <3>1, <1>4 DEF NothingUndone
  <2> QED BY <1>1, <2>1, <2>2, <2>3
<1> QED BY <1>1, <1>3, <1>4


(* The steps of blocks one after the other.                                *)
LEMMA FlatSteps ==
  ASSUME NEW blocks \in Seq(Seq(PlanSteps))
  PROVE  /\ FlattenSeq(blocks) \in Seq(PlanSteps)
         /\ ToSet(FlattenSeq(blocks)) = UNION {ToSet(blocks[k]) : k \in DOMAIN blocks}
         /\ /\ \A k \in DOMAIN blocks : NothingUndone(blocks[k])
            /\ \A j, k \in DOMAIN blocks : j < k =>
                 \A x \in ToSet(blocks[j]), y \in ToSet(blocks[k]) : ~Undoes(y, x)
            => NothingUndone(FlattenSeq(blocks))
<1> DEFINE flat == FlattenSeq(blocks)
<1>1. /\ flat \in Seq(PlanSteps)
      /\ FlatMembers(flat, blocks, Len(blocks))
      /\ FlatOrder(flat, blocks, Len(blocks))
  <2> HIDE DEF PlanSteps
  <2> QED BY FlattenMembers
<1> HIDE DEF flat
<1>2. DOMAIN flat = 1..Len(flat) /\ DOMAIN blocks = 1..Len(blocks)
  BY <1>1
<1>3. \A k \in 1..Len(blocks) : DOMAIN blocks[k] = 1..Len(blocks[k])
  <2> SUFFICES ASSUME NEW k \in 1..Len(blocks) PROVE DOMAIN blocks[k] = 1..Len(blocks[k])
    OBVIOUS
  <2>1. blocks[k] \in Seq(PlanSteps)
    OBVIOUS
  <2> HIDE DEF PlanSteps
  <2> QED BY <2>1
<1>4. ToSet(flat) = UNION {ToSet(blocks[k]) : k \in DOMAIN blocks}
  <2>1. ASSUME NEW x \in ToSet(flat) PROVE \E k \in 1..Len(blocks) : x \in ToSet(blocks[k])
    <3>1. PICK a \in 1..Len(flat) : x = flat[a]
      BY <1>2 DEF ToSet
    <3>2. PICK k \in 1..Len(blocks) : \E m \in 1..Len(blocks[k]) : flat[a] = blocks[k][m]
      BY <1>1 DEF FlatMembers
    <3> QED BY <3>1, <3>2, <1>3 DEF ToSet
  <2>2. ASSUME NEW k \in 1..Len(blocks), NEW x \in ToSet(blocks[k]) PROVE x \in ToSet(flat)
    <3>1. PICK m \in 1..Len(blocks[k]) : x = blocks[k][m]
      BY <1>3 DEF ToSet
    <3>2. \E a \in 1..Len(flat) : flat[a] = blocks[k][m]
      BY <1>1 DEF FlatMembers
    <3> QED BY <3>1, <3>2, <1>2 DEF ToSet
  <2> QED BY <2>1, <2>2, <1>2
<1>5. ASSUME \A k \in DOMAIN blocks : NothingUndone(blocks[k]),
             \A j, k \in DOMAIN blocks : j < k =>
                 \A x \in ToSet(blocks[j]), y \in ToSet(blocks[k]) : ~Undoes(y, x)
      PROVE  NothingUndone(flat)
  <2> SUFFICES ASSUME NEW a \in 1..Len(flat), NEW b \in 1..Len(flat), a < b,
                      Undoes(flat[b], flat[a])
               PROVE  FALSE
    BY DEF NothingUndone
  <2>1. BlockBefore(blocks, Len(blocks), flat[a], flat[b])
    BY <1>1 DEF FlatOrder
  <2>2. PICK i \in 1..Len(blocks), j \in 1..Len(blocks) :
          \E m \in 1..Len(blocks[i]), l \in 1..Len(blocks[j]) :
             /\ flat[a] = blocks[i][m] /\ flat[b] = blocks[j][l]
             /\ i < j \/ (i = j /\ m < l)
    BY <2>1 DEF BlockBefore
  <2>3. PICK m \in 1..Len(blocks[i]), l \in 1..Len(blocks[j]) :
             /\ flat[a] = blocks[i][m] /\ flat[b] = blocks[j][l]
             /\ i < j \/ (i = j /\ m < l)
    BY <2>2
  <2>4. blocks[i][m] \in ToSet(blocks[i]) /\ blocks[j][l] \in ToSet(blocks[j])
    BY <1>3 DEF ToSet
  <2>5. CASE i < j
    BY <2>3, <2>4, <2>5, <1>2, <1>5
  <2>6. CASE i = j /\ m < l
    BY <2>3, <2>6, <1>2, <1>5 DEF NothingUndone
  <2> QED BY <2>3, <2>5, <2>6
<1> QED BY <1>1, <1>4, <1>5 DEF flat


(* The steps the plans are put together from.                              *)
LEMMA StepIsPlanStep ==
  /\ \A r \in ReposSet : PlanStep("clone", r) \in PlanSteps
  /\ \A c \in CommitsSet, k \in {"commit", "archive", "worktree"} : PlanStep(k, c) \in PlanSteps
  /\ \A c \in NeedsInstall : PlanStep("install", c) \in PlanSteps
  /\ \A s \in PlanSteps : s = PlanStep(s.kind, s.unit)
BY DEF PlanStep, PlanSteps

(* A single step.                                                          *)
LEMMA OneStep ==
  ASSUME NEW x \in PlanSteps
  PROVE  <<x>> \in Seq(PlanSteps) /\ ToSet(<<x>>) = {x} /\ NothingUndone(<<x>>)
<1>1. <<x>> \in Seq(PlanSteps) /\ Len(<<x>>) = 1 /\ DOMAIN <<x>> = 1..1 /\ <<x>>[1] = x
  OBVIOUS
<1>2. ToSet(<<x>>) = {<<x>>[a] : a \in 1..1}
  BY <1>1 DEF ToSet
<1>3. \A a \in 1..1 : a = 1
  OBVIOUS
<1>4. ToSet(<<x>>) = {x}
  BY <1>1, <1>2, <1>3
<1>5. NothingUndone(<<x>>)
  BY <1>1, <1>3 DEF NothingUndone
<1> QED BY <1>1, <1>4, <1>5

LEMMA NoSteps == <<>> \in Seq(PlanSteps) /\ ToSet(<<>>) = {} /\ NothingUndone(<<>>)
  BY DEF ToSet, NothingUndone

(* The clones, for any table of repositories.                              *)
LEMMA CloneSteps ==
  /\ Steps("clone", Repos) \in Seq(PlanSteps)
  /\ ToSet(Steps("clone", Repos)) = {PlanStep("clone", r) : r \in ReposSet}
  /\ NothingUndone(Steps("clone", Repos))
<1> DEFINE s == Steps("clone", Repos)
<1>1. Len(Repos) \in Nat /\ DOMAIN Repos = 1..Len(Repos) /\ \A k \in DOMAIN Repos : Repos[k] \in ReposSet
  BY TablesAssumption
<1>2. s = [k \in 1..Len(Repos) |-> PlanStep("clone", Repos[k])]
  BY <1>1 DEF Steps
<1>3. \A k \in 1..Len(Repos) : PlanStep("clone", Repos[k]) \in PlanSteps
  BY <1>1, StepIsPlanStep
<1>4. s \in Seq(PlanSteps) /\ Len(s) = Len(Repos) /\ DOMAIN s = 1..Len(Repos)
  <2> HIDE DEF PlanSteps, s
  <2> QED BY <1>1, <1>2, <1>3
<1>5. ReposSet = {Repos[k] : k \in 1..Len(Repos)}
  BY <1>1 DEF ReposSet, Range
<1>6. ToSet(s) = {PlanStep("clone", Repos[k]) : k \in 1..Len(Repos)}
  <2>1. ToSet(s) = {s[k] : k \in 1..Len(Repos)}
    BY <1>4 DEF ToSet
  <2>2. \A k \in 1..Len(Repos) : s[k] = PlanStep("clone", Repos[k])
    BY <1>2
  <2> HIDE DEF s
  <2> QED BY <2>1, <2>2
<1>7. NothingUndone(s)
  <2>1. \A k \in 1..Len(s) : s[k].kind = "clone"
    BY <1>2, <1>4 DEF PlanStep
  <2> HIDE DEF s
  <2> QED BY <2>1 DEF NothingUndone, Undoes
<1> QED
  <2> HIDE DEF s
  <2>1. {PlanStep("clone", Repos[k]) : k \in 1..Len(Repos)} = {PlanStep("clone", r) : r \in ReposSet}
    BY <1>5
  <2>2. ToSet(s) = {PlanStep("clone", r) : r \in ReposSet}
    BY <1>6, <2>1
  <2> QED BY <1>4, <2>2, <1>7 DEF s

(* A commit is there and hashes as expected, in either script.             *)
LEMMA VerifiedPair ==
  ASSUME NEW c \in CommitsSet
  PROVE  /\ VerifiedSteps(c) \in Seq(PlanSteps)
         /\ ToSet(VerifiedSteps(c)) = {PlanStep("commit", c), PlanStep("archive", c)}
         /\ NothingUndone(VerifiedSteps(c))
<1> DEFINE x == PlanStep("commit", c)
           y == PlanStep("archive", c)
<1>1. x \in PlanSteps /\ y \in PlanSteps /\ x.kind = "commit" /\ y.kind = "archive"
  BY StepIsPlanStep DEF PlanStep
<1>2. VerifiedSteps(c) = <<x, y>>
  BY DEF VerifiedSteps
<1> HIDE DEF x, y
<1>3. <<x, y>> = <<x>> \o <<y>>
  <2> HIDE DEF PlanSteps
  <2> QED BY <1>1, PairIsConcat
<1>4. \A a \in ToSet(<<x>>), b \in ToSet(<<y>>) : ~Undoes(b, a)
  BY <1>1, OneStep DEF Undoes
<1>5. <<x>> \in Seq(PlanSteps) /\ <<y>> \in Seq(PlanSteps) /\ NothingUndone(<<x>>) /\ NothingUndone(<<y>>)
      /\ ToSet(<<x>>) = {x} /\ ToSet(<<y>>) = {y}
  BY <1>1, OneStep
<1>6. <<x>> \o <<y>> \in Seq(PlanSteps) /\ ToSet(<<x>> \o <<y>>) = {x} \cup {y}
      /\ NothingUndone(<<x>> \o <<y>>)
  BY <1>4, <1>5, ConcatSteps
<1> QED BY <1>2, <1>3, <1>6 DEF x, y

(* A step that only some commits have.                                     *)
LEMMA ChosenStep ==
  ASSUME NEW c \in CommitsSet, NEW chosen \in SUBSET CommitsSet, NEW kind \in {"worktree", "install"},
         kind = "install" => chosen \subseteq NeedsInstall
  PROVE  /\ StepFor(kind, c, chosen) \in Seq(PlanSteps)
         /\ ToSet(StepFor(kind, c, chosen)) = {PlanStep(kind, x) : x \in {c} \cap chosen}
         /\ NothingUndone(StepFor(kind, c, chosen))
<1>1. CASE c \in chosen
  <2>1. PlanStep(kind, c) \in PlanSteps
    BY <1>1, StepIsPlanStep
  <2>2. StepFor(kind, c, chosen) = <<PlanStep(kind, c)>>
    BY <1>1 DEF StepFor
  <2>3. {PlanStep(kind, x) : x \in {c} \cap chosen} = {PlanStep(kind, c)}
    BY <1>1
  <2> QED BY <2>1, <2>2, <2>3, OneStep
<1>2. CASE c \notin chosen
  <2>1. StepFor(kind, c, chosen) = <<>>
    BY <1>2 DEF StepFor
  <2>2. {PlanStep(kind, x) : x \in {c} \cap chosen} = {}
    BY <1>2
  <2> QED BY <2>1, <2>2, NoSteps
<1> QED BY <1>1, <1>2

(* What a plan has: the steps that a green run rests on, and its end.      *)
Covers(steps) ==
  /\ \A r \in ReposSet : PlanStep("clone", r) \in steps
  /\ \A c \in CommitsSet :
       /\ PlanStep("commit", c) \in steps /\ PlanStep("archive", c) \in steps
       /\ HasTree(c) => PlanStep("worktree", c) \in steps
       /\ HasDeps(c) => PlanStep("install", c) \in steps
  /\ variant = "gate_m" => PlanStep("compiler", "typescript") \in steps

EndsWithReceipt(p) == \A k \in 1..Len(p) : p[k].kind = "receipt" <=> k = Len(p)

(* One commit's steps, and all commits' steps, in either script.           *)
LEMMA CommitTable ==
  /\ Len(Commits) \in Nat /\ DOMAIN Commits = 1..Len(Commits)
  /\ \A k \in DOMAIN Commits : Commits[k] \in CommitsSet
  /\ CommitsSet = {Commits[k] : k \in DOMAIN Commits}
  /\ \A j, k \in DOMAIN Commits : j < k => Commits[j] # Commits[k]
  /\ NeedsInstall \subseteq CommitsSet /\ Worktrees \subseteq CommitsSet
<1>1. Len(Commits) \in Nat /\ DOMAIN Commits = 1..Len(Commits)
  BY TablesAssumption
<1>2. \A j, k \in DOMAIN Commits : j < k => Commits[j] # Commits[k]
  BY <1>1, TablesAssumption
<1> QED BY <1>1, <1>2, TablesAssumption, WorktreesAssumption DEF CommitsSet, Range

GateMBlock(c) == Append(VerifiedSteps(c), PlanStep("worktree", c))
HeldoutBlock(c) ==
  VerifiedSteps(c) \o StepFor("worktree", c, Worktrees) \o StepFor("install", c, NeedsInstall)

(* A commit of the gate-m script.                                          *)
LEMMA GateMBlockSteps ==
  ASSUME NEW c \in CommitsSet
  PROVE  /\ GateMBlock(c) \in Seq(PlanSteps)
         /\ ToSet(GateMBlock(c)) = {PlanStep(k, c) : k \in {"commit", "archive", "worktree"}}
         /\ NothingUndone(GateMBlock(c))
<1> DEFINE w == PlanStep("worktree", c)
           v == VerifiedSteps(c)
<1>1. w \in PlanSteps /\ w.kind = "worktree"
  BY StepIsPlanStep DEF PlanStep
<1>2. v \in Seq(PlanSteps) /\ ToSet(v) = {PlanStep("commit", c), PlanStep("archive", c)} /\ NothingUndone(v)
  BY VerifiedPair
<1>3. \A x \in ToSet(v) : x.kind \in {"commit", "archive"}
  BY <1>2 DEF PlanStep
<1>4. <<w>> \in Seq(PlanSteps) /\ ToSet(<<w>>) = {w} /\ NothingUndone(<<w>>)
  BY <1>1, OneStep
<1>5. \A x \in ToSet(v), y \in ToSet(<<w>>) : ~Undoes(y, x)
  BY <1>3 DEF Undoes
<1>6. Append(v, w) = v \o <<w>>
  <2> HIDE DEF v, w, PlanSteps
  <2> QED BY <1>1, <1>2
<1>7. v \o <<w>> \in Seq(PlanSteps) /\ ToSet(v \o <<w>>) = ToSet(v) \cup {w} /\ NothingUndone(v \o <<w>>)
  <2> HIDE DEF v, w
  <2> QED BY <1>2, <1>4, <1>5, ConcatSteps
<1>8. ToSet(v) \cup {w} = {PlanStep(k, c) : k \in {"commit", "archive", "worktree"}}
  BY <1>2
<1> QED BY <1>6, <1>7, <1>8 DEF GateMBlock

(* A commit of the held-out script.                                        *)
LEMMA HeldoutBlockSteps ==
  ASSUME NEW c \in CommitsSet
  PROVE  /\ HeldoutBlock(c) \in Seq(PlanSteps)
         /\ ToSet(HeldoutBlock(c)) =
              {PlanStep(k, c) : k \in {"commit", "archive"}}
                \cup {PlanStep("worktree", x) : x \in {c} \cap Worktrees}
                \cup {PlanStep("install", x) : x \in {c} \cap NeedsInstall}
         /\ NothingUndone(HeldoutBlock(c))
<1> DEFINE v == VerifiedSteps(c)
           w == StepFor("worktree", c, Worktrees)
           i == StepFor("install", c, NeedsInstall)
           W == {PlanStep("worktree", x) : x \in {c} \cap Worktrees}
           I == {PlanStep("install", x) : x \in {c} \cap NeedsInstall}
<1>1. v \in Seq(PlanSteps) /\ ToSet(v) = {PlanStep("commit", c), PlanStep("archive", c)} /\ NothingUndone(v)
  BY VerifiedPair
<1>2. w \in Seq(PlanSteps) /\ ToSet(w) = W /\ NothingUndone(w)
  BY ChosenStep, CommitTable
<1>3. i \in Seq(PlanSteps) /\ ToSet(i) = I /\ NothingUndone(i)
  BY ChosenStep, CommitTable
<1>4. /\ \A x \in ToSet(v) : x.kind \in {"commit", "archive"}
      /\ \A x \in W : x.kind = "worktree"
      /\ \A x \in I : x.kind = "install"
  BY <1>1 DEF PlanStep
<1>5. \A x \in ToSet(v), y \in ToSet(w) : ~Undoes(y, x)
  <2> HIDE DEF v, w, W
  <2> QED BY <1>2, <1>4 DEF Undoes
<1>6. v \o w \in Seq(PlanSteps) /\ ToSet(v \o w) = ToSet(v) \cup W /\ NothingUndone(v \o w)
  <2> HIDE DEF v, w, W
  <2> QED BY <1>1, <1>2, <1>5, ConcatSteps
<1>7. \A x \in ToSet(v \o w), y \in ToSet(i) : ~Undoes(y, x)
  <2> HIDE DEF v, w, W, i, I
  <2> QED BY <1>3, <1>4 DEF Undoes
<1>8. (v \o w) \o i \in Seq(PlanSteps) /\ ToSet((v \o w) \o i) = (ToSet(v) \cup W) \cup I
      /\ NothingUndone((v \o w) \o i)
  <2> HIDE DEF v, w, W, i, I
  <2> QED BY <1>3, <1>6, <1>7, ConcatSteps
<1>9. ToSet(v) = {PlanStep(k, c) : k \in {"commit", "archive"}}
  BY <1>1
<1> QED BY <1>8, <1>9 DEF HeldoutBlock


Receipt == PlanStep("receipt", "receipt")

(* Steps followed by the receipt.                                          *)
LEMMA ReceiptLast ==
  ASSUME NEW b \in Seq(PlanSteps), NothingUndone(b), \A x \in ToSet(b) : x.kind # "receipt"
  PROVE  /\ b \o <<Receipt>> \in Seq(PlanSteps)
         /\ ToSet(b \o <<Receipt>>) = ToSet(b) \cup {Receipt}
         /\ NothingUndone(b \o <<Receipt>>)
         /\ EndsWithReceipt(b \o <<Receipt>>)
         /\ Len(b \o <<Receipt>>) >= 1
<1>1. Receipt \in PlanSteps /\ Receipt.kind = "receipt"
  BY DEF Receipt, PlanSteps, PlanStep
<1>2. <<Receipt>> \in Seq(PlanSteps) /\ ToSet(<<Receipt>>) = {Receipt} /\ NothingUndone(<<Receipt>>)
  BY <1>1, OneStep
<1>3. \A x \in ToSet(b), y \in ToSet(<<Receipt>>) : ~Undoes(y, x)
  BY <1>1, <1>2 DEF Undoes
<1>4. /\ b \o <<Receipt>> \in Seq(PlanSteps)
      /\ ToSet(b \o <<Receipt>>) = ToSet(b) \cup {Receipt}
      /\ NothingUndone(b \o <<Receipt>>)
  BY <1>2, <1>3, ConcatSteps
<1>5. /\ Len(b \o <<Receipt>>) = Len(b) + 1
      /\ \A a \in 1..Len(b) : (b \o <<Receipt>>)[a] = b[a]
      /\ (b \o <<Receipt>>)[Len(b) + 1] = Receipt
  <2> DEFINE q == <<Receipt>>
  <2>1. q \in Seq(PlanSteps) /\ Len(q) = 1 /\ q[1] = Receipt
    BY <1>2
  <2> HIDE DEF PlanSteps, q
  <2>2. /\ Len(b \o q) = Len(b) + Len(q)
        /\ \A a \in 1..Len(b) : (b \o q)[a] = b[a]
        /\ \A a \in 1..Len(q) : (b \o q)[Len(b) + a] = q[a]
    BY <2>1, ConcatMembers
  <2> QED BY <2>1, <2>2 DEF q
<1>6. Len(b) \in Nat /\ \A a \in 1..Len(b) : b[a] \in ToSet(b)
  <2> HIDE DEF PlanSteps
  <2> QED BY DEF ToSet
<1>7. EndsWithReceipt(b \o <<Receipt>>)
  <2> DEFINE p == b \o <<Receipt>>
  <2> SUFFICES ASSUME NEW k \in 1..Len(p) PROVE p[k].kind = "receipt" <=> k = Len(p)
    BY DEF EndsWithReceipt
  <2>1. CASE k = Len(p)
    BY <2>1, <1>5, <1>1
  <2>2. CASE k # Len(p)
    <3>1. k \in 1..Len(b)
      BY <2>2, <1>5, <1>6
    <3>2. p[k] = b[k]
      BY <3>1, <1>5
    <3> HIDE DEF p
    <3> QED BY <3>1, <3>2, <1>6, <2>2
  <2> QED BY <2>1, <2>2
<1> QED BY <1>4, <1>5, <1>6, <1>7

(* The worktrees of a gate-m run.                                          *)
LEMMA GateMTrees ==
  LET trees == FlattenSeq([k \in DOMAIN Commits |-> GateMBlock(Commits[k])])
  IN /\ trees \in Seq(PlanSteps)
     /\ ToSet(trees) = {PlanStep(k, c) : k \in {"commit", "archive", "worktree"}, c \in CommitsSet}
     /\ NothingUndone(trees)
<1> DEFINE blocks == [k \in DOMAIN Commits |-> GateMBlock(Commits[k])]
           n == Len(Commits)
<1>1. n \in Nat /\ DOMAIN Commits = 1..n /\ \A k \in 1..n : Commits[k] \in CommitsSet
  BY CommitTable
<1>2. \A k \in 1..n : /\ GateMBlock(Commits[k]) \in Seq(PlanSteps)
                      /\ ToSet(GateMBlock(Commits[k]))
                           = {PlanStep(x, Commits[k]) : x \in {"commit", "archive", "worktree"}}
                      /\ NothingUndone(GateMBlock(Commits[k]))
  BY <1>1, GateMBlockSteps
<1>3. /\ blocks \in Seq(Seq(PlanSteps)) /\ DOMAIN blocks = 1..n
      /\ \A k \in 1..n : blocks[k] = GateMBlock(Commits[k])
  <2> HIDE DEF PlanSteps, n
  <2> QED BY <1>1, <1>2
<1> HIDE DEF blocks
<1>4. \A k \in 1..n : \A x \in ToSet(blocks[k]) : x.unit = Commits[k]
  <2> SUFFICES ASSUME NEW k \in 1..n, NEW x \in ToSet(blocks[k]) PROVE x.unit = Commits[k]
    OBVIOUS
  <2>1. PICK y \in {"commit", "archive", "worktree"} : x = PlanStep(y, Commits[k])
    BY <1>2, <1>3
  <2> QED BY <2>1 DEF PlanStep
<1>5. \A j, k \in DOMAIN blocks : j < k =>
                 \A x \in ToSet(blocks[j]), y \in ToSet(blocks[k]) : ~Undoes(y, x)
  BY <1>1, <1>3, <1>4, CommitTable DEF Undoes
<1>6. /\ FlattenSeq(blocks) \in Seq(PlanSteps)
      /\ ToSet(FlattenSeq(blocks)) = UNION {ToSet(blocks[k]) : k \in DOMAIN blocks}
      /\ NothingUndone(FlattenSeq(blocks))
  <2>1. \A k \in DOMAIN blocks : NothingUndone(blocks[k])
    BY <1>2, <1>3
  <2> QED BY <1>3, <1>5, <2>1, FlatSteps
<1>7. UNION {ToSet(blocks[k]) : k \in DOMAIN blocks}
        = {PlanStep(k, c) : k \in {"commit", "archive", "worktree"}, c \in CommitsSet}
  <2>1. \A k \in DOMAIN blocks : ToSet(blocks[k])
           = {PlanStep(x, Commits[k]) : x \in {"commit", "archive", "worktree"}}
    BY <1>2, <1>3
  <2>2. CommitsSet = {Commits[k] : k \in DOMAIN blocks}
    BY <1>1, <1>3, CommitTable
  <2> QED BY <2>1, <2>2
<1> QED BY <1>6, <1>7 DEF blocks

(* The installs of a gate-m run.                                           *)
LEMMA GateMInstalls ==
  LET installs == FlattenSeq([k \in DOMAIN Commits |-> StepFor("install", Commits[k], NeedsInstall)])
  IN /\ installs \in Seq(PlanSteps)
     /\ ToSet(installs) = {PlanStep("install", c) : c \in NeedsInstall}
     /\ NothingUndone(installs)
<1> DEFINE blocks == [k \in DOMAIN Commits |-> StepFor("install", Commits[k], NeedsInstall)]
           n == Len(Commits)
<1>1. n \in Nat /\ DOMAIN Commits = 1..n /\ \A k \in 1..n : Commits[k] \in CommitsSet
  BY CommitTable
<1>2. \A k \in 1..n : /\ StepFor("install", Commits[k], NeedsInstall) \in Seq(PlanSteps)
                      /\ ToSet(StepFor("install", Commits[k], NeedsInstall))
                           = {PlanStep("install", x) : x \in {Commits[k]} \cap NeedsInstall}
                      /\ NothingUndone(StepFor("install", Commits[k], NeedsInstall))
  <2>1. NeedsInstall \in SUBSET CommitsSet
    BY CommitTable
  <2> QED BY <1>1, <2>1, ChosenStep
<1>3. /\ blocks \in Seq(Seq(PlanSteps)) /\ DOMAIN blocks = 1..n
      /\ \A k \in 1..n : blocks[k] = StepFor("install", Commits[k], NeedsInstall)
  <2> HIDE DEF PlanSteps, n
  <2> QED BY <1>1, <1>2
<1> HIDE DEF blocks
<1>4. \A k \in 1..n : \A x \in ToSet(blocks[k]) : x.kind = "install"
  BY <1>2, <1>3 DEF PlanStep
<1>5. \A j, k \in DOMAIN blocks : j < k =>
                 \A x \in ToSet(blocks[j]), y \in ToSet(blocks[k]) : ~Undoes(y, x)
  BY <1>3, <1>4 DEF Undoes
<1>6. /\ FlattenSeq(blocks) \in Seq(PlanSteps)
      /\ ToSet(FlattenSeq(blocks)) = UNION {ToSet(blocks[k]) : k \in DOMAIN blocks}
      /\ NothingUndone(FlattenSeq(blocks))
  <2>1. \A k \in DOMAIN blocks : NothingUndone(blocks[k])
    BY <1>2, <1>3
  <2> QED BY <1>3, <1>5, <2>1, FlatSteps
<1>7. UNION {ToSet(blocks[k]) : k \in DOMAIN blocks} = {PlanStep("install", c) : c \in NeedsInstall}
  <2>1. \A k \in DOMAIN blocks : ToSet(blocks[k])
           = {PlanStep("install", x) : x \in {Commits[k]} \cap NeedsInstall}
    BY <1>2, <1>3
  <2>2. CommitsSet = {Commits[k] : k \in DOMAIN blocks} /\ NeedsInstall \subseteq CommitsSet
    BY <1>1, <1>3, CommitTable
  <2> QED BY <2>1, <2>2
<1> QED BY <1>6, <1>7 DEF blocks

(* The commits of a held-out run.                                          *)
LEMMA HeldoutCommits ==
  LET all == FlattenSeq([k \in DOMAIN Commits |-> HeldoutBlock(Commits[k])])
  IN /\ all \in Seq(PlanSteps)
     /\ \A c \in CommitsSet : PlanStep("commit", c) \in ToSet(all) /\ PlanStep("archive", c) \in ToSet(all)
     /\ \A c \in Worktrees : PlanStep("worktree", c) \in ToSet(all)
     /\ \A c \in NeedsInstall : PlanStep("install", c) \in ToSet(all)
     /\ \A x \in ToSet(all) : x.kind \in {"commit", "archive", "worktree", "install"}
     /\ NothingUndone(all)
<1> DEFINE blocks == [k \in DOMAIN Commits |-> HeldoutBlock(Commits[k])]
           n == Len(Commits)
           Of(c) == {PlanStep(k, c) : k \in {"commit", "archive"}}
                      \cup {PlanStep("worktree", x) : x \in {c} \cap Worktrees}
                      \cup {PlanStep("install", x) : x \in {c} \cap NeedsInstall}
<1>1. n \in Nat /\ DOMAIN Commits = 1..n /\ \A k \in 1..n : Commits[k] \in CommitsSet
  BY CommitTable
<1>2. \A k \in 1..n : /\ HeldoutBlock(Commits[k]) \in Seq(PlanSteps)
                      /\ ToSet(HeldoutBlock(Commits[k])) = Of(Commits[k])
                      /\ NothingUndone(HeldoutBlock(Commits[k]))
  BY <1>1, HeldoutBlockSteps
<1>3. /\ blocks \in Seq(Seq(PlanSteps)) /\ DOMAIN blocks = 1..n
      /\ \A k \in 1..n : blocks[k] = HeldoutBlock(Commits[k])
  <2> HIDE DEF PlanSteps, n, Of
  <2> QED BY <1>1, <1>2
<1> HIDE DEF blocks
<1>4. \A k \in 1..n : \A x \in ToSet(blocks[k]) : x.unit = Commits[k]
  <2> SUFFICES ASSUME NEW k \in 1..n, NEW x \in ToSet(blocks[k]) PROVE x.unit = Commits[k]
    OBVIOUS
  <2>1. x \in Of(Commits[k])
    BY <1>2, <1>3
  <2>2. \E y \in {"commit", "archive", "worktree", "install"} : x = PlanStep(y, Commits[k])
    BY <2>1
  <2> QED BY <2>2 DEF PlanStep
<1>5. \A j, k \in DOMAIN blocks : j < k =>
                 \A x \in ToSet(blocks[j]), y \in ToSet(blocks[k]) : ~Undoes(y, x)
  BY <1>1, <1>3, <1>4, CommitTable DEF Undoes
<1>6. /\ FlattenSeq(blocks) \in Seq(PlanSteps)
      /\ ToSet(FlattenSeq(blocks)) = UNION {ToSet(blocks[k]) : k \in DOMAIN blocks}
      /\ NothingUndone(FlattenSeq(blocks))
  <2>1. \A k \in DOMAIN blocks : NothingUndone(blocks[k])
    BY <1>2, <1>3
  <2> QED BY <1>3, <1>5, <2>1, FlatSteps
<1>7. \A c \in CommitsSet : Of(c) \subseteq ToSet(FlattenSeq(blocks))
  <2> SUFFICES ASSUME NEW c \in CommitsSet PROVE Of(c) \subseteq ToSet(FlattenSeq(blocks))
    OBVIOUS
  <2>1. PICK k \in 1..n : c = Commits[k]
    BY <1>1, CommitTable
  <2>2. ToSet(blocks[k]) = Of(c)
    <3>1. ToSet(blocks[k]) = Of(Commits[k])
      BY <1>2, <1>3, <2>1
    <3> HIDE DEF Of
    <3> QED BY <3>1, <2>1
  <2> HIDE DEF Of
  <2> QED BY <1>3, <1>6, <2>2
<1>8. \A c : c \in CommitsSet => PlanStep("commit", c) \in Of(c) /\ PlanStep("archive", c) \in Of(c)
  OBVIOUS
<1>9. (\A c \in Worktrees : PlanStep("worktree", c) \in Of(c))
      /\ (\A c \in NeedsInstall : PlanStep("install", c) \in Of(c))
  OBVIOUS
<1>10. ASSUME NEW x \in ToSet(FlattenSeq(blocks))
       PROVE  x.kind \in {"commit", "archive", "worktree", "install"}
  <2>1. PICK k \in 1..n : x \in ToSet(blocks[k])
    BY <1>3, <1>6
  <2>2. x \in Of(Commits[k])
    BY <1>2, <1>3, <2>1
  <2>3. \E y \in {"commit", "archive", "worktree", "install"} : x = PlanStep(y, Commits[k])
    BY <2>2
  <2> QED BY <2>3 DEF PlanStep
<1>11. NeedsInstall \subseteq CommitsSet /\ Worktrees \subseteq CommitsSet
  BY CommitTable
<1> HIDE DEF Of
<1> QED BY <1>6, <1>7, <1>8, <1>9, <1>10, <1>11 DEF blocks

(* Every green run has gone through all that it vouches for, and no step   *)
(* has undone what an earlier one did.                                     *)
PlanIsSound(p) ==
  /\ p \in Seq(PlanSteps) /\ Len(p) >= 1
  /\ EndsWithReceipt(p)
  /\ NothingUndone(p)
  /\ Covers(ToSet(p))

(* The plan of the gate-m script is sound for any tables.                  *)
LEMMA GateMPlanIsSound ==
  ASSUME variant = "gate_m"
  PROVE  PlanIsSound(GateMPlan)
<1> DEFINE s == Steps("clone", Repos)
           t == FlattenSeq([k \in DOMAIN Commits |-> GateMBlock(Commits[k])])
           i == FlattenSeq([k \in DOMAIN Commits |-> StepFor("install", Commits[k], NeedsInstall)])
           x == PlanStep("compiler", "typescript")
           b == ((s \o t) \o i) \o <<x>>
<1>1. /\ s \in Seq(PlanSteps) /\ NothingUndone(s) /\ ToSet(s) = {PlanStep("clone", r) : r \in ReposSet}
  BY CloneSteps
<1>2. /\ t \in Seq(PlanSteps) /\ NothingUndone(t)
      /\ ToSet(t) = {PlanStep(k, c) : k \in {"commit", "archive", "worktree"}, c \in CommitsSet}
  BY GateMTrees
<1>3. /\ i \in Seq(PlanSteps) /\ NothingUndone(i)
      /\ ToSet(i) = {PlanStep("install", c) : c \in NeedsInstall}
  BY GateMInstalls
<1>4. x \in PlanSteps /\ x.kind = "compiler" /\ Receipt \in PlanSteps
  BY DEF PlanSteps, PlanStep, Receipt
<1>5. <<x>> \in Seq(PlanSteps) /\ NothingUndone(<<x>>) /\ ToSet(<<x>>) = {x}
  BY <1>4, OneStep
<1>6. /\ \A y \in ToSet(s) : y.kind = "clone"
      /\ \A y \in ToSet(t) : y.kind \in {"commit", "archive", "worktree"}
      /\ \A y \in ToSet(i) : y.kind = "install"
      /\ \A y \in ToSet(<<x>>) : y.kind = "compiler"
  BY <1>1, <1>2, <1>3, <1>4, <1>5 DEF PlanStep
<1>6a. GateMPlan = b \o <<Receipt>>
  <2>1. GateMPlan = ((s \o t) \o i) \o <<x, Receipt>>
    BY DEF GateMPlan, GateMBlock, Receipt
  <2>2. <<x, Receipt>> = <<x>> \o <<Receipt>> /\ <<Receipt>> \in Seq(PlanSteps)
    <3> HIDE DEF PlanSteps, x
    <3> QED BY <1>4, PairIsConcat
  <2>3. (s \o t) \in Seq(PlanSteps)
    BY <1>1, <1>2, ConcatSteps
  <2>4. ((s \o t) \o i) \in Seq(PlanSteps)
    BY <1>3, <2>3, ConcatSteps
  <2> DEFINE u == (s \o t) \o i
             v == <<x>>
             w == <<Receipt>>
  <2>5. u \in Seq(PlanSteps) /\ v \in Seq(PlanSteps) /\ w \in Seq(PlanSteps)
    BY <2>2, <2>4, <1>5
  <2>6. u \o (v \o w) = (u \o v) \o w
    <3> HIDE DEF u, v, w, PlanSteps
    <3> QED BY <2>5, ConcatAssociative
  <2> QED BY <2>1, <2>2, <2>6
<1> HIDE DEF s, t, i, x
<1>7. s \o t \in Seq(PlanSteps) /\ ToSet(s \o t) = ToSet(s) \cup ToSet(t) /\ NothingUndone(s \o t)
  <2>1. \A y \in ToSet(s), z \in ToSet(t) : ~Undoes(z, y)
    BY <1>6 DEF Undoes
  <2> QED BY <2>1, <1>1, <1>2, ConcatSteps
<1>8. /\ (s \o t) \o i \in Seq(PlanSteps) /\ ToSet((s \o t) \o i) = (ToSet(s) \cup ToSet(t)) \cup ToSet(i)
      /\ NothingUndone((s \o t) \o i)
  <2>1. \A y \in ToSet(s \o t), z \in ToSet(i) : ~Undoes(z, y)
    BY <1>6 DEF Undoes
  <2> QED BY <2>1, <1>3, <1>7, ConcatSteps
<1>9. /\ b \in Seq(PlanSteps) /\ ToSet(b) = ((ToSet(s) \cup ToSet(t)) \cup ToSet(i)) \cup {x}
      /\ NothingUndone(b)
  <2>1. \A y \in ToSet((s \o t) \o i), z \in ToSet(<<x>>) : ~Undoes(z, y)
    BY <1>6 DEF Undoes
  <2> QED BY <2>1, <1>5, <1>8, ConcatSteps
<1> HIDE DEF b
<1>10. \A y \in ToSet(b) : y.kind # "receipt"
  BY <1>4, <1>6, <1>9
<1>11. /\ b \o <<Receipt>> \in Seq(PlanSteps)
       /\ ToSet(b \o <<Receipt>>) = ToSet(b) \cup {Receipt}
       /\ NothingUndone(b \o <<Receipt>>)
       /\ EndsWithReceipt(b \o <<Receipt>>)
       /\ Len(b \o <<Receipt>>) >= 1
  BY <1>9, <1>10, ReceiptLast
<1>12. Covers(ToSet(b) \cup {Receipt})
  <2>1. \A r \in ReposSet : PlanStep("clone", r) \in ToSet(b)
    BY <1>1, <1>9
  <2>2. \A c \in CommitsSet : /\ PlanStep("commit", c) \in ToSet(b) /\ PlanStep("archive", c) \in ToSet(b)
                            /\ PlanStep("worktree", c) \in ToSet(b)
    BY <1>2, <1>9
  <2>3. \A c \in NeedsInstall : PlanStep("install", c) \in ToSet(b)
    BY <1>3, <1>9
  <2>4. PlanStep("compiler", "typescript") \in ToSet(b)
    BY <1>9 DEF x
  <2> QED BY <2>1, <2>2, <2>3, <2>4 DEF Covers, HasDeps
<1> QED BY <1>6a, <1>11, <1>12 DEF PlanIsSound

(* The plan of the held-out script is sound for any tables.                *)
LEMMA HeldoutPlanIsSound ==
  ASSUME variant = "heldout"
  PROVE  PlanIsSound(HeldoutPlan)
<1> DEFINE s == Steps("clone", Repos)
           t == FlattenSeq([k \in DOMAIN Commits |-> HeldoutBlock(Commits[k])])
           x == PlanStep("preflight", "tools")
           b == (<<x>> \o s) \o t
<1>1. /\ s \in Seq(PlanSteps) /\ NothingUndone(s) /\ ToSet(s) = {PlanStep("clone", r) : r \in ReposSet}
  BY CloneSteps
<1>2. /\ t \in Seq(PlanSteps) /\ NothingUndone(t)
      /\ \A c \in CommitsSet : PlanStep("commit", c) \in ToSet(t) /\ PlanStep("archive", c) \in ToSet(t)
      /\ \A c \in Worktrees : PlanStep("worktree", c) \in ToSet(t)
      /\ \A c \in NeedsInstall : PlanStep("install", c) \in ToSet(t)
      /\ \A y \in ToSet(t) : y.kind \in {"commit", "archive", "worktree", "install"}
  BY HeldoutCommits
<1>4. x \in PlanSteps /\ x.kind = "preflight"
  BY DEF PlanSteps, PlanStep
<1>5. <<x>> \in Seq(PlanSteps) /\ NothingUndone(<<x>>) /\ ToSet(<<x>>) = {x}
  BY <1>4, OneStep
<1>6. /\ \A y \in ToSet(s) : y.kind = "clone"
      /\ \A y \in ToSet(<<x>>) : y.kind = "preflight"
  BY <1>1, <1>4, <1>5 DEF PlanStep
<1>6a. HeldoutPlan = b \o <<Receipt>>
  BY DEF HeldoutPlan, HeldoutBlock, Receipt
<1> HIDE DEF s, t, x
<1>7. <<x>> \o s \in Seq(PlanSteps) /\ ToSet(<<x>> \o s) = {x} \cup ToSet(s) /\ NothingUndone(<<x>> \o s)
  <2>1. \A y \in ToSet(<<x>>), z \in ToSet(s) : ~Undoes(z, y)
    BY <1>6 DEF Undoes
  <2> QED BY <2>1, <1>1, <1>5, ConcatSteps
<1>8. /\ b \in Seq(PlanSteps) /\ ToSet(b) = ({x} \cup ToSet(s)) \cup ToSet(t) /\ NothingUndone(b)
  <2>1. \A y \in ToSet(<<x>> \o s), z \in ToSet(t) : ~Undoes(z, y)
    BY <1>4, <1>6, <1>7 DEF Undoes
  <2> QED BY <2>1, <1>2, <1>7, ConcatSteps
<1> HIDE DEF b
<1>10. \A y \in ToSet(b) : y.kind # "receipt"
  BY <1>2, <1>4, <1>6, <1>8
<1>11. /\ b \o <<Receipt>> \in Seq(PlanSteps)
       /\ ToSet(b \o <<Receipt>>) = ToSet(b) \cup {Receipt}
       /\ NothingUndone(b \o <<Receipt>>)
       /\ EndsWithReceipt(b \o <<Receipt>>)
       /\ Len(b \o <<Receipt>>) >= 1
  BY <1>8, <1>10, ReceiptLast
<1>12. Covers(ToSet(b) \cup {Receipt})
  <2>1. \A r \in ReposSet : PlanStep("clone", r) \in ToSet(b)
    BY <1>1, <1>8
  <2>2. \A c \in CommitsSet : PlanStep("commit", c) \in ToSet(b) /\ PlanStep("archive", c) \in ToSet(b)
    BY <1>2, <1>8
  <2>3. /\ \A c \in Worktrees : PlanStep("worktree", c) \in ToSet(b)
        /\ \A c \in NeedsInstall : PlanStep("install", c) \in ToSet(b)
    BY <1>2, <1>8
  <2> QED BY <2>1, <2>2, <2>3 DEF Covers, HasDeps, HasTree
<1> QED BY <1>6a, <1>11, <1>12 DEF PlanIsSound

LEMMA PlanSound ==
  ASSUME variant \in Variants
  PROVE  PlanIsSound(Plan)
BY GateMPlanIsSound, HeldoutPlanIsSound DEF Plan, Variants


-----------------------------------------------------------------------------
(* The inductive invariant.                                                *)
CacheType ==
  [bare : [ReposSet -> {"absent", "partial", "whole"}],
   have : SUBSET CommitsSet,
   tree : [CommitsSet -> {"absent", "partial", "clean", "modified", "moved"}],
   deps : [CommitsSet -> {"absent", "partial", "whole"}],
   tarball : {"absent", "corrupt", "genuine"},
   compiler : {"absent", "partial", "lib", "whole"},
   receipt : {"absent", "partial", "whole"}]

Busy == {"step", "cloning", "adding", "installing", "packing", "verifying", "extracting", "writing"}

ProcType ==
  [steps : Seq(PlanSteps), doing : {"idle"} \cup Busy, offline : BOOLEAN,
   exit : {"none", "green", "killed", "tool_missing", "unavailable", "mismatch", "error"}]

ProvisionTypes ==
  /\ variant \in Variants
  /\ genuine \in SUBSET CommitsSet
  /\ cache \in CacheType
  /\ proc \in ProcType
  /\ proc.doing # "idle" => proc.exit = "none"

(* What step s has seen to, as long as nobody disturbs the cache.          *)
Done(v, g, s, c, cut) ==
  /\ s.kind = "clone" => c.bare[s.unit] # "absent"
  /\ s.kind = "commit" => s.unit \in c.have
  /\ s.kind = "archive" => s.unit \in g
  /\ s.kind = "worktree" => \/ c.tree[s.unit] = "clean"
                            \/ c.tree[s.unit] = "modified" /\ v = "heldout" /\ HasDeps(s.unit)
  /\ s.kind = "install" => c.deps[s.unit] # "absent" /\ (~cut => c.deps[s.unit] = "whole")
  /\ s.kind = "compiler" => /\ c.tarball = "genuine" /\ LibExists(c)
                            /\ ~cut => c.compiler = "whole"

(* The script is at step k of its plan, and the steps before it hold.      *)
Position(k) ==
  /\ k \in 1..Len(Plan)
  /\ proc.steps = SubSeq(Plan, k, Len(Plan))
  /\ ~disturbed => \A j \in 1..(k - 1) : Done(variant, genuine, Plan[j], cache, cutShort)

(* Something half-filled is what the child is at, or an install or an      *)
(* extraction was cut short.                                               *)
Explained(c, doing, unit, cut, d) ==
  /\ \A u \in CommitsSet : c.deps[u] = "partial" => cut \/ (doing = "installing" /\ unit = u)
  /\ c.compiler \in {"partial", "lib"} => cut \/ doing = "extracting"
  /\ doing \in {"packing", "verifying"} => c.compiler = "absent"
  /\ doing = "extracting" /\ ~d => c.tarball = "genuine"

(* A gate-m run would find everything in its place.                        *)
Reusable(c) ==
  /\ \A r \in ReposSet : c.bare[r] # "absent"
  /\ \A u \in CommitsSet : u \in c.have /\ c.tree[u] = "clean"
  /\ \A u \in NeedsInstall : c.deps[u] # "absent"
  /\ c.tarball = "genuine" /\ LibExists(c)

ProvisionInv ==
  /\ ProvisionTypes
  /\ proc.doing # "idle" => \E k \in Nat : Position(k)
  /\ Explained(cache, proc.doing, Unit, cutShort, disturbed)
  /\ GreenUndisturbed => \A s \in ToSet(Plan) : Done(variant, genuine, s, cache, cutShort)
  /\ settled /\ variant = "gate_m" =>
       Reusable(cache) /\ proc.doing \in {"idle", "step", "writing"}

(* What a step of each kind is about.                                      *)
LEMMA UnitTypes ==
  ASSUME NEW s \in PlanSteps
  PROVE  /\ s.kind = "clone" => s.unit \in ReposSet
         /\ s.kind \in {"commit", "archive", "worktree", "install"} => s.unit \in CommitsSet
         /\ s.kind = "install" => HasDeps(s.unit)
         /\ s.kind \in {"clone", "commit", "archive", "worktree", "install", "preflight",
                        "compiler", "receipt"}
BY CommitTable DEF PlanSteps, PlanStep, HasDeps

(* The step that is next, and where it stands in the plan.                 *)
AtStep(k) ==
  /\ Position(k)
  /\ Plan[k] = Head(proc.steps) /\ Plan[k] \in PlanSteps
  /\ proc.steps \in Seq(PlanSteps) /\ Tail(proc.steps) = SubSeq(Plan, k + 1, Len(Plan))
  /\ Plan[k].kind # "receipt" => k + 1 \in 1..Len(Plan)

(* The step at the head of the list is the step the script is at.          *)
LEMMA PositionIsAtStep ==
  ASSUME PlanIsSound(Plan), ProvisionTypes, NEW k \in Nat, Position(k)
  PROVE  AtStep(k)
<1>1. Plan \in Seq(PlanSteps) /\ k \in 1..Len(Plan) /\ Len(Plan) \in Nat /\ EndsWithReceipt(Plan)
      /\ proc.steps = SubSeq(Plan, k, Len(Plan))
  <2> HIDE DEF PlanSteps
  <2> QED BY DEF PlanIsSound, Position
<1>2. Plan[k] \in PlanSteps
  <2> HIDE DEF PlanSteps
  <2> QED BY <1>1
<1>3. Head(SubSeq(Plan, k, Len(Plan))) = Plan[k] /\ Tail(SubSeq(Plan, k, Len(Plan))) = SubSeq(Plan, k + 1, Len(Plan))
  <2> HIDE DEF PlanSteps
  <2> DEFINE p == Plan
             n == Len(Plan)
  <2>1. p \in Seq(PlanSteps) /\ k \in 1..n /\ n \in 1..Len(p)
    BY <1>1
  <2>2. Head(SubSeq(p, k, n)) = p[k] /\ Tail(SubSeq(p, k, n)) = SubSeq(p, k + 1, n)
    <3> HIDE DEF p, n
    <3> QED BY <2>1, HeadTailOfSubSeq
  <2> QED BY <2>2
<1>4. Plan[k].kind # "receipt" => k + 1 \in 1..Len(Plan)
  BY <1>1 DEF EndsWithReceipt
<1>5. proc.steps \in Seq(PlanSteps)
  BY DEF ProvisionTypes, ProcType
<1> QED BY <1>1, <1>2, <1>3, <1>4, <1>5 DEF AtStep

LEMMA AtIsAtStep ==
  ASSUME PlanIsSound(Plan), ProvisionInv, NEW kind, NEW doing \in Busy, At(kind, doing)
  PROVE  \E k \in Nat : AtStep(k) /\ Plan[k].kind = kind /\ Plan[k].unit = Unit
<1>1. PICK k \in Nat : Position(k)
  BY DEF ProvisionInv, At, Busy
<1>2. AtStep(k)
  BY <1>1, PositionIsAtStep DEF ProvisionInv
<1> QED BY <1>2 DEF AtStep, At, Unit


LEMMA SamePlan ==
  ASSUME variant' = variant
  PROVE  Plan' = Plan
BY DEF Plan, GateMPlan, HeldoutPlan

(* The script goes on to its next step.                                    *)
LEMMA Progress ==
  ASSUME PlanIsSound(Plan), ProvisionInv, NEW kind, NEW doing \in Busy, At(kind, doing),
         kind # "receipt", NEW c \in CacheType, Continue(c),
         ~disturbed => \A s \in PlanSteps : Done(variant, genuine, s, cache, cutShort)
                                             => Done(variant, genuine, s, c, cutShort),
         ~disturbed => Done(variant, genuine, Head(proc.steps), c, cutShort),
         \A unit : Explained(c, "step", unit, cutShort, disturbed),
         settled /\ variant = "gate_m" => Reusable(c)
  PROVE  ProvisionInv'
<1>1. PICK k \in Nat : AtStep(k) /\ Plan[k].kind = kind
  BY AtIsAtStep
<1>2. /\ cache' = c /\ proc' = [proc EXCEPT !.steps = Tail(@), !.doing = "step"]
      /\ UNCHANGED <<cutShort, settled, variant, genuine, disturbed>>
  BY DEF Continue, At
<1>3. /\ proc'.steps = Tail(proc.steps) /\ proc'.doing = "step" /\ proc'.exit = proc.exit
      /\ proc'.offline = proc.offline /\ proc.exit = "none"
  <2>1. proc.doing # "idle"
    BY DEF At, Busy
  <2> QED BY <1>2, <2>1 DEF ProvisionInv, ProvisionTypes, ProcType
<1>4. Tail(proc.steps) \in Seq(PlanSteps)
  <2>1. proc.steps \in Seq(PlanSteps) /\ Tail(proc.steps) = SubSeq(Plan, k + 1, Len(Plan))
    BY <1>1 DEF AtStep
  <2>2. Plan \in Seq(PlanSteps) /\ Len(Plan) \in Nat
    <3> HIDE DEF PlanSteps
    <3> QED BY DEF PlanIsSound
  <2>3. \A i \in (k+1)..Len(Plan) : Plan[i] \in PlanSteps
    <3> HIDE DEF PlanSteps
    <3> QED BY <2>2
  <2>4. SubSeq(Plan, k + 1, Len(Plan)) \in Seq(PlanSteps)
    <3> DEFINE p == Plan
               n == Len(Plan)
    <3>1. p \in Seq(PlanSteps) /\ n = Len(p) /\ k + 1 \in 1..(Len(p) + 1)
      BY <2>2, <1>1 DEF AtStep, Position
    <3> HIDE DEF p, n, PlanSteps
    <3>2. SubSeq(p, k + 1, n) \in Seq(PlanSteps)
      BY <3>1
    <3> QED BY <3>2 DEF p, n
  <2> QED BY <2>1, <2>4
<1>5. ProvisionTypes'
  <2>1. proc' \in ProcType
    <3> HIDE DEF PlanSteps
    <3> QED BY <1>2, <1>3, <1>4 DEF ProvisionInv, ProvisionTypes, ProcType, Busy
  <2> QED BY <1>2, <1>3, <2>1 DEF ProvisionInv, ProvisionTypes
<1>6. Plan' = Plan
  BY <1>2, SamePlan
<1>7. Position(k + 1)'
  <2>1. k + 1 \in 1..Len(Plan) /\ proc'.steps = SubSeq(Plan, k + 1, Len(Plan))
    BY <1>1, <1>3 DEF AtStep
  <2>2. ASSUME ~disturbed, NEW j \in 1..((k + 1) - 1)
        PROVE  Done(variant, genuine, Plan[j], c, cutShort)
    <3>1. CASE j = k
      BY <2>2, <3>1, <1>1 DEF AtStep
    <3>2. CASE j # k
      <4>1. j \in 1..(k - 1) /\ j \in 1..Len(Plan)
        BY <3>2, <2>1, <1>1 DEF AtStep, Position
      <4>2. Plan[j] \in PlanSteps
        <5> HIDE DEF PlanSteps
        <5> QED BY <4>1 DEF PlanIsSound
      <4>3. Done(variant, genuine, Plan[j], cache, cutShort)
        BY <2>2, <4>1, <1>1 DEF AtStep, Position
      <4> QED BY <2>2, <4>2, <4>3
    <3> QED BY <3>1, <3>2
  <2> QED BY <1>2, <1>6, <2>1, <2>2 DEF Position
<1>8. (\E i \in Nat : Position(i))'
  <2>1. k + 1 \in Nat
    OBVIOUS
  <2> QED BY <1>7, <2>1
<1>9. Explained(cache', proc'.doing, Unit', cutShort', disturbed')
  BY <1>2, <1>3
<1>10. ~GreenUndisturbed'
  BY <1>3 DEF GreenUndisturbed
<1>11. settled' /\ variant' = "gate_m" =>
       Reusable(cache') /\ proc'.doing \in {"idle", "step", "writing"}
  BY <1>2, <1>3
<1> QED BY <1>5, <1>8, <1>9, <1>10, <1>11 DEF ProvisionInv

(* The script starts or goes on with the child of its step.                *)
LEMMA ChildRuns ==
  ASSUME PlanIsSound(Plan), ProvisionInv, NEW kind, NEW doing \in Busy, At(kind, doing),
         NEW c \in CacheType, NEW next \in Busy, Child(next, c),
         ~disturbed => \A k \in Nat : AtStep(k) /\ Plan[k].kind = kind => \A j \in 1..(k - 1) :
           Plan[j] \in PlanSteps => Done(variant, genuine, Plan[j], c, cutShort),
         Explained(c, next, Unit, cutShort, disturbed),
         settled /\ variant = "gate_m" => Reusable(c) /\ next = "writing"
  PROVE  ProvisionInv'
<1>1. PICK k \in Nat : AtStep(k) /\ Plan[k].kind = kind
  BY AtIsAtStep
<1>2. /\ cache' = c /\ proc' = [proc EXCEPT !.doing = next]
      /\ UNCHANGED <<cutShort, settled, variant, genuine, disturbed>>
  BY DEF Child, At
<1>3. /\ proc'.steps = proc.steps /\ proc'.doing = next /\ proc'.exit = proc.exit
      /\ proc'.offline = proc.offline /\ proc.exit = "none"
  <2>1. proc.doing # "idle"
    BY DEF At, Busy
  <2> QED BY <1>2, <2>1 DEF ProvisionInv, ProvisionTypes, ProcType
<1>5. ProvisionTypes'
  <2>1. proc' \in ProcType
    <3> HIDE DEF PlanSteps
    <3> QED BY <1>2, <1>3 DEF ProvisionInv, ProvisionTypes, ProcType, Busy
  <2> QED BY <1>2, <1>3, <2>1 DEF ProvisionInv, ProvisionTypes
<1>6. Plan' = Plan
  BY <1>2, SamePlan
<1>7. Position(k)'
  <2>1. k \in 1..Len(Plan) /\ proc'.steps = SubSeq(Plan, k, Len(Plan))
    BY <1>1, <1>3 DEF AtStep, Position
  <2>2. ASSUME ~disturbed, NEW j \in 1..(k - 1)
        PROVE  Done(variant, genuine, Plan[j], c, cutShort)
    <3>1. j \in 1..Len(Plan)
      BY <2>1
    <3>2. Plan[j] \in PlanSteps
      <4> HIDE DEF PlanSteps
      <4> QED BY <3>1 DEF PlanIsSound
    <3> QED BY <2>2, <3>2, <1>1
  <2> QED BY <1>2, <1>6, <2>1, <2>2 DEF Position
<1>8. (\E i \in Nat : Position(i))'
  BY <1>7
<1>9. Explained(cache', proc'.doing, Unit', cutShort', disturbed')
  BY <1>2, <1>3 DEF Unit
<1>10. ~GreenUndisturbed'
  BY <1>3 DEF GreenUndisturbed, Busy
<1>11. settled' /\ variant' = "gate_m" =>
       Reusable(cache') /\ proc'.doing \in {"idle", "step", "writing"}
  BY <1>2, <1>3
<1> QED BY <1>5, <1>8, <1>9, <1>10, <1>11 DEF ProvisionInv

(* The script ends without having reached its receipt.                     *)
LEMMA Ends ==
  ASSUME ProvisionInv, UNCHANGED <<variant, genuine, disturbed>>,
         NEW code \in {"killed", "tool_missing", "unavailable", "mismatch", "error"},
         proc' = [NotRunning EXCEPT !.exit = code], cache' \in CacheType, settled' = FALSE,
         \A unit : Explained(cache', "idle", unit, cutShort', disturbed')
  PROVE  ProvisionInv'
<1>1. /\ proc'.steps = <<>> /\ proc'.doing = "idle" /\ proc'.exit = code /\ proc'.offline = FALSE
      /\ proc' = [steps |-> <<>>, doing |-> "idle", offline |-> FALSE, exit |-> code]
  BY DEF NotRunning
<1>2. proc' \in ProcType
  <2>1. <<>> \in Seq(PlanSteps)
    OBVIOUS
  <2> HIDE DEF PlanSteps
  <2> QED BY <1>1, <2>1 DEF ProcType
<1>3. ProvisionTypes'
  BY <1>1, <1>2 DEF ProvisionInv, ProvisionTypes
<1>4. ~GreenUndisturbed'
  BY <1>1 DEF GreenUndisturbed
<1>5. Explained(cache', proc'.doing, Unit', cutShort', disturbed')
  BY <1>1
<1> QED BY <1>1, <1>3, <1>4, <1>5 DEF ProvisionInv


(* What a change of one part of the cache leaves of the others.            *)
LEMMA BareChange ==
  ASSUME NEW c \in CacheType, NEW r \in ReposSet, NEW v \in {"absent", "partial", "whole"}
  PROVE  /\ [c EXCEPT !.bare[r] = v] \in CacheType
         /\ [c EXCEPT !.bare[r] = v].bare = [c.bare EXCEPT ![r] = v]
         /\ [c EXCEPT !.bare[r] = v].have = c.have /\ [c EXCEPT !.bare[r] = v].tree = c.tree
         /\ [c EXCEPT !.bare[r] = v].deps = c.deps /\ [c EXCEPT !.bare[r] = v].tarball = c.tarball
         /\ [c EXCEPT !.bare[r] = v].compiler = c.compiler
BY DEF CacheType

LEMMA HaveChange ==
  ASSUME NEW c \in CacheType, NEW more \in SUBSET CommitsSet
  PROVE  /\ [c EXCEPT !.have = @ \cup more] \in CacheType
         /\ [c EXCEPT !.have = @ \cup more].have = c.have \cup more
         /\ [c EXCEPT !.have = @ \cup more].bare = c.bare /\ [c EXCEPT !.have = @ \cup more].tree = c.tree
         /\ [c EXCEPT !.have = @ \cup more].deps = c.deps /\ [c EXCEPT !.have = @ \cup more].tarball = c.tarball
         /\ [c EXCEPT !.have = @ \cup more].compiler = c.compiler
BY DEF CacheType

LEMMA TreeChange ==
  ASSUME NEW c \in CacheType, NEW u \in CommitsSet,
         NEW v \in {"absent", "partial", "clean", "modified", "moved"}
  PROVE  /\ [c EXCEPT !.tree[u] = v] \in CacheType
         /\ [c EXCEPT !.tree[u] = v].tree = [c.tree EXCEPT ![u] = v]
         /\ [c EXCEPT !.tree[u] = v].bare = c.bare /\ [c EXCEPT !.tree[u] = v].have = c.have
         /\ [c EXCEPT !.tree[u] = v].deps = c.deps /\ [c EXCEPT !.tree[u] = v].tarball = c.tarball
         /\ [c EXCEPT !.tree[u] = v].compiler = c.compiler
BY DEF CacheType

LEMMA DepsChange ==
  ASSUME NEW c \in CacheType, NEW u \in CommitsSet, NEW v \in {"absent", "partial", "whole"}
  PROVE  /\ [c EXCEPT !.deps[u] = v] \in CacheType
         /\ [c EXCEPT !.deps[u] = v].deps = [c.deps EXCEPT ![u] = v]
         /\ [c EXCEPT !.deps[u] = v].bare = c.bare /\ [c EXCEPT !.deps[u] = v].have = c.have
         /\ [c EXCEPT !.deps[u] = v].tree = c.tree /\ [c EXCEPT !.deps[u] = v].tarball = c.tarball
         /\ [c EXCEPT !.deps[u] = v].compiler = c.compiler
BY DEF CacheType

LEMMA CompilerChange ==
  ASSUME NEW c \in CacheType, NEW v \in {"absent", "partial", "lib", "whole"}
  PROVE  /\ [c EXCEPT !.compiler = v] \in CacheType
         /\ [c EXCEPT !.compiler = v].compiler = v
         /\ [c EXCEPT !.compiler = v].bare = c.bare /\ [c EXCEPT !.compiler = v].have = c.have
         /\ [c EXCEPT !.compiler = v].tree = c.tree /\ [c EXCEPT !.compiler = v].deps = c.deps
         /\ [c EXCEPT !.compiler = v].tarball = c.tarball
BY DEF CacheType

LEMMA TarballChange ==
  ASSUME NEW c \in CacheType, NEW v \in {"absent", "corrupt", "genuine"}
  PROVE  /\ [c EXCEPT !.tarball = v] \in CacheType
         /\ [c EXCEPT !.tarball = v].tarball = v
         /\ [c EXCEPT !.tarball = v].bare = c.bare /\ [c EXCEPT !.tarball = v].have = c.have
         /\ [c EXCEPT !.tarball = v].tree = c.tree /\ [c EXCEPT !.tarball = v].deps = c.deps
         /\ [c EXCEPT !.tarball = v].compiler = c.compiler
BY DEF CacheType

LEMMA ReceiptChange ==
  ASSUME NEW c \in CacheType, NEW v \in {"absent", "partial", "whole"}
  PROVE  /\ [c EXCEPT !.receipt = v] \in CacheType
         /\ [c EXCEPT !.receipt = v].bare = c.bare /\ [c EXCEPT !.receipt = v].have = c.have
         /\ [c EXCEPT !.receipt = v].tree = c.tree /\ [c EXCEPT !.receipt = v].deps = c.deps
         /\ [c EXCEPT !.receipt = v].tarball = c.tarball /\ [c EXCEPT !.receipt = v].compiler = c.compiler
         /\ [c EXCEPT !.receipt = v].receipt = v
BY DEF CacheType

(* A worktree that is removed takes its dependencies with it.              *)
LEMMA TreeRemoved ==
  ASSUME cache \in CacheType, NEW u \in CommitsSet
  PROVE  /\ WithoutTree(u) \in CacheType
         /\ WithoutTree(u).tree = [cache.tree EXCEPT ![u] = "absent"]
         /\ WithoutTree(u).deps = [cache.deps EXCEPT ![u] = "absent"]
         /\ WithoutTree(u).bare = cache.bare /\ WithoutTree(u).have = cache.have
         /\ WithoutTree(u).tarball = cache.tarball /\ WithoutTree(u).compiler = cache.compiler
BY DEF CacheType, WithoutTree


(* A change that half-fills nothing needs no other explanation.            *)
LEMMA StillExplained ==
  ASSUME ProvisionInv, NEW c, c.compiler = cache.compiler,
         \A u \in CommitsSet : c.deps[u] = "partial" => cache.deps[u] = "partial",
         NEW next \in {"idle", "step", "cloning", "adding", "installing", "writing"},
         proc.doing \notin {"installing", "extracting"}
  PROVE  \A unit : Explained(c, next, unit, cutShort, disturbed)
BY DEF ProvisionInv, Explained

LEMMA CacheTyped ==
  ASSUME ProvisionInv
  PROVE  cache \in CacheType /\ variant \in Variants
BY DEF ProvisionInv, ProvisionTypes

(* A step that fails on the cache as it finds or leaves it.                *)
LEMMA FailsHere ==
  ASSUME ProvisionInv, NEW kind, NEW doing \in Busy \ {"installing", "extracting"}, At(kind, doing),
         NEW code \in {"tool_missing", "unavailable", "mismatch", "error"},
         NEW c \in CacheType, c.compiler = cache.compiler \/ c.compiler = "absent",
         \A u \in CommitsSet : c.deps[u] = "partial" => cache.deps[u] = "partial",
         Fail(code, c, FALSE)
  PROVE  ProvisionInv'
<1>1. /\ cache' = c /\ proc' = [NotRunning EXCEPT !.exit = code]
      /\ settled' = FALSE /\ (cutShort' <=> cutShort) /\ UNCHANGED <<variant, genuine, disturbed>>
  BY DEF Fail, At
<1>2. proc.doing = doing
  BY DEF At
<1>3. \A unit : Explained(cache', "idle", unit, cutShort', disturbed')
  BY <1>1, <1>2 DEF ProvisionInv, Explained
<1>4. code \in {"killed", "tool_missing", "unavailable", "mismatch", "error"}
  OBVIOUS
<1> QED BY <1>1, <1>3, <1>4, Ends

(* A step that finds its part of the cache in place.                       *)
LEMMA FoundInPlace ==
  ASSUME PlanIsSound(Plan), ProvisionInv, NEW kind, At(kind, "step"), kind # "receipt",
         Continue(cache),
         ~disturbed => Done(variant, genuine, Head(proc.steps), cache, cutShort)
  PROVE  ProvisionInv'
<1>1. cache \in CacheType /\ "step" \in Busy
  BY CacheTyped DEF Busy
<1>2. proc.doing = "step"
  BY DEF At
<1>3. \A unit : Explained(cache, "step", unit, cutShort, disturbed)
  BY <1>2, StillExplained
<1>4. settled /\ variant = "gate_m" => Reusable(cache)
  BY DEF ProvisionInv
<1> QED BY <1>1, <1>3, <1>4, Progress

LEMMA PreflightKeeps ==
  ASSUME PlanIsSound(Plan), ProvisionInv, Preflight
  PROVE  ProvisionInv'
<1>1. At("preflight", "step") /\ Head(proc.steps).kind = "preflight"
  BY DEF Preflight, At
<1>2. CASE Continue(cache)
  <2>1. Done(variant, genuine, Head(proc.steps), cache, cutShort)
    BY <1>1 DEF Done
  <2> QED BY <1>1, <1>2, <2>1, FoundInPlace
<1>3. CASE Fail("tool_missing", cache, FALSE)
  BY <1>1, <1>3, FailsHere, CacheTyped DEF Busy
<1> QED BY <1>2, <1>3 DEF Preflight

LEMMA StartKeeps ==
  ASSUME PlanIsSound(Plan), ProvisionInv, NEW offline \in BOOLEAN, StartRun(offline)
  PROVE  ProvisionInv'
<1>1. /\ proc.doing = "idle" /\ disturbed' = FALSE
      /\ proc' = [steps |-> Plan, doing |-> "step", offline |-> offline, exit |-> "none"]
      /\ UNCHANGED <<variant, genuine, cache, cutShort, settled>>
  BY DEF StartRun
<1>2. Plan \in Seq(PlanSteps) /\ Len(Plan) >= 1 /\ Len(Plan) \in Nat
  <2> HIDE DEF PlanSteps
  <2> QED BY DEF PlanIsSound
<1>3. ProvisionTypes'
  <2>1. proc' \in ProcType
    <3> HIDE DEF PlanSteps
    <3> QED BY <1>1, <1>2 DEF ProcType, Busy
  <2> QED BY <1>1, <2>1 DEF ProvisionInv, ProvisionTypes
<1>4. Plan' = Plan
  BY <1>1, SamePlan
<1>5. Position(1)'
  <2>1. Plan = SubSeq(Plan, 1, Len(Plan))
    <3> DEFINE p == Plan
    <3>1. p \in Seq(PlanSteps)
      BY <1>2
    <3> HIDE DEF p, PlanSteps
    <3>2. SubSeq(p, 1, Len(p)) = p
      BY <3>1, SubSeqFull
    <3> QED BY <3>2 DEF p
  <2>2. 1 \in 1..Len(Plan) /\ 1..(1 - 1) = {}
    BY <1>2
  <2> QED BY <1>1, <1>4, <2>1, <2>2 DEF Position
<1>6. (\E k \in Nat : Position(k))'
  BY <1>5
<1>7. Explained(cache', proc'.doing, Unit', cutShort', disturbed')
  BY <1>1 DEF ProvisionInv, Explained
<1>8. ~GreenUndisturbed'
  BY <1>1 DEF GreenUndisturbed
<1>9. settled' /\ variant' = "gate_m" =>
       Reusable(cache') /\ proc'.doing \in {"idle", "step", "writing"}
  BY <1>1 DEF ProvisionInv
<1> QED BY <1>3, <1>6, <1>7, <1>8, <1>9 DEF ProvisionInv

LEMMA CloneKeeps ==
  ASSUME PlanIsSound(Plan), ProvisionInv, Clone
  PROVE  ProvisionInv'
<1>1. At("clone", "step") /\ Head(proc.steps).kind = "clone" /\ proc.doing = "step"
      /\ Head(proc.steps).unit = Unit
  BY DEF Clone, At, Unit
<1>2. cache \in CacheType /\ Unit \in ReposSet /\ "step" \in Busy
  BY <1>1, CacheTyped, AtIsAtStep, UnitTypes DEF AtStep, Busy
<1>3. CASE cache.bare[Unit] # "absent" /\ Continue(cache)
  <2>1. Done(variant, genuine, Head(proc.steps), cache, cutShort)
    BY <1>1, <1>3 DEF Done
  <2> QED BY <1>1, <1>3, <2>1, FoundInPlace
<1>4. CASE Fail("unavailable", cache, FALSE)
  BY <1>1, <1>2, <1>4, FailsHere DEF Busy
<1>5. CASE cache.bare[Unit] = "absent" /\ Child("cloning", [cache EXCEPT !.bare[Unit] = "partial"])
  <2> DEFINE c == [cache EXCEPT !.bare[Unit] = "partial"]
  <2>1. /\ c \in CacheType /\ c.bare = [cache.bare EXCEPT ![Unit] = "partial"]
        /\ c.have = cache.have /\ c.tree = cache.tree /\ c.deps = cache.deps
        /\ c.tarball = cache.tarball /\ c.compiler = cache.compiler
    BY <1>2, BareChange
  <2> HIDE DEF c
  <2>2. \A s \in PlanSteps : Done(variant, genuine, s, cache, cutShort)
                               => Done(variant, genuine, s, c, cutShort)
    BY <1>2, <2>1 DEF Done, CacheType, LibExists
  <2>3. \A unit : Explained(c, "cloning", unit, cutShort, disturbed)
    BY <1>1, <2>1, StillExplained
  <2>4. ~(settled /\ variant = "gate_m")
    BY <1>2, <1>5 DEF ProvisionInv, Reusable
  <2>5. ~disturbed => \A k \in Nat : AtStep(k) /\ Plan[k].kind = "clone" => \A j \in 1..(k - 1) :
           Plan[j] \in PlanSteps => Done(variant, genuine, Plan[j], c, cutShort)
    BY <2>2 DEF AtStep, Position
  <2>6. Child("cloning", c) /\ "cloning" \in Busy
    BY <1>5 DEF c, Busy
  <2> QED BY <1>1, <1>2, <2>1, <2>3, <2>4, <2>5, <2>6, ChildRuns
<1> QED BY <1>3, <1>4, <1>5 DEF Clone


(* The script goes on with a cache that has no less than before.           *)
LEMMA GoesOn ==
  ASSUME PlanIsSound(Plan), ProvisionInv, NEW kind, NEW doing \in Busy \ {"installing", "extracting"},
         At(kind, doing), kind # "receipt", NEW c \in CacheType, Continue(c),
         \A r \in ReposSet : cache.bare[r] # "absent" => c.bare[r] # "absent",
         cache.have \subseteq c.have,
         \A u \in CommitsSet : c.tree[u] # cache.tree[u] => c.tree[u] = "clean",
         c.deps = cache.deps, c.tarball = cache.tarball, c.compiler = cache.compiler,
         ~disturbed => Done(variant, genuine, Head(proc.steps), c, cutShort)
  PROVE  ProvisionInv'
<1>1. doing \in Busy /\ proc.doing = doing
  BY DEF At
<1>2. \A s \in PlanSteps : Done(variant, genuine, s, cache, cutShort)
                               => Done(variant, genuine, s, c, cutShort)
  BY UnitTypes DEF Done, LibExists
<1>3. \A unit : Explained(c, "step", unit, cutShort, disturbed)
  BY <1>1, StillExplained
<1>4. settled /\ variant = "gate_m" => Reusable(c)
  <2> SUFFICES ASSUME settled, variant = "gate_m" PROVE Reusable(c)
    OBVIOUS
  <2>1. Reusable(cache)
    BY DEF ProvisionInv
  <2>2. \A u \in CommitsSet : u \in c.have /\ c.tree[u] = "clean"
    BY <2>1 DEF Reusable
  <2> QED BY <2>1, <2>2, WorktreesAssumption DEF Reusable, LibExists
<1> QED BY <1>1, <1>2, <1>3, <1>4, Progress

LEMMA ClonedKeeps ==
  ASSUME PlanIsSound(Plan), ProvisionInv, Cloned
  PROVE  ProvisionInv'
<1>1. At("clone", "cloning") /\ Head(proc.steps).kind = "clone" /\ proc.doing = "cloning"
      /\ Head(proc.steps).unit = Unit
  BY DEF Cloned, At, Unit
<1>2. cache \in CacheType /\ Unit \in ReposSet /\ "cloning" \in Busy \ {"installing", "extracting"}
  BY <1>1, CacheTyped, AtIsAtStep, UnitTypes DEF AtStep, Busy
<1>3. CASE Fail("unavailable", [cache EXCEPT !.bare[Unit] = "absent"], FALSE)
  <2> DEFINE c == [cache EXCEPT !.bare[Unit] = "absent"]
  <2>1. c \in CacheType /\ c.compiler = cache.compiler /\ c.deps = cache.deps
    BY <1>2, BareChange
  <2>2. Fail("unavailable", c, FALSE)
    BY <1>3
  <2> HIDE DEF c
  <2> QED BY <1>1, <1>2, <2>1, <2>2, FailsHere
<1>4. ASSUME NEW got \in SUBSET {u \in CommitsSet : RepoOf[u] = Unit},
             Continue([cache EXCEPT !.bare[Unit] = "whole", !.have = @ \cup got])
      PROVE  ProvisionInv'
  <2> DEFINE b == [cache EXCEPT !.bare[Unit] = "whole"]
             c == [cache EXCEPT !.bare[Unit] = "whole", !.have = @ \cup got]
  <2>1. /\ b \in CacheType /\ b.bare = [cache.bare EXCEPT ![Unit] = "whole"]
        /\ b.have = cache.have /\ b.tree = cache.tree /\ b.deps = cache.deps
        /\ b.tarball = cache.tarball /\ b.compiler = cache.compiler
    BY <1>2, BareChange
  <2>2. c = [b EXCEPT !.have = @ \cup got]
    BY <1>2 DEF CacheType
  <2>3. got \in SUBSET CommitsSet
    OBVIOUS
  <2>4. Continue(c)
    BY <1>4
  <2> HIDE DEF b, c
  <2>5. /\ c \in CacheType /\ c.bare = b.bare
        /\ c.have = b.have \cup got /\ c.tree = b.tree /\ c.deps = b.deps
        /\ c.tarball = b.tarball /\ c.compiler = b.compiler
    BY <2>1, <2>2, <2>3, HaveChange
  <2>6. \A r \in ReposSet : cache.bare[r] # "absent" => c.bare[r] # "absent"
    BY <1>2, <2>1, <2>5 DEF CacheType
  <2>7. Done(variant, genuine, Head(proc.steps), c, cutShort)
    BY <1>1, <1>2, <2>1, <2>5 DEF Done, CacheType
  <2>8. cache.have \subseteq c.have /\ "clone" # "receipt"
    BY <2>1, <2>5
  <2> QED BY <1>1, <1>2, <2>1, <2>4, <2>5, <2>6, <2>7, <2>8, GoesOn
<1> QED BY <1>3, <1>4 DEF Cloned

LEMMA EnsureCommitKeeps ==
  ASSUME PlanIsSound(Plan), ProvisionInv, EnsureCommit
  PROVE  ProvisionInv'
<1>1. At("commit", "step") /\ Head(proc.steps).kind = "commit" /\ proc.doing = "step"
      /\ Head(proc.steps).unit = Unit
  BY DEF EnsureCommit, At, Unit
<1>2. cache \in CacheType /\ Unit \in CommitsSet /\ "step" \in Busy \ {"installing", "extracting"}
  BY <1>1, CacheTyped, AtIsAtStep, UnitTypes DEF AtStep, Busy
<1>3. CASE Unit \in cache.have /\ Continue(cache)
  <2>1. Done(variant, genuine, Head(proc.steps), cache, cutShort)
    BY <1>1, <1>3 DEF Done
  <2> QED BY <1>1, <1>3, <2>1, FoundInPlace
<1>4. CASE Fail("unavailable", cache, FALSE)
  BY <1>1, <1>2, <1>4, FailsHere
<1>5. CASE Continue([cache EXCEPT !.have = @ \cup {Unit}])
  <2> DEFINE c == [cache EXCEPT !.have = @ \cup {Unit}]
  <2>1. /\ c \in CacheType /\ c.have = cache.have \cup {Unit}
        /\ c.bare = cache.bare /\ c.tree = cache.tree /\ c.deps = cache.deps
        /\ c.tarball = cache.tarball /\ c.compiler = cache.compiler
    BY <1>2, HaveChange
  <2>2. Continue(c)
    BY <1>5
  <2> HIDE DEF c
  <2>3. Done(variant, genuine, Head(proc.steps), c, cutShort)
    BY <1>1, <2>1 DEF Done
  <2>4. cache.have \subseteq c.have /\ "commit" # "receipt"
    BY <2>1
  <2> QED BY <1>1, <1>2, <2>1, <2>2, <2>3, <2>4, GoesOn
<1> QED BY <1>3, <1>4, <1>5 DEF EnsureCommit

LEMMA VerifyArchiveKeeps ==
  ASSUME PlanIsSound(Plan), ProvisionInv, VerifyArchive
  PROVE  ProvisionInv'
<1>1. At("archive", "step") /\ Head(proc.steps).kind = "archive" /\ proc.doing = "step"
      /\ Head(proc.steps).unit = Unit
  BY DEF VerifyArchive, At, Unit
<1>2. cache \in CacheType /\ "step" \in Busy \ {"installing", "extracting"}
  BY CacheTyped DEF Busy
<1>3. CASE Unit \in genuine /\ Continue(cache)
  <2>1. Done(variant, genuine, Head(proc.steps), cache, cutShort)
    BY <1>1, <1>3 DEF Done
  <2> QED BY <1>1, <1>3, <2>1, FoundInPlace
<1>4. CASE Fail("mismatch", cache, FALSE)
  BY <1>1, <1>2, <1>4, FailsHere
<1>5. CASE Fail("error", cache, FALSE)
  BY <1>1, <1>2, <1>5, FailsHere
<1> QED BY <1>3, <1>4, <1>5 DEF VerifyArchive

LEMMA CheckTreeKeeps ==
  ASSUME PlanIsSound(Plan), ProvisionInv, CheckTree
  PROVE  ProvisionInv'
<1>1. At("worktree", "step") /\ Head(proc.steps).kind = "worktree" /\ proc.doing = "step"
      /\ Head(proc.steps).unit = Unit
  BY DEF CheckTree, At, Unit
<1>2. cache \in CacheType /\ Unit \in CommitsSet /\ "step" \in Busy \ {"installing", "extracting"}
  BY <1>1, CacheTyped, AtIsAtStep, UnitTypes DEF AtStep, Busy
<1>3. CASE cache.tree[Unit] = "clean" /\ Continue(cache)
  <2>1. Done(variant, genuine, Head(proc.steps), cache, cutShort)
    BY <1>1, <1>3 DEF Done
  <2> QED BY <1>1, <1>3, <2>1, FoundInPlace
<1>4. CASE Fail("error", cache, FALSE)
  BY <1>1, <1>2, <1>4, FailsHere
<1>5. CASE cache.tree[Unit] # "clean"
           /\ Child("adding", [WithoutTree(Unit) EXCEPT !.tree[Unit] = "partial"])
  <2> DEFINE w == WithoutTree(Unit)
             c == [w EXCEPT !.tree[Unit] = "partial"]
  <2>1. /\ w \in CacheType
        /\ w.tree = [cache.tree EXCEPT ![Unit] = "absent"]
        /\ w.deps = [cache.deps EXCEPT ![Unit] = "absent"]
        /\ w.bare = cache.bare /\ w.have = cache.have
        /\ w.tarball = cache.tarball /\ w.compiler = cache.compiler
    BY <1>2, TreeRemoved
  <2>2. Child("adding", c) /\ "adding" \in Busy
    BY <1>5 DEF Busy
  <2> HIDE DEF w
  <2>3. /\ c \in CacheType /\ c.tree = [w.tree EXCEPT ![Unit] = "partial"]
        /\ c.bare = w.bare /\ c.have = w.have /\ c.deps = w.deps
        /\ c.tarball = w.tarball /\ c.compiler = w.compiler
    BY <1>2, <2>1, TreeChange
  <2> HIDE DEF c
  <2>4. \A u \in CommitsSet : u # Unit => c.tree[u] = cache.tree[u] /\ c.deps[u] = cache.deps[u]
    BY <1>2, <2>1, <2>3 DEF CacheType
  <2>5. c.deps[Unit] = "absent"
    BY <1>2, <2>1, <2>3 DEF CacheType
  <2>6. ASSUME ~disturbed, NEW k \in Nat, AtStep(k), Plan[k].kind = "worktree", NEW j \in 1..(k - 1),
               Plan[j] \in PlanSteps
        PROVE  Done(variant, genuine, Plan[j], c, cutShort)
    <3>1. Done(variant, genuine, Plan[j], cache, cutShort)
      BY <2>6 DEF AtStep, Position
    <3>2. ~Undoes(Plan[k], Plan[j])
      <4>1. j \in 1..Len(Plan) /\ k \in 1..Len(Plan) /\ j < k
        BY <2>6 DEF AtStep, Position
      <4> QED BY <4>1 DEF PlanIsSound, NothingUndone
    <3>3. Plan[k].unit = Unit /\ Plan[k].kind = "worktree"
      BY <2>6, <1>1 DEF AtStep
    <3>4. Plan[j].kind \in {"worktree", "install"} => Plan[j].unit # Unit /\ Plan[j].unit \in CommitsSet
      BY <3>2, <3>3, <2>6, UnitTypes DEF Undoes
    <3> QED BY <3>1, <3>4, <2>1, <2>3, <2>4 DEF Done, LibExists
  <2>7. \A unit : Explained(c, "adding", unit, cutShort, disturbed)
    <3>1. \A u \in CommitsSet : c.deps[u] = "partial" => cache.deps[u] = "partial"
      BY <2>4, <2>5
    <3> QED BY <3>1, <1>1, <2>1, <2>3, StillExplained
  <2>8. ~(settled /\ variant = "gate_m")
    BY <1>2, <1>5 DEF ProvisionInv, Reusable
  <2> QED BY <1>1, <1>2, <2>2, <2>3, <2>6, <2>7, <2>8, ChildRuns
<1> QED BY <1>3, <1>4, <1>5 DEF CheckTree

LEMMA TreeAddedKeeps ==
  ASSUME PlanIsSound(Plan), ProvisionInv, TreeAdded
  PROVE  ProvisionInv'
<1>1. At("worktree", "adding") /\ Head(proc.steps).kind = "worktree" /\ proc.doing = "adding"
      /\ Head(proc.steps).unit = Unit
  BY DEF TreeAdded, At, Unit
<1>2. cache \in CacheType /\ Unit \in CommitsSet /\ "adding" \in Busy \ {"installing", "extracting"}
  BY <1>1, CacheTyped, AtIsAtStep, UnitTypes DEF AtStep, Busy
<1>3. CASE Continue([cache EXCEPT !.tree[Unit] = "clean"])
  <2> DEFINE c == [cache EXCEPT !.tree[Unit] = "clean"]
  <2>1. /\ c \in CacheType /\ c.tree = [cache.tree EXCEPT ![Unit] = "clean"]
        /\ c.bare = cache.bare /\ c.have = cache.have /\ c.deps = cache.deps
        /\ c.tarball = cache.tarball /\ c.compiler = cache.compiler
    BY <1>2, TreeChange
  <2>2. Continue(c)
    BY <1>3
  <2> HIDE DEF c
  <2>3. \A u \in CommitsSet : c.tree[u] # cache.tree[u] => c.tree[u] = "clean"
    BY <1>2, <2>1 DEF CacheType
  <2>4. Done(variant, genuine, Head(proc.steps), c, cutShort)
    BY <1>1, <1>2, <2>1 DEF Done, CacheType
  <2>5. cache.have \subseteq c.have /\ "worktree" # "receipt"
    BY <2>1
  <2> QED BY <1>1, <1>2, <2>1, <2>2, <2>3, <2>4, <2>5, GoesOn
<1>4. ASSUME NEW left \in {"absent", "partial"}, Fail("error", [cache EXCEPT !.tree[Unit] = left], FALSE)
      PROVE  ProvisionInv'
  <2> DEFINE c == [cache EXCEPT !.tree[Unit] = left]
  <2>0. left \in {"absent", "partial", "clean", "modified", "moved"}
    BY <1>4
  <2>1. c \in CacheType /\ c.compiler = cache.compiler /\ c.deps = cache.deps
    BY <1>2, <2>0, TreeChange
  <2>2. Fail("error", c, FALSE)
    BY <1>4
  <2> HIDE DEF c
  <2> QED BY <1>1, <1>2, <2>1, <2>2, FailsHere
<1> QED BY <1>3, <1>4 DEF TreeAdded


(* A child is run, and no step that is behind the script is undone.        *)
LEMMA ChildRunsOn ==
  ASSUME PlanIsSound(Plan), ProvisionInv, NEW kind, NEW doing \in Busy, At(kind, doing),
         NEW c \in CacheType, NEW next \in Busy, Child(next, c),
         ~disturbed => \A s \in PlanSteps : Done(variant, genuine, s, cache, cutShort)
                                              => Done(variant, genuine, s, c, cutShort),
         Explained(c, next, Unit, cutShort, disturbed),
         settled /\ variant = "gate_m" => Reusable(c) /\ next = "writing"
  PROVE  ProvisionInv'
<1>1. ~disturbed => \A k \in Nat : AtStep(k) /\ Plan[k].kind = kind => \A j \in 1..(k - 1) :
        Plan[j] \in PlanSteps => Done(variant, genuine, Plan[j], c, cutShort)
  BY DEF AtStep, Position
<1> QED BY <1>1, ChildRuns

LEMMA InstallKeeps ==
  ASSUME PlanIsSound(Plan), ProvisionInv, Install
  PROVE  ProvisionInv'
<1>1. At("install", "step") /\ Head(proc.steps).kind = "install" /\ proc.doing = "step"
      /\ Head(proc.steps).unit = Unit
  BY DEF Install, At, Unit
<1>2. cache \in CacheType /\ Unit \in CommitsSet /\ HasDeps(Unit)
      /\ "step" \in Busy /\ "step" \in Busy \ {"installing", "extracting"}
  BY <1>1, CacheTyped, AtIsAtStep, UnitTypes DEF AtStep, Busy
<1>3. CASE cache.deps[Unit] # "absent" /\ Continue(cache)
  <2>1. cache.deps[Unit] \in {"absent", "partial", "whole"}
    BY <1>2 DEF CacheType
  <2>2. Explained(cache, proc.doing, Unit, cutShort, disturbed)
    BY DEF ProvisionInv
  <2>3. ~cutShort => cache.deps[Unit] = "whole"
    BY <1>1, <1>2, <1>3, <2>1, <2>2 DEF Explained
  <2>4. Done(variant, genuine, Head(proc.steps), cache, cutShort)
    BY <1>1, <1>3, <2>3 DEF Done
  <2> QED BY <1>1, <1>3, <2>4, FoundInPlace
<1>4. CASE Fail("unavailable", cache, FALSE)
  BY <1>1, <1>2, <1>4, FailsHere
<1>5. CASE cache.deps[Unit] = "absent" /\ Child("installing", [cache EXCEPT !.deps[Unit] = "partial"])
  <2> DEFINE c == [cache EXCEPT !.deps[Unit] = "partial"]
  <2>1. /\ c \in CacheType /\ c.deps = [cache.deps EXCEPT ![Unit] = "partial"]
        /\ c.bare = cache.bare /\ c.have = cache.have /\ c.tree = cache.tree
        /\ c.tarball = cache.tarball /\ c.compiler = cache.compiler
    BY <1>2, DepsChange
  <2>2. Child("installing", c) /\ "installing" \in Busy
    BY <1>5 DEF Busy
  <2> HIDE DEF c
  <2>3. \A u \in CommitsSet : u # Unit => c.deps[u] = cache.deps[u]
    BY <1>2, <2>1 DEF CacheType
  <2>4. \A s \in PlanSteps : Done(variant, genuine, s, cache, cutShort)
                               => Done(variant, genuine, s, c, cutShort)
    BY <1>5, <2>1, <2>3, UnitTypes DEF Done, LibExists
  <2>5. Explained(c, "installing", Unit, cutShort, disturbed)
    BY <1>1, <2>1, <2>3 DEF ProvisionInv, Explained
  <2>6. ~(settled /\ variant = "gate_m")
    BY <1>2, <1>5 DEF ProvisionInv, Reusable, HasDeps
  <2> QED BY <1>1, <1>2, <2>1, <2>2, <2>4, <2>5, <2>6, ChildRunsOn
<1> QED BY <1>3, <1>4, <1>5 DEF Install

LEMMA LockfileKeeps ==
  ASSUME PlanIsSound(Plan), ProvisionInv, LockfileRewritten
  PROVE  ProvisionInv'
<1>1. At("install", "installing") /\ Head(proc.steps).kind = "install" /\ proc.doing = "installing"
      /\ Head(proc.steps).unit = Unit /\ variant = "heldout" /\ cache.tree[Unit] = "clean"
  BY DEF LockfileRewritten, At, Unit
<1>2. cache \in CacheType /\ "installing" \in Busy
  BY CacheTyped DEF Busy
<1>2a. Unit \in CommitsSet /\ HasDeps(Unit)
  BY <1>1, <1>2, AtIsAtStep, UnitTypes DEF AtStep
<1> DEFINE c == [cache EXCEPT !.tree[Unit] = "modified"]
<1>3. /\ c \in CacheType /\ c.tree = [cache.tree EXCEPT ![Unit] = "modified"]
      /\ c.bare = cache.bare /\ c.have = cache.have /\ c.deps = cache.deps
      /\ c.tarball = cache.tarball /\ c.compiler = cache.compiler
  BY <1>2, <1>2a, TreeChange
<1>4. Child("installing", c)
  BY DEF LockfileRewritten
<1> HIDE DEF c
<1>5. c.tree[Unit] = "modified" /\ \A u \in CommitsSet : u # Unit => c.tree[u] = cache.tree[u]
  BY <1>2, <1>2a, <1>3 DEF CacheType
<1>6. \A s \in PlanSteps : Done(variant, genuine, s, cache, cutShort)
                               => Done(variant, genuine, s, c, cutShort)
  BY <1>1, <1>2a, <1>3, <1>5, UnitTypes DEF Done, LibExists
<1>7. Explained(c, "installing", Unit, cutShort, disturbed)
  BY <1>1, <1>3 DEF ProvisionInv, Explained
<1>8. ~(settled /\ variant = "gate_m")
  BY <1>1
<1> QED BY <1>1, <1>2, <1>3, <1>4, <1>6, <1>7, <1>8, ChildRunsOn

LEMMA InstalledKeeps ==
  ASSUME PlanIsSound(Plan), ProvisionInv, Installed
  PROVE  ProvisionInv'
<1>1. At("install", "installing") /\ Head(proc.steps).kind = "install" /\ proc.doing = "installing"
      /\ Head(proc.steps).unit = Unit
  BY DEF Installed, At, Unit
<1>2. cache \in CacheType /\ "installing" \in Busy
  BY CacheTyped DEF Busy
<1>2a. Unit \in CommitsSet
  BY <1>1, <1>2, AtIsAtStep, UnitTypes DEF AtStep
<1>3. CASE Continue([cache EXCEPT !.deps[Unit] = "whole"])
  <2> DEFINE c == [cache EXCEPT !.deps[Unit] = "whole"]
  <2>1. /\ c \in CacheType /\ c.deps = [cache.deps EXCEPT ![Unit] = "whole"]
        /\ c.bare = cache.bare /\ c.have = cache.have /\ c.tree = cache.tree
        /\ c.tarball = cache.tarball /\ c.compiler = cache.compiler
    BY <1>2, <1>2a, DepsChange
  <2>2. Continue(c)
    BY <1>3
  <2> HIDE DEF c
  <2>3. c.deps[Unit] = "whole" /\ \A u \in CommitsSet : u # Unit => c.deps[u] = cache.deps[u]
    BY <1>2, <1>2a, <2>1 DEF CacheType
  <2>4. \A s \in PlanSteps : Done(variant, genuine, s, cache, cutShort)
                               => Done(variant, genuine, s, c, cutShort)
    BY <2>1, <2>3, UnitTypes DEF Done, LibExists
  <2>5. Done(variant, genuine, Head(proc.steps), c, cutShort)
    BY <1>1, <2>3 DEF Done
  <2>6. \A unit : Explained(c, "step", unit, cutShort, disturbed)
    BY <1>1, <2>1, <2>3 DEF ProvisionInv, Explained
  <2>7. ~(settled /\ variant = "gate_m") /\ "install" # "receipt"
    BY <1>1 DEF ProvisionInv
  <2> QED BY <1>1, <1>2, <2>1, <2>2, <2>4, <2>5, <2>6, <2>7, Progress
<1>4. ASSUME NEW left \in {"absent", "partial"},
             Fail("unavailable", [cache EXCEPT !.deps[Unit] = left], TRUE)
      PROVE  ProvisionInv'
  <2> DEFINE c == [cache EXCEPT !.deps[Unit] = left]
  <2>0. left \in {"absent", "partial", "whole"}
    BY <1>4
  <2>1. c \in CacheType
    BY <1>2, <1>2a, <2>0, DepsChange
  <2>2. Fail("unavailable", c, TRUE)
    BY <1>4
  <2> HIDE DEF c
  <2>3. /\ proc' = [NotRunning EXCEPT !.exit = "unavailable"] /\ cache' = c /\ settled' = FALSE /\ cutShort'
        /\ UNCHANGED <<variant, genuine, disturbed>>
    BY <1>1, <2>2 DEF Fail, At
  <2>4. \A unit : Explained(cache', "idle", unit, cutShort', disturbed')
    BY <2>3 DEF Explained
  <2>5. "unavailable" \in {"killed", "tool_missing", "unavailable", "mismatch", "error"}
    OBVIOUS
  <2> QED BY <2>1, <2>3, <2>4, <2>5, Ends
<1> QED BY <1>3, <1>4 DEF Installed

(* A corrupt tarball goes, and nothing else is touched.                    *)
LEMMA Rechecked ==
  ASSUME cache \in CacheType
  PROVE  /\ Recheck(cache) \in CacheType
         /\ Recheck(cache).bare = cache.bare /\ Recheck(cache).have = cache.have
         /\ Recheck(cache).tree = cache.tree /\ Recheck(cache).deps = cache.deps
         /\ Recheck(cache).tarball \in {"absent", "genuine"}
         /\ cache.tarball # "corrupt" => Recheck(cache) = cache
         /\ cache.tarball = "corrupt" => Recheck(cache).compiler = "absent" /\ Recheck(cache).tarball = "absent"
BY DEF Recheck, CacheType

LEMMA CompilerKeeps ==
  ASSUME PlanIsSound(Plan), ProvisionInv, Compiler
  PROVE  ProvisionInv'
<1>1. At("compiler", "step") /\ Head(proc.steps).kind = "compiler" /\ proc.doing = "step"
  BY DEF Compiler, At
<1>2. cache \in CacheType /\ "step" \in Busy /\ "step" \in Busy \ {"installing", "extracting"}
  BY CacheTyped DEF Busy
<1> DEFINE now == Recheck(cache)
           bare == [now EXCEPT !.compiler = "absent"]
           packing == [bare EXCEPT !.tarball = "corrupt"]
<1>3. /\ now \in CacheType
      /\ now.bare = cache.bare /\ now.have = cache.have /\ now.tree = cache.tree /\ now.deps = cache.deps
      /\ now.tarball \in {"absent", "genuine"}
      /\ cache.tarball # "corrupt" => now = cache
      /\ cache.tarball = "corrupt" => now.compiler = "absent" /\ now.tarball = "absent"
  BY <1>2, Rechecked
<1>4. \/ LibExists(now) /\ now.tarball # "absent" /\ Continue(now)
      \/ ~LibExists(now) /\ now.tarball # "absent" /\ Child("verifying", bare)
      \/ now.tarball = "absent" /\ Fail("unavailable", bare, FALSE)
      \/ now.tarball = "absent" /\ Child("packing", packing)
  BY DEF Compiler
<1> HIDE DEF now
<1>5. /\ bare \in CacheType /\ bare.compiler = "absent"
      /\ bare.bare = now.bare /\ bare.have = now.have /\ bare.tree = now.tree /\ bare.deps = now.deps
      /\ bare.tarball = now.tarball
  BY <1>3, CompilerChange
<1> HIDE DEF bare
<1>6. /\ packing \in CacheType /\ packing.compiler = bare.compiler
      /\ packing.bare = bare.bare /\ packing.have = bare.have /\ packing.tree = bare.tree
      /\ packing.deps = bare.deps
  BY <1>5, TarballChange
<1> HIDE DEF packing
<1>7. CASE LibExists(now) /\ now.tarball # "absent" /\ Continue(now)
  <2>1. now = cache /\ cache.tarball = "genuine"
    BY <1>3, <1>7
  <2>2. Explained(cache, proc.doing, Unit, cutShort, disturbed)
    BY DEF ProvisionInv
  <2>3. ~cutShort => cache.compiler = "whole"
    BY <1>1, <1>7, <2>1, <2>2 DEF Explained, LibExists
  <2>4. Done(variant, genuine, Head(proc.steps), cache, cutShort)
    BY <1>1, <1>7, <2>1, <2>3 DEF Done
  <2> QED BY <1>1, <1>7, <2>1, <2>4, FoundInPlace
<1>8. ASSUME (~LibExists(now) /\ now.tarball # "absent") \/ now.tarball = "absent",
             NEW c, c = bare \/ c = packing
      PROVE  /\ \A s \in PlanSteps : Done(variant, genuine, s, cache, cutShort)
                               => Done(variant, genuine, s, c, cutShort)
             /\ ~(settled /\ variant = "gate_m")
  <2>1. ~(cache.tarball = "genuine" /\ LibExists(cache))
    BY <1>3, <1>8
  <2>2. \A s \in PlanSteps : Done(variant, genuine, s, cache, cutShort)
                               => Done(variant, genuine, s, c, cutShort)
    BY <1>3, <1>5, <1>6, <1>8, <2>1 DEF Done
  <2>3. ~(settled /\ variant = "gate_m")
    BY <2>1 DEF ProvisionInv, Reusable
  <2> QED BY <2>2, <2>3
<1>9. CASE ~LibExists(now) /\ now.tarball # "absent" /\ Child("verifying", bare)
  <2>1. Explained(bare, "verifying", Unit, cutShort, disturbed)
    BY <1>1, <1>3, <1>5 DEF ProvisionInv, Explained
  <2>2. "verifying" \in Busy
    BY DEF Busy
  <2> QED BY <1>1, <1>2, <1>5, <1>8, <1>9, <2>1, <2>2, ChildRunsOn
<1>10. CASE now.tarball = "absent" /\ Fail("unavailable", bare, FALSE)
  <2>1. \A u \in CommitsSet : bare.deps[u] = "partial" => cache.deps[u] = "partial"
    BY <1>3, <1>5
  <2> QED BY <1>1, <1>2, <1>5, <1>10, <2>1, FailsHere
<1>11. CASE now.tarball = "absent" /\ Child("packing", packing)
  <2>1. Explained(packing, "packing", Unit, cutShort, disturbed)
    BY <1>1, <1>3, <1>5, <1>6 DEF ProvisionInv, Explained
  <2>2. "packing" \in Busy
    BY DEF Busy
  <2> QED BY <1>1, <1>2, <1>6, <1>8, <1>11, <2>1, <2>2, ChildRunsOn
<1> QED BY <1>4, <1>7, <1>9, <1>10, <1>11


LEMMA PackedKeeps ==
  ASSUME PlanIsSound(Plan), ProvisionInv, Packed
  PROVE  ProvisionInv'
<1>1. At("compiler", "packing") /\ Head(proc.steps).kind = "compiler" /\ proc.doing = "packing"
  BY DEF Packed, At
<1>2. cache \in CacheType /\ "packing" \in Busy /\ "packing" \in Busy \ {"installing", "extracting"}
      /\ "verifying" \in Busy
  BY CacheTyped DEF Busy
<1>3. cache.compiler = "absent" /\ ~(settled /\ variant = "gate_m")
  BY <1>1 DEF ProvisionInv, Explained
<1>4. ASSUME NEW got \in {"corrupt", "genuine"}, Child("verifying", [cache EXCEPT !.tarball = got])
      PROVE  ProvisionInv'
  <2> DEFINE c == [cache EXCEPT !.tarball = got]
  <2>0. got \in {"absent", "corrupt", "genuine"}
    BY <1>4
  <2>1. /\ c \in CacheType /\ c.tarball = got /\ c.compiler = cache.compiler
        /\ c.bare = cache.bare /\ c.have = cache.have /\ c.tree = cache.tree /\ c.deps = cache.deps
    BY <1>2, <2>0, TarballChange
  <2>2. Child("verifying", c)
    BY <1>4
  <2> HIDE DEF c
  <2>3. \A s \in PlanSteps : Done(variant, genuine, s, cache, cutShort)
                               => Done(variant, genuine, s, c, cutShort)
    BY <1>3, <2>1 DEF Done, LibExists
  <2>4. Explained(c, "verifying", Unit, cutShort, disturbed)
    BY <1>1, <1>3, <2>1 DEF ProvisionInv, Explained
  <2> QED BY <1>1, <1>2, <1>3, <2>1, <2>2, <2>3, <2>4, ChildRunsOn
<1>5. ASSUME NEW left \in {"absent", "corrupt"}, Fail("unavailable", [cache EXCEPT !.tarball = left], FALSE)
      PROVE  ProvisionInv'
  <2> DEFINE c == [cache EXCEPT !.tarball = left]
  <2>0. left \in {"absent", "corrupt", "genuine"}
    BY <1>5
  <2>1. c \in CacheType /\ c.compiler = cache.compiler /\ c.deps = cache.deps
    BY <1>2, <2>0, TarballChange
  <2>2. Fail("unavailable", c, FALSE)
    BY <1>5
  <2> HIDE DEF c
  <2> QED BY <1>1, <1>2, <2>1, <2>2, FailsHere
<1> QED BY <1>4, <1>5 DEF Packed

LEMMA VerifyTarballKeeps ==
  ASSUME PlanIsSound(Plan), ProvisionInv, VerifyTarball
  PROVE  ProvisionInv'
<1>1. At("compiler", "verifying") /\ Head(proc.steps).kind = "compiler" /\ proc.doing = "verifying"
  BY DEF VerifyTarball, At
<1>2. cache \in CacheType /\ "verifying" \in Busy /\ "verifying" \in Busy \ {"installing", "extracting"}
      /\ "extracting" \in Busy
  BY CacheTyped DEF Busy
<1>3. cache.compiler = "absent" /\ ~(settled /\ variant = "gate_m")
  BY <1>1 DEF ProvisionInv, Explained
<1>4. CASE cache.tarball = "genuine" /\ Child("extracting", [cache EXCEPT !.compiler = "partial"])
  <2> DEFINE c == [cache EXCEPT !.compiler = "partial"]
  <2>1. /\ c \in CacheType /\ c.compiler = "partial" /\ c.tarball = cache.tarball
        /\ c.bare = cache.bare /\ c.have = cache.have /\ c.tree = cache.tree /\ c.deps = cache.deps
    BY <1>2, CompilerChange
  <2>2. Child("extracting", c)
    BY <1>4
  <2> HIDE DEF c
  <2>3. \A s \in PlanSteps : Done(variant, genuine, s, cache, cutShort)
                               => Done(variant, genuine, s, c, cutShort)
    BY <1>3, <2>1 DEF Done, LibExists
  <2>4. Explained(c, "extracting", Unit, cutShort, disturbed)
    BY <1>1, <1>4, <2>1 DEF ProvisionInv, Explained
  <2> QED BY <1>1, <1>2, <1>3, <2>1, <2>2, <2>3, <2>4, ChildRunsOn
<1>5. CASE Fail("mismatch", [cache EXCEPT !.tarball = "absent"], FALSE)
  <2> DEFINE c == [cache EXCEPT !.tarball = "absent"]
  <2>1. c \in CacheType /\ c.compiler = cache.compiler /\ c.deps = cache.deps
    BY <1>2, TarballChange
  <2>2. Fail("mismatch", c, FALSE)
    BY <1>5
  <2> HIDE DEF c
  <2> QED BY <1>1, <1>2, <2>1, <2>2, FailsHere
<1> QED BY <1>4, <1>5 DEF VerifyTarball

LEMMA ExtractKeeps ==
  ASSUME PlanIsSound(Plan), ProvisionInv, Extract
  PROVE  ProvisionInv'
<1>1. At("compiler", "extracting") /\ Head(proc.steps).kind = "compiler" /\ proc.doing = "extracting"
  BY DEF Extract, At
<1>2. cache \in CacheType /\ "extracting" \in Busy
  BY CacheTyped DEF Busy
<1>3. ~(settled /\ variant = "gate_m") /\ (~disturbed => cache.tarball = "genuine")
  BY <1>1 DEF ProvisionInv, Explained
<1>4. CASE cache.compiler = "partial" /\ Child("extracting", [cache EXCEPT !.compiler = "lib"])
  <2> DEFINE c == [cache EXCEPT !.compiler = "lib"]
  <2>1. /\ c \in CacheType /\ c.compiler = "lib" /\ c.tarball = cache.tarball
        /\ c.bare = cache.bare /\ c.have = cache.have /\ c.tree = cache.tree /\ c.deps = cache.deps
    BY <1>2, CompilerChange
  <2>2. Child("extracting", c)
    BY <1>4
  <2> HIDE DEF c
  <2>3. \A s \in PlanSteps : Done(variant, genuine, s, cache, cutShort)
                               => Done(variant, genuine, s, c, cutShort)
    BY <1>4, <2>1 DEF Done, LibExists
  <2>4. Explained(c, "extracting", Unit, cutShort, disturbed)
    BY <1>1, <1>3, <2>1 DEF ProvisionInv, Explained
  <2> QED BY <1>1, <1>2, <1>3, <2>1, <2>2, <2>3, <2>4, ChildRunsOn
<1>5. CASE cache.compiler = "lib" /\ Continue([cache EXCEPT !.compiler = "whole"])
  <2> DEFINE c == [cache EXCEPT !.compiler = "whole"]
  <2>1. /\ c \in CacheType /\ c.compiler = "whole" /\ c.tarball = cache.tarball
        /\ c.bare = cache.bare /\ c.have = cache.have /\ c.tree = cache.tree /\ c.deps = cache.deps
    BY <1>2, CompilerChange
  <2>2. Continue(c)
    BY <1>5
  <2> HIDE DEF c
  <2>3. \A s \in PlanSteps : Done(variant, genuine, s, cache, cutShort)
                               => Done(variant, genuine, s, c, cutShort)
    BY <2>1 DEF Done, LibExists
  <2>4. \A unit : Explained(c, "step", unit, cutShort, disturbed)
    BY <1>1, <2>1 DEF ProvisionInv, Explained
  <2>5. ~disturbed => Done(variant, genuine, Head(proc.steps), c, cutShort)
    BY <1>1, <1>3, <2>1 DEF Done, LibExists
  <2>6. "compiler" # "receipt"
    OBVIOUS
  <2> QED BY <1>1, <1>2, <1>3, <2>1, <2>2, <2>3, <2>4, <2>5, <2>6, Progress
<1>6. CASE Fail("error", cache, TRUE)
  <2>1. /\ proc' = [NotRunning EXCEPT !.exit = "error"] /\ cache' = cache /\ settled' = FALSE /\ cutShort'
        /\ UNCHANGED <<variant, genuine, disturbed>>
    BY <1>1, <1>6 DEF Fail, At
  <2>2. \A unit : Explained(cache', "idle", unit, cutShort', disturbed')
    BY <2>1 DEF Explained
  <2>3. "error" \in {"killed", "tool_missing", "unavailable", "mismatch", "error"} /\ cache' \in CacheType
    BY <1>2, <2>1
  <2> QED BY <2>1, <2>2, <2>3, Ends
<1> QED BY <1>4, <1>5, <1>6 DEF Extract

LEMMA WriteProvenanceKeeps ==
  ASSUME PlanIsSound(Plan), ProvisionInv, WriteProvenance
  PROVE  ProvisionInv'
<1>1. At("receipt", "step") /\ proc.doing = "step"
  BY DEF WriteProvenance, At
<1>2. cache \in CacheType /\ "step" \in Busy /\ "writing" \in Busy
  BY CacheTyped DEF Busy
<1> DEFINE c == [cache EXCEPT !.receipt = "partial"]
<1>3. /\ c \in CacheType /\ c.tarball = cache.tarball /\ c.compiler = cache.compiler
      /\ c.bare = cache.bare /\ c.have = cache.have /\ c.tree = cache.tree /\ c.deps = cache.deps
  BY <1>2, ReceiptChange
<1>4. Child("writing", c)
  BY DEF WriteProvenance
<1> HIDE DEF c
<1>5. \A s \in PlanSteps : Done(variant, genuine, s, cache, cutShort)
                               => Done(variant, genuine, s, c, cutShort)
  BY <1>3 DEF Done, LibExists
<1>6. Explained(c, "writing", Unit, cutShort, disturbed)
  BY <1>1, <1>3 DEF ProvisionInv, Explained
<1>7. settled /\ variant = "gate_m" => Reusable(c)
  BY <1>3 DEF ProvisionInv, Reusable, LibExists
<1> QED BY <1>1, <1>2, <1>3, <1>4, <1>5, <1>6, <1>7, ChildRunsOn

(* What a plan that is done has seen to.                                   *)
LEMMA AllDone ==
  ASSUME PlanIsSound(Plan), NEW c, NEW cut, NEW v, NEW g, v = variant,
         \A s \in ToSet(Plan) : Done(v, g, s, c, cut)
  PROVE  /\ \A r \in ReposSet : c.bare[r] # "absent"
         /\ \A u \in CommitsSet :
              /\ u \in c.have /\ u \in g
              /\ HasTree(u) => \/ c.tree[u] = "clean"
                               \/ c.tree[u] = "modified" /\ variant = "heldout" /\ HasDeps(u)
              /\ HasDeps(u) => c.deps[u] # "absent" /\ (~cut => c.deps[u] = "whole")
         /\ variant = "gate_m" => c.tarball = "genuine" /\ LibExists(c) /\ (~cut => c.compiler = "whole")
<1>1. Covers(ToSet(Plan))
  BY DEF PlanIsSound
<1>2. \A kind, unit : PlanStep(kind, unit).kind = kind /\ PlanStep(kind, unit).unit = unit
  BY DEF PlanStep
<1>3. ASSUME NEW r \in ReposSet PROVE c.bare[r] # "absent"
  <2>1. PlanStep("clone", r) \in ToSet(Plan)
    BY <1>1 DEF Covers
  <2> QED BY <2>1, <1>2 DEF Done
<1>4. ASSUME NEW u \in CommitsSet PROVE u \in c.have /\ u \in g
  <2>1. PlanStep("commit", u) \in ToSet(Plan) /\ PlanStep("archive", u) \in ToSet(Plan)
    BY <1>1 DEF Covers
  <2> QED BY <2>1, <1>2 DEF Done
<1>5. ASSUME NEW u \in CommitsSet, HasTree(u)
      PROVE  c.tree[u] = "clean" \/ (c.tree[u] = "modified" /\ variant = "heldout" /\ HasDeps(u))
  <2>1. PlanStep("worktree", u) \in ToSet(Plan)
    BY <1>1, <1>5 DEF Covers
  <2> QED BY <2>1, <1>2 DEF Done
<1>6. ASSUME NEW u \in CommitsSet, HasDeps(u)
      PROVE  c.deps[u] # "absent" /\ (~cut => c.deps[u] = "whole")
  <2>1. PlanStep("install", u) \in ToSet(Plan)
    BY <1>1, <1>6 DEF Covers
  <2> QED BY <2>1, <1>2 DEF Done
<1>7. ASSUME variant = "gate_m"
      PROVE  c.tarball = "genuine" /\ LibExists(c) /\ (~cut => c.compiler = "whole")
  <2>1. PlanStep("compiler", "typescript") \in ToSet(Plan)
    BY <1>1, <1>7 DEF Covers
  <2> QED BY <2>1, <1>2 DEF Done
<1> QED BY <1>3, <1>4, <1>5, <1>6, <1>7

LEMMA ReceiptWrittenKeeps ==
  ASSUME PlanIsSound(Plan), ProvisionInv, ReceiptWritten
  PROVE  ProvisionInv'
<1>1. /\ At("receipt", "writing") /\ proc.doing = "writing"
      /\ cache' = [cache EXCEPT !.receipt = "whole"]
      /\ proc' = [NotRunning EXCEPT !.exit = "green"]
      /\ settled' = ~disturbed
      /\ UNCHANGED <<variant, genuine, disturbed, cutShort>>
  BY DEF ReceiptWritten, At
<1>2. cache \in CacheType /\ "writing" \in Busy
  BY CacheTyped DEF Busy
<1> DEFINE c == [cache EXCEPT !.receipt = "whole"]
<1>3. /\ c \in CacheType /\ c.tarball = cache.tarball /\ c.compiler = cache.compiler
      /\ c.bare = cache.bare /\ c.have = cache.have /\ c.tree = cache.tree /\ c.deps = cache.deps
  BY <1>2, ReceiptChange
<1>3a. cache' = c
  BY <1>1
<1> HIDE DEF c
<1>4. PICK k \in Nat : AtStep(k) /\ Plan[k].kind = "receipt"
  BY <1>1, <1>2, AtIsAtStep
<1>5. k = Len(Plan) /\ Plan \in Seq(PlanSteps) /\ Len(Plan) \in Nat /\ DOMAIN Plan = 1..Len(Plan)
  <2> HIDE DEF PlanSteps
  <2> QED BY <1>4 DEF AtStep, Position, PlanIsSound, EndsWithReceipt
<1>6. ASSUME ~disturbed, NEW s \in ToSet(Plan)
      PROVE  Done(variant, genuine, s, c, cutShort)
  <2>1. PICK j \in 1..Len(Plan) : s = Plan[j]
    BY <1>5 DEF ToSet
  <2>2. CASE j = k
    BY <2>1, <2>2, <1>4 DEF Done
  <2>3. CASE j # k
    <3>1. j \in 1..(k - 1)
      BY <2>3, <1>5
    <3>2. Done(variant, genuine, s, cache, cutShort)
      BY <3>1, <2>1, <1>4, <1>6 DEF AtStep, Position
    <3> QED BY <3>2, <1>3 DEF Done, LibExists
  <2> QED BY <2>2, <2>3
<1>7. /\ proc'.steps = <<>> /\ proc'.doing = "idle" /\ proc'.exit = "green" /\ proc'.offline = FALSE
      /\ proc' = [steps |-> <<>>, doing |-> "idle", offline |-> FALSE, exit |-> "green"]
  BY <1>1 DEF NotRunning
<1>8. ProvisionTypes'
  <2>1. proc' \in ProcType
    <3>1. <<>> \in Seq(PlanSteps)
      OBVIOUS
    <3> HIDE DEF PlanSteps
    <3> QED BY <1>7, <3>1 DEF ProcType
  <2> QED BY <2>1, <1>1, <1>3, <1>3a, <1>7 DEF ProvisionInv, ProvisionTypes
<1>9. Plan' = Plan
  BY <1>1, SamePlan
<1>10. (GreenUndisturbed => \A s \in ToSet(Plan) : Done(variant, genuine, s, cache, cutShort))'
  BY <1>1, <1>3a, <1>6, <1>9 DEF GreenUndisturbed
<1>11. Explained(cache', proc'.doing, Unit', cutShort', disturbed')
  BY <1>1, <1>3, <1>3a, <1>7 DEF ProvisionInv, Explained
<1>12. settled' /\ variant' = "gate_m" =>
         Reusable(cache') /\ proc'.doing \in {"idle", "step", "writing"}
  <2> SUFFICES ASSUME ~disturbed, variant = "gate_m" PROVE Reusable(c)
    BY <1>1, <1>3a, <1>7
  <2>1. \A s \in ToSet(Plan) : Done(variant, genuine, s, c, cutShort)
    BY <1>6
  <2>2. /\ \A r \in ReposSet : c.bare[r] # "absent"
        /\ \A u \in CommitsSet :
              /\ u \in c.have
              /\ HasTree(u) => \/ c.tree[u] = "clean"
                               \/ c.tree[u] = "modified" /\ variant = "heldout" /\ HasDeps(u)
              /\ HasDeps(u) => c.deps[u] # "absent"
        /\ variant = "gate_m" => c.tarball = "genuine" /\ LibExists(c)
    BY <2>1, AllDone
  <2>3. \A u \in CommitsSet : u \in c.have /\ c.tree[u] = "clean"
    BY <2>2 DEF HasTree
  <2>4. \A u \in NeedsInstall : c.deps[u] # "absent"
    BY <2>2, CommitTable DEF HasDeps
  <2> QED BY <2>2, <2>3, <2>4 DEF Reusable
<1> QED BY <1>7, <1>8, <1>10, <1>11, <1>12 DEF ProvisionInv

LEMMA KillKeeps ==
  ASSUME PlanIsSound(Plan), ProvisionInv, Kill
  PROVE  ProvisionInv'
<1>1. /\ proc' = [NotRunning EXCEPT !.exit = "killed"] /\ settled' = FALSE
      /\ cutShort' = (cutShort \/ proc.doing \in {"installing", "extracting"})
      /\ UNCHANGED <<variant, genuine, disturbed, cache>>
  BY DEF Kill
<1>2. \A unit : Explained(cache', "idle", unit, cutShort', disturbed')
  BY <1>1 DEF ProvisionInv, Explained
<1>3. "killed" \in {"killed", "tool_missing", "unavailable", "mismatch", "error"} /\ cache' \in CacheType
  BY <1>1, CacheTyped
<1> QED BY <1>1, <1>2, <1>3, Ends

LEMMA DisturbKeeps ==
  ASSUME PlanIsSound(Plan), ProvisionInv, Disturb
  PROVE  ProvisionInv'
<1>1. /\ disturbed' = TRUE /\ settled' = FALSE
      /\ UNCHANGED <<variant, genuine, proc, cutShort>>
  BY DEF Disturb
<1>2. cache \in CacheType
  BY CacheTyped
<1>3. /\ cache' \in CacheType /\ cache'.compiler = cache.compiler
      /\ \A u \in CommitsSet : cache'.deps[u] = "partial" => cache.deps[u] = "partial"
  <2>1. ASSUME NEW c \in CommitsSet, NEW state \in {"modified", "moved"},
               cache' = [cache EXCEPT !.tree[c] = state]
        PROVE  cache' \in CacheType /\ cache'.compiler = cache.compiler /\ cache'.deps = cache.deps
    <3>1. state \in {"absent", "partial", "clean", "modified", "moved"}
      OBVIOUS
    <3> QED BY <1>2, <2>1, <3>1, TreeChange
  <2>2. ASSUME NEW c \in CommitsSet, cache' = WithoutTree(c)
        PROVE  /\ cache' \in CacheType /\ cache'.compiler = cache.compiler
               /\ \A u \in CommitsSet : cache'.deps[u] = "partial" => cache.deps[u] = "partial"
    <3>1. /\ cache' \in CacheType /\ cache'.compiler = cache.compiler
          /\ cache'.deps = [cache.deps EXCEPT ![c] = "absent"]
      BY <1>2, <2>2, TreeRemoved
    <3>2. cache.deps \in [CommitsSet -> {"absent", "partial", "whole"}]
      BY <1>2 DEF CacheType
    <3> QED BY <3>1, <3>2
  <2>3. ASSUME cache' = [cache EXCEPT !.tarball = "corrupt"]
        PROVE  cache' \in CacheType /\ cache'.compiler = cache.compiler /\ cache'.deps = cache.deps
    BY <1>2, <2>3, TarballChange
  <2> QED BY <2>1, <2>2, <2>3 DEF Disturb
<1>4. ProvisionTypes'
  BY <1>1, <1>3 DEF ProvisionInv, ProvisionTypes
<1>5. Plan' = Plan
  BY <1>1, SamePlan
<1>6. proc'.doing # "idle" => (\E k \in Nat : Position(k))'
  <2> SUFFICES ASSUME proc.doing # "idle" PROVE (\E k \in Nat : Position(k))'
    BY <1>1
  <2>1. PICK k \in Nat : Position(k)
    BY DEF ProvisionInv
  <2>2. Position(k)'
    BY <1>1, <1>5, <2>1 DEF Position
  <2> QED BY <2>2
<1>7. Explained(cache', proc'.doing, Unit', cutShort', disturbed')
  BY <1>1, <1>3 DEF ProvisionInv, Explained, Unit
<1>8. ~GreenUndisturbed'
  BY <1>1 DEF GreenUndisturbed
<1> QED BY <1>1, <1>4, <1>6, <1>7, <1>8 DEF ProvisionInv

LEMMA NothingKeeps ==
  ASSUME ProvisionInv, UNCHANGED provisionVars
  PROVE  ProvisionInv'
<1>1. UNCHANGED <<variant, genuine, cache, proc, cutShort, settled, disturbed>>
  BY DEF provisionVars
<1>2. Plan' = Plan
  BY <1>1, SamePlan
<1>3. ProvisionTypes'
  BY <1>1 DEF ProvisionInv, ProvisionTypes
<1>4. (proc.doing # "idle" => \E k \in Nat : Position(k))'
  BY <1>1, <1>2 DEF ProvisionInv, Position
<1>5. Explained(cache', proc'.doing, Unit', cutShort', disturbed')
  BY <1>1 DEF ProvisionInv, Unit
<1>6. (GreenUndisturbed => \A s \in ToSet(Plan) : Done(variant, genuine, s, cache, cutShort))'
  BY <1>1, <1>2 DEF ProvisionInv, GreenUndisturbed
<1>7. (settled /\ variant = "gate_m" => Reusable(cache) /\ proc.doing \in {"idle", "step", "writing"})'
  BY <1>1 DEF ProvisionInv
<1> QED BY <1>3, <1>4, <1>5, <1>6, <1>7 DEF ProvisionInv


LEMMA ProvisionInvInit == ProvisionInit => ProvisionInv
<1> SUFFICES ASSUME ProvisionInit PROVE ProvisionInv
  OBVIOUS
<1>1. /\ variant \in Variants /\ genuine \in SUBSET CommitsSet
      /\ cache = EmptyCache /\ proc = NotRunning /\ settled = FALSE
      /\ proc.doing = "idle" /\ proc.exit = "none"
  BY DEF ProvisionInit, NotRunning
<1>2. EmptyCache \in CacheType
  BY DEF EmptyCache, CacheType
<1>3. proc \in ProcType
  <2>1. <<>> \in Seq(PlanSteps)
    OBVIOUS
  <2>2. proc = [steps |-> <<>>, doing |-> "idle", offline |-> FALSE, exit |-> "none"]
    BY <1>1 DEF NotRunning
  <2> HIDE DEF PlanSteps
  <2> QED BY <2>1, <2>2 DEF ProcType
<1>4. ProvisionTypes
  BY <1>1, <1>2, <1>3 DEF ProvisionTypes
<1>5. Explained(cache, proc.doing, Unit, cutShort, disturbed)
  BY <1>1 DEF Explained, EmptyCache
<1> QED BY <1>1, <1>4, <1>5 DEF ProvisionInv, GreenUndisturbed

(* Every step keeps the invariant.                                         *)
LEMMA ProvisionInvStep == ProvisionInv /\ [ProvisionNext]_provisionVars => ProvisionInv'
<1> SUFFICES ASSUME ProvisionInv, [ProvisionNext]_provisionVars PROVE ProvisionInv'
  OBVIOUS
<1>1. PlanIsSound(Plan)
  BY PlanSound, CacheTyped
<1>2. CASE ProvisionNext
  BY <1>1, <1>2, StartKeeps, PreflightKeeps, CloneKeeps, ClonedKeeps, EnsureCommitKeeps,
     VerifyArchiveKeeps, CheckTreeKeeps, TreeAddedKeeps, InstallKeeps, LockfileKeeps,
     InstalledKeeps, CompilerKeeps, PackedKeeps, VerifyTarballKeeps, ExtractKeeps,
     WriteProvenanceKeeps, ReceiptWrittenKeeps, KillKeeps, DisturbKeeps DEF ProvisionNext
<1>3. CASE UNCHANGED provisionVars
  BY <1>3, NothingKeeps
<1> QED BY <1>2, <1>3

LEMMA ProvisionInvariant == ProvisionSpec => []ProvisionInv
BY ProvisionInvInit, ProvisionInvStep, PTL DEF ProvisionSpec

(* The bounded counters.                                                   *)
Counted == runs \in Nat /\ disturbances \in Nat

(* Runs and disturbances are counted.                                      *)
LEMMA RunsCounted == ProvisionSpec => []Counted
<1>1. ProvisionInit => Counted
  BY DEF ProvisionInit, Counted
<1>2. Counted /\ [ProvisionNext]_provisionVars => Counted'
  <2> SUFFICES ASSUME Counted, [ProvisionNext]_provisionVars PROVE Counted'
    OBVIOUS
  <2>1. \/ UNCHANGED <<runs, disturbances>>
        \/ runs' = runs + 1 /\ UNCHANGED disturbances
        \/ disturbances' = disturbances + 1 /\ UNCHANGED runs
    BY DEF ProvisionNext, StartRun, Preflight, Clone, Cloned, EnsureCommit, VerifyArchive, CheckTree,
           TreeAdded, Install, LockfileRewritten, Installed, Compiler, Packed, VerifyTarball, Extract,
           WriteProvenance, ReceiptWritten, Kill, Disturb, At, provisionVars
  <2> QED BY <2>1 DEF Counted
<1> QED BY <1>1, <1>2, PTL DEF ProvisionSpec

(* The cache and the running script keep their types, for any tables of    *)
(* repositories and commits.                                               *)
THEOREM ProvisionTypeCorrect == ProvisionSpec => [](ProvisionTypes /\ Counted)
<1>1. ProvisionInv => ProvisionTypes
  BY DEF ProvisionInv
<1> QED BY <1>1, ProvisionInvariant, RunsCounted, PTL

(* A green run that nobody interfered with vouches for what it says, for   *)
(* any tables, any number of earlier runs that failed or were killed, and  *)
(* any disturbance before it (provision-sources.mjs:9).                    *)
THEOREM GreenRunsAreVerified == ProvisionSpec => []GreenIsVerified
<1>1. ProvisionInv => GreenIsVerified
  <2> SUFFICES ASSUME ProvisionInv, GreenUndisturbed
               PROVE  /\ CommitsSet \subseteq genuine \cap cache.have
                      /\ \A c \in CommitsSet : HasTree(c) =>
                           \/ cache.tree[c] = "clean"
                           \/ cache.tree[c] = "modified" /\ variant = "heldout" /\ HasDeps(c)
                      /\ variant = "gate_m" => cache.tarball = "genuine"
                      /\ ~cutShort => Whole
    BY DEF GreenIsVerified
  <2>1. PlanIsSound(Plan)
    BY PlanSound, CacheTyped
  <2>2. \A s \in ToSet(Plan) : Done(variant, genuine, s, cache, cutShort)
    BY DEF ProvisionInv
  <2>3. /\ \A u \in CommitsSet :
              /\ u \in cache.have /\ u \in genuine
              /\ HasTree(u) => \/ cache.tree[u] = "clean"
                               \/ cache.tree[u] = "modified" /\ variant = "heldout" /\ HasDeps(u)
              /\ HasDeps(u) => cache.deps[u] # "absent" /\ (~cutShort => cache.deps[u] = "whole")
        /\ variant = "gate_m" =>
             cache.tarball = "genuine" /\ LibExists(cache) /\ (~cutShort => cache.compiler = "whole")
    BY <2>1, <2>2, AllDone
  <2>4. ~cutShort => Whole
    BY <2>3 DEF Whole
  <2> QED BY <2>3, <2>4
<1> QED BY <1>1, ProvisionInvariant, PTL

(* What GreenIsReused says of a step.                                      *)
ReusesGreen ==
  settled /\ variant = "gate_m" /\ disturbances' = disturbances
    => cache' = [cache EXCEPT !.receipt = cache'.receipt] /\ proc'.exit # "unavailable"

LEMMA SameCacheReuses ==
  ASSUME cache \in CacheType, cache' = cache
  PROVE  cache' = [cache EXCEPT !.receipt = cache'.receipt]
BY DEF CacheType

(* No step of a run that follows a green one touches more than the         *)
(* receipt.                                                                *)
LEMMA ReuseStep ==
  ASSUME ProvisionInv, disturbances \in Nat, ProvisionNext
  PROVE  ReusesGreen
<1> SUFFICES ASSUME settled, variant = "gate_m", disturbances' = disturbances
             PROVE  cache' = [cache EXCEPT !.receipt = cache'.receipt] /\ proc'.exit # "unavailable"
  BY DEF ReusesGreen
<1>1. Reusable(cache) /\ proc.doing \in {"idle", "step", "writing"} /\ cache \in CacheType /\ proc \in ProcType
  BY DEF ProvisionInv, ProvisionTypes
<1>2. proc.doing # "idle" => proc.exit = "none"
  BY DEF ProvisionInv, ProvisionTypes
<1>3. PlanIsSound(Plan)
  BY PlanSound, CacheTyped
<1>4. ASSUME cache' = cache, proc'.exit # "unavailable"
      PROVE  cache' = [cache EXCEPT !.receipt = cache'.receipt] /\ proc'.exit # "unavailable"
  BY <1>1, <1>4, SameCacheReuses
<1>5. ASSUME proc.doing # "idle", Continue(cache)
      PROVE  cache' = cache /\ proc'.exit # "unavailable"
  <2>1. proc' = [proc EXCEPT !.steps = Tail(@), !.doing = "step"] /\ cache' = cache
    BY <1>5 DEF Continue
  <2>2. proc'.exit = proc.exit
    BY <2>1, <1>1 DEF ProcType
  <2> QED BY <2>1, <2>2, <1>2, <1>5
<1>6. ASSUME NEW code \in {"tool_missing", "mismatch", "error"}, Fail(code, cache, FALSE)
      PROVE  cache' = cache /\ proc'.exit # "unavailable"
  BY <1>6 DEF Fail, NotRunning
<1>7. ASSUME NEW v \in {"partial", "whole"}, cache' = [cache EXCEPT !.receipt = v]
      PROVE  cache' = [cache EXCEPT !.receipt = cache'.receipt]
  BY <1>1, <1>7 DEF CacheType
<1>8. CASE Preflight
  BY <1>4, <1>5, <1>6, <1>8 DEF Preflight, At
<1>9. CASE Clone
  <2>1. Unit \in ReposSet /\ proc.doing = "step"
    BY <1>3, <1>9, AtIsAtStep, UnitTypes DEF AtStep, Busy, Clone, At
  <2> QED BY <2>1, <1>1, <1>4, <1>5, <1>9 DEF Clone, Reusable
<1>10. CASE EnsureCommit
  <2>1. Unit \in CommitsSet /\ proc.doing = "step"
    BY <1>3, <1>10, AtIsAtStep, UnitTypes DEF AtStep, Busy, EnsureCommit, At
  <2> QED BY <2>1, <1>1, <1>4, <1>5, <1>10 DEF EnsureCommit, Reusable
<1>11. CASE VerifyArchive
  BY <1>4, <1>5, <1>6, <1>11 DEF VerifyArchive, At
<1>12. CASE CheckTree
  <2>1. Unit \in CommitsSet /\ proc.doing = "step"
    BY <1>3, <1>12, AtIsAtStep, UnitTypes DEF AtStep, Busy, CheckTree, At
  <2>2. cache.tree[Unit] = "clean"
    BY <2>1, <1>1 DEF Reusable
  <2> QED BY <2>1, <2>2, <1>4, <1>5, <1>6, <1>12 DEF CheckTree
<1>13. CASE Install
  <2>1. Unit \in NeedsInstall /\ proc.doing = "step"
    BY <1>3, <1>13, AtIsAtStep, UnitTypes DEF AtStep, Busy, Install, At, HasDeps
  <2> QED BY <2>1, <1>1, <1>4, <1>5, <1>13 DEF Install, Reusable
<1>14. CASE Compiler
  <2>1. Recheck(cache) = cache /\ LibExists(cache) /\ cache.tarball # "absent" /\ proc.doing = "step"
    BY <1>1, <1>14 DEF Reusable, Recheck, Compiler, At
  <2>2. Continue(cache)
    BY <2>1, <1>14 DEF Compiler
  <2> QED BY <2>1, <2>2, <1>4, <1>5
<1>15. CASE WriteProvenance
  <2>1. cache' = [cache EXCEPT !.receipt = "partial"] /\ proc' = [proc EXCEPT !.doing = "writing"]
        /\ proc.doing = "step"
    BY <1>15 DEF WriteProvenance, Child, At
  <2>2. proc'.exit = proc.exit
    BY <2>1, <1>1 DEF ProcType
  <2> QED BY <2>1, <2>2, <1>2, <1>7
<1>16. CASE ReceiptWritten
  BY <1>7, <1>16 DEF ReceiptWritten, NotRunning
<1>17. CASE Kill
  BY <1>4, <1>17 DEF Kill, NotRunning
<1>18. CASE \E offline \in BOOLEAN : StartRun(offline)
  BY <1>4, <1>18 DEF StartRun
<1>19. CASE Cloned \/ TreeAdded \/ LockfileRewritten \/ Installed \/ Packed \/ VerifyTarball \/ Extract
  BY <1>1, <1>19 DEF Cloned, TreeAdded, LockfileRewritten, Installed, Packed, VerifyTarball, Extract, At
<1>20. ASSUME Disturb
       PROVE  FALSE
  <2>1. disturbances' = disturbances + 1
    BY <1>20 DEF Disturb
  <2> QED BY <2>1
<1> QED BY <1>8, <1>9, <1>10, <1>11, <1>12, <1>13, <1>14, <1>15, <1>16, <1>17, <1>18, <1>19, <1>20
        DEF ProvisionNext

(* Running the gate-m script again after a green run changes nothing but   *)
(* the receipt and needs no network (provision-sources.mjs:144).           *)
THEOREM GreenRunsAreReused == ProvisionSpec => GreenIsReused
<1>1. ProvisionInv /\ Counted /\ [ProvisionNext]_provisionVars => [ReusesGreen]_provisionVars
  BY ReuseStep DEF Counted
<1>2. [][ReusesGreen]_provisionVars <=> GreenIsReused
  BY DEF GreenIsReused, ReusesGreen
<1> QED BY <1>1, <1>2, ProvisionInvariant, RunsCounted, PTL DEF ProvisionSpec
=============================================================================
