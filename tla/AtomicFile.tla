----------------------------- MODULE AtomicFile -----------------------------
(***************************************************************************)
(* What a durable state file promises its users: one register.  A write    *)
(* takes effect at one instant or not at all, and a read returns the       *)
(* register as it was at one instant between its start and its end.        *)
(* StateFile (temp file, rename, inodes) is shown to implement it, and     *)
(* RunStore builds on it.                                                  *)
(***************************************************************************)
CONSTANTS Bodies, Writers, Readers, NoBody

VARIABLES
  value,     \* what the file holds: a body, or NoBody before the first write
  pending,   \* the body each writer is about to put in place
  reading    \* what each reader has sampled and not yet returned

fileVars == <<value, pending, reading>>

Init ==
  /\ value = NoBody
  /\ pending = [w \in Writers |-> NoBody]
  /\ reading = [r \in Readers |-> NoBody]

Begin(w, b) ==
  /\ pending[w] = NoBody
  /\ pending' = [pending EXCEPT ![w] = b]
  /\ UNCHANGED <<value, reading>>

Commit(w) ==
  /\ pending[w] # NoBody
  /\ value' = pending[w]
  /\ pending' = [pending EXCEPT ![w] = NoBody]
  /\ UNCHANGED reading

(* A crash, or an error reported to the caller: the file is untouched.     *)
Abandon(w) ==
  /\ pending' = [pending EXCEPT ![w] = NoBody]
  /\ UNCHANGED <<value, reading>>

Sample(r) ==
  /\ value # NoBody
  /\ reading[r] = NoBody
  /\ reading' = [reading EXCEPT ![r] = value]
  /\ UNCHANGED <<value, pending>>

Return(r) ==
  /\ reading' = [reading EXCEPT ![r] = NoBody]
  /\ UNCHANGED <<value, pending>>

Next ==
  \/ \E w \in Writers : (\E b \in Bodies : Begin(w, b)) \/ Commit(w) \/ Abandon(w)
  \/ \E r \in Readers : Sample(r) \/ Return(r)

Spec == Init /\ [][Next]_fileVars
=============================================================================
