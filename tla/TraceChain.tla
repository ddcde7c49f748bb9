----------------------------- MODULE TraceChain -----------------------------
(***************************************************************************)
(* The hash-chained event log of a run (src/src/trace.ts).  A line holds   *)
(* its sequence number and the hash of the line before it; hashes do not   *)
(* collide, so a line that follows another one than it names is told apart *)
(* by the two numbers alone.                                               *)
(***************************************************************************)
EXTENDS Integers, Sequences

(* A line that was cut short is no JSON.                                   *)
Torn == [sequence |-> -1, type |-> "torn"]

Lines(types) == [sequence : Nat \cup {-1}, type : types \cup {"torn"}]

(* TraceWriter: what the next event is numbered, and its file.             *)
NewTrace == [sequence |-> 0, lines |-> <<>>]

EventLine(trace, type) == [sequence |-> trace.sequence, type |-> type]

Appended(trace, type) ==
  [sequence |-> trace.sequence + 1,
   lines |-> Append(trace.lines, EventLine(trace, type))]

(* appendFile failed: nothing was written, a part of the line, or all of   *)
(* it; the writer counts the event as not written.                         *)
AppendFails(trace, type) ==
  {[trace EXCEPT !.lines = ls] :
     ls \in {trace.lines,
             Append(trace.lines, Torn),
             Append(trace.lines, EventLine(trace, type))}}

(* Seeded fault: only the order is verified, not that no event is missing  *)
(* or doubled.                                                             *)
VerifiesLoosely(lines) ==
  /\ lines # <<>>
  /\ \A i \in 1..Len(lines) : lines[i].sequence \in 0..(i - 1)

(* verifyTrace does not throw.                                             *)
Verifies(lines) ==
  /\ lines # <<>>
  /\ \A i \in 1..Len(lines) : lines[i].sequence = i - 1
=============================================================================
