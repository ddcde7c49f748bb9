----------------------------- MODULE SpendLedger -----------------------------
(***************************************************************************)
(* What a spending cap promises, with no counter of outstanding money: a   *)
(* table of what each client holds, the money already gone, and a rule     *)
(* that nothing is granted unless the cap covers everything held and gone. *)
(* OpenAiAdapter, which keeps one running sum instead of the table, is     *)
(* shown to implement it.                                                  *)
(***************************************************************************)
EXTENDS Integers, FiniteSets

CONSTANTS
  Clients,
  Cap,          \* the most the ledger may commit when it grants
  MaxGrant,     \* the most one client may hold
  Overrun       \* how far a closing cost may exceed what was held for it

VARIABLES held, gone

ledgerVars == <<held, gone>>

(* One unit of money held by a client: <<client, i-th unit>>.  The number  *)
(* of these pairs is the sum of what all clients hold.                     *)
HeldUnits(table) == {u \in Clients \X (1..MaxGrant) : u[2] <= table[u[1]]}

Init ==
  /\ held = [c \in Clients |-> 0]
  /\ gone = 0

Grant(c, n) ==
  /\ held[c] = 0
  /\ gone + Cardinality(HeldUnits(held)) + n <= Cap
  /\ held' = [held EXCEPT ![c] = n]
  /\ UNCHANGED gone

Close(c, actual) ==
  /\ actual <= held[c] + Overrun
  /\ held' = [held EXCEPT ![c] = 0]
  /\ gone' = gone + actual

Next ==
  \E c \in Clients :
    \/ \E n \in 0..MaxGrant : Grant(c, n)
    \/ \E actual \in 0..(MaxGrant + Overrun) : Close(c, actual)

Spec == Init /\ [][Next]_ledgerVars
=============================================================================
