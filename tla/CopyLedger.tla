----------------------------- MODULE CopyLedger -----------------------------
(***************************************************************************)
(* What a journaled copy promises across sessions, crashes and resumes.    *)
(*                                                                         *)
(* ledger is the verdict on every sector, delivered the sectors whose data *)
(* has reached the destination.  A verdict is given to the sectors of one  *)
(* block at once, is never revised, and "ReadOk" is only given to sectors  *)
(* already delivered: a process that dies between the two steps leaves a   *)
(* delivered block without a verdict, never the other way round.           *)
(***************************************************************************)
EXTENDS Integers, FiniteSets

CONSTANTS EndLba, SectorsAtOnce

VARIABLES ledger, delivered

Sectors == 0 .. EndLba - 1
Blocks == { b .. b + n - 1 : b \in Sectors, n \in 1 .. SectorsAtOnce }

Init == ledger = [l \in Sectors |-> "Unread"] /\ delivered = {}

Deliver(block) ==
  /\ block \subseteq Sectors
  /\ delivered' = delivered \cup block
  /\ UNCHANGED ledger

(* A failed single sector is told apart from a failed block: only the      *)
(* former is known to be unreadable itself.                                *)
VerdictFits(block, verdict) ==
  \/ verdict = "ReadOk" /\ block \subseteq delivered
  \/ verdict = "SectorReadError" /\ Cardinality(block) = 1
  \/ verdict = "BlockReadError" /\ Cardinality(block) > 1

Decide(block, verdict) ==
  /\ block \subseteq Sectors
  /\ \A l \in block : ledger[l] = "Unread"
  /\ VerdictFits(block, verdict)
  /\ ledger' = [l \in Sectors |-> IF l \in block THEN verdict ELSE ledger[l]]
  /\ UNCHANGED delivered

Next == \E block \in Blocks :
          \/ Deliver(block)
          \/ \E verdict \in {"ReadOk", "BlockReadError", "SectorReadError"} :
               Decide(block, verdict)

Spec == Init /\ [][Next]_<<ledger, delivered>>
=============================================================================
