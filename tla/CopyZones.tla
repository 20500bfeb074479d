------------------------------ MODULE CopyZones ------------------------------
(***************************************************************************)
(* The list of unread zones that the copy procedure and its read           *)
(* strategies work on (libdevcheck/copy.h, copy_read_strategies.c).        *)
(*                                                                         *)
(* The linked list Zone *unread_zones is a sequence of zone records; a     *)
(* Zone pointer is an index of the sequence, NULL is the index 0; nb_zones *)
(* is the length of the sequence, which every insertion and removal of the *)
(* code keeps it equal to.                                                 *)
(***************************************************************************)
EXTENDS Integers, Sequences, SequencesExt

CONSTANTS
  SectorsAtOnce,    \* SECTORS_AT_ONCE: sectors of a full block
  IndivisibleZone,  \* INDIVISIBLE_DEFECT_ZONE_SIZE_SECTORS
  MaxZones          \* the 1000 of nb_zones < 1000

ASSUME SectorsAtOnceAssumption == SectorsAtOnce \in Nat \ {0}
ASSUME IndivisibleZoneAssumption ==
  IndivisibleZone \in Nat /\ IndivisibleZone >= 2 * SectorsAtOnce
ASSUME MaxZonesAssumption == MaxZones \in Nat \ {0}

Zone == [begin_lba : Nat, end_lba : Nat,
         begin_lba_defective : BOOLEAN, end_lba_defective : BOOLEAN]

SmartStrategies == {"smart", "smart_noreverse"}
SkipfailStrategies == {"skipfail", "skipfail_noreverse"}
ReadStrategies == {"plain"} \cup SmartStrategies \cup SkipfailStrategies
NoReverse(s) == s \in {"smart_noreverse", "skipfail_noreverse"}

\* A zone between two sectors whose edges carry no failure.
FreshZone(b, e) ==
  [begin_lba |-> b, end_lba |-> e,
   begin_lba_defective |-> FALSE, end_lba_defective |-> FALSE]

ZoneSectors(zone) == zone.begin_lba .. zone.end_lba - 1
ZoneLength(zone) == zone.end_lba - zone.begin_lba
UnreadSectors(z) == UNION { ZoneSectors(z[i]) : i \in DOMAIN z }

-----------------------------------------------------------------------------
(* give_task_proceeding_current_zone: one block at the edge of a zone.     *)

BlockSize(zone) ==
  IF ZoneLength(zone) < SectorsAtOnce THEN ZoneLength(zone) ELSE SectorsAtOnce

BlockStart(zone, rev) ==
  IF rev THEN zone.end_lba - BlockSize(zone) ELSE zone.begin_lba

(* Mutant of Trim: a failed block stays in the zone, to be tried again.     *)
TrimOnSuccess(zone, rev, n, failed) ==
  LET m == IF failed THEN 0 ELSE n
  IN IF rev
     THEN [zone EXCEPT !.end_lba = @ - m, !.end_lba_defective = failed]
     ELSE [zone EXCEPT !.begin_lba = @ + m, !.begin_lba_defective = failed]

(* common_update_zones: the zone without the n sectors just processed at   *)
(* the edge the current direction reads from, that edge marked by the      *)
(* outcome.                                                                *)
Trim(zone, rev, n, failed) ==
  IF rev
  THEN [zone EXCEPT !.end_lba = @ - n, !.end_lba_defective = failed]
  ELSE [zone EXCEPT !.begin_lba = @ + n, !.begin_lba_defective = failed]

Empty(zone) == zone.begin_lba = zone.end_lba

-----------------------------------------------------------------------------
(* Choosing and splitting zones.                                           *)

(* The sector a jump of dist sectors into a zone lands on, aligned down to *)
(* a block.                                                                *)
JumpTarget(zone, dist) ==
  (zone.begin_lba + dist) - ((zone.begin_lba + dist) % SectorsAtOnce)

(* The assertion on a split: both halves have a sector.                    *)
SplitsInside(zone, at) == zone.begin_lba < at /\ at < zone.end_lba

(* Mutant of Split: the first half keeps its end.                          *)
SplitKeepsEnd(z, i, at) ==
  InsertAt(z, i + 1,
           [z[i] EXCEPT !.begin_lba = at, !.begin_lba_defective = FALSE])

(* The list with zone i cut at a sector: the second half starts with a     *)
(* clean edge and inherits the end, the first half ends with a clean edge. *)
Split(z, i, at) ==
  InsertAt([z EXCEPT ![i] = [@ EXCEPT !.end_lba = at,
                                      !.end_lba_defective = FALSE]],
           i + 1,
           [z[i] EXCEPT !.begin_lba = at, !.begin_lba_defective = FALSE])

(* smart_set_first_processable_zone_current: zone i is the first with a    *)
(* clean edge that the strategy may read from, rev says which edge.        *)
Processable(s, zone) ==
  ~zone.begin_lba_defective \/ (~NoReverse(s) /\ ~zone.end_lba_defective)

FirstProcessable(s, z, i, rev) ==
  /\ i \in DOMAIN z
  /\ Processable(s, z[i])
  /\ \A j \in 1 .. (i - 1) : ~Processable(s, z[j])
  /\ rev = z[i].begin_lba_defective

(* find_largest_zone: the first of the longest zones.                      *)
Largest(z, i) ==
  /\ i \in DOMAIN z
  /\ \A j \in DOMAIN z : ZoneLength(z[j]) <= ZoneLength(z[i])
  /\ \A j \in 1 .. (i - 1) : ZoneLength(z[j]) < ZoneLength(z[i])

(* The three ways skipfail_get_task takes a zone of the list: forward from *)
(* a clean beginning, backward from a clean end unless it is the last      *)
(* zone, or by a jump of skip sectors into it when it is longer than that. *)
SkipfailForward(z, i) == ~z[i].begin_lba_defective

SkipfailReverse(s, z, i) ==
  /\ z[i].begin_lba_defective
  /\ ~NoReverse(s)
  /\ ~z[i].end_lba_defective
  /\ i < Len(z)

SkipfailJump(s, skip, z, i) ==
  /\ ~SkipfailForward(z, i)
  /\ ~SkipfailReverse(s, z, i)
  /\ ZoneLength(z[i]) > skip

SkipfailTakes(s, skip, z, i) ==
  \/ SkipfailForward(z, i)
  \/ SkipfailReverse(s, z, i)
  \/ SkipfailJump(s, skip, z, i)

(* The first zone that skipfail_get_task takes.                            *)
FirstTaken(s, skip, z, i) ==
  /\ i \in DOMAIN z
  /\ SkipfailTakes(s, skip, z, i)
  /\ \A j \in 1 .. (i - 1) : ~SkipfailTakes(s, skip, z, j)

-----------------------------------------------------------------------------
(* What a list of unread zones must look like whenever the strategies use  *)
(* it: the comment "begin_lba < end_lba" on struct zone, zones inside the  *)
(* device, and in ascending order without overlap.                         *)
ZonesNonEmpty(z) == \A i \in DOMAIN z : z[i].begin_lba < z[i].end_lba
ZonesInside(z, last) == \A i \in DOMAIN z : z[i].end_lba <= last
ZonesAscending(z) ==
  \A i, j \in DOMAIN z : i < j => z[i].end_lba <= z[j].begin_lba
=============================================================================
