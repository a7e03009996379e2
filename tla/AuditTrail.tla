------------------------------ MODULE AuditTrail ------------------------------
(***************************************************************************)
(* What the audit log promises its readers: the acknowledged records, in   *)
(* the order they were acknowledged, of which only the oldest are ever     *)
(* dropped.  A crash changes nothing.                                      *)
(***************************************************************************)
EXTENDS Naturals, Sequences

CONSTANT Records

VARIABLE trail

Init == trail = <<>>

\* append() returns: its record is on file from then on.
Acknowledge == \E r \in Records : trail' = Append(trail, r)

\* Rotation drops the oldest backup.
Retire == \E n \in 1 .. Len(trail) : trail' = SubSeq(trail, n + 1, Len(trail))

Next == trail' # trail /\ (Acknowledge \/ Retire)

Spec == Init /\ [][Next]_trail
==============================================================================
