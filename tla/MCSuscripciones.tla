-------------------------- MODULE MCSuscripciones --------------------------
(* Small instances of Suscripciones for TLC. *)
EXTENDS Suscripciones, TLC

CONSTANTS ana, beto, nequi1, efectivo, a1, a2, j1, j2

\* ana's payments: one by Nequi with a reference, one without.
MCPayUser == [p \in Payment |-> ana]

\* Two administrators and one job around ana's payments, from the empty table.
Payments == [now |-> 1, old |-> {}, submits |-> 0, cast |-> {ana, a1, a2, j1}]

\* Two jobs at once over two rows whose period ends now: the days of grace, and after.
Lapses == [now |-> 2, old |-> {ana, beto}, submits |-> MaxSubmits, cast |-> {j1, j2}]

\* Two jobs at once while ana's period, which ends now, is granted anew.
Renewal == [now |-> 1, old |-> {ana}, submits |-> 1, cast |-> {ana, j1, j2}]

MCStarts == {Payments, Lapses, Renewal}

=============================================================================
