--------------------------- MODULE MCFieldMessages ---------------------------
(* Three gas compositions, five fiber readings or three inspections, two       *)
(* handlers at work at a time.                                                *)
EXTENDS FieldMessages, TLC

Openings == [methane |-> 60, hydrogen |-> 98, natural_gas |-> 2]

Cold == -20

Wobbes == {40, 48, 56}
Adjustments == {-9, 0, 3, 9}

R(strain, shift, temperature, status, time, position) ==
  [strain |-> strain, shift |-> shift, temperature |-> temperature, status |-> status,
   time |-> time, position |-> position]
\* Two that have nothing to report, one of them warm; zeros that are valid but too
\* hot, which is refused; one too far away to lean on; one to lean on.
Readings ==
  {R(0, 0, 0, "unknown", 5, 1), R(0, 0, 9, "unknown", 9, 1), R(0, 0, 30, "valid", 9, 1),
   R(4, 1, 7, "valid", 2, 9), R(8, 9, 2, "unknown", 3, 1)}
===============================================================================
