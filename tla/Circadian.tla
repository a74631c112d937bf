----------------------------- MODULE Circadian -----------------------------
(***************************************************************************)
(* The white points of a circadian schedule (_encode_circadian and         *)
(* _parse_circadian of nl_ltpdu_v3.py).  The user gives and is shown       *)
(* kelvin; the bulb keeps mireds, a million divided by the kelvin, in two  *)
(* bytes.  Writing brings a white point into the range of the bulb's model *)
(* and rounds; reading cuts off, and shows what lies out of the range too. *)
(***************************************************************************)
EXTENDS Integers

\* The least and the greatest kelvin of the models the code knows, and of others.
color_temperature_range == {<<2100, 6500>>, <<2127, 6535>>, <<2200, 6500>>, <<2700, 6500>>}

\* What _checked_number lets through, for every model; any else raises.
Accepted == 1200 .. 6535

\* What to_bytes(2) takes of a white point, but for the 0 that no kelvin gives.
TwoBytes == 1 .. 65535

Within(k, min, max) == IF k < min THEN min ELSE IF k > max THEN max ELSE k
Mired(k) == (1000000 + k \div 2) \div k

Encoded(k, min, max) == Mired(Within(k, min, max))
Parsed(n) == IF n = 0 THEN 0 ELSE 1000000 \div n
=============================================================================
