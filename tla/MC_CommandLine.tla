-------------------------- MODULE MC_CommandLine --------------------------
(* A small instance of CommandLine for TLC: a bulb of two slots that keeps *)
(* two colours of a palette, and a catalogue with a name that is uploaded  *)
(* twice, a palette in two orders, one that is too long, and one that      *)
(* begins with black and goes on with a colour that every conversion to    *)
(* HSB and back changes again.                                             *)
EXTENDS CommandLine

Hsb(h, s, b) == [hue |-> h, sat |-> s, bri |-> b]
Red == Hsb(0, 100, 100)
Blue == Hsb(240, 100, 100)
Green == Hsb(120, 100, 50)
Black == Hsb(0, 0, 0)
Mint == Hsb(128, 27, 80) \* its RGB is another after each conversion to HSB and back

MC_Names == {"Dawn", "dawn ", "Dusk", "Duskfall"}
MC_EffectName == [e1 |-> "Dawn", e2 |-> "dawn ", e3 |-> "Dusk", e4 |-> "Duskfall", e5 |-> "Dusk"]
MC_Effects == DOMAIN MC_EffectName
MC_EffectColors ==
  [e1 |-> <<Red, Blue>>, e2 |-> <<Red, Blue>>, e3 |-> <<Blue, Red>>,
   e4 |-> <<Red, Green, Blue>>, e5 |-> <<Black, Mint>>]
MC_Pages == << << <<"e3">> >>, << <<"e4", "e1">>, <<"e5", "e4">> >>, << >>, << <<"e2", "e3">> >> >>
MC_Folded == [n \in MC_Names |-> CASE n = "Dawn" -> 1 [] n = "dawn " -> 2 [] n = "Dusk" -> 3 [] OTHER -> 4]
MC_Stripped == [n \in MC_Names |-> IF n = "dawn " THEN "dawn" ELSE IF n = "Dawn" THEN "dawn" ELSE n]

MC_Queries == {"dusk", "dawn"}
MC_Equal == [q \in MC_Queries \cup MC_Effects |->
               CASE q = "dusk" -> {"Dusk"} [] q = "dawn" -> {"Dawn"} [] OTHER -> {}]
MC_Part == [q \in MC_Queries \cup MC_Effects |->
               CASE q = "dusk" -> {"Dusk", "Duskfall"} [] q = "dawn" -> {"Dawn", "dawn "} [] OTHER -> {}]
MC_Kept == {<<"e1", "e3", "e4">>, <<"e3">>}
=============================================================================
