------------------------- MODULE MCAlvikCommandLink -------------------------
(* TLC instance of AlvikCommandLink: two settings, the bring-up commands that *)
(* touch the instance's slots, and the smallest queue that fills.  Of the     *)
(* LEDs, "rest" is the illuminator alone and "on" a colour besides it.        *)
EXTENDS AlvikCommandLink

\* bring_up lights the illuminator and centres the servos.
BringUp == << [slot |-> "leds", val |-> "rest"], [slot |-> "servos", val |-> "on"] >>
MCInitSeq == SelectSeq(BringUp, LAMBDA c : c.slot \in Slots)

\* A black LED leaves the illuminator as it was.
MCBlackened == [v \in Values |-> "rest"]
=============================================================================
