---------------------------- MODULE MCAmFmTuner ----------------------------
(* FM with two stations and room between and above them, AM without any.   *)
EXTENDS AmFmTuner

CONSTANTS FM, AM, t1, t2

MCLimits == [b \in {FM, AM} |->
    IF b = FM THEN [min |-> 4, max |-> 8, step |-> 1]
    ELSE [min |-> 1, max |-> 3, step |-> 2]]
MCStations == [b \in {FM, AM} |-> IF b = FM THEN <<4, 7>> ELSE <<>>]
MCFrequencies == {2, 3, 5, 7, 8, 9}
============================================================================
