------------------------------ MODULE MCSessions ------------------------------
(* Instances of Sessions for TLC.                                          *)
EXTENDS Sessions, TLC

CONSTANTS Others

\* 180 and 60 minutes, in ticks of 60 minutes.
Patience == (Main :> 3) @@ (Others :> 1)

\* The same order of the limits on a shorter scale, for two logins at once.
ShortPatience == (Main :> 1) @@ (Others :> 0)

=============================================================================
