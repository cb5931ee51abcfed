------------------------------- MODULE MCNudge -------------------------------
(* Two credentials with a refresh token, the older of which comes near its      *)
(* expiry, and a file that cannot be parsed.                                    *)
EXTENDS Nudge

CONSTANTS r1, r2

MCStatus == [c \in Content |-> IF c \in Aging THEN "near" ELSE "ok"]
=============================================================================
