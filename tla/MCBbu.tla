------------------------------- MODULE MCBbu -------------------------------
(***************************************************************************)
(* Small instances of the base band unit for TLC.  Each is a set of frames *)
(* that detectors find; the .cfg files give the bounds.                    *)
(***************************************************************************)
EXTENDS BbuProperties

CONSTANTS r1, r2, c1, c2

Detection(r, c, t) == [rrh |-> r, frame |-> [channel |-> c, sf |-> 7, time |-> t]]

MinDelay == [sf \in Sfs |-> 3]

OneFrame    == {Detection(r1, c1, 0)}

(* One RRH, two frames too far apart to be combined.                       *)
FramesApart == {Detection(r1, c1, 0), Detection(r1, c1, 4)}

(* The same, and an echo of the first frame.                               *)
FramesEcho  == {Detection(r1, c1, 0), Detection(r1, c1, 2), Detection(r1, c1, 5)}

(* One frame heard by two RRHs.                                            *)
FrameTwice  == {Detection(r1, c1, 0), Detection(r2, c1, 0)}

(* One RRH hears two frames, another one the first of them.                *)
OlderWork   == FramesApart \cup {Detection(r2, c1, 0)}

(* Two frames on two channels of one RRH.                                  *)
TwoChannels == {Detection(r1, c1, 0), Detection(r1, c2, 0)}
=============================================================================
