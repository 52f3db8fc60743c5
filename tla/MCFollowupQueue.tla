-------------------------- MODULE MCFollowupQueue --------------------------
(* Messages of two chats of one session.                                    *)
EXTENDS FollowupQueue

CONSTANTS m1, m2, m3, m4, chatA, chatB, nowhere

MCRouteOf == [m \in {m1, m2, m3, m4} |-> IF m = m2 THEN chatB ELSE chatA]
=============================================================================
