--------------------------- MODULE MCSlotQueueMgr ---------------------------
(* Two requests, two containers and two generations of the queue: a queue   *)
(* may have one request only, so that an excess launch would show, and a    *)
(* request may find the queue as its launcher destroys it.                  *)
EXTENDS SlotQueueMgr
=============================================================================
