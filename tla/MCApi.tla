------------------------------- MODULE MCApi -------------------------------
(* Api for TLC: one caller that asks for anything, and others that work on the same *)
(* torrents and the same files meanwhile.                                           *)
EXTENDS Api

CONSTANTS Free   \* the callers that ask for anything

Meddling == [op : {"deleteFile"}, path : {File}]

(* Any request, but what is too large is well formed, and an upload has no file twice, *)
(* and its files in one order.                                                         *)
Usable == {b \in Source : b.content # Malformed \/ b.size <= MaxSize}

Anything ==
  {q \in Request : CASE q.op = "raw"    -> q.source \in Usable
                     [] q.op = "upload" -> q.sources \in {SetToSeq(S) : S \in SUBSET Usable}
                     [] OTHER           -> TRUE}

MCSends == [c \in Caller |-> IF c \in Free THEN Anything ELSE Meddling]
=============================================================================
