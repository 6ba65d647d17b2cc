---------------------------- MODULE RecordQueue ----------------------------
(***************************************************************************)
(* What a ring buffer promises its reader, without memory, positions or    *)
(* notifications: records are reserved in one global order ("a strong      *)
(* ordering between events", aya/src/maps/ring_buf.rs), each is committed  *)
(* once as data or discarded, and the reader walks them in that order. It  *)
(* takes every data record, at most one at a time, and never sees a        *)
(* discarded one. A reader that dies gives up the record it holds, which   *)
(* the next reader is given again.                                         *)
(***************************************************************************)
EXTENDS Naturals, Sequences

VARIABLES
  status,   \* the records in reservation order: "busy", "data" or "discard"
  head,     \* how many of them the reader is done with
  item      \* the record the reader holds, or 0

vars == <<status, head, item>>

Init ==
  /\ status = <<>>
  /\ head = 0
  /\ item = 0

Reserve ==
  /\ status' = Append(status, "busy")
  /\ UNCHANGED <<head, item>>

Commit(i) ==
  /\ status[i] = "busy"
  /\ \E s \in {"data", "discard"} : status' = [status EXCEPT ![i] = s]
  /\ UNCHANGED <<head, item>>

\* The reader is at a record whose status is known.
AtHead(s) ==
  /\ item = 0
  /\ head < Len(status)
  /\ status[head + 1] = s

Take ==
  /\ AtHead("data")
  /\ item' = head + 1
  /\ UNCHANGED <<status, head>>

Skip ==
  /\ AtHead("discard")
  /\ head' = head + 1
  /\ UNCHANGED <<status, item>>

Release ==
  /\ item # 0
  /\ head' = item
  /\ item' = 0
  /\ UNCHANGED status

Abandon ==
  /\ item # 0
  /\ item' = 0
  /\ UNCHANGED <<status, head>>

Next ==
  \/ Reserve
  \/ \E i \in DOMAIN status : Commit(i)
  \/ Take
  \/ Skip
  \/ Release
  \/ Abandon

Spec == Init /\ [][Next]_vars
=============================================================================
