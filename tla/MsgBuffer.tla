----------------------------- MODULE MsgBuffer ------------------------------
(***************************************************************************)
(* What source/queue.h promises of a queue, without its lock and its       *)
(* sleeping threads, and what the models of the gateway take a queue for:  *)
(* a bounded buffer that accepts elements while it is open, keeps them in  *)
(* the order of arrival or of its comparator, and gives them out from its  *)
(* head.                                                                   *)
(***************************************************************************)
EXTENDS Integers, Sequences

CONSTANTS
  Values,   \* the elements
  Cap,      \* how many it holds
  Sort,     \* "none", "asc" or "desc": the order of the elements
  Filters,  \* whether its users call queue_get_filtered
  Flushes   \* whether its users call queue_flush or queue_flush_put

VARIABLES buf, open
bufferVars == <<buf, open>>

Ordered(s) == \A i \in 1..(Len(s) - 1) : IF Sort = "desc" THEN s[i] >= s[i + 1] ELSE s[i] <= s[i + 1]

BufferInit == buf = <<>> /\ open = TRUE

\* queue_put, queue_put_wait
Insert(v) ==
  /\ open /\ Len(buf) < Cap
  /\ IF Sort = "none"
     THEN buf' = Append(buf, v)
     ELSE /\ \E i \in 0..Len(buf) : buf' = SubSeq(buf, 1, i) \o <<v>> \o SubSeq(buf, i + 1, Len(buf))
          /\ Ordered(buf')
  /\ UNCHANGED open

\* queue_get, queue_get_wait
Remove ==
  /\ buf # <<>> /\ buf' = Tail(buf)
  /\ UNCHANGED open

\* queue_get_filtered
RemoveAt(i) ==
  /\ Filters
  /\ buf' = SubSeq(buf, 1, i - 1) \o SubSeq(buf, i + 1, Len(buf))
  /\ UNCHANGED open

\* queue_flush, queue_flush_put
Clear ==
  /\ Flushes /\ buf' = <<>>
  /\ UNCHANGED open
Replace(v) ==
  /\ Flushes /\ open /\ buf' = <<v>>
  /\ UNCHANGED open

\* queue_set_new_data
Switch(on) == open' = on /\ UNCHANGED buf

\* queue_destroy: what a closed queue still holds is dropped.
Drop ==
  /\ ~open /\ buf' = <<>>
  /\ UNCHANGED open

BufferNext ==
  \/ \E v \in Values : Insert(v) \/ Replace(v)
  \/ Remove \/ Clear \/ Drop
  \/ \E i \in 1..Len(buf) : RemoveAt(i)
  \/ \E on \in BOOLEAN : Switch(on)

BufferSpec == BufferInit /\ [][BufferNext]_bufferVars
=============================================================================
