---------------------------- MODULE PluginFrames ----------------------------
(***************************************************************************)
(* What the Modbus device plugins share (src/plugin/utils.c): a frame is a  *)
(* sequence of bytes, a command of the cloud a data point and its value,    *)
(* and the result of a parse a sequence of <<local point, value>> pairs,    *)
(* empty where the plugin returns NULL.  The check bytes at the end of a    *)
(* frame are zeros: which polynomial or sum fills them is left out, whether *)
(* they are right is the flag `ok` of a received buffer.                    *)
(***************************************************************************)
EXTENDS Integers, Sequences, FiniteSetsExt

Hi(x) == (x \div 256) % 256
Lo(x) == x % 256
W(x) == <<Hi(x), Lo(x)>>

\* n bytes that calloc() or a device leaves at zero, the check bytes included.
Zeros(n) == [i \in 1..n |-> 0]

\* C's pos[k] and the big-endian word at pos[k].
At(f, k) == f[k + 1]
WordAt(f, k) == At(f, k) * 256 + At(f, k + 1)

\* The request pObj == NULL: the heartbeat's poll of a device.
Poll == [dpid |-> 0, v |-> 0]

\* NULL of build(): nothing is sent.  NULL of parse(): nothing is reported.
NoFrame == << >>
NoObjs == << >>

\* memmatch: where the two bytes of the key first occur; the last two bytes
\* of the buffer are never looked at as a start.  0 when they do not occur.
memmatch(buf, key) ==
  LET hits == {i \in 1..(Len(buf) - 2) : buf[i] = key[1] /\ buf[i + 1] = key[2]}
  IN IF hits = {} THEN 0 ELSE Min(hits)

(* The search every parse() starts with: the keys in their order, the first *)
(* one that occurs with at least `least` bytes from there on.  The result   *)
(* is the buffer from that place (C's pos), or NoFrame.                     *)
FindFrame(buf, keys, least) ==
  LET fits == {k \in DOMAIN keys : LET i == memmatch(buf, keys[k])
                                   IN i # 0 /\ Len(buf) - i + 1 >= least}
  IN IF fits = {} THEN NoFrame ELSE SubSeq(buf, memmatch(buf, keys[Min(fits)]), Len(buf))

\* A table from cloud values to raw values; what is not in it stays zero.
Lookup(table, v) == IF v \in DOMAIN table THEN table[v] ELSE 0

\* A table whose missing entries leave the value that was there.
LookupOr(table, v) == IF v \in DOMAIN table THEN table[v] ELSE v
=============================================================================
