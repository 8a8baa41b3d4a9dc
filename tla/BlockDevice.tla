---------------------------- MODULE BlockDevice ----------------------------
(***************************************************************************)
(* What a host expects of the mass storage device: an array of blocks.  A  *)
(* block is written in parts (one USB packet's worth at a time) and read   *)
(* whole.                                                                  *)
(***************************************************************************)
CONSTANTS Blocks, Parts, Values, NoAnswer

VARIABLES
  store,    \* the content of every block
  answer    \* what the last read returned, or NoAnswer while one is running

Data == [Parts -> Values]

Init == store \in [Blocks -> Data] /\ answer = NoAnswer

\* One part of a block takes a new value.
Put(b, p, v) ==
  /\ store' = [store EXCEPT ![b][p] = v]
  /\ UNCHANGED answer

\* A command begins: the previous answer is spent.
Ask == answer' = NoAnswer /\ UNCHANGED store

\* A read returns what the block holds.
Get(b) == answer' = <<b, store[b]>> /\ UNCHANGED store

Next ==
  \/ Ask
  \/ \E b \in Blocks : Get(b)
  \/ \E b \in Blocks, p \in Parts, v \in Values : Put(b, p, v)

Spec == Init /\ [][Next]_<<store, answer>>
=============================================================================
