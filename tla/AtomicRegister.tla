--------------------------- MODULE AtomicRegister ---------------------------
(***************************************************************************)
(* What a sequence lock promises the program that uses it: the datum it    *)
(* protects behaves as one atomic register.  A write replaces the whole   *)
(* datum at once; a read returns the datum of one instant, never half of  *)
(* one write and half of another.                                          *)
(***************************************************************************)
CONSTANTS
  Threads,      \* readers
  Datums,       \* the values the datum can hold
  Initial,      \* the datum before any write
  None          \* no read has returned yet

VARIABLES
  reg,          \* the current datum
  read          \* thread -> the datum its last read returned

rvars == <<reg, read>>

RInit == reg = Initial /\ read = [t \in Threads |-> None]

RWrite(d) == reg' = d /\ UNCHANGED read

RRead(t) == read' = [read EXCEPT ![t] = reg] /\ UNCHANGED reg

RNext == (\E d \in Datums : RWrite(d)) \/ (\E t \in Threads : RRead(t))

RSpec == RInit /\ [][RNext]_rvars
====
