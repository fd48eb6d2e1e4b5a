---------------------------- MODULE MC_SharedMut ----------------------------
(* Model-checking instance of SharedMut and its refinement of SharedCell, *)
(* beside Sequence (src/sequence.c): the same two Lua states use either a *)
(* shared.mut cell or a sequence lock, whichever their first step makes,  *)
(* so one run checks both.  Sequence's variables that clash with          *)
(* SharedMut's are renamed s_*.                                           *)
EXTENDS SharedMut, TLC

CONSTANTS a, b, v1, v2

MCStates == {a, b}
MCValues == {v1, v2}
MCMaxBuffers == 4
MCMaxOps == 3

(* The sequence lock's program: state a writes a datum of two one-bit    *)
(* words, b reads it; the datum starts as <<0, 0>>.                      *)
SeqValues == {0, 1}
SeqInitial == <<0, 0>>
SeqWord == 65536

VARIABLES created, s_refs, s_handle, released, sequence, data, s_pc, phase,
          version, copy, wval, got, s_ops

svars == <<created, s_refs, s_handle, released, sequence, data, s_pc, phase,
           version, copy, wval, got, s_ops>>

S == INSTANCE Sequence WITH
       Threads <- MCStates, Writer <- a, Values <- SeqValues,
       Initial <- SeqInitial, MaxOps <- MCMaxOps, Word <- SeqWord,
       refs <- s_refs, handle <- s_handle, pc <- s_pc, ops <- s_ops

MCInit == Init /\ S!Init

(* shared.mut steps once the program has no sequence lock; sequence     *)
(* steps while shared.mut is untouched (every variable as in Init).     *)
MutNext == Next /\ ~created /\ UNCHANGED svars
SeqNext == S!Next /\ Init /\ UNCHANGED allvars

MutStep(t) == Step(t) /\ ~created /\ UNCHANGED svars
SeqStep(t) == S!Step(t) /\ UNCHANGED allvars

(* Each state is a running thread, a store buffer drains eventually,    *)
(* and the sequence lock's writer runs its write section to write_end.  *)
MCSpec == MCInit /\ [][MutNext \/ SeqNext]_<<allvars, svars>>
            /\ \A t \in MCStates : WF_<<vars, svars>>(MutStep(t))
                                  /\ WF_<<vars, svars>>(SeqStep(t))

(* The value the cell holds as its users see it. *)
cellOf == IF nbuf = 0 THEN NoValue
          ELSE IF refs = 0 THEN "gone"
          ELSE content[ptr]

(* A load in "ld_use" has passed its linearization point, the re-check. *)
resultOf == [t \in States |-> IF pc[t] = "ld_use" THEN content[lv[t]] ELSE res[t]]

Cell == INSTANCE SharedCell
          WITH cell <- cellOf, refs <- refs,
               holders <- {t \in States : handle[t]}, result <- resultOf,
               NoValue <- NoValue, Gone <- "gone"

(* Every behaviour of the handlers is a behaviour of an atomic cell:       *)
(* store takes effect at its fetch-and-store, load at its re-check.       *)
CellSpec == Cell!ASpec

(* The variables of SharedMut and of Sequence keep their types. *)
MCTypeOK == TypeOK /\ S!TypeOK

(* Once every state has closed, every buffer ever serialized has been   *)
(* freed (SharedMut's Reclaimed), in every run whose program uses the   *)
(* shared.mut cell rather than the sequence lock.                       *)
MutReclaimed == <>created \/ Reclaimed

(* Validated sequence-lock reads are atomic: read_begin's even wait and *)
(* read_retry's comparison never let a torn copy of the writer's datum  *)
(* through.                                                             *)
SeqRegister == S!SeqRegister

(* Every sequence read_begin returns once the writer's write_end has    *)
(* made the sequence even.                                              *)
SeqReadersReturn == S!ReadersReturn
====
