----------------------------- MODULE SharedCell -----------------------------
(***************************************************************************)
(* What ck.shared.mut promises its users: a reference-counted cell that    *)
(* holds one Lua value.  new() creates it with one handle, retain(cookie)  *)
(* adds a handle, collecting a handle releases it and the last release     *)
(* destroys the cell; store(v) replaces the value and load() returns the   *)
(* value the cell holds at one instant during the call: every operation is *)
(* atomic.                                                                 *)
(***************************************************************************)
EXTENDS Naturals

CONSTANTS
  States,       \* Lua states that may hold a handle
  Values,       \* values stored in the cell
  NoValue,      \* the cell does not exist yet
  Gone          \* the cell has been destroyed

VARIABLES
  cell,         \* the value held, NoValue or Gone
  refs,         \* the number of handles
  holders,      \* states holding a handle
  result        \* state -> the value its last load returned

avars == <<cell, refs, holders, result>>

AInit ==
  /\ cell = NoValue
  /\ refs = 0
  /\ holders = {}
  /\ result = [t \in States |-> NoValue]

ANew(t, v) ==
  /\ cell = NoValue
  /\ cell' = v
  /\ refs' = 1
  /\ holders' = {t}
  /\ UNCHANGED result

(* A state retains the cell through a cookie another holder passed it. *)
ARetain(t) ==
  /\ t \notin holders
  /\ holders # {}
  /\ refs' = refs + 1
  /\ holders' = holders \cup {t}
  /\ UNCHANGED <<cell, result>>

ARelease(t) ==
  /\ t \in holders
  /\ refs' = refs - 1
  /\ holders' = holders \ {t}
  /\ cell' = IF refs = 1 THEN Gone ELSE cell
  /\ UNCHANGED result

AStore(t, v) ==
  /\ t \in holders
  /\ cell' = v
  /\ UNCHANGED <<refs, holders, result>>

ALoad(t) ==
  /\ t \in holders
  /\ result' = [result EXCEPT ![t] = cell]
  /\ UNCHANGED <<cell, refs, holders>>

ANext ==
  \E t \in States :
    \/ \E v \in Values : ANew(t, v) \/ AStore(t, v)
    \/ ARetain(t) \/ ARelease(t) \/ ALoad(t)

ASpec == AInit /\ [][ANext]_avars
====
