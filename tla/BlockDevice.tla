---------------------------- MODULE BlockDevice ----------------------------
(***************************************************************************)
(* What an Artifice device promises its clients while the passive file     *)
(* system leaves the carrier blocks alone, requests cover whole blocks and *)
(* at most one request per block is outstanding: each request takes effect *)
(* at one instant between its submission and its end.  A block that no     *)
(* write has reached reads as zeros.  The first write to a block may be    *)
(* dropped (there was no space; the bio still ends without an error), a    *)
(* write to a block that holds data never is.                              *)
(***************************************************************************)
EXTENDS Integers

CONSTANTS
  Reqs,      \* requests; also the values they write
  Blocks,    \* data blocks
  Sectors,   \* sectors of a block
  Unmapped,  \* content of a block that holds no data
  Zero       \* what it reads as

VARIABLES
  phase,  \* "new", "pending", "effective" or "done"
  op,     \* "read" or "write"
  block,  \* the block of the request
  out,    \* what a read returned
  store   \* content of each block

vars == <<phase, op, block, out, store>>

Init ==
  /\ phase = [r \in Reqs |-> "new"]
  /\ store = [b \in Blocks |-> Unmapped]

Goto(r, from, to) ==
  /\ phase[r] = from
  /\ phase' = [phase EXCEPT ![r] = to]

Submit(r, o, b) ==
  /\ Goto(r, "new", "pending")
  /\ op' = [op EXCEPT ![r] = o]
  /\ block' = [block EXCEPT ![r] = b]
  /\ UNCHANGED <<out, store>>

Read(r) ==
  /\ Goto(r, "pending", "done")
  /\ op[r] = "read"
  /\ out' = [out EXCEPT ![r] =
               IF store[block[r]] = Unmapped THEN [s \in Sectors |-> Zero]
               ELSE store[block[r]]]
  /\ UNCHANGED <<op, block, store>>

WriteEffect(r) ==
  /\ Goto(r, "pending", "effective")
  /\ op[r] = "write"
  /\ store' = [store EXCEPT ![block[r]] = [s \in Sectors |-> r]]
  /\ UNCHANGED <<op, block, out>>

WriteEnd(r) ==
  /\ Goto(r, "effective", "done")
  /\ UNCHANGED <<op, block, out, store>>

WriteDropped(r) ==
  /\ Goto(r, "pending", "done")
  /\ op[r] = "write"
  /\ store[block[r]] = Unmapped
  /\ UNCHANGED <<op, block, out, store>>

Next ==
  \E r \in Reqs :
    \/ \E o \in {"read", "write"}, b \in Blocks : Submit(r, o, b)
    \/ Read(r)
    \/ WriteEffect(r)
    \/ WriteEnd(r)
    \/ WriteDropped(r)

Spec == Init /\ [][Next]_vars
=============================================================================
