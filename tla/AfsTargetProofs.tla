-------------------------- MODULE AfsTargetProofs --------------------------
(***************************************************************************)
(* Proofs about AfsTarget, for any number of clients and rebuild requests. *)
(*                                                                         *)
(* The invariant bounds, for every step of afs_ctr and afs_dtr, what may   *)
(* be held there and what may have been freed already: an error label is   *)
(* right when it releases all of the first and nothing of the second.      *)
(***************************************************************************)
EXTENDS AfsTarget, TLAPS

\* What may be held before each step of afs_ctr.
CtrHeld ==
  /\ pc \in {"args", "device"} => \A x \in Resources : res[x] = "held" => x \in args_err
  /\ pc = "detect" => \A x \in Resources : res[x] = "held" => x \in fs_err
  /\ pc = "vector" => \A x \in Resources : res[x] = "held" => x \in vec_err
  /\ pc \in {"super", "find", "map"} =>
       \A x \in Resources : res[x] = "held" => x \in sb_err
  /\ pc = "map_blocks" =>
       /\ type = "create"
       /\ \A x \in Resources : res[x] = "held" => x \in {"afs_map"} \cup sb_err
  /\ pc = "ptr_blocks" =>
       /\ \A x \in Resources : res[x] = "held" => x \in {"map_blocks", "afs_map"} \cup sb_err
       /\ type # "create" => res["map_blocks"] # "held"
  /\ pc = "write" => \A x \in Resources : x \notin Queues \/ res[x] # "held"
  /\ pc \in {"queues", "up", "save", "release"} => res["map_blocks"] # "held"

\* Nothing is freed before an error label, but the map blocks once written.
NotFreed ==
  /\ pc \in CtrSteps \ {"queues"} => \A x \in Resources : res[x] # "freed"
  /\ pc \in {"queues", "up", "save"} =>
       \A x \in Resources \ {"map_blocks"} : res[x] # "freed"

\* afs_dtr releases in order.
DtrProgress ==
  /\ pc # "out" /\ pc # "release" /\ pc # "oops" => released = 0
  /\ pc = "release" =>
       /\ released < Len(DtrOrder)
       /\ \A i \in 1 .. Len(DtrOrder) :
            /\ i > released => res[DtrOrder[i]] # "freed"
            /\ i <= released => res[DtrOrder[i]] # "held"

\* The device mapper waits for its bios.
ClientsInside == \A r \in Clients : req[r] # "none" => pc \in {"up", "oops"}

IInv ==
  /\ TypeOK
  /\ CtrHeld
  /\ NotFreed
  /\ DtrProgress
  /\ ClientsInside
  /\ NoDoubleFree
  /\ NothingLeft
  /\ ClientsUndisturbed

LEMMA OrderFacts ==
  /\ Len(DtrOrder) = 9
  /\ DtrOrder[1] = "ptr_blocks"
  /\ DtrOrder[2] = "afs_map"
  /\ DtrOrder[3] = "vector"
  /\ DtrOrder[4] = "block_list"
  /\ DtrOrder[5] = "device"
  /\ DtrOrder[6] = "flight_wq"
  /\ DtrOrder[7] = "rebuild_wq"
  /\ DtrOrder[8] = "crypto_wq"
  /\ DtrOrder[9] = "context"
BY DEF DtrOrder

\* afs_dtr releases resources, every one but the map blocks.
LEMMA OrderCovers ==
  /\ \A i \in 1 .. Len(DtrOrder) : DtrOrder[i] \in Resources \ {"map_blocks"}
  /\ \A i, j \in 1 .. Len(DtrOrder) : DtrOrder[i] = DtrOrder[j] => i = j
  /\ \A x \in Resources \ {"map_blocks"} : \E i \in 1 .. Len(DtrOrder) : x = DtrOrder[i]
<1>1. \A i \in 1 .. 9 : i = 1 \/ i = 2 \/ i = 3 \/ i = 4 \/ i = 5 \/ i = 6 \/ i = 7
                        \/ i = 8 \/ i = 9
  OBVIOUS
<1>2. \A i \in 1 .. Len(DtrOrder) : DtrOrder[i] \in Resources \ {"map_blocks"}
  BY <1>1, OrderFacts DEF Resources, Queues
<1>3. \A i, j \in 1 .. Len(DtrOrder) : DtrOrder[i] = DtrOrder[j] => i = j
  BY <1>1, OrderFacts
<1>4. \A x \in Resources \ {"map_blocks"} : \E i \in 1 .. Len(DtrOrder) : x = DtrOrder[i]
  BY OrderFacts DEF Resources, Queues
<1>. QED
  BY <1>2, <1>3, <1>4

LEMMA InitInvariant == Init => IInv
<1> SUFFICES ASSUME Init
             PROVE  IInv
  OBVIOUS
<1>1. TypeOK
  BY OrderFacts, SessionsAssumption DEF Init, TypeOK, Types, ReqStates
<1>2. CtrHeld /\ NotFreed
  BY DEF Init, CtrHeld, NotFreed, CtrSteps
<1>3. DtrProgress /\ ClientsInside /\ ClientsUndisturbed
  BY DEF Init, DtrProgress, ClientsInside, ClientsUndisturbed, Reqs
<1>4. NoDoubleFree /\ NothingLeft
  BY DEF Init, NoDoubleFree, NothingLeft
<1>. QED
  BY <1>1, <1>2, <1>3, <1>4 DEF IInv

LEMMA CtrStartInvariant ==
  ASSUME IInv, NEW t \in Types, CtrStart(t)
  PROVE  IInv'
<1>1. TypeOK'
  BY OrderFacts, SessionsAssumption DEF IInv, CtrStart, Goto, TypeOK, CtrSteps
<1>2. CtrHeld' /\ NotFreed'
  BY DEF CtrStart, Goto, CtrHeld, NotFreed, CtrSteps, args_err, Resources
<1>3. DtrProgress' /\ ClientsInside' /\ ClientsUndisturbed'
  BY DEF IInv, CtrStart, Goto, DtrProgress, ClientsInside, ClientsUndisturbed, TypeOK
<1>4. NoDoubleFree' /\ NothingLeft'
  BY DEF IInv, CtrStart, Goto, NoDoubleFree, NothingLeft
<1>. QED
  BY <1>1, <1>2, <1>3, <1>4 DEF IInv

\* A step of afs_ctr that fails releases all that may be held, none of it twice.
LEMMA FailInvariant ==
  ASSUME IInv, pc \in CtrSteps \ {"queues"},
         NEW S \in SUBSET Resources, Fail(S),
         \A x \in Resources : res[x] = "held" => x \in S \cup {"ptr_blocks"},
         UNCHANGED <<type, req, released, sessions>>
  PROVE  IInv'
<1>1. TypeOK'
  BY DEF IInv, TypeOK, Fail, Release, NotFreed
<1>2. CtrHeld' /\ NotFreed' /\ DtrProgress'
  BY DEF Fail, CtrHeld, NotFreed, CtrSteps, DtrProgress
<1>3. ClientsInside' /\ ClientsUndisturbed'
  BY DEF IInv, ClientsInside, ClientsUndisturbed, CtrSteps
<1>4. NoDoubleFree'
  BY DEF IInv, NoDoubleFree, NotFreed, Fail, Release
<1>5. NothingLeft'
  BY DEF IInv, TypeOK, NothingLeft, Fail, Release
<1>. QED
  BY <1>1, <1>2, <1>3, <1>4, <1>5 DEF IInv

\* A step of afs_ctr that succeeds and allocates S.
LEMMA HoldInvariant ==
  ASSUME IInv, pc \in CtrSteps \ {"queues"}, pc' \in CtrSteps \cup {"spinning"},
         NEW S \in SUBSET Resources, Hold(S), CtrHeld',
         UNCHANGED <<type, req, released, sessions>>
  PROVE  IInv'
<1>1. TypeOK'
  BY DEF IInv, TypeOK, Hold
<1>2. NotFreed'
  BY DEF IInv, TypeOK, Hold, NotFreed, CtrSteps
<1>3. ClientsInside' /\ ClientsUndisturbed'
  BY DEF IInv, ClientsInside, ClientsUndisturbed, CtrSteps
<1>4. NoDoubleFree' /\ NothingLeft' /\ DtrProgress'
  BY DEF IInv, NoDoubleFree, NothingLeft, Hold, DtrProgress, CtrSteps
<1>. QED
  BY <1>1, <1>2, <1>3, <1>4 DEF IInv

\* A step that leaves the resources alone allocates nothing.
LEMMA Unheld ==
  ASSUME TypeOK, UNCHANGED <<res, twice>>
  PROVE  Hold({})
BY DEF TypeOK, Hold

\* The steps of afs_ctr before the work queues.
LEMMA CtrInvariant ==
  ASSUME IInv,
         \/ CtrArgs \/ CtrDevice \/ CtrDetect \/ CtrVector \/ CtrSuper \/ CtrFind
         \/ CtrMap \/ CtrMapBlocks \/ CtrPtrBlocks
  PROVE  IInv'
<1> USE DEF args_err, fs_err, vec_err, sb_err
<1>0. TypeOK /\ CtrHeld
  BY DEF IInv
<1>1. CASE CtrArgs
  <2>1. CASE pc' = "device" /\ UNCHANGED <<res, twice>>
    <3>1. CtrHeld'
      BY <1>0, <1>1, <2>1 DEF CtrArgs, CtrHeld
    <3>. QED
      BY <1>0, <1>1, <2>1, <3>1, HoldInvariant, Unheld DEF CtrArgs, CtrSteps
  <2>2. CASE Fail(args_err)
    BY <1>0, <1>1, <2>2, FailInvariant DEF CtrArgs, CtrHeld, CtrSteps, Resources
  <2>. QED
    BY <1>1, <2>1, <2>2 DEF CtrArgs
<1>2. CASE CtrDevice
  <2>1. CASE pc' = "detect" /\ Hold({"device"})
    <3>1. CtrHeld'
      BY <1>0, <1>2, <2>1 DEF CtrDevice, CtrHeld, Hold
    <3>. QED
      BY <1>2, <2>1, <3>1, HoldInvariant DEF CtrDevice, CtrSteps, Resources
  <2>2. CASE Fail(args_err)
    BY <1>0, <1>2, <2>2, FailInvariant DEF CtrDevice, CtrHeld, CtrSteps, Resources
  <2>. QED
    BY <1>2, <2>1, <2>2 DEF CtrDevice
<1>3. CASE CtrDetect
  <2>1. CASE Hold({"block_list"})
    <3>1. CtrHeld'
      BY <1>0, <1>3, <2>1 DEF CtrDetect, Goto, CtrHeld, Hold
    <3>. QED
      BY <1>3, <2>1, <3>1, HoldInvariant DEF CtrDetect, Goto, CtrSteps, Resources
  <2>2. CASE UNCHANGED <<res, twice>>
    <3>1. CtrHeld'
      BY <1>0, <1>3, <2>2 DEF CtrDetect, Goto, CtrHeld
    <3>. QED
      BY <1>0, <1>3, <2>2, <3>1, HoldInvariant, Unheld DEF CtrDetect, Goto, CtrSteps
  <2>. QED
    BY <1>3, <2>1, <2>2 DEF CtrDetect
<1>4. CASE CtrVector
  <2>1. CASE pc' = "super" /\ Hold({"vector"})
    <3>1. CtrHeld'
      BY <1>0, <1>4, <2>1 DEF CtrVector, CtrHeld, Hold
    <3>. QED
      BY <1>4, <2>1, <3>1, HoldInvariant DEF CtrVector, CtrSteps, Resources
  <2>2. CASE Fail(vec_err)
    BY <1>0, <1>4, <2>2, FailInvariant DEF CtrVector, CtrHeld, CtrSteps, Resources
  <2>. QED
    BY <1>4, <2>1, <2>2 DEF CtrVector
<1>5. CASE CtrSuper
  <2>1. pc' \in {"queues", "spinning", "map", "find"}
    BY <1>0, <1>5 DEF CtrSuper, TypeOK, Types
  <2>2. CtrHeld'
    BY Zenon, <1>0, <1>5, <2>1 DEF CtrSuper, CtrHeld, Resources
  <2>. QED
    BY Zenon, <1>0, <1>5, <2>1, <2>2, HoldInvariant, Unheld DEF CtrSuper, CtrSteps
<1>6. CASE CtrFind
  <2>1. CASE pc' = "map" /\ UNCHANGED <<res, twice>>
    <3>1. CtrHeld'
      BY <1>0, <1>6, <2>1 DEF CtrFind, CtrHeld
    <3>. QED
      BY <1>0, <1>6, <2>1, <3>1, HoldInvariant, Unheld DEF CtrFind, CtrSteps
  <2>2. CASE Fail(sb_err)
    BY <1>0, <1>6, <2>2, FailInvariant DEF CtrFind, CtrHeld, CtrSteps, Resources
  <2>. QED
    BY <1>6, <2>1, <2>2 DEF CtrFind
<1>7. CASE CtrMap
  <2>1. CASE pc' = (IF type = "create" THEN "map_blocks" ELSE "ptr_blocks")
             /\ Hold({"afs_map"})
    <3>1. CtrHeld'
      BY <1>0, <1>7, <2>1 DEF CtrMap, CtrHeld, Hold, Queues, Resources
    <3>. QED
      BY <1>7, <2>1, <3>1, HoldInvariant DEF CtrMap, CtrSteps, Resources
  <2>2. CASE Fail(sb_err)
    BY <1>0, <1>7, <2>2, FailInvariant DEF CtrMap, CtrHeld, CtrSteps, Resources
  <2>. QED
    BY <1>7, <2>1, <2>2 DEF CtrMap
<1>8. CASE CtrMapBlocks
  <2>1. CASE pc' = "ptr_blocks" /\ Hold({"map_blocks"})
    <3>1. CtrHeld'
      BY <1>0, <1>8, <2>1 DEF CtrMapBlocks, CtrHeld, Hold
    <3>. QED
      BY <1>8, <2>1, <3>1, HoldInvariant DEF CtrMapBlocks, CtrSteps, Resources
  <2>2. CASE Fail({"afs_map"} \cup sb_err)
    BY <1>0, <1>8, <2>2, FailInvariant DEF CtrMapBlocks, CtrHeld, CtrSteps, Resources
  <2>. QED
    BY <1>8, <2>1, <2>2 DEF CtrMapBlocks
<1>9. CASE CtrPtrBlocks
  <2>1. CASE pc' = (IF type = "create" THEN "write" ELSE "queues") /\ Hold({"ptr_blocks"})
    <3>1. CtrHeld'
      BY <1>0, <1>9, <2>1 DEF CtrPtrBlocks, CtrHeld, Hold, Queues, Resources
    <3>. QED
      BY <1>9, <2>1, <3>1, HoldInvariant DEF CtrPtrBlocks, CtrSteps, Resources
  <2>2. CASE Fail({"map_blocks", "afs_map"} \cup sb_err)
    BY <1>0, <1>9, <2>2, FailInvariant DEF CtrPtrBlocks, CtrHeld, CtrSteps, Resources
  <2>. QED
    BY <1>9, <2>1, <2>2 DEF CtrPtrBlocks
<1>. QED
  BY <1>1, <1>2, <1>3, <1>4, <1>5, <1>6, <1>7, <1>8, <1>9

\* write_super_block ends: the map blocks go, as all else does when it fails.
LEMMA CtrWriteInvariant ==
  ASSUME IInv, CtrWrite
  PROVE  IInv'
<1>0. TypeOK /\ CtrHeld /\ NotFreed
  BY DEF IInv
<1>1. CASE Fail({"map_blocks", "afs_map"} \cup sb_err)
  <2>1. {"map_blocks", "afs_map"} \cup sb_err \subseteq Resources
    BY DEF Resources, args_err, fs_err, vec_err, sb_err
  <2>2. \A x \in Resources :
          res[x] = "held" => x \in ({"map_blocks", "afs_map"} \cup sb_err) \cup {"ptr_blocks"}
    BY <1>0 DEF CtrWrite, CtrHeld, Resources, args_err, fs_err, vec_err, sb_err
  <2>. QED
    BY <1>1, <2>1, <2>2, FailInvariant DEF CtrWrite, CtrSteps
<1>2. CASE pc' = "queues" /\ Release({"map_blocks"})
  <2>0. \A x \in Resources : res[x] # "freed"
    BY <1>0 DEF NotFreed, CtrWrite, CtrSteps
  <2>1. TypeOK'
    BY Zenon, <1>0, <1>2 DEF CtrWrite, Release, TypeOK, CtrSteps, Resources
  <2>2. CtrHeld' /\ NotFreed'
    BY <1>2, <2>0 DEF CtrWrite, Release, CtrHeld, NotFreed, CtrSteps, Resources
  <2>3. DtrProgress' /\ ClientsInside' /\ ClientsUndisturbed' /\ NothingLeft'
    BY <1>2 DEF IInv, CtrWrite, DtrProgress, ClientsInside, ClientsUndisturbed, NothingLeft
  <2>4. NoDoubleFree'
    BY <1>2, <2>0 DEF IInv, NoDoubleFree, Release, Resources
  <2>. QED
    BY <2>1, <2>2, <2>3, <2>4 DEF IInv
<1>. QED
  BY <1>1, <1>2 DEF CtrWrite

LEMMA CtrQueuesInvariant ==
  ASSUME IInv, NEW S \in SUBSET Queues, CtrQueues(S)
  PROVE  IInv'
<1>0. pc = "queues" /\ pc' \in {"up", "oops"}
  BY DEF CtrQueues
<1>1. TypeOK'
  BY <1>0 DEF IInv, TypeOK, CtrQueues, Hold, ReqStates
<1>2. CtrHeld' /\ NotFreed'
  BY <1>0 DEF IInv, TypeOK, CtrQueues, Hold, CtrHeld, NotFreed, CtrSteps, Queues, Resources
<1>3. \A r \in Clients : req'[r] = req[r]
  BY RequestsAssumption DEF CtrQueues, Reqs
<1>4. ClientsInside' /\ ClientsUndisturbed'
  BY <1>0, <1>3 DEF IInv, ClientsInside, ClientsUndisturbed
<1>5. NoDoubleFree' /\ NothingLeft' /\ DtrProgress'
  BY <1>0 DEF IInv, NoDoubleFree, NothingLeft, DtrProgress, CtrQueues, Hold
<1>. QED
  BY <1>1, <1>2, <1>4, <1>5 DEF IInv

\* A step of request r moves only r, and the target goes on or oopses.
LEMMA RequestInvariant ==
  ASSUME IInv, NEW r \in Reqs, pc # "oops",
         pc = "up" \/ req[r] # "none",
         pc' = pc \/ pc' = "oops",
         NEW s \in ReqStates, req' = req \/ req' = [req EXCEPT ![r] = s],
         UNCHANGED <<type, res, twice, released, sessions>>
  PROVE  IInv'
<1>1. TypeOK'
  BY DEF IInv, TypeOK
<1>2. CtrHeld' /\ NotFreed'
  BY DEF IInv, CtrHeld, NotFreed, CtrSteps
<1>3. DtrProgress' /\ NoDoubleFree' /\ NothingLeft'
  BY DEF IInv, DtrProgress, NoDoubleFree, NothingLeft
<1>4. \A c \in Clients : req'[c] # "none" => req[c] # "none" \/ pc = "up"
  BY DEF IInv, TypeOK, Reqs
<1>5. ClientsInside'
  BY <1>4 DEF IInv, ClientsInside
<1>6. ClientsUndisturbed'
  <2>1. pc = "up" => \A x \in Used \cup {"crypto_wq"} : res[x] # "freed"
    BY DEF IInv, NotFreed, Used, Resources, Queues
  <2>. QED
    BY <1>4, <2>1 DEF IInv, ClientsUndisturbed
<1>. QED
  BY <1>1, <1>2, <1>3, <1>5, <1>6 DEF IInv

LEMMA HandlersInvariant ==
  ASSUME IInv, NEW r \in Reqs, (r \in Clients /\ afs_map(r)) \/ Handle(r)
  PROVE  IInv'
<1>. USE DEF ReqStates
<1>1. CASE afs_map(r)
  BY <1>1, RequestInvariant DEF afs_map, Enqueue
<1>2. CASE Work(r)
  BY <1>2, RequestInvariant DEF Work, Leave
<1>3. CASE IoDone(r)
  BY <1>3, RequestInvariant DEF IoDone, Enqueue
<1>4. CASE Decode(r)
  BY Zenon, <1>4, RequestInvariant DEF Decode, Leave
<1>. QED
  BY <1>1, <1>2, <1>3, <1>4 DEF Handle

\* afs_dtr up to its first release: nothing has been freed, no client is inside.
LEMMA DtrStartInvariant ==
  ASSUME IInv, DtrStart \/ DtrSave
  PROVE  IInv'
<1>0. /\ (pc = "up" /\ pc' = "save") \/ (pc = "save" /\ pc' = "release")
      /\ UNCHANGED <<type, res, twice, req, released, sessions>>
  BY DEF DtrStart, DtrSave, Goto
<1>1. TypeOK'
  BY <1>0 DEF IInv, TypeOK
<1>2. CtrHeld' /\ NotFreed'
  BY <1>0 DEF IInv, CtrHeld, NotFreed, CtrSteps
<1>3. DtrProgress'
  BY <1>0, OrderFacts, OrderCovers DEF IInv, DtrProgress, NotFreed
<1>4. ClientsInside'
  BY <1>0 DEF IInv, ClientsInside, DtrStart, DtrSave, Goto
<1>5. ClientsUndisturbed' /\ NoDoubleFree' /\ NothingLeft'
  BY <1>0 DEF IInv, ClientsUndisturbed, NoDoubleFree, NothingLeft
<1>. QED
  BY <1>1, <1>2, <1>3, <1>4, <1>5 DEF IInv

LEMMA DtrReleaseInvariant ==
  ASSUME IInv, DtrRelease
  PROVE  IInv'
<1> DEFINE n == released + 1
           x == DtrOrder[n]
<1>0. /\ pc = "release"
      /\ pc' \in {"release", "out", "oops"}
      /\ released' = n
      /\ UNCHANGED <<type, req, sessions>>
  BY DEF DtrRelease
<1>1. n \in 1 .. Len(DtrOrder) /\ released \in Nat
  BY <1>0, OrderFacts DEF IInv, DtrProgress, TypeOK
<1>2. x \in Resources \ {"map_blocks"} /\ res[x] # "freed"
  BY <1>0, <1>1, OrderCovers DEF IInv, DtrProgress
<1>3. /\ twice' = twice
      /\ res' = [y \in Resources |-> IF y = x /\ res[y] = "held" THEN "freed" ELSE res[y]]
  <2>1. Release({x})
    BY DEF DtrRelease
  <2>. QED
    BY <1>2, <2>1 DEF Release
<1>4. res'[x] # "held" /\ \A y \in Resources : y # x => res'[y] = res[y]
  BY <1>2, <1>3 DEF IInv, TypeOK
<1>5. TypeOK'
  BY <1>0, <1>1, <1>3, OrderFacts DEF IInv, TypeOK
<1>6. CtrHeld' /\ NotFreed'
  BY <1>0, <1>2, <1>4 DEF IInv, CtrHeld, NotFreed, CtrSteps, Resources
<1>7. \A i \in 1 .. Len(DtrOrder) :
        /\ i > n => res'[DtrOrder[i]] # "freed"
        /\ i <= n => res'[DtrOrder[i]] # "held"
  <2> TAKE i \in 1 .. Len(DtrOrder)
  <2>1. CASE i = n
    BY <1>1, <1>4, <2>1, OrderFacts
  <2>2. CASE i # n
    <3>1. DtrOrder[i] \in Resources /\ DtrOrder[i] # x
      BY <1>1, <2>2, OrderCovers
    <3>2. res'[DtrOrder[i]] = res[DtrOrder[i]]
      BY <1>4, <3>1
    <3>3. i > n => i > released
      BY <1>1, OrderFacts
    <3>4. i <= n => i <= released
      BY <1>1, <2>2, OrderFacts
    <3>. QED
      BY <1>0, <3>2, <3>3, <3>4 DEF IInv, DtrProgress
  <2>. QED
    BY <2>1, <2>2
<1>8. DtrProgress'
  <2>1. pc' = "release" => n < Len(DtrOrder)
    BY <1>0, <1>1, OrderFacts DEF DtrRelease
  <2>2. Len(DtrOrder)' = Len(DtrOrder) /\ DtrOrder' = DtrOrder
    BY DEF DtrOrder
  <2>. QED
    BY <1>0, <1>7, <2>1, <2>2 DEF DtrProgress
<1>9. ClientsInside' /\ ClientsUndisturbed'
  BY <1>0 DEF IInv, ClientsInside, ClientsUndisturbed
<1>10. NoDoubleFree'
  BY <1>3 DEF IInv, NoDoubleFree
<1>11. NothingLeft'
  <2> SUFFICES ASSUME pc' = "out", NEW y \in Resources, res'[y] = "held"
               PROVE  FALSE
    BY DEF NothingLeft
  <2>1. n = Len(DtrOrder)
    BY <1>0 DEF DtrRelease
  <2>2. CASE y = "map_blocks"
    BY <1>0, <1>2, <1>4, <2>2 DEF IInv, CtrHeld
  <2>3. CASE y # "map_blocks"
    <3>1. PICK i \in 1 .. Len(DtrOrder) : y = DtrOrder[i]
      BY <2>3, OrderCovers
    <3>2. i <= n
      BY <2>1, OrderFacts
    <3>. QED
      BY <1>7, <3>1, <3>2
  <2>. QED
    BY <2>2, <2>3
<1>. QED
  BY <1>5, <1>6, <1>8, <1>9, <1>10, <1>11 DEF IInv

LEMMA NextInvariant == IInv /\ [Next]_vars => IInv'
<1> SUFFICES ASSUME IInv, [Next]_vars
             PROVE  IInv'
  OBVIOUS
<1>1. ASSUME NEW t \in Types, CtrStart(t)
      PROVE  IInv'
  BY <1>1, CtrStartInvariant
<1>2. CASE Ctr
  BY <1>2, CtrInvariant, CtrWriteInvariant, CtrQueuesInvariant DEF Ctr
<1>3. ASSUME NEW r \in Clients, afs_map(r)
      PROVE  IInv'
  BY <1>3, HandlersInvariant DEF Reqs
<1>4. ASSUME NEW r \in Reqs, Handle(r)
      PROVE  IInv'
  BY <1>4, HandlersInvariant
<1>5. CASE DtrStart \/ Dtr
  BY <1>5, DtrStartInvariant, DtrReleaseInvariant DEF Dtr
<1>6. CASE UNCHANGED vars
  <2>1. TypeOK' /\ CtrHeld' /\ NotFreed'
    BY <1>6 DEF IInv, vars, TypeOK, CtrHeld, NotFreed
  <2>2. DtrProgress' /\ ClientsInside'
    BY <1>6 DEF IInv, vars, DtrProgress, ClientsInside
  <2>3. NoDoubleFree' /\ NothingLeft' /\ ClientsUndisturbed'
    BY <1>6 DEF IInv, vars, NoDoubleFree, NothingLeft, ClientsUndisturbed
  <2>. QED
    BY <2>1, <2>2, <2>3 DEF IInv
<1>. QED
  BY <1>1, <1>2, <1>3, <1>4, <1>5, <1>6 DEF Next

-----------------------------------------------------------------------------

LEMMA Invariant == Spec => []IInv
BY InitInvariant, NextInvariant, PTL DEF Spec

\* The state of the target keeps its type through all sessions.
THEOREM TypeCorrect == Spec => []TypeOK
<1>1. IInv => TypeOK
  BY DEF IInv
<1>. QED
  BY Invariant, <1>1, PTL

\* Whichever step of afs_ctr fails, and in afs_dtr, nothing is released twice.
THEOREM ReleasedOnce == Spec => []NoDoubleFree
<1>1. IInv => NoDoubleFree
  BY DEF IInv
<1>. QED
  BY Invariant, <1>1, PTL

\* After a failed afs_ctr, and after afs_dtr, only pointer blocks can be left.
THEOREM OnlyPtrBlocksLeft == Spec => []NothingLeft
<1>1. IInv => NothingLeft
  BY DEF IInv
<1>. QED
  BY Invariant, <1>1, PTL

\* afs_dtr frees nothing that a request with a bio still uses, however many
\* requests there are.
THEOREM ClientsAreSafe == Spec => []ClientsUndisturbed
<1>1. IInv => ClientsUndisturbed
  BY DEF IInv
<1>. QED
  BY Invariant, <1>1, PTL
=============================================================================
