----------------------------- MODULE AfsTarget -----------------------------
(***************************************************************************)
(* The life of an Artifice device-mapper target: the constructor afs_ctr   *)
(* with its error labels, requests of clients (afs_map) and of the rebuild *)
(* that a mount starts (afs_rebuild), and the destructor afs_dtr, from     *)
(* src/dm_afs.c.                                                           *)
(*                                                                         *)
(* What AfsEngine and AfsMetadata model in detail is a few steps here:     *)
(* this module is about who uses and who releases the resources of the     *)
(* target, and when.  Any allocation may fail.  A resource is none (never  *)
(* allocated in this session; releasing it is a no-op), held or freed.     *)
(*                                                                         *)
(* The device mapper calls afs_map only while the target is up and afs_dtr *)
(* only when the bios of all clients have ended.  Rebuild requests have no *)
(* bio, so it does not know of them.                                       *)
(***************************************************************************)
EXTENDS Integers, Sequences

CONSTANTS
  Clients,      \* requests that come with a bio
  Rebuilds,     \* requests of afs_rebuild, one per block
  MaxSessions   \* calls of afs_ctr

Reqs == Clients \cup Rebuilds

Queues == {"flight_wq", "rebuild_wq", "crypto_wq"}

Resources == {"context", "device", "block_list", "vector", "afs_map",
              "map_blocks", "ptr_blocks"} \cup Queues

\* What the handlers of a request use.
Used == {"context", "device", "block_list", "vector", "afs_map"}

Types == {"create", "mount", "shadow"}

\* Mutant of DtrOrder: the map is freed again in place of the vector.
DtrOrderTwice == <<"ptr_blocks", "afs_map", "afs_map", "block_list", "device",
                   "flight_wq", "rebuild_wq", "crypto_wq", "context">>

\* The order in which afs_dtr releases.
DtrOrder == <<"ptr_blocks", "afs_map", "vector", "block_list", "device",
              "flight_wq", "rebuild_wq", "crypto_wq", "context">>

CtrSteps == {"args", "device", "detect", "vector", "super", "map", "map_blocks",
             "ptr_blocks", "write", "find", "queues"}

ASSUME RequestsAssumption == Clients \cap Rebuilds = {}

ASSUME SessionsAssumption == MaxSessions \in Nat

VARIABLES
  pc,        \* where afs_ctr or afs_dtr is; "out", "up", or an end
  type,      \* args->instance_type
  res,       \* state of each resource
  twice,     \* resources that were released twice
  req,       \* state of each request
  released,  \* how many of DtrOrder afs_dtr has released
  sessions   \* calls of afs_ctr so far

vars == <<pc, type, res, twice, req, released, sessions>>

ReqStates == {"none", "flight_wq", "rebuild_wq", "io", "crypto_wq"}

TypeOK ==
  /\ pc \in CtrSteps \cup {"out", "up", "save", "release", "spinning", "oops"}
  /\ type \in Types
  /\ res \in [Resources -> {"none", "held", "freed"}]
  /\ twice \subseteq Resources
  /\ req \in [Reqs -> ReqStates]
  /\ released \in 0 .. Len(DtrOrder)
  /\ sessions \in 0 .. MaxSessions

Init ==
  /\ pc = "out"
  /\ type = "create"
  /\ res = [x \in Resources |-> "none"]
  /\ twice = {}
  /\ req = [r \in Reqs |-> "none"]
  /\ released = 0
  /\ sessions = 0

Hold(S) == res' = [x \in Resources |-> IF x \in S THEN "held" ELSE res[x]] /\ UNCHANGED twice

\* Release the resources of S; what was never allocated stays so.
Release(S) ==
  /\ twice' = twice \cup {x \in S : res[x] = "freed"}
  /\ res' = [x \in Resources |-> IF x \in S /\ res[x] = "held" THEN "freed" ELSE res[x]]

\* The error labels of afs_ctr, each falling through to the next.
args_err == {"context"}

fs_err == {"device"} \cup args_err

\* Mutant of vec_err: the block list is forgotten.
vec_err_no_list == fs_err

vec_err == {"block_list"} \cup fs_err

sb_err == {"vector"} \cup vec_err

\* afs_ctr fails, having released S.
Fail(S) == pc' = "out" /\ Release(S)

Goto(from, to) == pc = from /\ pc' = to

(***************************************************************************)
(* afs_ctr.                                                                *)
(***************************************************************************)

\* A new call: everything is allocated anew.  A failing kmalloc of the context
\* or too small a size ends it at once.  A rebuild request that outlives its
\* target uses freed memory and is not followed into the next session.
CtrStart(t) ==
  /\ Goto("out", "args")
  /\ \A r \in Reqs : req[r] = "none"
  /\ sessions < MaxSessions
  /\ sessions' = sessions + 1
  /\ type' = t
  /\ res' = [x \in Resources |-> IF x = "context" THEN "held" ELSE "none"]
  /\ released' = 0
  /\ UNCHANGED <<twice, req>>

\* Mutant of CtrArgs: an instance type that is none of the three is accepted.
CtrArgsUnchecked ==
  /\ Goto("args", "device")
  /\ type' = "unknown"
  /\ UNCHANGED <<res, twice, req, released, sessions>>

\* parse_afs_args.
CtrArgs ==
  /\ pc = "args"
  /\ \/ pc' = "device" /\ UNCHANGED <<res, twice>>
     \/ Fail(args_err)
  /\ UNCHANGED <<type, req, released, sessions>>

\* dm_get_device.
CtrDevice ==
  /\ pc = "device"
  /\ \/ pc' = "detect" /\ Hold({"device"})
     \/ Fail(args_err)
  /\ UNCHANGED <<type, req, released, sessions>>

\* detect_fs.  That no file system was found is not an error.
CtrDetect ==
  /\ Goto("detect", "vector")
  /\ \/ Hold({"block_list"})
     \/ UNCHANGED <<res, twice>>
  /\ UNCHANGED <<type, req, released, sessions>>

\* bit_vector_create.
CtrVector ==
  /\ pc = "vector"
  /\ \/ pc' = "super" /\ Hold({"vector"})
     \/ Fail(vec_err)
  /\ UNCHANGED <<type, req, released, sessions>>

\* Look for the location of the superblock.  With an empty list the search in
\* write_super_block and in find_super_block never ends.
CtrSuper ==
  /\ pc = "super"
  /\ pc' = CASE type = "shadow" -> "queues"
             [] type # "shadow" /\ res["block_list"] # "held" -> "spinning"
             [] type = "create" /\ res["block_list"] = "held" -> "map"
             [] type = "mount" /\ res["block_list"] = "held" -> "find"
  /\ UNCHANGED <<type, res, twice, req, released, sessions>>

\* find_super_block: the superblock is not there, or has another size.
CtrFind ==
  /\ pc = "find"
  /\ \/ pc' = "map" /\ UNCHANGED <<res, twice>>
     \/ Fail(sb_err)
  /\ UNCHANGED <<type, req, released, sessions>>

\* afs_create_map, of write_super_block or find_super_block.
CtrMap ==
  /\ pc = "map"
  /\ \/ pc' = (IF type = "create" THEN "map_blocks" ELSE "ptr_blocks") /\ Hold({"afs_map"})
     \/ Fail(sb_err)
  /\ UNCHANGED <<type, req, released, sessions>>

\* write_super_block: afs_create_map_blocks.
CtrMapBlocks ==
  /\ pc = "map_blocks"
  /\ \/ pc' = "ptr_blocks" /\ Hold({"map_blocks"})
     \/ Fail({"afs_map"} \cup sb_err)
  /\ UNCHANGED <<type, req, released, sessions>>

\* kmalloc of the pointer blocks; when mounting also afs_fill_map before it.
CtrPtrBlocks ==
  /\ pc = "ptr_blocks"
  /\ \/ pc' = (IF type = "create" THEN "write" ELSE "queues") /\ Hold({"ptr_blocks"})
     \/ Fail({"map_blocks", "afs_map"} \cup sb_err)
  /\ UNCHANGED <<type, req, released, sessions>>

\* write_super_block: everything written, or no space for the map blocks and
\* pointer blocks.  The label ptr_block_err does not free the pointer blocks.
CtrWrite ==
  /\ pc = "write"
  /\ \/ pc' = "queues" /\ Release({"map_blocks"})
     \/ Fail({"map_blocks", "afs_map"} \cup sb_err)
  /\ UNCHANGED <<type, req, released, sessions>>

\* alloc_workqueue: those of S are there.  It returns NULL when it fails, which
\* IS_ERR does not recognise.  A mount then queues the rebuild requests.
CtrQueues(S) ==
  /\ pc = "queues"
  /\ Hold(S)
  /\ pc' = IF type = "mount" /\ "rebuild_wq" \notin S THEN "oops" ELSE "up"
  /\ req' = [r \in Reqs |->
               IF r \in Rebuilds /\ type = "mount" /\ pc' = "up" THEN "rebuild_wq"
               ELSE req[r]]
  /\ UNCHANGED <<type, released, sessions>>

(***************************************************************************)
(* Requests.                                                               *)
(***************************************************************************)

\* Put request r on a work queue, if there is one.
Enqueue(r, q) ==
  IF res[q] = "none" THEN pc' = "oops" /\ UNCHANGED req
  ELSE req' = [req EXCEPT ![r] = q] /\ UNCHANGED pc

\* The request is cleaned up, or its carrier bios are submitted.
Leave(r) ==
  /\ UNCHANGED pc
  /\ \E s \in {"none", "io"} : req' = [req EXCEPT ![r] = s]

\* A client's bio arrives.
afs_map(r) ==
  /\ pc = "up"
  /\ req[r] = "none"
  /\ Enqueue(r, "flight_wq")
  /\ UNCHANGED <<type, res, twice, released, sessions>>

\* Mutant of Work: the handler returns without cleaning the request up.
WorkNothing(r) ==
  /\ pc # "oops"
  /\ req[r] \in {"flight_wq", "rebuild_wq"}
  /\ UNCHANGED vars

\* afs_flightq or afs_rebuildq.  A shadow target has no map.
Work(r) ==
  /\ pc # "oops"
  /\ req[r] \in {"flight_wq", "rebuild_wq"}
  /\ IF res["afs_map"] = "none" THEN pc' = "oops" /\ UNCHANGED req ELSE Leave(r)
  /\ UNCHANGED <<type, res, twice, released, sessions>>

\* The last carrier bio completes: afs_write_endio cleans up, afs_read_endio
\* queues the request for decoding.
IoDone(r) ==
  /\ pc # "oops"
  /\ req[r] = "io"
  /\ \/ req' = [req EXCEPT ![r] = "none"] /\ UNCHANGED pc
     \/ Enqueue(r, "crypto_wq")
  /\ UNCHANGED <<type, res, twice, released, sessions>>

\* afs_cryptoq; after a failed checksum carrier blocks are written.
Decode(r) ==
  /\ pc # "oops"
  /\ req[r] = "crypto_wq"
  /\ Leave(r)
  /\ UNCHANGED <<type, res, twice, released, sessions>>

(***************************************************************************)
(* afs_dtr.                                                                *)
(***************************************************************************)

\* Mutant of DtrStart: the bios of clients are not waited for.
DtrAtOnce ==
  /\ Goto("up", "save")
  /\ UNCHANGED <<type, res, twice, req, released, sessions>>

\* The loop on the engine queues does not wait: nothing is ever added to them.
DtrStart ==
  /\ Goto("up", "save")
  /\ \A r \in Clients : req[r] = "none"
  /\ UNCHANGED <<type, res, twice, req, released, sessions>>

\* afs_create_map_blocks, write_map_blocks, vfree; errors are only reported.
DtrSave ==
  /\ Goto("save", "release")
  /\ UNCHANGED <<type, res, twice, req, released, sessions>>

\* destroy_workqueue waits for what is on the queue.
DtrRelease ==
  LET x == DtrOrder[released + 1]
  IN /\ pc = "release"
     /\ x \in Queues => \A r \in Reqs : req[r] # x
     /\ Release({x})
     /\ released' = released + 1
     /\ pc' = IF x \in Queues /\ res[x] = "none" THEN "oops"
              ELSE IF released' = Len(DtrOrder) THEN "out"
              ELSE pc
     /\ UNCHANGED <<type, req, sessions>>

-----------------------------------------------------------------------------

Ctr ==
  \/ CtrArgs \/ CtrDevice \/ CtrDetect \/ CtrVector \/ CtrSuper \/ CtrFind
  \/ CtrMap \/ CtrMapBlocks \/ CtrPtrBlocks \/ CtrWrite
  \/ \E S \in SUBSET Queues : CtrQueues(S)

Dtr == DtrSave \/ DtrRelease

Handle(r) == Work(r) \/ IoDone(r) \/ Decode(r)

Next ==
  \/ \E t \in Types : CtrStart(t)
  \/ Ctr
  \/ \E r \in Clients : afs_map(r)
  \/ \E r \in Reqs : Handle(r)
  \/ DtrStart
  \/ Dtr

Spec == Init /\ [][Next]_vars

\* afs_ctr and afs_dtr run on, bios complete, work queues run what is queued, and
\* a request is not rebuilt for ever: carrier blocks are rewritten once.
FairSpec ==
  /\ Spec
  /\ WF_vars(Ctr)
  /\ WF_vars(Dtr)
  /\ \A r \in Reqs :
       WF_vars(Handle(r)) /\ SF_vars(Handle(r) /\ req'[r] = "none")

-----------------------------------------------------------------------------

\* Whichever step of afs_ctr fails, and in afs_dtr, no resource is released
\* twice: write_super_block, find_super_block and the labels of afs_ctr that
\* they fall through to share the clean-up.
NoDoubleFree == twice = {}

\* After afs_ctr has failed or afs_dtr has ended nothing is left allocated but
\* the pointer blocks, which the label ptr_block_err of write_super_block
\* forgets when there is no space for them.
NothingLeft ==
  pc = "out" => \A x \in Resources : res[x] = "held" => x = "ptr_blocks"

\* Nothing that afs_dtr releases is in use by a client's request: not by a
\* handler, not by a carrier bio in flight that has yet to be queued for decoding.
ClientsUndisturbed ==
  \A r \in Clients : req[r] # "none" =>
    \A x \in Used \cup {"crypto_wq"} : res[x] # "freed"

\* "Wait for all requests to have processed" (dm_afs.c:652): when afs_dtr begins
\* to release, no request is left.
DtrWaits == pc = "release" => \A r \in Reqs : req[r] = "none"

\* afs_ctr returns, unless detect_fs found no file system, and afs_dtr returns
\* although it drains the work queues while requests still move between them.
CallsReturn ==
  pc \in CtrSteps \cup {"save", "release"}
    ~> pc \in {"up", "out", "oops"} \/ res["block_list"] = "none"
=============================================================================
