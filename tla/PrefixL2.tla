------------------------------- MODULE PrefixL2 -------------------------------
(***************************************************************************)
(* The on-disk snapshot cache: class DFlashPrefixL2Cache of                *)
(* cache/prefix_l2.py.  Several processes may open the same directory; the *)
(* one that gets the file lock writes, the others read.  In each process   *)
(* the request thread (one call at a time: the manager's lock) shares the  *)
(* cache with a writer thread.  (The lock belongs to the open file, so two *)
(* caches of one process exclude each other in the same way.)              *)
(*                                                                         *)
(*   disk      the snapshot files, oldest mtime first                      *)
(*   rotten    the files that do not load or fail the schema checks        *)
(*   proc[p]   the fields of the cache object of process p                 *)
(*   writer[p] the program counter and locals of its writer thread         *)
(*   client[p] the same for the call its request thread is making          *)
(*   reply     what the last lookup returned                               *)
(*   wiped     history: snapshots that were waiting to be written when     *)
(*             the cache was cleared, and were not offered again           *)
(*                                                                         *)
(* A file is named after key, kind, tokens, boundary and coverage, so a    *)
(* file and its snapshot are one value here.  The None of the queue comes  *)
(* last (nothing is put after a shutdown): it is the flag poison.          *)
(***************************************************************************)
EXTENDS Snapshots

CONSTANTS Proc, Snapshot, Request, NoSnapshot,
          InitDisk,      \* the possible contents of the directory at first
          Rotten,        \* files that would not load
          MaxBytes,      \* max_bytes, 0: no budget
          MaxInFlight,   \* max_in_flight
          SaveErrors,    \* how saving may fail: {}, {"os"} or {"os", "other"}
          SlowJoin,      \* whether a write may outlast the ten seconds of shutdown
          MaxActive,     \* bound of the model: requests open in a process
          MaxEpoch       \* bound of the model: clears in a process

ASSUME L2Assumption ==
  /\ \A s \in Snapshot : IsSnapshot(s)
  /\ \A r \in Request : IsRequest(r)
  /\ NoSnapshot \notin Snapshot
  /\ Rotten \subseteq Snapshot /\ InitDisk \subseteq Seq(Snapshot)
  /\ MaxBytes \in Nat /\ MaxInFlight \in Nat \ {0}
  /\ SaveErrors \subseteq {"os", "other"} /\ SlowJoin \in BOOLEAN
  /\ MaxActive \in Nat /\ MaxEpoch \in Nat

VARIABLES disk, proc, writer, client, reply, wiped

vars == <<disk, proc, writer, client, reply, wiped>>

Bytes(D) == Total([s \in ToSet(D) |-> s.size])
OnDisk(s) == s \in ToSet(disk)
Kept(D, S) == SelectAt(D, {n \in DOMAIN D : D[n] \in S})
Unlink(D, s) == Kept(D, ToSet(D) \ {s})
Newest(D, s) == Append(Unlink(D, s), s)

-----------------------------------------------------------------------------

Down == [up |-> "down", owner |-> FALSE, epoch |-> 0, tracked |-> 0, slots |-> 0,
         queue |-> << >>, poison |-> FALSE, stop |-> FALSE, active |-> 0, gate |-> TRUE]
NoJob == [snap |-> NoSnapshot, epoch |-> 0]
Asleep == [pc |-> "none", job |-> NoJob, woken |-> FALSE, tmp |-> FALSE,
           walk |-> << >>, seen |-> 0]
Quiet == [pc |-> "idle", req |-> NoSnapshot, cands |-> {}]

Init ==
  /\ disk \in InitDisk
  /\ proc = [p \in Proc |-> Down]
  /\ writer = [p \in Proc |-> Asleep]
  /\ client = [p \in Proc |-> Quiet]
  /\ reply = NoSnapshot
  /\ wiped = {}

\* The cache object can be called: the process runs and no call is under way.
Ready(p) == proc[p].up = "up" /\ client[p].pc = "idle"

\* __init__: take the directory lock if it is free, measure the files, and
\* start the writer thread if the lock was free.
Open(p) ==
  LET first == \A q \in Proc : ~proc[q].owner
  IN /\ proc[p].up = "down"
     /\ proc' = [proc EXCEPT ![p] = [Down EXCEPT !.up = "up", !.owner = first,
                                       !.slots = MaxInFlight, !.tracked = Bytes(disk)]]
     /\ writer' = [writer EXCEPT ![p].pc = IF first THEN "get" ELSE "none"]
     /\ UNCHANGED <<disk, client, reply, wiped>>

\* The process dies, at any point of any call; the kernel drops its lock.
\* It may be the ordinary exit after a shutdown.
Crash(p) ==
  /\ proc[p].up # "down"
  /\ proc' = [proc EXCEPT ![p] = Down]
  /\ writer' = [writer EXCEPT ![p] = Asleep]
  /\ client' = [client EXCEPT ![p] = Quiet]
  /\ UNCHANGED <<disk, reply, wiped>>

-----------------------------------------------------------------------------
(* The request thread *)

BeginRequest(p) ==
  /\ Ready(p) /\ proc[p].active < MaxActive
  /\ proc' = [proc EXCEPT ![p].active = @ + 1, ![p].gate = FALSE]
  /\ UNCHANGED <<disk, writer, client, reply, wiped>>

\* The gate is opened.  A thread blocked in Event.wait is notified and passes
\* even if the gate is closed before it runs; one that has just timed out is not.
OpenGate(p) ==
  \E w \in {writer[p].woken, writer[p].pc = "gate"} :
    writer' = [writer EXCEPT ![p].woken = w]

\* Mutant: the gate opens although another request is served.
EndRequest_OpensGate(p) ==
  /\ Ready(p) /\ proc[p].active > 0
  /\ proc' = [proc EXCEPT ![p].active = @ - 1, ![p].gate = TRUE]
  /\ OpenGate(p)
  /\ UNCHANGED <<disk, client, reply, wiped>>

\* Mutant: the gate is not opened again.
EndRequest_ForgetsGate(p) ==
  /\ Ready(p) /\ proc[p].active > 0
  /\ proc' = [proc EXCEPT ![p].active = @ - 1]
  /\ UNCHANGED <<disk, writer, client, reply, wiped>>

\* Requests nest; the last one to end opens the gate.
EndRequest(p) ==
  /\ Ready(p) /\ proc[p].active > 0
  /\ proc' = [proc EXCEPT ![p].active = @ - 1,
                          ![p].gate = @ \/ proc[p].active = 1]
  /\ IF proc[p].active = 1 THEN OpenGate(p) ELSE UNCHANGED writer
  /\ UNCHANGED <<disk, client, reply, wiped>>

\* insert_async accepts s: the file is there already, or a writer slot is free
\* and the job is queued.
Accepts(p, s) == proc[p].owner /\ (OnDisk(s) \/ proc[p].slots > 0)

\* insert_async: a read-only cache and a full queue drop the snapshot, a file
\* that exists is left alone, and a serialization that fails gives the slot
\* back before it raises.
Insert(p, s) ==
  /\ Ready(p)
  /\ \/ /\ ~Accepts(p, s) \/ OnDisk(s)
        /\ UNCHANGED <<proc, wiped>>
     \/ /\ Accepts(p, s) /\ ~OnDisk(s)
        /\ proc' = [proc EXCEPT ![p].slots = @ - 1,
                                ![p].queue = Append(@, [snap |-> s, epoch |-> proc[p].epoch])]
        /\ wiped' = wiped \ {s}
  /\ UNCHANGED <<disk, writer, client, reply>>

\* Mutant: the length in the file name is taken for a match.
Candidates_AnyTokens(D, r, minLen) ==
  {s \in ToSet(D) : /\ s.key = r.key
                    /\ Len(s.tokens) > minLen /\ Len(s.tokens) <= Len(r.tokens)
                    /\ Len(s.tokens) = Len(r.tokens) => s.kind = "prefill"}

\* The files a lookup goes through: of the bucket of the key, longer than
\* what the caller already has, matching the hash of the request's prefix.
Candidates(D, r, minLen) ==
  {s \in ToSet(D) : /\ s.key = r.key
                    /\ Len(s.tokens) > minLen
                    /\ CoversPrefix(s, r)
                    /\ Len(s.tokens) = Len(r.tokens) => s.kind = "prefill"}

\* The candidates tried next: the longest, prefill before generation.
Foremost(C) ==
  {s \in C : \A t \in C :
     \/ Len(s.tokens) > Len(t.tokens)
     \/ Len(s.tokens) = Len(t.tokens) /\ (s.kind = "prefill" \/ t.kind = "generation")}

MissReply(r) == [req |-> r, snap |-> NoSnapshot]

\* lookup, the scan of the bucket.
Lookup(p, r, minLen) ==
  /\ Ready(p)
  /\ client' = [client EXCEPT ![p] =
                  [pc |-> "load", req |-> r, cands |-> Candidates(disk, r, minLen)]]
  /\ UNCHANGED <<disk, proc, writer, reply, wiped>>

\* Mutant: the coverage the draft model needs is not checked.
Serves_Trimmed(s, r) == s \notin Rotten /\ Answers(s, r)

\* _load_and_validate returns the snapshot.
Serves(s, r) == s \notin Rotten /\ (r.full => s.full) /\ Answers(s, r)

\* lookup, one turn of its loop.  A file may have vanished since the scan; a
\* rotten one is unlinked by the process that may write.
Load(p) ==
  LET r == client[p].req
      C == client[p].cands
  IN /\ client[p].pc = "load"
     /\ \/ /\ C = {}
           /\ reply' = MissReply(r)
           /\ client' = [client EXCEPT ![p] = Quiet]
           /\ UNCHANGED disk
        \/ \E s \in Foremost(C) :
             \/ /\ OnDisk(s) /\ Serves(s, r)
                /\ reply' = [req |-> r, snap |-> s]
                /\ disk' = Newest(disk, s)
                /\ client' = [client EXCEPT ![p] = Quiet]
             \/ /\ OnDisk(s) /\ s \in Rotten /\ proc[p].owner
                /\ disk' = Unlink(disk, s)
                /\ client' = [client EXCEPT ![p].cands = C \ {s}, ![p].pc = "recount"]
                /\ UNCHANGED reply
             \/ /\ ~OnDisk(s) \/ (~Serves(s, r) /\ ~(s \in Rotten /\ proc[p].owner))
                /\ client' = [client EXCEPT ![p].cands = C \ {s}]
                /\ UNCHANGED <<disk, reply>>
     /\ UNCHANGED <<proc, writer, wiped>>

\* _unlink_if_writable, after the unlink.
Recount(p) ==
  /\ client[p].pc = "recount"
  /\ proc' = [proc EXCEPT ![p].tracked = Bytes(disk)]
  /\ client' = [client EXCEPT ![p].pc = "load"]
  /\ UNCHANGED <<disk, writer, reply, wiped>>

Pending(p) ==
  {proc[p].queue[n].snap : n \in DOMAIN proc[p].queue}
    \cup ({writer[p].job.snap} \ {NoSnapshot})

\* Mutant: jobs queued before the clear keep a current epoch.
Clear_KeepsEpoch(p) ==
  /\ Ready(p) /\ proc[p].owner /\ proc[p].epoch < MaxEpoch
  /\ disk' = << >>
  /\ proc' = [proc EXCEPT ![p].tracked = 0]
  /\ writer' = [writer EXCEPT ![p].tmp = FALSE]
  /\ wiped' = wiped \cup Pending(p)
  /\ UNCHANGED <<client, reply>>

\* clear: the whole tree goes, temporary files included.  A removal that
\* fails half way leaves some files, is measured, and raises.
Clear(p) ==
  /\ Ready(p) /\ proc[p].owner /\ proc[p].epoch < MaxEpoch
  /\ \E kept \in SUBSET ToSet(disk) :
       /\ disk' = Kept(disk, kept)
       /\ proc' = [proc EXCEPT ![p].epoch = @ + 1, ![p].tracked = Bytes(disk')]
       /\ wiped' = wiped \cup (Pending(p) \ kept)
       /\ \E t \in {FALSE, writer[p].tmp} :
            writer' = [writer EXCEPT ![p].tmp = t /\ kept # {}]
  /\ UNCHANGED <<client, reply>>

\* Mutant: the gate is left as it is.
Shutdown_KeepsGate(p) ==
  /\ Ready(p)
  /\ proc' = [proc EXCEPT ![p].poison = writer[p].pc # "none"]
  /\ client' = [client EXCEPT ![p].pc = "join"]
  /\ UNCHANGED <<disk, writer, reply, wiped>>

\* shutdown, up to the join: the gate opens so that the queue can drain.
Shutdown(p) ==
  /\ Ready(p)
  /\ proc' = [proc EXCEPT ![p].gate = TRUE, ![p].poison = writer[p].pc # "none"]
  /\ OpenGate(p)
  /\ client' = [client EXCEPT ![p].pc = "join"]
  /\ UNCHANGED <<disk, reply, wiped>>

Ended(p) == writer[p].pc \in {"none", "exited", "dead"}

\* Mutant: shutdown does not wait for the writer.
Joined_NoWait(p) ==
  /\ client[p].pc = "join"
  /\ proc' = [proc EXCEPT ![p].stop = TRUE, ![p].owner = FALSE, ![p].up = "closed"]
  /\ client' = [client EXCEPT ![p].pc = "idle"]
  /\ UNCHANGED <<disk, writer, reply, wiped>>

\* shutdown, after the join: the directory lock is given up.  The join gives
\* up after ten seconds, whatever the writer is doing.
Joined(p) ==
  /\ client[p].pc = "join" /\ (Ended(p) \/ SlowJoin)
  /\ proc' = [proc EXCEPT ![p].stop = TRUE, ![p].owner = FALSE, ![p].up = "closed"]
  /\ client' = [client EXCEPT ![p].pc = "idle"]
  /\ UNCHANGED <<disk, writer, reply, wiped>>

-----------------------------------------------------------------------------
(* The writer thread *)

At(p, pc) == writer[p].pc = pc

Goto(p, pc) == writer' = [writer EXCEPT ![p].pc = pc]

\* Mutant: the slot of a finished job is not given back.
EndJob_KeepsSlot(p, pc) ==
  /\ writer' = [writer EXCEPT ![p] = [Asleep EXCEPT !.pc = pc]]
  /\ UNCHANGED proc

\* Mutant: the temporary file of an abandoned job stays.
EndJob_KeepsTemp(p, pc) ==
  /\ writer' = [writer EXCEPT ![p] = [Asleep EXCEPT !.pc = pc, !.tmp = writer[p].tmp]]
  /\ proc' = [proc EXCEPT ![p].slots = @ + 1]

\* The finally of the loop: whatever happened to the job, its slot is free
\* again; the code before it has removed the temporary file.
EndJob(p, pc) ==
  /\ writer' = [writer EXCEPT ![p] = [Asleep EXCEPT !.pc = pc]]
  /\ proc' = [proc EXCEPT ![p].slots = @ + 1]

\* The queue is served in order; the None ends the loop.
Get(p) ==
  /\ At(p, "get")
  /\ \/ /\ proc[p].queue # << >>
        /\ writer' = [writer EXCEPT ![p].pc = "gate", ![p].job = Head(proc[p].queue)]
        /\ proc' = [proc EXCEPT ![p].queue = Tail(@)]
     \/ /\ proc[p].queue = << >> /\ (proc[p].poison \/ proc[p].stop)
        /\ Goto(p, "exited")
        /\ UNCHANGED proc
  /\ UNCHANGED <<disk, client, reply, wiped>>

\* The wait for the gate; a stop ends it too.
PassGate(p) ==
  /\ At(p, "gate") /\ (proc[p].gate \/ proc[p].stop \/ writer[p].woken)
  /\ writer' = [writer EXCEPT ![p].pc = "check", ![p].woken = FALSE]
  /\ UNCHANGED <<disk, proc, client, reply, wiped>>

Current(p) == writer[p].job.epoch = proc[p].epoch

CheckEpoch(p) ==
  /\ At(p, "check")
  /\ \/ ~Current(p) /\ EndJob(p, "get")
     \/ Current(p) /\ Goto(p, "save") /\ UNCHANGED proc
  /\ UNCHANGED <<disk, client, reply, wiped>>

\* _write_job_to_disk: nothing to do when the file exists, else a temporary
\* file is made.
StartSave(p) ==
  /\ At(p, "save")
  /\ \/ OnDisk(writer[p].job.snap) /\ Goto(p, "payload")
     \/ /\ ~OnDisk(writer[p].job.snap)
        /\ writer' = [writer EXCEPT ![p].pc = "saving", ![p].tmp = TRUE]
  /\ UNCHANGED <<disk, proc, client, reply, wiped>>

\* save_safetensors succeeds, or raises.  The loop survives an OSError; any
\* other exception ends the thread, with the slot given back.
FinishSave(p) ==
  /\ At(p, "saving")
  /\ \/ Goto(p, "payload") /\ UNCHANGED proc
     \/ "os" \in SaveErrors /\ EndJob(p, "get")
     \/ "other" \in SaveErrors /\ EndJob(p, "dead")
  /\ UNCHANGED <<disk, client, reply, wiped>>

\* _write_payload up to the replace: the lock may be gone, the cache may have
\* been cleared, the file may have appeared, and without a temporary file
\* there is nothing to move.
CheckPayload(p) ==
  /\ At(p, "payload")
  /\ \/ /\ ~proc[p].owner \/ ~Current(p) \/ OnDisk(writer[p].job.snap) \/ ~writer[p].tmp
        /\ EndJob(p, "get")
     \/ /\ proc[p].owner /\ Current(p) /\ ~OnDisk(writer[p].job.snap) /\ writer[p].tmp
        /\ Goto(p, "replace") /\ UNCHANGED proc
  /\ UNCHANGED <<disk, client, reply, wiped>>

\* Mutant: the epoch is not looked at again under the lock.
Replace_Unchecked(p) ==
  /\ At(p, "replace")
  /\ disk' = Append(disk, writer[p].job.snap)
  /\ proc' = [proc EXCEPT ![p].tracked = @ + writer[p].job.snap.size]
  /\ writer' = [writer EXCEPT ![p].pc = "evict", ![p].tmp = FALSE]
  /\ UNCHANGED <<client, reply, wiped>>

\* Mutant: the new file is not counted.
Replace_Uncounted(p) ==
  /\ At(p, "replace") /\ Current(p)
  /\ disk' = Append(disk, writer[p].job.snap)
  /\ writer' = [writer EXCEPT ![p].pc = "evict", ![p].tmp = FALSE]
  /\ UNCHANGED <<proc, client, reply, wiped>>

\* The replace, under the lock with a last look at the epoch; it may fail.
Replace(p) ==
  /\ At(p, "replace")
  /\ \/ /\ ~Current(p) \/ "os" \in SaveErrors
        /\ EndJob(p, "get")
        /\ UNCHANGED disk
     \/ /\ Current(p)
        /\ disk' = Append(disk, writer[p].job.snap)
        /\ proc' = [proc EXCEPT ![p].tracked = @ + writer[p].job.snap.size]
        /\ writer' = [writer EXCEPT ![p].pc = "evict", ![p].tmp = FALSE]
  /\ UNCHANGED <<client, reply, wiped>>

\* _evict_to_budget, the test of the tracked bytes.
StartEvict(p) ==
  LET due == proc[p].owner /\ MaxBytes > 0 /\ proc[p].tracked > MaxBytes
  IN /\ At(p, "evict")
     /\ IF due THEN Goto(p, "walk") /\ UNCHANGED proc ELSE EndJob(p, "get")
     /\ UNCHANGED <<disk, client, reply, wiped>>

\* The walk over the files, without the lock ...
Walk(p) ==
  /\ At(p, "walk")
  /\ writer' = [writer EXCEPT ![p].pc = "observed", ![p].walk = disk, ![p].seen = Bytes(disk)]
  /\ UNCHANGED <<disk, proc, client, reply, wiped>>

\* ... and, with it, the measured total replaces the tracked one.
Observe(p) ==
  /\ At(p, "observed")
  /\ proc' = [proc EXCEPT ![p].tracked = writer[p].seen]
  /\ Goto(p, "sweep")
  /\ UNCHANGED <<disk, client, reply, wiped>>

\* Mutant: the loop does not look at the budget again.
Sweep_All(p) ==
  /\ At(p, "sweep")
  /\ \/ /\ writer[p].walk = << >>
        /\ EndJob(p, "get")
        /\ UNCHANGED disk
     \/ /\ writer[p].walk # << >>
        /\ IF OnDisk(Head(writer[p].walk))
           THEN /\ disk' = Unlink(disk, Head(writer[p].walk))
                /\ Goto(p, "subtract")
           ELSE /\ writer' = [writer EXCEPT ![p].walk = Tail(@)]
                /\ UNCHANGED disk
        /\ UNCHANGED proc
  /\ UNCHANGED <<client, reply, wiped>>

\* One turn of the eviction loop: stop when the budget is met, skip a file
\* that is already gone, else unlink the oldest ...
Sweep(p) ==
  /\ At(p, "sweep")
  /\ \/ /\ writer[p].walk = << >> \/ proc[p].tracked <= MaxBytes
        /\ EndJob(p, "get")
        /\ UNCHANGED disk
     \/ /\ writer[p].walk # << >> /\ proc[p].tracked > MaxBytes
        /\ IF OnDisk(Head(writer[p].walk))
           THEN /\ disk' = Unlink(disk, Head(writer[p].walk))
                /\ Goto(p, "subtract")
           ELSE /\ writer' = [writer EXCEPT ![p].walk = Tail(@)]
                /\ UNCHANGED disk
        /\ UNCHANGED proc
  /\ UNCHANGED <<client, reply, wiped>>

\* ... and, under the lock, account for it.
Subtract(p) ==
  LET left == proc[p].tracked - Head(writer[p].walk).size
  IN /\ At(p, "subtract")
     /\ proc' = [proc EXCEPT ![p].tracked = IF left > 0 THEN left ELSE 0]
     /\ writer' = [writer EXCEPT ![p].pc = "sweep", ![p].walk = Tail(@)]
     /\ UNCHANGED <<disk, client, reply, wiped>>

WriterStep(p) ==
  \/ Get(p) \/ PassGate(p) \/ CheckEpoch(p) \/ StartSave(p) \/ FinishSave(p)
  \/ CheckPayload(p) \/ Replace(p) \/ StartEvict(p) \/ Walk(p) \/ Observe(p)
  \/ Sweep(p) \/ Subtract(p)

-----------------------------------------------------------------------------

Next ==
  \E p \in Proc :
    \/ Open(p) \/ Crash(p)
    \/ BeginRequest(p) \/ EndRequest(p)
    \/ \E s \in Snapshot : Insert(p, s)
    \/ \E r \in Request : Lookup(p, r, 0)
    \/ Load(p) \/ Recount(p)
    \/ Clear(p) \/ Shutdown(p) \/ Joined(p)
    \/ WriterStep(p)

Spec == Init /\ [][Next]_vars

-----------------------------------------------------------------------------
(* Properties *)

Held(p) == IF writer[p].job = NoJob THEN 0 ELSE 1

\* Every writer slot is free, or stands for one job queued or being written,
\* on every path a job can take: finished, overtaken by a clear, failed, or
\* interrupted by an exception that ends the thread.  A slot lost on one of
\* them would silence the cache for good.  Nor does any of them leave a
\* temporary file behind.
SlotsAccounted ==
  \A p \in Proc :
    /\ proc[p].up # "down" => proc[p].slots + Len(proc[p].queue) + Held(p) = MaxInFlight
    /\ writer[p].pc \in {"none", "get", "gate", "exited", "dead"} => ~writer[p].tmp

\* Clearing the cache is final: a snapshot that was queued or half written
\* when clear() ran does not reach the directory afterwards.
ClearedStaysCleared == ToSet(disk) \cap wiped = {}

\* While the process serves, the gate is open exactly when no request is
\* active, however requests nest.
GateMatchesRequests ==
  \A p \in Proc :
    Ready(p) => (proc[p].gate <=> proc[p].active = 0)

\* The byte count the budget is enforced with is the size of the directory,
\* except inside an eviction between the walk and the update it leads to.
\* It holds while no file is removed behind the writer (no clear, no rotten
\* file).
TrackedExact ==
  \A p \in Proc :
    proc[p].owner /\ writer[p].pc # "subtract" => proc[p].tracked = Bytes(disk)

\* test_prefix_l2.py: after a lookup removed a corrupt file, "after ==
\* sum(p.stat().st_size for p in _all_snapshot_files(tmp_path))".
TrackedWhenQuiet ==
  \A p \in Proc :
    proc[p].owner /\ Ready(p) /\ writer[p].pc = "get" => proc[p].tracked = Bytes(disk)

\* Eviction does what the budget asks and no more: when the writer is done with
\* a write the directory is within its budget, whatever an earlier process left
\* there, and a file is only given up while the directory is over it.  (A
\* directory left over budget by a crash or by a smaller max_bytes stays so
\* until the first write.)
EvictsToBudget ==
  [][\A p \in Proc :
       /\ /\ MaxBytes > 0 /\ proc[p].owner /\ writer[p].pc \in {"evict", "sweep"}
          /\ writer'[p].pc = "get"
          => Bytes(disk) <= MaxBytes
       /\ Sweep(p) /\ disk' # disk => Bytes(disk) > MaxBytes]_vars

\* Only the process that holds the directory lock adds or removes files, as
\* long as the writer gets to its end within the join of shutdown().
OnlyOwnerChangesFiles ==
  [][ToSet(disk') # ToSet(disk) =>
       \E p \in Proc : /\ proc[p].owner
                       /\ \A q \in Proc \ {p} :
                            proc'[q] = proc[q] /\ writer'[q] = writer[q] /\ client'[q] = client[q]]_vars

\* The snapshots somebody can still be served: the files, and the jobs on
\* their way to becoming one.
Stored == ToSet(disk) \cup UNION {Pending(p) : p \in Proc}

\* The directory keeps the promise every prefix cache makes: no snapshot is
\* served that was not stored, and none that does not fit the request.
Promise == INSTANCE PrefixCacheSpec WITH held <- Stored
ImplementsPromise == Promise!Spec

==============================================================================
