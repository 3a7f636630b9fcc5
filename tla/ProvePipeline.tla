--------------------------- MODULE ProvePipeline ---------------------------
(***************************************************************************)
(* Phase 2 of prove-boot: the main thread feeds the recorded chunks to a   *)
(* bounded WorkQueue (a Mutex and two Condvars), proving workers take them *)
(* and send their proofs down an unbounded mpsc channel, and the folder    *)
(* thread reorders the proofs and folds them one by one.  The main thread  *)
(* ends the workers with one poison pill each, joins every thread, and     *)
(* writes the folded proof.                                                *)
(*                                                                         *)
(* A chunk, its work item and its proof are all named by chunk_index.  A   *)
(* critical section of the Mutex is one step.  What may go wrong outside   *)
(* the protocol itself is switched on by the constants: MaxPanics workers  *)
(* may panic inside the prover, and Faults names the other failures.       *)
(***************************************************************************)
EXTENDS Naturals, Sequences, FiniteSets

CONSTANTS
  Workers,    \* the prover threads (--workers, at least one)
  NumChunks,  \* chunks_executed: what phase 1 recorded (at least one)
  MaxPanics,  \* how many workers may panic while proving
  Faults,     \* other failures that may happen
  Pill        \* the None work item

ASSUME WorkersAssumption == IsFiniteSet(Workers) /\ Workers # {}
ASSUME NumChunksAssumption == NumChunks \in Nat \ {0}
ASSUME FaultsAssumption == /\ MaxPanics \in Nat
                           /\ Faults \subseteq {"folder", "io", "sigint"}
ASSUME PillAssumption == Pill \notin Nat

VARIABLES
  mainPc,   \* where the main thread is
  sent,     \* items the main thread has pushed
  queue,    \* WorkQueue.queue
  wpc,      \* where each worker is
  work,     \* the chunk a worker holds, or Pill
  proved,   \* chunks_proved
  chan,     \* the result channel, oldest first
  foldPc,   \* "run" while the folder thread holds the receiver
  buf,      \* ReorderIterator.buf, the set of its keys
  next,     \* ReorderIterator.next: chunks handed to the tree fold
  result,   \* what tree_fold_with_progress_scheme returned
  stop      \* STOP_REQUESTED

vars == <<mainPc, sent, queue, wpc, work, proved, chan, foldPc, buf, next,
          result, stop>>

Chunks == 0 .. NumChunks - 1

(* WorkQueue::new(num_workers * 2) *)
Capacity == 2 * Cardinality(Workers)

(* Faulty variant of TotalItems: one pill too few. *)
Bad_TotalItems == NumChunks + Cardinality(Workers) - 1

(* What the main thread pushes: every chunk in order, then a pill for each *)
(* worker.                                                                 *)
TotalItems == NumChunks + Cardinality(Workers)
Item(k) == IF k < NumChunks THEN k ELSE Pill

MainPcs == {"read", "push", "waitFull", "joinWorkers", "joinFolder", "write",
            "written", "exit1", "aborted"}
WorkerPcs == {"pop", "waitEmpty", "proving", "sending", "exited", "panicked"}

(* The process lives until main returns, exits or aborts. *)
Running == mainPc \notin {"written", "exit1", "aborted"}

Ended(w) == wpc[w] \in {"exited", "panicked"}
Panicked == {w \in Workers : wpc[w] = "panicked"}

Init ==
  /\ mainPc = "read"
  /\ sent = 0
  /\ queue = <<>>
  /\ wpc = [w \in Workers |-> "pop"]
  /\ work = [w \in Workers |-> Pill]
  /\ proved = 0
  /\ chan = <<>>
  /\ foldPc = "run"
  /\ buf = {}
  /\ next = 0
  /\ result = "none"
  /\ stop = FALSE

----------------------------------------------------------------------------
(* Faulty variants of actions below, one per property, that TLC must       *)
(* catch: an extra pill, a push without backpressure, a pop that does not  *)
(* notify, three mistakes in the reordering folder, and a main thread that *)
(* ignores the fold's error.                                               *)

Bad_AfterPush(k) ==
  IF k < NumChunks THEN "read"
  ELSE IF k <= TotalItems THEN "push" ELSE "joinWorkers"

Bad_MainPush ==
  /\ mainPc = "push"
  /\ queue' = Append(queue, Item(sent))
  /\ sent' = sent + 1
  /\ mainPc' = IF sent + 1 < NumChunks THEN "read"
               ELSE IF sent + 1 < TotalItems THEN "push" ELSE "joinWorkers"
  /\ UNCHANGED <<wpc, work, proved, chan, foldPc, buf, next, result, stop>>

Bad_WorkerPop(w) ==
  /\ Running
  /\ wpc[w] = "pop"
  /\ queue # <<>>
  /\ queue' = Tail(queue)
  /\ work' = [work EXCEPT ![w] = Head(queue)]
  /\ wpc' = [wpc EXCEPT ![w] = IF Head(queue) = Pill THEN "exited"
                               ELSE "proving"]
  /\ UNCHANGED <<mainPc, sent, proved, chan, foldPc, buf, next, result, stop>>

Bad_FolderYield ==
  /\ Running
  /\ foldPc = "run"
  /\ \E c \in buf : buf' = buf \ {c} /\ next' = c + 1
  /\ UNCHANGED <<mainPc, sent, queue, wpc, work, proved, chan, foldPc, result,
                 stop>>

Bad_FolderRecv ==
  /\ Running
  /\ foldPc = "run"
  /\ next \notin buf
  /\ chan # <<>>
  /\ buf' = {Head(chan)}
  /\ chan' = Tail(chan)
  /\ UNCHANGED <<mainPc, sent, queue, wpc, work, proved, foldPc, next, result,
                 stop>>

Bad_MainJoinFolder ==
  /\ mainPc = "joinFolder"
  /\ foldPc = "ended"
  /\ mainPc' = "write"
  /\ UNCHANGED <<sent, queue, wpc, work, proved, chan, foldPc, buf, next,
                 result, stop>>

Bad_FolderEnd ==
  /\ Running
  /\ foldPc = "run"
  /\ next \notin buf
  /\ chan = <<>>
  /\ \E w \in Workers : Ended(w)
  /\ foldPc' = "ended"
  /\ result' = IF next = 0 THEN "err" ELSE "ok"
  /\ UNCHANGED <<mainPc, sent, queue, wpc, work, proved, chan, buf, next, stop>>

----------------------------------------------------------------------------
(* The main thread *)

(* Take the next recorded chunk from memory, or read it from the trace     *)
(* file, which may fail.                                                   *)
MainRead ==
  /\ mainPc = "read"
  /\ \/ mainPc' = "push"
     \/ "io" \in Faults /\ mainPc' = "exit1"
  /\ UNCHANGED <<sent, queue, wpc, work, proved, chan, foldPc, buf, next,
                 result, stop>>

(* Condvar::notify_one on not_empty *)
NotifyNotEmpty ==
  LET waiting == {w \in Workers : wpc[w] = "waitEmpty"}
  IN  \/ waiting = {} /\ UNCHANGED wpc
      \/ \E w \in waiting : wpc' = [wpc EXCEPT ![w] = "pop"]

AfterPush(k) ==
  IF k < NumChunks THEN "read"
  ELSE IF k < TotalItems THEN "push" ELSE "joinWorkers"

(* WorkQueue::push when there is room *)
MainPush ==
  /\ mainPc = "push"
  /\ Len(queue) < Capacity
  /\ queue' = Append(queue, Item(sent))
  /\ sent' = sent + 1
  /\ mainPc' = AfterPush(sent + 1)
  /\ NotifyNotEmpty
  /\ UNCHANGED <<work, proved, chan, foldPc, buf, next, result, stop>>

(* WorkQueue::push when the queue is full *)
MainWait ==
  /\ mainPc = "push"
  /\ Len(queue) >= Capacity
  /\ mainPc' = "waitFull"
  /\ UNCHANGED <<sent, queue, wpc, work, proved, chan, foldPc, buf, next,
                 result, stop>>

(* Join every worker; a worker's panic is ignored. *)
MainJoinWorkers ==
  /\ mainPc = "joinWorkers"
  /\ \A w \in Workers : Ended(w)
  /\ mainPc' = "joinFolder"
  /\ UNCHANGED <<sent, queue, wpc, work, proved, chan, foldPc, buf, next,
                 result, stop>>

MainJoinFolder ==
  /\ mainPc = "joinFolder"
  /\ foldPc = "ended"
  /\ mainPc' = IF result = "ok" THEN "write" ELSE "exit1"
  /\ UNCHANGED <<sent, queue, wpc, work, proved, chan, foldPc, buf, next,
                 result, stop>>

(* Verify, report and write the proof; the verdict is only printed. *)
MainWrite ==
  /\ mainPc = "write"
  /\ \/ mainPc' = "written"
     \/ "io" \in Faults /\ mainPc' = "exit1"
  /\ UNCHANGED <<sent, queue, wpc, work, proved, chan, foldPc, buf, next,
                 result, stop>>

----------------------------------------------------------------------------
(* A worker *)

(* WorkQueue::pop with an item at hand: notify_one on not_full, on which   *)
(* only the main thread waits.  A pill ends the worker.                    *)
WorkerPop(w) ==
  /\ Running
  /\ wpc[w] = "pop"
  /\ queue # <<>>
  /\ queue' = Tail(queue)
  /\ mainPc' = IF mainPc = "waitFull" THEN "push" ELSE mainPc
  /\ work' = [work EXCEPT ![w] = Head(queue)]
  /\ wpc' = [wpc EXCEPT ![w] = IF Head(queue) = Pill THEN "exited"
                               ELSE "proving"]
  /\ UNCHANGED <<sent, proved, chan, foldPc, buf, next, result, stop>>

WorkerWait(w) ==
  /\ Running
  /\ wpc[w] = "pop"
  /\ queue = <<>>
  /\ wpc' = [wpc EXCEPT ![w] = "waitEmpty"]
  /\ UNCHANGED <<mainPc, sent, queue, work, proved, chan, foldPc, buf, next,
                 result, stop>>

WorkerProve(w) ==
  /\ Running
  /\ wpc[w] = "proving"
  /\ wpc' = [wpc EXCEPT ![w] = "sending"]
  /\ proved' = proved + 1
  /\ UNCHANGED <<mainPc, sent, queue, work, chan, foldPc, buf, next, result,
                 stop>>

(* A panic unwinds the worker and drops its sender and the chunk it holds. *)
WorkerPanic(w) ==
  /\ Running
  /\ wpc[w] = "proving"
  /\ Cardinality(Panicked) < MaxPanics
  /\ wpc' = [wpc EXCEPT ![w] = "panicked"]
  /\ UNCHANGED <<mainPc, sent, queue, work, proved, chan, foldPc, buf, next,
                 result, stop>>

(* tx.send: refused, and the worker leaves, once the receiver is dropped. *)
WorkerSend(w) ==
  /\ Running
  /\ wpc[w] = "sending"
  /\ \/ /\ foldPc = "run"
        /\ chan' = Append(chan, work[w])
        /\ work' = [work EXCEPT ![w] = Pill]
        /\ wpc' = [wpc EXCEPT ![w] = "pop"]
     \/ /\ foldPc = "ended"
        /\ wpc' = [wpc EXCEPT ![w] = "exited"]
        /\ UNCHANGED <<chan, work>>
  /\ UNCHANGED <<mainPc, sent, queue, proved, foldPc, buf, next, result, stop>>

----------------------------------------------------------------------------
(* The folder: ReorderIterator::next driven by the tree fold's loop *)

FolderYield ==
  /\ Running
  /\ foldPc = "run"
  /\ next \in buf
  /\ buf' = buf \ {next}
  /\ next' = next + 1
  /\ UNCHANGED <<mainPc, sent, queue, wpc, work, proved, chan, foldPc, result,
                 stop>>

FolderRecv ==
  /\ Running
  /\ foldPc = "run"
  /\ next \notin buf
  /\ chan # <<>>
  /\ buf' = buf \union {Head(chan)}
  /\ chan' = Tail(chan)
  /\ UNCHANGED <<mainPc, sent, queue, wpc, work, proved, foldPc, next, result,
                 stop>>

(* recv fails once every sender is gone and the channel is drained; the    *)
(* next proof is then not in buf either, and the iterator ends.  Folding   *)
(* what is left on the stack may fail.                                     *)
FolderEnd ==
  /\ Running
  /\ foldPc = "run"
  /\ next \notin buf
  /\ chan = <<>>
  /\ \A w \in Workers : Ended(w)
  /\ foldPc' = "ended"
  /\ result' \in IF next = 0 THEN {"err"}
                 ELSE {"ok"} \union (IF "folder" \in Faults THEN {"err"} ELSE {})
  /\ UNCHANGED <<mainPc, sent, queue, wpc, work, proved, chan, buf, next, stop>>

(* A fold step returns Err or panics: the thread ends, the receiver and    *)
(* what the channel holds are dropped.                                     *)
FolderFail ==
  /\ Running
  /\ "folder" \in Faults
  /\ foldPc = "run"
  /\ next \in buf
  /\ foldPc' = "ended"
  /\ result' = "err"
  /\ chan' = <<>>
  /\ UNCHANGED <<mainPc, sent, queue, wpc, work, proved, buf, next, stop>>

----------------------------------------------------------------------------
(* The environment *)

(* A condition variable may wake a thread without a notification. *)
SpuriousWakeMain ==
  /\ mainPc = "waitFull"
  /\ mainPc' = "push"
  /\ UNCHANGED <<sent, queue, wpc, work, proved, chan, foldPc, buf, next,
                 result, stop>>

SpuriousWakeWorker(w) ==
  /\ Running
  /\ wpc[w] = "waitEmpty"
  /\ wpc' = [wpc EXCEPT ![w] = "pop"]
  /\ UNCHANGED <<mainPc, sent, queue, work, proved, chan, foldPc, buf, next,
                 result, stop>>

(* handle_sigint: the first Ctrl+C of the phase only raises the flag, the  *)
(* second aborts.                                                          *)
Sigint ==
  /\ Running
  /\ "sigint" \in Faults
  /\ stop' = TRUE
  /\ mainPc' = IF stop THEN "aborted" ELSE mainPc
  /\ UNCHANGED <<sent, queue, wpc, work, proved, chan, foldPc, buf, next,
                 result>>

MainStep == \/ MainRead \/ MainPush \/ MainWait
            \/ MainJoinWorkers \/ MainJoinFolder \/ MainWrite

WorkerStep(w) == \/ WorkerPop(w) \/ WorkerWait(w)
                 \/ WorkerProve(w) \/ WorkerSend(w)

FolderStep == FolderYield \/ FolderRecv \/ FolderEnd

Environment == \/ FolderFail \/ SpuriousWakeMain \/ Sigint
               \/ \E w \in Workers : WorkerPanic(w) \/ SpuriousWakeWorker(w)

(* The process is over: nothing runs any more. *)
Terminated == ~Running /\ UNCHANGED vars

Next == \/ MainStep
        \/ \E w \in Workers : WorkerStep(w)
        \/ FolderStep
        \/ Environment
        \/ Terminated

Spec == Init /\ [][Next]_vars

(* The operating system runs every thread that can run; nothing makes a    *)
(* panic, a spurious wake-up, a failing fold or a signal happen.           *)
Fairness == /\ WF_vars(MainStep)
            /\ \A w \in Workers : WF_vars(WorkerStep(w))
            /\ WF_vars(FolderStep)

FairSpec == Spec /\ Fairness

----------------------------------------------------------------------------
(* Properties *)

(* The type invariant of the state of phase 2 (prove-boot main). *)
TypeOK ==
  /\ mainPc \in MainPcs
  /\ sent \in 0 .. TotalItems
  /\ queue \in Seq(Chunks \union {Pill})
  /\ wpc \in [Workers -> WorkerPcs]
  /\ work \in [Workers -> Chunks \union {Pill}]
  /\ proved \in Nat
  /\ chan \in Seq(Chunks)
  /\ foldPc \in {"run", "ended"}
  /\ buf \subseteq Chunks
  /\ next \in 0 .. NumChunks
  /\ result \in {"none", "ok", "err"}
  /\ stop \in BOOLEAN

Taken == sent - Len(queue)

(* WorkQueue is a FIFO: what it holds is the run of items that were pushed *)
(* and not yet popped, and it never exceeds its capacity.                  *)
QueueIsFifo ==
  /\ Len(queue) <= Capacity
  /\ Len(queue) <= sent
  /\ \A i \in 1 .. Len(queue) : queue[i] = Item(Taken + i - 1)

(* Where a chunk's work item or proof can be once it has left the queue. *)
HeldBy(c) == {w \in Workers : work[w] = c}
ChanAt(c) == {i \in 1 .. Len(chan) : chan[i] = c}

(* Every chunk that left the queue is in exactly one place: with one       *)
(* worker, once in the channel, in the reorder buffer, or folded; no chunk *)
(* still queued is anywhere else.  So no chunk is proved or folded twice,  *)
(* and none is dropped while the folder listens, whatever the order in     *)
(* which workers, pills, panics and the folder run.                        *)
EveryChunkInOnePlace ==
  foldPc = "run" =>
    \A c \in Chunks :
      Cardinality(HeldBy(c)) + Cardinality(ChanAt(c))
        + Cardinality(buf \cap {c}) + (IF c < next THEN 1 ELSE 0)
      = (IF c < Taken THEN 1 ELSE 0)

(* The written proof covers every chunk phase 1 recorded unless a worker   *)
(* panicked: a worker leaves only on a pill, pills are queued behind all   *)
(* chunks, and the channel closes only when all workers have left          *)
(* (prove-boot.rs header: "folds all chunk proofs into a single recursive  *)
(* proof").                                                                *)
ProofCoversAllChunks ==
  result = "ok" /\ Panicked = {} => next = NumChunks

(* Even when workers panicked, what is written starts at chunk 0 and stops *)
(* before the first chunk that a panic lost: a proof is never folded       *)
(* across a gap.                                                           *)
NeverFoldsAcrossLostChunk ==
  \A w \in Panicked : next <= work[w]

(* No wake-up is lost: the main thread sleeps on not_full only while the   *)
(* queue is full, and while workers sleep on not_empty, every queued item  *)
(* has an awake worker on its way to pop it.                               *)
NoLostWakeup ==
  /\ mainPc = "waitFull" => Len(queue) = Capacity
  /\ (\E w \in Workers : wpc[w] = "waitEmpty") =>
       Len(queue) <= Cardinality({w \in Workers : wpc[w] = "pop"})

(* Phase 2 ends: no interleaving of pushes, pops, pills and joins leaves   *)
(* every thread waiting for another.  The one way it can hang is that all  *)
(* workers have left, by panics or because the folder failed, while the    *)
(* main thread still waits for room in a full queue (prove-boot.rs:290).   *)
WorkersGone ==
  /\ mainPc \in {"push", "waitFull"}
  /\ Len(queue) = Capacity
  /\ \A w \in Workers : Ended(w)
  /\ Panicked = Workers \/ result = "err"

EndsUnlessWorkersGone == <>~Running \/ <>[]WorkersGone

(* Phase 2 implements the ordered fold: seen from outside, the threads,    *)
(* the queue, the channel and the reorder buffer only fold chunk after     *)
(* chunk, stop at the first chunk that a panic lost, and write a fold that *)
(* ended well.                                                             *)
Fold == INSTANCE OrderedFold WITH
  folded  <- next,
  lost    <- {work[w] : w \in Panicked},
  outcome <- result,
  phase   <- IF Running THEN "running"
             ELSE IF mainPc = "written" THEN "written" ELSE "failed"

ImplementsOrderedFold == Fold!Spec

(* When the folder fails, the program says so and exits: the worker's      *)
(* "break; // Folder thread gone" is there to wind the pipeline down.      *)
FolderFailureEndsRun == (result = "err") ~> ~Running

(* The header of prove-boot.rs: phase 2 "folds all chunk proofs into a     *)
(* single recursive proof".                                                *)
WrittenProofCoversAllChunks == mainPc = "written" => next = NumChunks

=============================================================================
