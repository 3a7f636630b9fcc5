# MetaVM: models, checks and proofs

MetaVM proves the execution of RISC-V, EVM and Solana programs. The core of the
repository, and the part with threads, failures, signals, interrupts and state
that must survive from one step to the next, is the path of `prove-boot`: a
RISC-V virtual machine runs a Linux boot in chunks (phase 1), worker threads
prove the chunks, and a folder thread folds their proofs into one (phase 2).
This directory models that path in TLA+, together with the machine under the
boot (traps, address translation, atomics, the block device) and the bookkeeping
of the proof system (transcripts, linkages, the memory argument) and the call
frames of the EVM trace that `prove-block` builds, checks small
instances with TLC and proves every safety property the passing runs check, for all
instances, with TLAPS.

## 1. The system

| Part | State it keeps | Operations | What is hard | What makes it correct |
|---|---|---|---|---|
| `riscv/bin/prove-boot.rs`, phase 2 | `WorkQueue` (mutex, two condvars), result channel, `ReorderIterator`, `STOP_REQUESTED` | push, pop, send, recv, yield, join, Ctrl+C | interleavings, lost wake-ups, panics, a folder that dies, closing order | every chunk folded once and in order, no gap, no hang |
| `riscv/bin/prove-boot.rs`, phase 1; `chunked_trace.rs`; `state_hash.rs` | memory with dirty set, page hashes, UART hasher, step and chunk counters | `execute_chunk`, record, flush, Ctrl+C | incremental hashes, VM errors and signals mid-chunk | recorded chunks form a chain of complete boundary states |
| `zkp/tree_fold.rs`, `zkp/recursive.rs` | stack of partial proofs | fold, carry, drain | counts that are not powers of two, breaks found late | same result as the linear chain |
| `riscv/vm.rs`, `trap.rs`, `csr.rs`, `cpu.rs` | pc, privilege, CSRs | poll, deliver, MRET, SRET, CSR writes | nested traps, delegation, interrupts in handlers | entry and return are inverse, handlers masked |
| `riscv/trace.rs`, `constraints/` , `zkp/trace.rs`, `zkp/prover.rs` | trace rows, padded columns | record a row, pad, evaluate constraints | steps without rows, padding seam, signed numbers in a field | honest rows satisfy the constraints |
| `riscv/mmu.rs` and the TLB in `vm.rs` | page tables, 256-entry TLB | walk, insert, flush | stale entries, accessed/dirty bits | a hit equals a walk |
| LR, SC and AMOs in `vm.rs` | one reservation | LR, SC, store, AMO | overlaps of different sizes, wrap-around | SC succeeds exactly if the data is untouched |
| `riscv/virtio.rs` | device registers, ring positions, disk | byte-wise register access, descriptor chains, used ring, interrupt | device steps between any two driver steps, indices that wrap | every request carried out once and in order, interrupt raised |
| `riscv/mmio.rs` | UART, CLINT, PLIC | byte-wise register access, claim | interrupt lines that come and go | covered by the hart's free inputs |
| `riscv/decode.rs`, `isa.rs`, `loader.rs`, `dtb.rs` | none | decode, load | table-like | encoding tables |
| `zkp/prover.rs`, `verifier.rs`, `recursive.rs`, `core/transcript.rs` | a Fiat-Shamir transcript per proof | append, draw, commit, evaluate, open, replay | optional parts, six hand-written replays | all draw the same challenges |
| `zkp/permutation.rs` and the memory columns of the tracers | none across calls | sort, compute auxiliary columns, constrain | what a row records is not what memory holds; dummies | constraints hold exactly for consistent accesses |
| `zkp/cross_air_logup.rs` | none across calls | inflate, commit, build witness and linkage, verify | duplicates, padding, traces of different length | accepted exactly if A's tuples are among B's |
| `evm/inspector.rs`, `evm/bin/prove-block.rs`, frame columns in `evm/trace.rs` and `evm/constraints/` | the inspector's frame stack, the merged trace | step, call/create and end hooks, merge, pad, constrain | nesting, calls without a frame, halts, transaction and chunk seams | rows carry the interpreter's frames and satisfy the frame constraints |
| `zkp` lookups, schemes, fields | none across calls | prove, verify | cryptography | soundness of the protocol |
| `zkp` beacon, MPT, SSZ, ... AIRs; the rest of `evm`; `sbf` | none across calls, or inside external executors | build tables, evaluate constraints | size | each table's constraints |

Interaction: phase 1 calls `execute_chunk`, which calls `Vm::step` (poll devices
and interrupts, fetch, execute) and records a `TraceRow` per step. Phase 2 hands
each chunk's columns to a worker through the queue; the worker pads and proves
them; its `ChunkProof` goes through the channel and the reorder buffer to the
tree fold. The signal handler shares one atomic flag with the main thread. The
block device runs inside `tick_devices`, before an instruction (`Vm::step`) or
before a batch of them (`Vm::run`), on rings in guest memory.

`PROJECT.json` lists every component with its status, every hazard at its line
and every definition with the lines it models.

## 2. Modules

| Module | Models |
|---|---|
| `ProvePipeline` | phase 2: `mainPc` is the main thread's position in `main`, `queue`/`sent` the `WorkQueue` and the items pushed, `wpc`/`work` each worker, `chan` the mpsc channel, `buf`/`next` the `ReorderIterator`, `result` the folder's return value, `stop` the signal flag. A critical section of the mutex is one action; a thread asleep on a condvar is in `waitFull` or `waitEmpty`; spurious wake-ups are actions. `WorkerPanic`, `FolderFail`, I/O errors and `Sigint` are switched on by constants. |
| `StreamingProver` | phase 1: `execute_chunk` is `StartChunk`, `VmStep`*, `FinishChunk` (or `StepFails`); the loop of `main` is `Record`, `LeaveLoop`, `Flush`. A hash is the record of what it covers, i.e. collisions are excluded. The guest is free: any store to any pages, any output, a halt or an error at any step. |
| `TreeFold` | `tree_fold` and its progress and scheme-generic copies, one action per round of each loop; `LinearFold` is the chain `begin_chunk`, `fold_chunks`, ... of `recursive.rs`. The accumulated claim is the sequence of chunk numbers it combines. |
| `Hart` | `Vm::step`/`run`, `check_pending_interrupts`, `deliver_trap`, MRET, SRET and CSR writes. Flag registers are sets of bits. `mframe` and `sframe` are history variables: what the last trap to that level interrupted, until the guest overwrites any of it. |
| `TraceRows` | `TracingVmBorrowed::step` on the PC columns, padding (`nearest_power_of_two`, `padding_selector_column`, `fix_trace_padding`), PC continuity and constraints 0 and 4 to 11. Words wrap at `WordBits`; field elements do not. |
| `OrderedFold` | the abstract specification of phase 2: chunks are folded in order, some may be lost, the fold ends well only at the end or at the first lost one. `ProvePipeline!ImplementsOrderedFold` is the refinement: `folded` is the reorder iterator's `next`, `lost` the chunks panicked workers held. |
| `VirtioBlock` | the device (`regs`, `notify`, `intr`, `lastAvail`, `vdisk`) and a driver that follows the VirtIO protocol (external). One call of `process_queue` is `Begin`, a `ServeOne` per request, `End`; `snap` is the index it has read. The driver fills, lists and publishes a request in three steps and handles the interrupt in several; a tick may come between any two. Register words are four bytes, and `write_u8` is a read-modify-write of the word. |
| `BlockStore` | what the device promises: requests are carried out one at a time, in order, once. `VirtioBlock!ImplementsBlockStore` is the refinement; `flight` and `done` are read off the rings. |
| `Translation` | `mmu::translate` and `translate_addr`: a walk of two levels (root leaf = superpage), checks, accessed and dirty bits, the TLB; traps, SRET, MRET, SFENCE.VMA, writes of satp, SUM and MXR, stores to page-table entries. `ctx`, `by` and `stale` of an entry are history. |
| `Reservation` | LR, SC, stores and AMOs; `lr` and `touched` are history. |
| `ProofTranscript` | `prove_inner` and `prove_inner_scheme` step by step, the byte format, and each replay as its own list of steps. A challenge is the transcript it was drawn from. |
| `CrossAirLinkage` | `joint_prove` and `joint_verify` for one linkage. 1/(gamma - t) is a formal symbol, a sum of them a bag. |
| `MemoryArgument` | what the two tracers record for each memory instruction, the prover's list of accesses, `sort_and_compute_aux` (the place of an access in the stable sort is one more than the number of accesses that go before it), the consistency constraints. A double is two cells of one bit, so that a byte access touches half of it. |
| `EvmFrames` | `evm` is revm's call stack (external), `frame_stack` the inspector's, `trace` the rows of the transaction, `merged` those of the block. An instruction with its hooks is one action: `Instruction`, `EnterFrame`, `AnswerCall` (both hooks, no instruction), `EndFrame`, `Halt`. `effect` and `tx` of a row are history. Then the constraints on neighbouring rows, the padding and the frame-stack permutation as equality of multisets. Gas and return window go with a frame's value; jumps are left out. |
| `ProvePipelineProofs`, `StreamingProverProofs`, `ProofSystemProofs` (`TreeFold`, `CrossAirLinkage`, `MemoryArgument`, `ProofTranscript`), `ExecutionProofs` (`Hart`, `TraceRows`), `MemorySystemProofs` (`Translation`, `Reservation`), `VirtioBlockProofs`, `EvmFramesProofs` | the theorems and their proofs; the three that cover several parts also prove that the composed specification runs each of them |
| `NumberLemmas` | lemmas on least and greatest elements, induction over an interval, powers of two, binary digits and remainders that the proofs share |
| `MCExecution`, `MCMachine`, `MCProofSystem` | the parts of execution and its traces, of the machine, and of the proof system that share no state: a behaviour runs one of them |
| the other `MC*` | constants for TLC |

Definitions named `Bad_...` are faulty variants of the definition that follows
them. Put in its place, each makes TLC report the property it was written for;
they show that the property can fail.

## 3. Runs

| Run | Instance | Shows |
|---|---|---|
| `pipeline` | 3 workers, 5 chunks, 2 panics, all faults | queue is a bounded FIFO, each chunk in exactly one place, no fold across a lost chunk, complete proof without panics, no lost wake-up; implements `OrderedFold` |
| `pipeline_live` | 2 workers, 6 chunks, 2 panics, folder and I/O errors | phase 2 ends, or hangs in one way only: all workers gone and a full queue |
| `proof_system` | up to 7 chunks over 2 hashes; all combinations of 7 optional parts, 2 provers, 7 readers, empty traces and others; traces of up to 4 rows; 3 memory instructions | tree fold = linear fold; replays agree; which honest proofs are accepted; linkages accepted exactly if included; which honest memory rows are accepted |
| `machine` | ring of 2, indices modulo 4, 1 sector; 2 address spaces, 1 TLB slot; 8 addresses | the device implements the block store and serves what it is notified of; signals, registers; TLB hits; LR/SC |
| `streaming` | 2 pages, chunks of 2, limit 5, up to 7 steps | chain of boundary states, hash covers memory, UART hash, Ctrl+C, overshoot of the limit |
| `execution` | hart: one device interrupt, SSI, one exception, both delegable; rows: 6-bit words, up to 3 rows, privileged; EVM: 2 contracts, 1 account without code, 2 transactions, 5 instructions | masking, returns restore, no trap lowers the privilege; only traps break continuity or a row's PC constraint; exactly which neighbouring rows break the frame constraints, and plain transactions are accepted as a whole |
| `folder_failure` | 1 worker, 5 chunks, folder may fail | **violated**: the main thread hangs |
| `worker_panic` | 2 workers, 3 chunks, 1 panic | **violated**: a proof of a prefix is written |
| `trap_rows` | the rows as in `execution` | **violated**: a fetch trap breaks PC continuity |
| `jump_rows` | unprivileged, offset -4, links to x0 | **violated**: the row of such a jump fails its constraint |
| `memory_rows` | LD, SD, AMOADD, streaming tracer | **violated**: a load that no recorded store explains |
| `evm_failed_call` | CALL, CREATE | **violated**: the row of a call without a frame is rejected |

Why the bounds are enough to meet the interesting cases. `pipeline`: the items
(5 chunks and 3 pills) exceed the capacity (6), so that the main thread blocks
on a full queue, as in `pipeline_live` and `folder_failure`; with 3 workers
proofs overtake each other by two, and two panics still leave a worker.
`proof_system`: 7 = 111 in binary needs carries over two levels and a drain of
three entries, 5 and 6 leave an empty slot between or below, and two hashes
suffice to break the chain at any place; the number of quotient chunks goes past
the limit of two and past the wrap of the u8 (at 4 here); A and B have equal and
different lengths, duplicates, gaps, full and padded domains, a selector value
of 2, every kind of gate; three accesses are a store, a change and a load.
`machine`: four requests wrap the indices and use each ring slot twice, with two
of them in flight; two pages share the one TLB slot, and the page-table stores
offer aligned and misaligned superpages, the reserved pattern, an execute-only
user page and a pointer at the last level; with 8 addresses and sizes up to 4
every overlap and the wrap at the top occur. `streaming`: the limit of 5 falls
inside the third chunk of 2, so that it is overshot to 6, and the guest may go on
to step 7, which a fourth chunk would reach; a guest that halts earlier gives a
last, short chunk; two pages, one of them possibly not allocated at first, tell a
dirty page from a clean one.
`execution`: one interrupt that is always taken by M, one that can be delegated
and one delegable exception reach every nesting of the two levels; a domain of 2
is met exactly full and partly filled, a domain of 4 partly filled, and an empty
trace is all padding; five EVM instructions nest two calls and end all three
frames, or make two sibling calls; the value of a transaction differs from that
of a call, so that DELEGATECALL shows; traces of 2 and 4 rows fill their domain.
The instance has STATICCALL, DELEGATECALL and CREATE; CALL is a STATICCALL
without the static flag, and CALLCODE and CREATE2 differ from DELEGATECALL and
CREATE in fields only. The contracts are interchangeable (symmetry).

Fairness. `pipeline_live`, `folder_failure`: weak fairness of the main thread,
of each worker and of the folder, i.e. the operating system runs every thread
that can run. Nothing is assumed of panics, failures, signals or spurious
wake-ups. A proof attempt is assumed to end. `machine`: weak fairness of the
device alone, because `Vm::step` and `Vm::run` call `tick_devices` again and
again whatever the guest does; the driver may stop at any time.

What the passing runs say beyond "it works". Some properties state exactly where
an expected guarantee ends, so that the limits are checked, too:

* `SignalledUnlessWrapped`: the completion interrupt is not raised when the
  indices have just wrapped to 0 (once in 65536 requests; virtio.rs:295).
* `StoresReachRegisters`: a word store to a register that reads as 0 keeps only
  its last byte, because the VM splits it into four byte stores (vm.rs:488,
  virtio.rs:172). A driver that uses word stores cannot set QueueNum, so that
  `NotifiedRequestsServed` is conditional on a ring size that arrived.
* `HitAgreesWithWalk` compares with the walk in the context the entry was made
  in: SRET and writes of SUM and MXR leave entries alive. `CachedPagesMarked`: a
  store that hits an entry filled by a load leaves the dirty bit clear.
* `ScSucceedsIffUndisturbed` excludes the top of the address space, where the
  sums in `check_reservation_on_store` wrap, and counts only the hart's own
  stores: the walk's accessed/dirty updates and the block device's transfers do
  not end a reservation.
* `HonestProofsAccepted`: `verify` and `verify_chunk` accept only proofs without
  auxiliary parts; a chunk proof with such parts has no direct verifier and is
  checked through the accumulator only. No verifier accepts the proof of an empty
  trace (verifier.rs:70, 388), which both provers make without complaint.
* `LinkageAcceptedIffIncluded`: the comments speak of multiset equality; what is
  decided is that A's tuples are among B's, each counted as often as A has it.
  A linkage gated by the AIR's padding selector is refused if there is padding.
* `ConstraintsDecideConsistency`: of a load with no earlier store to its address
  the constraints ask only that it agrees with the loads before it
  (`FirstLoadsAgree`). Memory has contents before the first store, and nothing
  ties these loads to them, so that the value of an address's first load is free.
  permutation.rs:8 claims more; see section 4.
* `TrueRowsAccepted` lists when the row of an honest memory access differs from
  memory (sign-extending loads, results discarded in x0, narrow stores of wide
  values, a failed SC, AMOs in the streaming tracer) and needs accesses of one
  size; otherwise the memory constraints of an honest trace can fail.
* `RowsBreakOnlyAtTraps` exempts the rows of steps that took a trap: an
  interrupted step pairs the old pc with the handler's first instruction. In the
  unprivileged VM the exempt rows are those of CSR instructions whose read fails,
  which leave the pc where it is (vm.rs:1061).
* `RowsBreakExactlyAtUntracedFrames`: besides the failed calls of finding 6, an
  honest EVM trace is rejected where a callee ends by SELFDESTRUCT (classified
  with STOP, evm/trace.rs:598, but `sel_stop_pop` is set for opcode 0 only,
  line 1538) or halts exceptionally in anything but RETURN and REVERT, because no
  selector pops its frame; where CALLCODE or DELEGATECALL runs foreign code (the
  column holds the account the code works on, the constraint wants the operand);
  and at the seam of two transactions in one chunk (the pc restarts at 0 and the
  frame changes on a row that is no frame operation).
  `PlainTransactionsAccepted` is about the transactions without any of these.

## 4. Findings

1. `folder_failure` (prove-boot.rs:688). When the folder fails, workers leave on
   the refused send ("Folder thread gone"), and the main thread, which is not
   told, waits for ever for room in the queue.
2. `worker_panic` (prove-boot.rs:769). The join of a panicked worker is ignored;
   the reorder iterator ends at the lost chunk; the fold of the chunks before it
   is verified and written, with exit status 0. The theorem `NoGap` shows the
   good half: nothing is ever folded *across* the gap.
3. `trap_rows` (chunked_trace.rs:169). A step that only delivers a trap leaves
   no row, although PC continuity is demanded of all neighbouring rows.
4. `jump_rows` (trace.rs:1188). Negative immediates are stored modulo 2^64 but
   added in the field, and `rd_val_after` of a jump that links to x0 is 0, not
   pc + insn_len.
5. `memory_rows` (chunked_trace.rs:188). The streaming tracer records rs2 as what
   an AMO writes, the owned tracer (trace.rs:248) the result; with the former a
   later load contradicts "every load returns the value from the most recent
   store" (permutation.rs:7). The next line, "No memory values are fabricated
   (every read must correspond to a prior write)", is not what the constraints
   decide either, with any tracer: a trace that loads an address it never stored
   to satisfies them with any value, as long as all such loads agree
   (`ConstraintsDecideConsistency`, proved as `PermutationDecides`).
6. `evm_failed_call` (evm/constraints/mod.rs:1838). The host-side specification
   lets the depth stay after a failed call; the constraint system wants a new
   frame after every call-family opcode, also when the callee has no code, is a
   precompile, or the call is refused.

## 5. Proofs

For every value of the constants allowed by the named assumptions:

* `ProvePipelineProofs`. The inductive invariant `Inv` adds to `TypeOK` and
  `QueueIsFifo`: `MainPosition` (never past the last pill), `Places` (chunks held,
  in the channel and in the buffer lie between `next` and what was taken, and no
  two places hold the same one), `Located` (what was taken is somewhere) and
  `Exits` (a worker leaves a listening folder only after the last chunk was
  taken: pills are behind all chunks). `Exits` and `Located` are what makes a
  closed channel mean a complete fold. `EveryChunkInOnePlace` counts, so it is
  derived from `Places` and `Located` by cardinality lemmas. `NoLostWakeup` is
  inductive relative to `Inv`. Assumed: a finite, non-empty set of
  workers, at least one chunk.
* `StreamingProverProofs`. `CleanPagesHashed` (a page not marked dirty has the
  hash of its contents) gives `BoundaryHashCoversMemory`; `ChunkPosition` and
  `RecordPosition` tie the chunk under way and the last recorded one to the
  prover's counters, which gives the chain; `StopPosition` bounds the overshoot.
  Assumed: a chunk size of at least 1.
* `RefinesOrderedFold` (in `ProvePipelineProofs`) takes each action of the
  threads to an action of `OrderedFold` or to a stutter, under `Inv` and
  `FoldResult` (the folder has a result exactly when it has ended, and only a
  good one is written). The panic of a worker is the loss of the chunk it holds;
  that the folder ends well only at the first lost chunk is `Exits` and `Located`
  again.
* `ProofSystemProofs`, the tree fold. `FoldInv` says that the stack, read from its highest slot
  down, then the carried proof, or the result drained so far, cut the chunks
  taken into consecutive spans, each with an unbroken state chain. It is
  quantified over the cut (`b[l]` chunks lie in the slots from `l` upwards),
  because a carry moves one boundary and leaves the others. `LinearValue` is
  what the linear chain of `recursive.rs` returns for every length, so that
  `TreeIsLinear` is an equality of results, error or proof. `StackCounts` adds
  `Sized` (the proof in slot `l` folds 2^(l-1) chunks) and the uniqueness of
  binary digits. Assumed: nothing but that the markers are no proofs.
* `ExecutionProofs`, the hart. `MFrameSaved`, `SFrameSaved` (the CSRs still hold
  what the last trap to that level found) and `Masked`; the action properties
  follow from them.
* `ExecutionProofs`, the rows. `RowsInv`: the rows, and the padded columns, are
  chained except at the gaps, and the pc is where the last row leads unless a
  trap came after it. `ContinuityCorrect` holds for every program.
  `RowsAccepted` has hypotheses, which the constants of `execution` satisfy (with
  `Top` = 12 and `Span` = 6) and which finding 4 shows to be needed: jumps link to
  a register other than x0, offsets are not negative, and no pc wraps within the
  rows considered. Under them no sum of the code wraps, so that the equations
  over words and those over the field agree.
* `MemorySystemProofs`, translation. `TlbFresh`: what the walk finds now for an
  entry that is not stale is the frame, the permissions and the accessed and
  dirty bits the entry was made with. The step that needs care is a walk that
  sets bits in an entry another page's walk also reads. Assumed: page tables of
  any size and contents.
* `MemorySystemProofs`, reservations. `FromLastLr` and the property itself are
  inductive; the lemmas say which bytes an access has, in the middle of the
  address space and across its top.
* `VirtioBlockProofs`. The ring indices wrap, and a wrapped index says little
  about order. `DiskInv` therefore states that they are remainders of three
  counters u <= a <= v that never wrap (collected, carried out, published),
  at most one queue size apart; `Window` says what the rings hold between the
  counters, `Submitting` that the request being filled is none of those, `Serving`
  that the index read at the beginning of `process_queue` is still current.
  Distinct counters in the window have distinct slots because the queue size
  divides the index range (virtio indices: a power of two). `RefinesBlockStore`
  shows that the sequences read off the rings by index arithmetic are those
  between the counters, and that each step of driver and device is a step of
  `BlockStore` or a stutter. Assumed: a queue size from 1 to 256 (QUEUE_NUM_MAX) that divides the
  index range, descriptor chains that do not overlap, no more of them than ring
  entries and fewer than the index range.
* `ProofSystemProofs`, the linkage. `LinkageInv` says, phase by phase, that what
  `joint_prove` has stored is the function of the two traces it should be
  (`InflatedOf`, `CommittedOf`, `WitnessOf`, `LinkageOf`). What is left is one
  statement about those functions: the running counts and sums, which the code
  computes row by row, are at each row the cardinalities of sets of rows before
  it (interval induction), so that the last row of the sum is the closure the
  property speaks of, and every gate equation holds exactly if the selectors fit.
  Assumed: traces of at least one row with as many selectors as tuples, a domain
  of at least one row, tuples that are numbers with 0 for the padding.
* `ProofSystemProofs`, the memory argument. `ConstraintsDecide` is a lemma for any
  list of accesses: places in the sort are a bijection, accesses to one address
  are neighbours in it, and the access before a load's place is the latest one
  to that address, if there is one (`ConstraintsOnRows`). That each load agrees with
  the access just before it is the same as that each agrees with the latest
  store, or with all earlier loads where there is none: follow the loads back
  (`PreviousDecide`). `MemInv` says of the
  tracers that a row differs from memory for a listed cause only and that, as
  long as all accesses have one size, a double of memory is what the last
  access to it left (`MemoryHoldsLast`) and a load found it (`ReadsFindLast`).
  Assumed: the trace is shorter than the padded domain.
* `ProofSystemProofs`, the transcript. `Stage` says that before every step of the
  prover its transcript is the one the proof built so far stands for, and that
  the parts still to come are not yet in the proof. A finished proof therefore
  determines the transcript, and each replay is compared with that. A challenge
  is found at the first place its name has, so that two transcripts give the
  same challenge if one extends the other up to there (`PrefixChallenge`).
  Assumed: the count of quotient chunks is a byte with at least three values
  (256 in the code): a byte in which the legacy prover's limit of two did not
  fit would lose chunks where the property says it does not.
* `EvmFramesProofs`, neighbouring rows. `Mirror` (the inspector's stack has the
  depth, callees and static flags of the interpreter's) and `Fits` (every row
  satisfies the claim with the row after it). `Running` says the same of the last
  row and the instruction that comes next, before it is recorded: the link from a
  row to a row that does not exist yet is what makes the claim inductive.
* `EvmFramesProofs`, whole transactions. `TxBalance`: while all calls of a
  transaction are ones the columns can express and every callee has ended by
  RETURN, REVERT or STOP, each frame has been pushed as
  often as it has been returned to plus the times it is still on the stack
  below the running one. At the end of the transaction the stack is empty and
  the multisets are equal. The rest is that padding adds neither and fits
  behind the last row, and that in a full domain the last row meets the first.
  `TxStamps` says that the rows of one transaction are one run of the merged
  trace, so that the property can be stated of that run.
* The compositions. `ExecutionRunsParts`, `MachineRunsParts` and
  `ProofSystemRunsParts` show that a behaviour of the specification a run checks
  is a behaviour of each part, so that what is proved of a part holds of it.
  `MachineTypeOK` and `ProofTypeOK` follow. For the proof system this needs
  `PartsAssumption`: a part that rests must still have an initial state to rest
  in.

Induction over data is done with least elements: a set of natural numbers that
is not empty has a smallest member (`NumberLemmas!LeastNat`, `FirstNat`), and the
first number at which a claim fails yields the contradiction
(`IntervalInduction` packs this for sets of numbers). The facts on
powers of two, digits and remainders are derived from that and from linear
arithmetic.

Only model-checked: `EndsUnlessWorkersGone` and `NotifiedRequestsServed`, because
they are liveness under fairness, which the prover does not support. The six
violation runs refute what they state and have nothing to prove.

## 6. Not modelled

The repository has some 328 000 lines of Rust, nearly all of them constraint
tables: for each of about two hundred AIRs (SHA-256, Keccak, BLS12-381, MPT, SSZ,
EVM opcodes, ...) the columns and polynomial identities of a circuit, and tests
of them. They keep no state, run in no order and meet no failure; what matters
about them is that identities over a 255-bit field say what they should, which
neither TLC nor these provers can compute. The models therefore cover a small
share of the lines and most of what the lines around those tables *do*.

Not modelled for that reason or a similar one: polynomial arithmetic, curves and
hashes (cryptography); the AIR tables of `zkp` and `evm`; RISC-V arithmetic
constraints; range lookups; the EVM and SBF interpreters (external crates; of
revm, what the inspector's hooks see);
decoder, loader and device tree (table-like, sequential); UART, CLINT and PLIC
(free inputs of the hart; nothing ever raises a PLIC input). Within the modelled
parts: progress messages and formats, the trace file's encoding, general
registers, MPRV (the code ignores it), accesses that cross a page (the code
translates their first byte only), block requests for sectors from 2^55 on
(their byte offset overflows a u64, virtio.rs:242), device features and status, MMIO reads in the
memory columns, several linkages at once, chunks that cut a call
(their permutation is open; whether it closes by chance depends on what else the
chunk holds), `prove-block`'s copy of the work queue, RPC errors
during its replay (whether they leave frames on the inspector's stack, which is
not reset between transactions, is up to revm), and `--chunk-size 0`, which
`prove-boot` accepts and with which phase 1 spins.

## 7. Plan

Done, in this order: `ProvePipeline`, `TreeFold`, `StreamingProver`, `Hart`,
`TraceRows` and the proofs of the first, third and fourth; `OrderedFold` and its
refinement; `VirtioBlock` with `BlockStore`, `Translation`, `Reservation`;
`ProofTranscript`, `CrossAirLinkage`, `MemoryArgument`; `EvmFrames`.

Proved, in this order: phase 2, phase 1, the hart; the refinement of
`OrderedFold`; reservations, translation, the tree fold, neighbouring EVM rows,
trace rows, the block device and the refinement of `BlockStore`; the memory
argument, the linkage, the transcript, whole EVM transactions, the compositions.

Left: the two liveness properties have no proof (section 5). Parts worth a model
of their own, should they change, are `prove-block`'s copy of the work queue and
joint proofs with several linkages.
