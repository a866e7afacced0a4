---------------------------- MODULE BlockManager ----------------------------
(***************************************************************************)
(* tiny_vllm/block_manager.py: the pool of KV blocks and its prefix cache. *)
(*                                                                         *)
(* The BlockManager object is the record pool; the low-level methods       *)
(* (_take_free_block, _share, _release, _register) are functions from one  *)
(* value of it to the next.  admit, free, ensure_blocks_for_chunk and      *)
(* register_filled_blocks are loops: call holds the one in progress and    *)
(* each action runs one iteration.  The code has no await inside a call,   *)
(* so every other action waits for call to be Idle again.                  *)
(*                                                                         *)
(* A block hash is the chain hash((prev_hash, token_ids)); it is modelled  *)
(* without collisions, so that it is the sequence of all tokens from the   *)
(* start of the sequence to the end of the block, and None is <<>>.        *)
(***************************************************************************)
EXTENDS Request, Queues

CONSTANTS
    NumBlocks,            \* num_blocks
    BlockSize,            \* block_size
    EnablePrefixCaching,  \* enable_prefix_caching
    NoSeq,                \* the argument of no call
    MaxOutput             \* bound: tokens the caller samples for a sequence

ASSUME BlockConstants ==
    /\ NumBlocks \in Nat \ {0}
    /\ BlockSize \in Nat \ {0}
    /\ EnablePrefixCaching \in BOOLEAN
    /\ NoSeq \notin Seqs
    /\ MaxOutput \in Nat

VARIABLES
    pool,   \* the BlockManager: refCount and hashKey per block, the two free
            \* lists (_free_uncached, _free_cached) and _cache
    call    \* the method in progress: loop index i, loop bound n, prev_hash,
            \* cached_tokens

poolVars == <<seqVars, pool, call>>

Blocks == 0 .. NumBlocks - 1
NoHash == <<>>

Call(op, s, i, n, prev, cached) ==
    [op |-> op, seq |-> s, i |-> i, n |-> n, prev |-> prev, cached |-> cached]

Idle == Call("none", NoSeq, 0, 0, NoHash, 0)

Begin(op, s, n) == call' = Call(op, s, 0, n, NoHash, 0)

\* On to the next iteration, with the loop's prev_hash and cached_tokens.
Advance(prev, cached) ==
    call' = Call(call.op, call.seq, call.i + 1, call.n, prev, cached)

-----------------------------------------------------------------------------
(* Low-level pool operations. *)

Pool(refCount, hashKey, freeUncached, freeCached, cache) ==
    [refCount |-> refCount, hashKey |-> hashKey, freeUncached |-> freeUncached,
     freeCached |-> freeCached, cache |-> cache]

EmptyPool ==
    Pool([b \in Blocks |-> 0], [b \in Blocks |-> NoHash],
         [i \in 1 .. NumBlocks |-> i - 1], <<>>, <<>>)

NumFree(p) == Len(p.freeUncached) + Len(p.freeCached)

\* Mutant: a hash of the block alone, not chained to the blocks before it.
BlockHashUnchained(prev, tokenIds) == tokenIds

BlockHash(prev, tokenIds) == prev \o tokenIds

\* The block _take_free_block returns: the oldest unhashed free block, else
\* the cached block that has been free the longest.
NextFree(p) ==
    IF p.freeUncached # <<>> THEN Head(p.freeUncached) ELSE Head(p.freeCached)

\* Mutant: the block stays on the free list.
TakeWithoutPop(p) ==
    Pool([p.refCount EXCEPT ![NextFree(p)] = 1], p.hashKey, p.freeUncached,
         p.freeCached, p.cache)

\* Mutant: a cached block is reused but its cache entry stays.
TakeWithoutEviction(p) ==
    LET b == NextFree(p)
        taken == [p.refCount EXCEPT ![b] = 1]
    IN  IF p.freeUncached # <<>>
        THEN Pool(taken, p.hashKey, Tail(p.freeUncached), p.freeCached, p.cache)
        ELSE Pool(taken, [p.hashKey EXCEPT ![b] = NoHash],
                  p.freeUncached, Tail(p.freeCached), p.cache)

\* _take_free_block: reusing a cached block evicts its cache entry.
TakeFreeBlock(p) ==
    LET b == NextFree(p)
        taken == [p.refCount EXCEPT ![b] = 1]
    IN  IF p.freeUncached # <<>>
        THEN Pool(taken, p.hashKey, Tail(p.freeUncached), p.freeCached, p.cache)
        ELSE Pool(taken, [p.hashKey EXCEPT ![b] = NoHash],
                  p.freeUncached, Tail(p.freeCached),
                  Restrict(p.cache, DOMAIN p.cache \ {p.hashKey[b]}))

\* Mutant: a hit is not counted.
ShareUncounted(p, b) ==
    Pool(p.refCount, p.hashKey, p.freeUncached,
         IF p.refCount[b] = 0 THEN Without(p.freeCached, b) ELSE p.freeCached,
         p.cache)

\* Mutant: a hit on an unreferenced block leaves it on _free_cached.
ShareStaysFree(p, b) ==
    Pool([p.refCount EXCEPT ![b] = @ + 1], p.hashKey, p.freeUncached,
         p.freeCached, p.cache)

\* _share
Share(p, b) ==
    Pool([p.refCount EXCEPT ![b] = @ + 1], p.hashKey, p.freeUncached,
         IF p.refCount[b] = 0 THEN Without(p.freeCached, b) ELSE p.freeCached,
         p.cache)

\* Mutant: a block is forgotten as soon as nobody refers to it.
ReleaseForgets(p, b) ==
    LET left == [p.refCount EXCEPT ![b] = @ - 1]
    IN  IF left[b] = 0
        THEN Pool(left, [p.hashKey EXCEPT ![b] = NoHash],
                  Append(p.freeUncached, b), p.freeCached,
                  Restrict(p.cache, DOMAIN p.cache \ {p.hashKey[b]}))
        ELSE Pool(left, p.hashKey, p.freeUncached, p.freeCached, p.cache)

\* _release
Release(p, b) ==
    LET left == [p.refCount EXCEPT ![b] = @ - 1]
        cached == p.hashKey[b] # NoHash /\ EnablePrefixCaching
        freed == left[b] = 0
    IN  Pool(left, p.hashKey,
             IF freed /\ ~cached THEN Append(p.freeUncached, b) ELSE p.freeUncached,
             IF freed /\ cached THEN Append(p.freeCached, b) ELSE p.freeCached,
             p.cache)

\* _register: the first block registered under a hash keeps it.
Register(p, b, h) ==
    IF EnablePrefixCaching /\ h \notin DOMAIN p.cache
    THEN Pool(p.refCount, [p.hashKey EXCEPT ![b] = h], p.freeUncached,
              p.freeCached,
              [g \in DOMAIN p.cache \cup {h} |-> IF g = h THEN b ELSE p.cache[g]])
    ELSE p

-----------------------------------------------------------------------------
(* Sizes. *)

NumBlocksNeededFor(n) == (n + BlockSize - 1) \div BlockSize

\* Mutant: the trailing partial block is not counted.
CanAllocateFullBlocks(s) == NumFree(pool) >= PromptLen(s) \div BlockSize

\* Mutant: room for the output a preempted sequence had is asked for, too.
CanAllocateWithOutput(s) == NumFree(pool) >= NumBlocksNeededFor(TotalLen(s) + 1)

\* can_allocate_initial: the worst case, prefix-cache hits ignored.
CanAllocateInitial(s) == NumFree(pool) >= NumBlocksNeededFor(PromptLen(s))

NumFull(s) == PromptLen(s) \div BlockSize

\* Mutant: the prefix cache may cover a block-aligned prompt to its end.
CapFullUncapped(s) == NumFull(s)

\* cap_full: the last block of a block-aligned prompt is never a hit, so
\* that at least one prompt token goes through the model.
CapFull(s) ==
    IF PromptLen(s) % BlockSize = 0 THEN NumFull(s) - 1 ELSE NumFull(s)

HasTail(s) == PromptLen(s) % BlockSize # 0

\* The tokens of block i of sequence s.
BlockTokens(s, i) ==
    SubSeq(AllTokenIds(s), i * BlockSize + 1, (i + 1) * BlockSize)

GrowTable(s) ==
    /\ pool' = TakeFreeBlock(pool)
    /\ blockTable' = [blockTable EXCEPT ![s] = Append(@, NextFree(pool))]

-----------------------------------------------------------------------------
(* admit *)

Admit(s) ==
    /\ call = Idle
    /\ blockTable[s] = <<>>
    /\ Begin("admit", s, NumFull(s))
    /\ UNCHANGED <<seqVars, pool>>

\* The hash admit computes for block call.i of the prompt.
AdmitHash == BlockHash(call.prev, BlockTokens(call.seq, call.i))

IsHit ==
    /\ EnablePrefixCaching
    /\ AdmitHash \in DOMAIN pool.cache
    /\ call.i < CapFull(call.seq)

AdmitHit ==
    /\ call.op = "admit"
    /\ call.i < call.n
    /\ IsHit
    /\ LET b == pool.cache[AdmitHash]
       IN  /\ pool' = Share(pool, b)
           /\ blockTable' = [blockTable EXCEPT ![call.seq] = Append(@, b)]
    /\ Advance(AdmitHash, call.cached + BlockSize)
    /\ UNCHANGED <<prompt, output, numComputed, numCachedPrefix>>

\* A miss takes a fresh block and registers its hash at once.
AdmitMiss ==
    /\ call.op = "admit"
    /\ call.i < call.n
    /\ ~IsHit
    /\ NumFree(pool) > 0
    /\ LET b == NextFree(pool)
       IN  /\ pool' = Register(TakeFreeBlock(pool), b, AdmitHash)
           /\ blockTable' = [blockTable EXCEPT ![call.seq] = Append(@, b)]
    /\ Advance(AdmitHash, call.cached)
    /\ UNCHANGED <<prompt, output, numComputed, numCachedPrefix>>

\* The trailing partial block stays unhashed.
AdmitFinish ==
    /\ call.op = "admit"
    /\ call.i = call.n
    /\ IF HasTail(call.seq)
       THEN NumFree(pool) > 0 /\ GrowTable(call.seq)
       ELSE UNCHANGED <<pool, blockTable>>
    /\ numComputed' = [numComputed EXCEPT ![call.seq] = call.cached]
    /\ numCachedPrefix' = [numCachedPrefix EXCEPT ![call.seq] = call.cached]
    /\ call' = Idle
    /\ UNCHANGED <<prompt, output>>

-----------------------------------------------------------------------------
(* append_slot and ensure_blocks_for_chunk *)

SlotCovered(s) == NumBlocksNeededFor(TotalLen(s) + 1) <= Len(blockTable[s])

AppendSlotRaises(s) == ~SlotCovered(s) /\ NumFree(pool) = 0

AppendSlot(s) ==
    /\ call = Idle
    /\ ~AppendSlotRaises(s)
    /\ IF SlotCovered(s) THEN UNCHANGED <<pool, blockTable>> ELSE GrowTable(s)
    /\ UNCHANGED <<prompt, output, numComputed, numCachedPrefix, call>>

EnsureBlocksForChunk(s, chunk) ==
    /\ call = Idle
    /\ Begin("ensure", s, NumBlocksNeededFor(numComputed[s] + chunk))
    /\ UNCHANGED <<seqVars, pool>>

EnsureTake ==
    /\ call.op = "ensure"
    /\ Len(blockTable[call.seq]) < call.n
    /\ NumFree(pool) > 0
    /\ GrowTable(call.seq)
    /\ UNCHANGED <<prompt, output, numComputed, numCachedPrefix, call>>

\* Returns, or raises out of the loop: then the blocks taken so far stay.
EnsureExit ==
    /\ call.op = "ensure"
    /\ Len(blockTable[call.seq]) >= call.n \/ NumFree(pool) = 0
    /\ call' = Idle
    /\ UNCHANGED <<seqVars, pool>>

-----------------------------------------------------------------------------
(* free *)

\* The caller says what becomes of numComputed and numCachedPrefix.
Free(s) ==
    /\ call = Idle
    /\ Begin("free", s, Len(blockTable[s]))
    /\ UNCHANGED <<prompt, output, blockTable, pool>>

\* What _preempt_one does besides: forget the computed tokens.
ForgetComputed(s) ==
    /\ numComputed' = [numComputed EXCEPT ![s] = 0]
    /\ numCachedPrefix' = [numCachedPrefix EXCEPT ![s] = 0]

FreeRelease ==
    /\ call.op = "free"
    /\ call.i < call.n
    /\ pool' = Release(pool, blockTable[call.seq][call.i + 1])
    /\ Advance(call.prev, call.cached)
    /\ UNCHANGED seqVars

\* Mutant: the table is not cleared.
FreeWithoutClear ==
    /\ call.op = "free"
    /\ call.i = call.n
    /\ call' = Idle
    /\ UNCHANGED <<prompt, output, blockTable, numComputed, numCachedPrefix, pool>>

FreeClear ==
    /\ call.op = "free"
    /\ call.i = call.n
    /\ blockTable' = [blockTable EXCEPT ![call.seq] = <<>>]
    /\ call' = Idle
    /\ UNCHANGED <<prompt, output, numComputed, numCachedPrefix, pool>>

-----------------------------------------------------------------------------
(* register_filled_blocks *)

RegisterFilledBlocks(s) ==
    /\ call = Idle
    /\ Begin("register", s, IF EnablePrefixCaching
                            THEN numComputed[s] \div BlockSize ELSE 0)
    /\ UNCHANGED <<seqVars, pool>>

\* The loop reads block_table[i], and the block's tokens if it is unhashed:
\* an IndexError when the table or the sequence is too short.
RegisterIndexError ==
    /\ call.op = "register"
    /\ call.i < call.n
    /\ \/ call.i >= Len(blockTable[call.seq])
       \/ /\ call.i < Len(blockTable[call.seq])
          /\ pool.hashKey[blockTable[call.seq][call.i + 1]] = NoHash
          /\ TotalLen(call.seq) < (call.i + 1) * BlockSize

\* A block that already has a hash only contributes it to the chain.
RegisterSkip ==
    /\ call.op = "register"
    /\ call.i < call.n
    /\ ~RegisterIndexError
    /\ LET h == pool.hashKey[blockTable[call.seq][call.i + 1]]
       IN  /\ h # NoHash
           /\ Advance(h, call.cached)
    /\ UNCHANGED <<seqVars, pool>>

RegisterBlock ==
    /\ call.op = "register"
    /\ call.i < call.n
    /\ ~RegisterIndexError
    /\ LET b == blockTable[call.seq][call.i + 1]
           h == BlockHash(call.prev, BlockTokens(call.seq, call.i))
       IN  /\ pool.hashKey[b] = NoHash
           /\ pool' = Register(pool, b, h)
           /\ Advance(h, call.cached)
    /\ UNCHANGED seqVars

RegisterReturn ==
    /\ call.op = "register"
    /\ call.i = call.n
    /\ call' = Idle
    /\ UNCHANGED <<seqVars, pool>>

-----------------------------------------------------------------------------
(***************************************************************************)
(* The specification of the block manager on its own: a caller that keeps  *)
(* to the contract of each method, in any order.  Forward and Sample are   *)
(* what the engine does to a sequence between two calls.                   *)
(***************************************************************************)
PoolInit ==
    /\ SequenceInit
    /\ pool = EmptyPool
    /\ call = Idle

CallAdmit(s) == CanAllocateInitial(s) /\ Admit(s)

Admitted(s) == blockTable[s] # <<>>

CallAppendSlot(s) == Admitted(s) /\ AppendSlot(s)

CallEnsure(s) ==
    /\ Admitted(s)
    /\ \E chunk \in 1 .. 2 * BlockSize : EnsureBlocksForChunk(s, chunk)

CallFree(s) == Admitted(s) /\ Free(s) /\ ForgetComputed(s)

CallRegister(s) == Admitted(s) /\ RegisterFilledBlocks(s)

\* A forward pass over the next n tokens of s, as far as its blocks reach.
Forward(s, n) ==
    /\ call = Idle
    /\ Admitted(s)
    /\ numComputed[s] + n <= TotalLen(s)
    /\ numComputed[s] + n <= Len(blockTable[s]) * BlockSize
    /\ numComputed' = [numComputed EXCEPT ![s] = @ + n]
    /\ UNCHANGED <<prompt, output, blockTable, numCachedPrefix, pool, call>>

Sample(s, t) ==
    /\ call = Idle
    /\ Admitted(s)
    /\ numComputed[s] = TotalLen(s)
    /\ Len(output[s]) < MaxOutput
    /\ AppendOutputToken(s, t)
    /\ UNCHANGED <<prompt, blockTable, numComputed, numCachedPrefix, pool, call>>

\* The next iteration of the call in progress.
CallStep ==
    \/ AdmitHit \/ AdmitMiss \/ AdmitFinish
    \/ EnsureTake \/ EnsureExit
    \/ FreeRelease \/ FreeClear
    \/ RegisterSkip \/ RegisterBlock \/ RegisterReturn

PoolNext ==
    \/ CallStep
    \/ \E s \in Seqs :
          \/ CallAdmit(s)
          \/ CallAppendSlot(s)
          \/ CallEnsure(s)
          \/ CallFree(s)
          \/ CallRegister(s)
          \/ \E n \in 1 .. BlockSize : Forward(s, n)
          \/ \E t \in Tokens : Sample(s, t)

\* A synchronous call runs to its end.
PoolSpec == PoolInit /\ [][PoolNext]_poolVars /\ WF_poolVars(CallStep)

-----------------------------------------------------------------------------
(* What the callers of the block manager rely on. *)

Hashes == Seq(Tokens)

CallOps == {"none", "admit", "ensure", "free", "register"}

PoolTyped(p) ==
    /\ p = Pool(p.refCount, p.hashKey, p.freeUncached, p.freeCached, p.cache)
    /\ p.refCount \in [Blocks -> Nat]
    /\ p.hashKey \in [Blocks -> Hashes]
    /\ p.freeUncached \in Seq(Blocks)
    /\ p.freeCached \in Seq(Blocks)
    /\ p.cache \in [DOMAIN p.cache -> Blocks]
    /\ DOMAIN p.cache \subseteq Hashes

\* Type correctness of the sequences, the pool and the call in progress.
PoolTypeOK ==
    /\ prompt \in [Seqs -> Prompts]
    /\ output \in [Seqs -> Seq(Tokens)]
    /\ blockTable \in [Seqs -> Seq(Blocks)]
    /\ numComputed \in [Seqs -> Nat]
    /\ numCachedPrefix \in [Seqs -> Nat]
    /\ PoolTyped(pool)
    /\ call \in [op : CallOps, seq : Seqs \cup {NoSeq}, i : Nat, n : Nat,
                 prev : Hashes, cached : Nat]
    /\ call.op = "none" => call = Idle
    /\ call.op # "none" => call.seq \in Seqs

FreeListsOK(p) ==
    /\ NoDuplicates(p.freeUncached)
    /\ NoDuplicates(p.freeCached)
    /\ \A b \in Blocks :
          /\ Contains(p.freeUncached, b)
                <=> p.refCount[b] = 0 /\ p.hashKey[b] = NoHash
          /\ Contains(p.freeCached, b)
                <=> p.refCount[b] = 0 /\ p.hashKey[b] # NoHash

CacheOK(p) ==
    /\ NoHash \notin DOMAIN p.cache
    /\ \A h \in DOMAIN p.cache : p.hashKey[p.cache[h]] = h
    /\ \A b \in Blocks : p.hashKey[b] # NoHash =>
          /\ p.hashKey[b] \in DOMAIN p.cache
          /\ p.cache[p.hashKey[b]] = b

\* The entries of the block tables that still count as references: free has
\* given up the first call.i of the table it is clearing.
Held(s) ==
    IF call.op = "free" /\ call.seq = s
    THEN {i \in DOMAIN blockTable[s] : i > call.i}
    ELSE DOMAIN blockTable[s]

Holders(b) ==
    UNION {{<<s, i>> : i \in {j \in Held(s) : blockTable[s][j] = b}} : s \in Seqs}

\* ref_count of a block is the number of block-table entries that name it:
\* no _share, _release or preemption loses or invents a reference, so the
\* assert of _release (line 124) cannot fail and no block leaks.
RefCountsExact == \A b \in Blocks : pool.refCount[b] = Cardinality(Holders(b))

\* The free lists hold each unreferenced block once, in one of the two lists,
\* and the hashed ones (whose content is worth keeping) are in _free_cached.
FreeListsExact == FreeListsOK(pool)

\* _cache and the blocks' hash_key fields are two views of one relation: an
\* entry never points at a block that was repurposed, a hashed block can
\* always be found, and no two blocks carry the same hash.
CacheCoherent == CacheOK(pool)

\* The first i blocks' worth of tokens of s.
PrefixOf(s, i) == SubSeq(AllTokenIds(s), 1, i * BlockSize)

\* A hashed block in position i of a block table was hashed for exactly the
\* tokens this sequence has up to the end of that block.
HashNamesContent ==
    \A s \in Seqs : \A i \in DOMAIN blockTable[s] :
        LET h == pool.hashKey[blockTable[s][i]]
        IN  (i \in Held(s) /\ h # NoHash) =>
               /\ i * BlockSize <= TotalLen(s)
               /\ h = PrefixOf(s, i)

\* Two block-table entries name the same block only where the two sequences
\* agree on every token up to the end of it: what one computed is what the
\* other would compute.
SharedBlocksAgree ==
    \A s, r \in Seqs : \A i \in Held(s), j \in Held(r) :
        (<<s, i>> # <<r, j>> /\ blockTable[s][i] = blockTable[r][j]) =>
            /\ i = j
            /\ pool.hashKey[blockTable[s][i]] # NoHash
            /\ PrefixOf(s, i) = PrefixOf(r, i)

\* can_allocate_initial ignores hits, yet its worst case is enough for every
\* way the walk through the prompt can go (hits take blocks off
\* _free_cached): admit never raises with half of a table filled in.
AdmitNeverRunsDry ==
    call.op = "admit" =>
        NumFree(pool) >= NumBlocksNeededFor(PromptLen(call.seq))
                            - Len(blockTable[call.seq])

\* At least one prompt token of every admitted sequence is left for the
\* forward pass, so that it has logits to sample from.
PrefixLeavesWork ==
    \A s \in Seqs : numCachedPrefix[s] < PromptLen(s)

\* A cache entry goes away only to hand its block out, when the block is
\* unreferenced and no unhashed block is free.
EvictOnlyWhenDry ==
    [][\A h \in DOMAIN pool.cache \ DOMAIN pool'.cache :
          /\ pool.freeUncached = <<>>
          /\ pool.refCount[pool.cache[h]] = 0]_poolVars

\* A hashed block never changes its hash while someone refers to it.
HeldHashIsStable ==
    [][\A b \in Blocks :
          (pool.refCount[b] > 0 /\ pool.hashKey[b] # NoHash)
             => pool'.hashKey[b] = pool.hashKey[b]]_poolVars

=============================================================================
