----------------------------- MODULE BlockCache -----------------------------
(***************************************************************************)
(* The write-through sector cache (kernel/src/blkcache.rs) over the ATA    *)
(* PIO driver (ata.rs).  A call of read() or write() runs under the DISK   *)
(* and CACHE locks with interrupts off, so calls do not overlap; one call  *)
(* is still several steps here, because the drive may fail between them.   *)
(*                                                                         *)
(* The clock sweep of insert() is one step per slot.                       *)
(***************************************************************************)
EXTENDS Integers, FiniteSets

CONSTANTS
  Sectors,    \* sectors of the drive (total_sectors)
  Slots,      \* CACHE_ENTRIES
  READ_AHEAD,
  MaxCount,   \* most sectors in one call (255 in the code)
  Data        \* sector contents

ASSUME CacheAssumption ==
  /\ Sectors \in Nat \ {0} /\ Slots \in Nat \ {0}
  /\ READ_AHEAD \in Nat /\ MaxCount \in Nat \ {0}
  /\ Data # {}

Lbas == 0..(Sectors - 1)
EntryNo == 0..(Slots - 1)
Requests == [lba : Lbas, count : 1..MaxCount]
Contents(count) == [0..(count - 1) -> Data]
NoCall == [lba |-> 0, count |-> 0]
NoBuffer == [i \in {} |-> 0]    \* an empty buffer
NoSeq == 0 - 1               \* seq_valid = false

VARIABLES
  disk,                      \* the platter
  valid, dwell, lba, data,   \* the cache entries
  next,                      \* clock hand
  seqEnd,                    \* last_seq_end, or NoSeq
  pc, req, buf,              \* the call in progress: request, buffer filled so far
  at,                        \* i (read loop) or k (read-ahead loop)
  sequential,                \* "yes": this read continues the previous one
  fill,                      \* sectors still to insert, as <<first, bound>>
  unsure                     \* sectors covered by a failed write since written or flushed

cache == <<valid, dwell, lba, data, next>>
ongoing == <<pc, req, buf, at, sequential, fill>>
cacheVars == <<disk, cache, seqEnd, ongoing, unsure>>

CacheInit ==
  /\ disk \in [Lbas -> Data]
  /\ valid = {} /\ dwell = {}
  /\ lba = [s \in EntryNo |-> 0]
  /\ data \in [EntryNo -> Data] /\ \A s, t \in EntryNo : data[s] = data[t]
  /\ next = 0
  /\ seqEnd = NoSeq
  /\ pc = "idle"
  /\ req = NoCall /\ buf = NoBuffer
  /\ at = 0
  /\ sequential = "no"
  /\ fill = <<0, 0>>
  /\ unsure = {}
-----------------------------------------------------------------------------
(* Lookup and insertion.                                                   *)

Holding(sector) == {s \in valid : lba[s] = sector}

Contains(sector) == Holding(sector) # {}

\* insert(), the loop that looks for a slot: the entry under the hand ...
Taken == next \notin valid \/ next \notin dwell

\* ... gets its second chance,
\* Variant: the hand moves on without clearing the bit.
SweepForever ==
  /\ ~Taken
  /\ next' = (next + 1) % Slots
  /\ UNCHANGED <<valid, dwell, lba, data>>

Pass ==
  /\ ~Taken
  /\ dwell' = dwell \ {next}
  /\ next' = (next + 1) % Slots
  /\ UNCHANGED <<valid, lba, data>>

\* or is taken over.
Place(sector, value) ==
  /\ Taken
  /\ lba' = [lba EXCEPT ![next] = sector]
  /\ data' = [data EXCEPT ![next] = value]
  /\ valid' = valid \cup {next}
  /\ dwell' = dwell \cup {next}
  /\ next' = (next + 1) % Slots

\* insert() of a cached sector updates its entry in place.
\* Variant: it does not, and the stale entry stays.
RefreshSkipped(sector, value) ==
  /\ dwell' = dwell \cup Holding(sector)
  /\ UNCHANGED <<valid, lba, data, next>>

Refresh(sector, value) ==
  /\ data' = [s \in EntryNo |-> IF s \in Holding(sector) THEN value ELSE data[s]]
  /\ dwell' = dwell \cup Holding(sector)
  /\ UNCHANGED <<valid, lba, next>>
-----------------------------------------------------------------------------
(* read(): hits, coalesced misses, read-ahead.                             *)

Here == req.lba + at

\* The call returns; what it worked with is gone.
EndCall ==
  /\ pc' = "idle" /\ req' = NoCall /\ buf' = NoBuffer
  /\ at' = 0 /\ sequential' = "no" /\ fill' = <<0, 0>>

StartRead(r) ==
  /\ pc = "idle"
  /\ pc' = "read" /\ req' = r
  /\ sequential' = IF seqEnd # NoSeq /\ r.lba = seqEnd THEN "yes" ELSE "no"
  /\ UNCHANGED <<disk, cache, seqEnd, buf, at, fill, unsure>>

Hit ==
  /\ pc = "read" /\ at < req.count /\ Contains(Here)
  /\ \E s \in Holding(Here) : buf' = [i \in 0..at |-> IF i = at THEN data[s] ELSE buf[i]]
  /\ dwell' = dwell \cup Holding(Here)
  /\ at' = at + 1
  /\ UNCHANGED <<disk, valid, lba, data, next, seqEnd, pc, req, sequential, fill, unsure>>

\* The run of missing sectors starting at Here, limited to bound sectors.
IsRun(run, bound) ==
  /\ run \in 1..bound
  /\ \A k \in 1..(run - 1) : ~Contains(Here + k)
  /\ run < bound => Contains(Here + run)

Miss ==
  /\ pc = "read" /\ at < req.count /\ ~Contains(Here)
  /\ \E run \in 1..MaxCount :
       /\ IsRun(run, req.count - at)
       /\ Here + run <= Sectors
       /\ buf' = [i \in 0..(at + run - 1) |-> IF i < at THEN buf[i] ELSE disk[req.lba + i]]
       /\ fill' = <<Here, Here + run>>
       /\ at' = at + run
  /\ pc' = "fillread"
  /\ UNCHANGED <<disk, cache, seqEnd, req, sequential, unsure>>

\* ... or fails, and read() returns at once.
MissFails ==
  /\ pc = "read" /\ at < req.count /\ ~Contains(Here)
  /\ EndCall
  /\ UNCHANGED <<disk, cache, seqEnd, unsure>>

\* All sectors are in the caller's buffer.
ReadDone ==
  /\ pc = "read" /\ at = req.count
  /\ seqEnd' = req.lba + req.count
  /\ IF sequential = "yes"
     THEN /\ pc' = "ahead" /\ req' = [NoCall EXCEPT !.lba = req.lba + req.count]
          /\ at' = 0 /\ buf' = NoBuffer /\ fill' = <<0, 0>>
          /\ UNCHANGED sequential
     ELSE EndCall
  /\ UNCHANGED <<disk, cache, unsure>>

\* Read-ahead (req.lba is last_seq_end by now): best effort, errors ignored.
AheadCached ==
  /\ pc = "ahead" /\ at < READ_AHEAD /\ Contains(Here)
  /\ at' = at + 1
  /\ UNCHANGED <<disk, cache, seqEnd, pc, req, buf, sequential, fill, unsure>>

Ahead ==
  /\ pc = "ahead" /\ at < READ_AHEAD /\ ~Contains(Here)
  /\ \E run \in 1..READ_AHEAD :
       /\ IsRun(run, READ_AHEAD - at)
       /\ at' = at + run
       /\ \/ Here + run <= Sectors /\ pc' = "fillahead" /\ fill' = <<Here, Here + run>>
          \/ UNCHANGED <<pc, fill>>
  /\ UNCHANGED <<disk, cache, seqEnd, req, buf, sequential, unsure>>

AheadDone ==
  /\ pc = "ahead" /\ at = READ_AHEAD
  /\ EndCall
  /\ UNCHANGED <<disk, cache, seqEnd, unsure>>
-----------------------------------------------------------------------------
(* write(): the drive first, then the cache.                               *)

Covered(r) == r.lba..(r.lba + r.count - 1)

Written(r, content, n) ==
  [s \in Lbas |-> IF s \in r.lba..(r.lba + n - 1) THEN content[s - r.lba] ELSE disk[s]]

Write(r, content) ==
  /\ pc = "idle"
  /\ r.lba + r.count <= Sectors
  /\ disk' = Written(r, content, r.count)
  /\ req' = r /\ buf' = content
  /\ fill' = <<r.lba, r.lba + r.count>>
  /\ pc' = "fillwrite"
  /\ UNCHANGED <<cache, seqEnd, at, sequential, unsure>>

\* The drive gives up after any prefix (or refuses an address beyond its end):
\* write() returns before it touches the cache.
WriteFails(r, content) ==
  /\ pc = "idle"
  /\ \E n \in 0..r.count :
       /\ r.lba + r.count > Sectors => n = 0
       /\ r.lba + n <= Sectors
       /\ disk' = Written(r, content, n)
       /\ unsure' = unsure \cup r.lba..(r.lba + n - 1)
  /\ UNCHANGED <<cache, seqEnd, ongoing>>
-----------------------------------------------------------------------------
(* The insertions that follow a transfer, one sector per step.             *)

Value(sector) == IF pc = "fillwrite" THEN buf[sector - req.lba] ELSE disk[sector]

Filling == pc \in {"fillread", "fillahead", "fillwrite"} /\ fill[1] < fill[2]

FillSweep ==
  /\ Filling /\ ~Contains(fill[1]) /\ Pass
  /\ UNCHANGED <<disk, seqEnd, ongoing, unsure>>

Fill ==
  /\ Filling
  /\ \/ Contains(fill[1]) /\ Refresh(fill[1], Value(fill[1]))
     \/ ~Contains(fill[1]) /\ Place(fill[1], Value(fill[1]))
  /\ fill' = <<fill[1] + 1, fill[2]>>
  /\ unsure' = IF pc = "fillwrite" THEN unsure \ {fill[1]} ELSE unsure
  /\ UNCHANGED <<disk, seqEnd, pc, req, buf, at, sequential>>

FillDone ==
  /\ fill[1] = fill[2]
  /\ \/ pc = "fillread" /\ pc' = "read" /\ UNCHANGED <<seqEnd, req, buf, at, sequential, fill>>
     \/ pc = "fillahead" /\ pc' = "ahead" /\ UNCHANGED <<seqEnd, req, buf, at, sequential, fill>>
     \/ pc = "fillwrite" /\ EndCall /\ seqEnd' = NoSeq
  /\ UNCHANGED <<disk, cache, unsure>>

\* flush(): SYS_FLUSH invalidates everything.
Flush ==
  /\ pc = "idle"
  /\ valid' = {} /\ dwell' = {} /\ seqEnd' = NoSeq
  /\ unsure' = {}
  /\ UNCHANGED <<disk, lba, data, next, ongoing>>
-----------------------------------------------------------------------------
\* The steps of a call in progress.
Step ==
  \/ Hit \/ Miss \/ MissFails \/ ReadDone
  \/ AheadCached \/ Ahead \/ AheadDone
  \/ FillSweep \/ Fill \/ FillDone

CacheNext ==
  \/ Step
  \/ \E r \in Requests : StartRead(r)
  \/ \E r \in Requests : \E content \in Contents(r.count) :
       Write(r, content) \/ WriteFails(r, content)
  \/ Flush

CacheSpec == CacheInit /\ [][CacheNext]_cacheVars

\* A call is straight-line code that runs with interrupts off to its end.
CacheFairSpec == CacheSpec /\ WF_cacheVars(Step)
-----------------------------------------------------------------------------
\* What a read has put into the caller's buffer so far is what the drive holds.
ReadsDisk ==
  pc \in {"read", "fillread"} =>
    \A i \in 0..(at - 1) : req.lba + i \in unsure \/ buf[i] = disk[req.lba + i]

\* Every call returns: the loops of read() and the clock sweep of insert(),
\* which has no bound of its own, terminate.
TransferReturns == (pc # "idle") ~> (pc = "idle")
=============================================================================
