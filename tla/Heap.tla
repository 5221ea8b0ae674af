-------------------------------- MODULE Heap --------------------------------
(***************************************************************************)
(* The heap of a Haiku package, cut into chunks that are compressed one by  *)
(* one and followed by a table of their sizes: decompress_heap in           *)
(* app/hpkg_heap.py reads what Packed, the writer of the format, produced,  *)
(* or a part of it, or with another size in the header.                     *)
(*                                                                         *)
(* A byte is <<"plain", k>>, the k-th of the heap; <<"packed", c, k>>, the  *)
(* k-th of what the codec makes of chunk c; or <<"table", b>>.              *)
(***************************************************************************)
EXTENDS Naturals, SequencesExt

CONSTANTS
    ChunkSize,       \* heap_chunk_size
    Base,            \* the values of a byte: 256
    Trailer,         \* the bytes at the end of a zlib stream that carry no data: its
                     \* end mark, where that has bytes of its own, and the checksum
    MaxUncompressed, \* MAX_HEAP_UNCOMPRESSED
    MaxHeap,         \* BOUND: the size of the heap that was packed
    MaxCut           \* BOUND: how many bytes are missing at its end

\* A size fits its two bytes in the table.
ASSUME ChunkAssumption == /\ {ChunkSize, Base, Trailer, MaxUncompressed, MaxHeap, MaxCut} \subseteq Nat
                          /\ ChunkSize > 0 /\ ChunkSize <= Base * Base

VARIABLES
    size, lens,      \* what was packed: bytes of the heap, of each chunk on disk
    codec,           \* heap_compression: "none" (0), "zlib" (1), "zstd" (2)
    declared,        \* heap_size_uncompressed in the header
    raw,             \* what arrived of the region
    comp_sizes, at, pos, out, \* of the loop
    outcome          \* "runs", "done" or "error"

hvars == <<size, lens, codec, declared, raw, comp_sizes, at, pos, out, outcome>>

Data(n)     == [k \in 1 .. n |-> <<"plain", k>>]
Chunks(n)   == (n + ChunkSize - 1) \div ChunkSize
ChunkLen(n, c) == IF c = Chunks(n) THEN n - (c - 1) * ChunkSize ELSE ChunkSize
Chunk(n, c) == SubSeq(Data(n), (c - 1) * ChunkSize + 1, (c - 1) * ChunkSize + ChunkLen(n, c))

-----------------------------------------------------------------------------
(* The writer: a chunk that does not shrink is stored as it is; the sizes   *)
(* of all chunks but the last follow, less one, the high byte first.        *)
OnDisk(n, l, c) == IF l[c] = ChunkLen(n, c) THEN Chunk(n, c)
                   ELSE [k \in 1 .. l[c] |-> <<"packed", c, k>>]
Entry(s)        == << <<"table", (s - 1) \div Base>>, <<"table", (s - 1) % Base>> >>
Table(n, l)     == [k \in 1 .. 2 * (Chunks(n) - 1) |-> Entry(l[(k + 1) \div 2])[2 - (k % 2)]]
\* The chunks up to each, one after the other.
Laid(n, l) ==
    LET laid[c \in 0 .. Chunks(n)] ==
            IF c = 0 THEN <<>> ELSE laid[c - 1] \o OnDisk(n, l, c)
    IN  laid
Packed(n, l)    == Laid(n, l)[Chunks(n)] \o Table(n, l)
Lens(n)         == {l \in [1 .. Chunks(n) -> 1 .. ChunkSize] :
                      \A c \in 1 .. Chunks(n) : /\ l[c] <= ChunkLen(n, c)
                                                /\ l[c] > Trailer \/ l[c] = ChunkLen(n, c)}
compressed      == codec # "none"
Region          == IF compressed THEN Packed(size, lens) ELSE Data(size)

HeapTypeOK ==
    /\ size \in 0 .. MaxHeap /\ lens \in Lens(size) /\ codec \in {"none", "zlib", "zstd"}
    /\ declared \in Nat /\ IsPrefix(raw, Region)
    /\ at \in 0 .. Chunks(declared) /\ pos \in Nat
    /\ \A c \in DOMAIN comp_sizes : comp_sizes[c] \in 1 .. Base * Base
    /\ Len(out) <= MaxUncompressed
    /\ outcome \in {"runs", "done", "error"}

HeapInit ==
    /\ size \in 0 .. MaxHeap /\ lens \in Lens(size) /\ codec \in {"none", "zlib", "zstd"}
    /\ declared \in {size} \cup 0 .. MaxUncompressed + 1
    /\ \E cut \in 0 .. MaxCut : /\ cut <= Len(Region)
                                /\ cut = 0 \/ declared = size
                                /\ raw = SubSeq(Region, 1, Len(Region) - cut)
    /\ comp_sizes = <<>> /\ at = 0 /\ pos = 0 /\ out = <<>>
    /\ outcome = "runs"

-----------------------------------------------------------------------------
Ends(as)      == outcome' = as
Given         == UNCHANGED <<size, lens, codec, declared, raw>>
TooLarge      == declared > MaxUncompressed
TableSize     == (Chunks(declared) - 1) * 2
DataPart      == SubSeq(raw, 1, Len(raw) - TableSize)
Start         == outcome = "runs" /\ at = 0

RefusesSize ==
    /\ Start
    /\ TooLarge \/ (compressed /\ Chunks(declared) > 1 /\ Len(raw) <= TableSize)
    /\ Ends("error")
    /\ UNCHANGED <<comp_sizes, at, pos, out>> /\ Given

\* Nothing to read, or a heap without compression.
Passes ==
    /\ Start /\ ~ TooLarge
    /\ declared = 0 \/ ~ compressed
    /\ out' = SubSeq(raw, 1, IF declared < Len(raw) THEN declared ELSE Len(raw))
    /\ Ends("done")
    /\ UNCHANGED <<comp_sizes, at, pos>> /\ Given

\* An entry of two bytes; a byte that is not of the table has any value.
Values(b)   == IF b[1] = "table" THEN {b[2]} ELSE 0 .. Base - 1
\* Mutant: the stored value taken for the size.
SizesAsStored(hi, lo) == {h * Base + l : h \in Values(hi), l \in Values(lo)} \ {0}
Sizes(hi, lo) == {h * Base + l + 1 : h \in Values(hi), l \in Values(lo)}
TableByte(k) == raw[Len(raw) - TableSize + k]

ReadsTable ==
    /\ Start /\ ~ TooLarge
    /\ compressed /\ declared > 0
    /\ Chunks(declared) > 1 => Len(raw) > TableSize
    /\ comp_sizes' \in {s \in [1 .. Chunks(declared) - 1 -> 1 .. Base * Base] :
                          \A c \in DOMAIN s : s[c] \in Sizes(TableByte(2 * c - 1), TableByte(2 * c))}
    /\ at' = 1
    /\ UNCHANGED <<pos, out, outcome>> /\ Given

\* Python slices stop at the end of the data.
Slice(s, from, n) == SubSeq(s, from + 1, IF from + n < Len(s) THEN from + n ELSE Len(s))
Comp == IF at = Chunks(declared) THEN SubSeq(DataPart, pos + 1, Len(DataPart))
        ELSE Slice(DataPart, pos, comp_sizes[at])
Unc  == IF at = Chunks(declared) THEN declared - (at - 1) * ChunkSize ELSE ChunkSize

\* What the codec must make all of chunk c from. zstd asks for its whole frame and
\* leaves what follows it. zlib takes no byte more; but the end of its stream is
\* never asked for (dec.eof), so the tail may be missing.
Inflates(comp, c) ==
    /\ lens[c] # ChunkLen(size, c) /\ ChunkLen(size, c) = Unc
    /\ IF codec = "zstd" THEN IsPrefix(OnDisk(size, lens, c), comp)
       ELSE IsPrefix(comp, OnDisk(size, lens, c)) /\ Len(comp) + Trailer >= lens[c]

\* What zlib may make less than chunk c from: its first bytes, without the tail.
MayInflate(comp, c) ==
    /\ lens[c] # ChunkLen(size, c) /\ ChunkLen(size, c) > Unc
    /\ codec = "zlib" /\ comp # <<>>
    /\ IsPrefix(comp, OnDisk(size, lens, c)) /\ Len(comp) + Trailer <= lens[c]

\* A heap of several chunks is measured once more.
Ending(heap) == IF Chunks(declared) = 1 \/ Len(heap) = declared THEN "done" ELSE "error"

Inflated(text) ==
    /\ out' = out \o text
    /\ IF at = Chunks(declared)
       THEN Ends(Ending(out')) /\ UNCHANGED <<at, pos>>
       ELSE /\ at' = at + 1 /\ pos' = pos + comp_sizes[at]
            /\ UNCHANGED outcome
    /\ UNCHANGED comp_sizes /\ Given

Stored == Len(Comp) = Unc

PassesChunk ==
    /\ outcome = "runs" /\ at > 0
    /\ Stored
    /\ Inflated(Comp)

InflatesChunk ==
    /\ outcome = "runs" /\ at > 0 /\ ~ Stored
    /\ \E c \in 1 .. Chunks(size) : /\ Inflates(Comp, c) \/ MayInflate(Comp, c)
                                    /\ Inflated(SubSeq(Chunk(size, c), 1, Unc))

RefusesChunk ==
    /\ outcome = "runs" /\ at > 0 /\ ~ Stored
    /\ \A c \in 1 .. Chunks(size) : ~ Inflates(Comp, c)
    /\ Ends("error")
    /\ UNCHANGED <<comp_sizes, at, pos, out>> /\ Given

HeapNext == \/ RefusesSize \/ Passes \/ ReadsTable
            \/ PassesChunk \/ InflatesChunk \/ RefusesChunk

-----------------------------------------------------------------------------
(* Properties.                                                             *)

\* What was packed is read back, whichever chunks were stored or compressed and
\* wherever the last chunk ends. Of a heap that lost its end nothing else passes for
\* it where zstd packed it, though the table of sizes is then read from other bytes,
\* or where it is a single chunk. And what comes out of a codec, of whatever bytes,
\* has the declared size, the single chunk too, which is not measured once more
\* (decompress_heap; _inflate_chunk: "the single choke point").
Whole   == raw = Region /\ declared = size /\ ~ TooLarge
Guarded == compressed /\ (codec = "zstd" \/ Chunks(size) <= 1)
ReadsBack ==
    /\ Whole /\ outcome # "runs" => outcome = "done" /\ out = Data(size)
    /\ Guarded /\ declared = size /\ outcome = "done" => out = Data(size)
    /\ compressed /\ outcome = "done" => Len(out) = declared

(* What the code does not keep.                                            *)

\* Nothing but the heap passes for a compressed heap that lost its end (HeapError:
\* "corrupt data"): of several zlib chunks, one may be taken short of its tail and
\* the rest for a stored chunk.
NothingElsePasses == compressed /\ declared = size /\ outcome = "done" => out = Data(size)

\* A heap comes out with the size of its header or not at all.
AlwaysDeclaredSize == outcome = "done" => Len(out) = declared
=============================================================================
