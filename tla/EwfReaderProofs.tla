--------------------------- MODULE EwfReaderProofs --------------------------
(***************************************************************************)
(* Proofs about EwfReader, for any image, any number of threads and any    *)
(* damage: the cache and the buffers hold bytes of the media, damage is    *)
(* local, and the reader is a DataSource.                                  *)
(***************************************************************************)
EXTENDS EwfReader, TLAPS

(* Chunk i, in bytes of the media.                                         *)
ChunkStart(i) == chunks[i].logical_offset
ChunkEnd(i)   == chunks[i].logical_offset + chunks[i].logical_size

(* No damaged chunk meets the first n bytes of t's request.                *)
Unhurt(t, n) ==
  \A i \in DOMAIN chunks :
    Damaged(i) => ~(n > 0 /\ offset[t] < ChunkEnd(i) /\ ChunkStart(i) < offset[t] + n)

(* What DamageIsLocal says of one thread.                                  *)
LocalTo(t) ==
  /\ result[t].kind = "err" =>
       \E i \in DOMAIN chunks : (Damaged(i) \/ i \in Unreliable) /\ Meets(t, i)
  /\ result[t].kind = "ok" =>
       \A i \in DOMAIN chunks : Damaged(i) => ~Meets(t, i)

(* What a thread knows while it reads: besides the bytes it has, that the  *)
(* chunk it is at exists, is of the kind it takes it for, and that no      *)
(* damaged chunk is behind it.                                             *)
ThreadInv(t) ==
  /\ pc[t] # "idle" => PrefixFaithful(t) /\ Unhurt(t, written[t])
  /\ pc[t] \notin {"idle", "loop"} =>
       /\ GoesOn(t)
       /\ chunks[chunk_index(t)].compressed <=> pc[t] # "raw"
  /\ pc[t] \in {"insert", "copy"} =>
       /\ chunk_data[t] = ChunkBytes(chunk_index(t))
       /\ ~Damaged(chunk_index(t))
  /\ LocalTo(t)

IndInv == TypeOK /\ CacheFaithful /\ \A t \in Threads : ThreadInv(t)

-----------------------------------------------------------------------------
(* The geometry.                                                           *)

LEMMA ChunkType ==
  ASSUME NEW i \in DOMAIN chunks
  PROVE  /\ i \in Nat
         /\ chunks[i].logical_offset = i * chunk_size
         /\ chunks[i].logical_offset \in Nat
         /\ chunks[i].logical_size \in 1..chunk_size
         /\ ChunkEnd(i) <= media_size
         /\ ChunkEnd(i) <= i * chunk_size + chunk_size
         /\ chunks[i].compressed \in BOOLEAN
<1> DEFINE s == i * chunk_size
<1>1. /\ chunk_size \in Nat /\ chunk_size > 0 /\ media_size \in Nat
      /\ chunks[i].compressed \in BOOLEAN
      /\ Tiled(chunks, NumberOfChunks, chunk_size, media_size)
  BY EwfReaderAssumption, ReadCallAssumption DEF Geometry
<1>2. /\ i \in 0..(NumberOfChunks - 1)
      /\ chunks[i].logical_offset = s /\ chunks[i].logical_offset < media_size
      /\ chunks[i].logical_size = ChunkLogicalSize(chunk_size, media_size, s)
  BY <1>1 DEF Tiled
<1>3. i \in Nat /\ s \in Nat
  BY <1>1, <1>2
<1> HIDE DEF s
<1>4. /\ chunks[i].logical_size \in 1..chunk_size
      /\ s + chunks[i].logical_size <= media_size
      /\ s + chunks[i].logical_size <= s + chunk_size
  BY <1>1, <1>2, <1>3 DEF ChunkLogicalSize
<1> QED BY <1>1, <1>2, <1>3, <1>4 DEF ChunkEnd, s

(* The chunk that holds an offset of the media is the one the reader       *)
(* divides out (EwfDataSource::read_at).                                   *)
LEMMA ChunkAt ==
  ASSUME NEW o \in Nat, o < media_size
  PROVE  /\ o \div chunk_size \in DOMAIN chunks
         /\ ChunkStart(o \div chunk_size) <= o
         /\ o < ChunkEnd(o \div chunk_size)
<1> DEFINE c == o \div chunk_size
           p == c * chunk_size
           N == NumberOfChunks
<1>1. chunk_size \in Nat /\ chunk_size > 0 /\ media_size \in Nat
  BY EwfReaderAssumption, ReadCallAssumption
<1>2. c \in Nat /\ p \in Nat /\ p <= o /\ o < p + chunk_size
  <2>1. c \in Nat /\ o = chunk_size * c + (o % chunk_size) /\ (o % chunk_size) \in 0..(chunk_size - 1)
    BY <1>1, Z3
  <2> QED BY <1>1, <2>1, Z3
<1>3. N \in Nat
  BY <1>1, Z3 DEF NumberOfChunks
<1>4. Tiled(chunks, N, chunk_size, media_size) /\ media_size <= N * chunk_size
  BY EwfReaderAssumption DEF Geometry
<1> HIDE DEF c, N
<1>5. c < N
  <2> SUFFICES ASSUME c >= N PROVE FALSE
    BY <1>2, <1>3
  <2>1. c * chunk_size >= N * chunk_size /\ N * chunk_size \in Nat
    BY <1>1, <1>2, <1>3
  <2> HIDE DEF p
  <2>2. p >= N * chunk_size
    BY <2>1 DEF p
  <2> QED BY <1>1, <1>2, <1>4, <2>1, <2>2
<1>6. c \in 0..(N - 1)
  BY <1>2, <1>3, <1>5
<1>7. /\ c \in DOMAIN chunks /\ chunks[c].logical_offset = p
      /\ chunks[c].logical_size = ChunkLogicalSize(chunk_size, media_size, p)
  BY <1>4, <1>6 DEF Tiled
<1> HIDE DEF p
<1>8. o < p + chunks[c].logical_size
  BY <1>1, <1>2, <1>7 DEF ChunkLogicalSize
<1> QED BY <1>2, <1>7, <1>8 DEF ChunkStart, ChunkEnd, c

(* Two chunks share no byte.                                               *)
LEMMA ChunksApart ==
  ASSUME NEW i \in DOMAIN chunks, NEW j \in DOMAIN chunks, i # j
  PROVE  ChunkEnd(i) <= ChunkStart(j) \/ ChunkEnd(j) <= ChunkStart(i)
<1>1. /\ i \in Nat /\ j \in Nat /\ chunk_size \in Nat
      /\ ChunkStart(i) = i * chunk_size /\ ChunkEnd(i) <= i * chunk_size + chunk_size
      /\ ChunkStart(j) = j * chunk_size /\ ChunkEnd(j) <= j * chunk_size + chunk_size
      /\ ChunkEnd(i) \in Nat /\ ChunkEnd(j) \in Nat
  BY ChunkType, EwfReaderAssumption DEF ChunkStart, ChunkEnd
<1>2. \A a, b \in Nat : a < b => a * chunk_size + chunk_size <= b * chunk_size
  <2> SUFFICES ASSUME NEW a \in Nat, NEW b \in Nat, a < b
               PROVE  a * chunk_size + chunk_size <= b * chunk_size
    OBVIOUS
  <2>1. (a + 1) * chunk_size <= b * chunk_size
    BY <1>1
  <2>2. (a + 1) * chunk_size = a * chunk_size + chunk_size
    BY <1>1
  <2> QED BY <2>1, <2>2
<1>3. i * chunk_size \in Nat /\ j * chunk_size \in Nat
  BY <1>1
<1>4. CASE i < j
  BY <1>1, <1>2, <1>3, <1>4
<1>5. CASE j < i
  BY <1>1, <1>2, <1>3, <1>5
<1> QED BY <1>1, <1>4, <1>5

-----------------------------------------------------------------------------
(* Types.                                                                  *)

LEMMA AvailableType ==
  ASSUME NEW o \in Nat, NEW n \in Nat
  PROVE  /\ DS!Available(o, n) \in 0..n
         /\ DS!Available(o, n) > 0 => o + DS!Available(o, n) <= media_size
  BY ReadCallAssumption DEF DS!Available

(* Bytes of the media have the type of bytes.                              *)
LEMMA SliceType ==
  ASSUME NEW o \in Nat, NEW n \in Nat, n > 0 => o + n <= media_size
  PROVE  DS!Slice(o, n) \in Prefixes(n)
<1>1. ASSUME NEW i \in 0..(n - 1)
      PROVE  Data[o + i] \in DS!Bytes
  <2>1. o + i \in 0..(media_size - 1)
    BY ReadCallAssumption
  <2> QED BY <2>1 DEF DS!Bytes
<1> QED BY <1>1 DEF DS!Slice, Prefixes

LEMMA NoBytesType ==
  /\ NoBytes \in Prefix
  /\ NoBytes \in CachedChunk
  /\ \A o : NoBytes = DS!Slice(o, 0)
<1>1. NoBytes \in Prefixes(0)
  BY DEF NoBytes, Prefixes
<1>2. 0 \in 0..MaxLen /\ 0 \in 0..chunk_size
  BY ReadCallAssumption, EwfReaderAssumption
<1>3. ASSUME NEW o PROVE NoBytes = DS!Slice(o, 0)
  BY DEF NoBytes, DS!Slice
<1> QED BY <1>1, <1>2, <1>3 DEF Prefix, CachedChunk

LEMMA ChunkBytesType ==
  ASSUME NEW i \in DOMAIN chunks
  PROVE  ChunkBytes(i) \in CachedChunk
<1> DEFINE n == chunks[i].logical_size
           s == chunks[i].logical_offset
<1>1. s \in Nat /\ n \in 1..chunk_size /\ s + n <= media_size /\ chunk_size \in Nat
  BY ChunkType, EwfReaderAssumption DEF ChunkEnd
<1> HIDE DEF n, s
<1>2. n \in Nat /\ n \in 0..chunk_size
  BY <1>1
<1>3. DS!Slice(s, n) \in Prefixes(n)
  BY <1>1, <1>2, SliceType
<1> QED BY <1>2, <1>3 DEF CachedChunk, ChunkBytes, n, s

LEMMA ReplyTypes ==
  /\ DS!Err \in Replies
  /\ DS!NoReply \in Replies
  /\ \A n \in 0..MaxLen : \A d \in Prefixes(n) : DS!Ok(n, d) \in Replies
  BY DEF Replies, DS!Ok

(* The part of a request that was read fits the buffer.                    *)
LEMMA PartType ==
  ASSUME NEW o \in Nat, NEW m \in 0..MaxLen, NEW n \in Nat, n <= DS!Available(o, m)
  PROVE  /\ n \in 0..MaxLen /\ n <= m
         /\ DS!Slice(o, n) \in Prefixes(n)
         /\ DS!Slice(o, n) \in Prefix
<1>1. MaxLen \in Nat /\ m \in Nat /\ media_size \in Nat
  BY ReadCallAssumption
<1>2. n \in 0..MaxLen /\ n <= m /\ (n > 0 => o + n <= media_size)
  BY <1>1 DEF DS!Available
<1>3. DS!Slice(o, n) \in Prefixes(n)
  BY <1>2, SliceType
<1> QED BY <1>2, <1>3 DEF Prefix

Labels == {"idle", "loop", "raw", "lookup", "decode", "insert", "copy"}

LEMMA ThreadType ==
  ASSUME TypeOK, NEW t \in Threads
  PROVE  /\ offset[t] \in Nat /\ offset[t] \in 0..MaxU64
         /\ len[t] \in Nat /\ len[t] \in 0..MaxLen
         /\ written[t] \in Nat /\ written[t] <= len[t]
         /\ current_offset(t) \in Nat
         /\ pc[t] \in Labels
  BY ReadCallAssumption DEF TypeOK, CallTypeOK, current_offset, Labels

(* Inside a round of the loop the thread is in a chunk there is.           *)
LEMMA InChunk ==
  ASSUME TypeOK, NEW t \in Threads, GoesOn(t)
  PROVE  /\ chunk_index(t) \in DOMAIN chunks
         /\ ChunkStart(chunk_index(t)) \in Nat /\ ChunkEnd(chunk_index(t)) \in Nat
         /\ ChunkStart(chunk_index(t)) <= current_offset(t)
         /\ current_offset(t) < ChunkEnd(chunk_index(t))
         /\ Meets(t, chunk_index(t))
<1> DEFINE c == chunk_index(t)
<1>1. /\ offset[t] \in Nat /\ len[t] \in Nat /\ written[t] \in Nat
      /\ current_offset(t) \in Nat /\ current_offset(t) = offset[t] + written[t]
      /\ current_offset(t) < media_size /\ written[t] < len[t]
  BY ThreadType DEF GoesOn, current_offset
<1>2. c \in DOMAIN chunks /\ ChunkStart(c) <= current_offset(t) /\ current_offset(t) < ChunkEnd(c)
  BY <1>1, ChunkAt DEF chunk_index
<1>3. ChunkStart(c) \in Nat /\ ChunkEnd(c) \in Nat
  BY <1>2, ChunkType DEF ChunkStart, ChunkEnd
<1> HIDE DEF c
<1>4. len[t] > 0 /\ offset[t] < ChunkEnd(c) /\ ChunkStart(c) < offset[t] + len[t]
  BY <1>1, <1>2, <1>3
<1>5. Meets(t, c)
  BY <1>4 DEF Meets, ChunkStart, ChunkEnd
<1> QED BY <1>2, <1>3, <1>5 DEF c

-----------------------------------------------------------------------------
(* The steps of one thread and what the others know.                       *)

Same(u) == /\ pc'[u] = pc[u] /\ offset'[u] = offset[u] /\ len'[u] = len[u]
           /\ written'[u] = written[u] /\ buf'[u] = buf[u] /\ result'[u] = result[u]
           /\ chunk_data'[u] = chunk_data[u]

LEMMA SameThread ==
  ASSUME NEW u \in Threads, ThreadInv(u), Same(u)
  PROVE  ThreadInv(u)'
<1>1. current_offset(u)' = current_offset(u) /\ chunk_index(u)' = chunk_index(u)
  BY DEF Same, current_offset, chunk_index
<1>2. GoesOn(u)' <=> GoesOn(u)
  BY <1>1 DEF Same, GoesOn
<1>3. PrefixFaithful(u)' <=> PrefixFaithful(u)
  BY DEF Same, PrefixFaithful
<1>4. Unhurt(u, written[u])' <=> Unhurt(u, written[u])
  BY DEF Same, Unhurt
<1>5. LocalTo(u)' <=> LocalTo(u)
  BY DEF Same, LocalTo, Meets
<1> QED BY <1>1, <1>2, <1>3, <1>4, <1>5 DEF Same, ThreadInv

LEMMA StepFrame ==
  ASSUME IndInv, NEW t \in Threads, \A u \in Threads \ {t} : Same(u),
         TypeOK', CacheFaithful', ThreadInv(t)'
  PROVE  IndInv'
<1>1. \A u \in Threads : ThreadInv(u)'
  BY SameThread DEF IndInv
<1> QED BY <1>1 DEF IndInv

(* A step that moves on in a round of the loop, or takes a chunk.          *)
LEMMA GotoFrame ==
  ASSUME IndInv, NEW t \in Threads, NEW l \in Labels, Goto(t, l),
         UNCHANGED <<offset, len, written, buf>>,
         chunk_data' = chunk_data
           \/ \E d \in CachedChunk : chunk_data' = [chunk_data EXCEPT ![t] = d]
  PROVE  /\ \A u \in Threads \ {t} : Same(u)
         /\ CallTypeOK(Labels)'
         /\ chunk_data' \in [Threads -> CachedChunk]
         /\ pc'[t] = l /\ result'[t] = result[t] /\ result' = result
         /\ current_offset(t)' = current_offset(t) /\ chunk_index(t)' = chunk_index(t)
         /\ GoesOn(t)' <=> GoesOn(t)
         /\ PrefixFaithful(t)' <=> PrefixFaithful(t)
         /\ Unhurt(t, written[t])' <=> Unhurt(t, written[t])
         /\ LocalTo(t)
         /\ LocalTo(t)'
<1>1. /\ pc \in [Threads -> Labels] /\ chunk_data \in [Threads -> CachedChunk]
      /\ CallTypeOK(Labels) /\ LocalTo(t)
  BY DEF IndInv, TypeOK, CallTypeOK, Labels, ThreadInv
<1>2. pc' = [pc EXCEPT ![t] = l] /\ result' = result
  BY DEF Goto
<1>3. pc' \in [Threads -> Labels] /\ pc'[t] = l /\ \A u \in Threads \ {t} : pc'[u] = pc[u]
  BY <1>1, <1>2
<1>4. /\ chunk_data' \in [Threads -> CachedChunk]
      /\ \A u \in Threads \ {t} : chunk_data'[u] = chunk_data[u]
  BY <1>1
<1>5. CallTypeOK(Labels)'
  BY <1>1, <1>2, <1>3 DEF CallTypeOK
<1>6. current_offset(t)' = current_offset(t) /\ chunk_index(t)' = chunk_index(t)
  BY DEF current_offset, chunk_index
<1>7. GoesOn(t)' <=> GoesOn(t)
  BY <1>6 DEF GoesOn
<1>8. PrefixFaithful(t)' <=> PrefixFaithful(t)
  BY DEF PrefixFaithful
<1>9. Unhurt(t, written[t])' <=> Unhurt(t, written[t])
  BY DEF Unhurt
<1>10. LocalTo(t)'
  BY <1>1, <1>2 DEF LocalTo, Meets
<1> QED BY <1>1, <1>2, <1>3, <1>4, <1>5, <1>6, <1>7, <1>8, <1>9, <1>10 DEF Same

(* A step that ends the call.                                              *)
LEMMA FinishFrame ==
  ASSUME IndInv, NEW t \in Threads, NEW r \in Replies, Finish(t, r),
         UNCHANGED <<chunk_cache, chunk_data, offset, len, written, buf>>,
         LocalTo(t)'
  PROVE  IndInv'
<1>1. /\ pc \in [Threads -> Labels] /\ result \in [Threads -> Replies]
      /\ CallTypeOK(Labels)
  BY DEF IndInv, TypeOK, CallTypeOK, Labels
<1>2. pc' = [pc EXCEPT ![t] = "idle"] /\ result' = [result EXCEPT ![t] = r]
  BY DEF Finish
<1>3. /\ pc' \in [Threads -> Labels] /\ result' \in [Threads -> Replies] /\ pc'[t] = "idle"
      /\ \A u \in Threads \ {t} : pc'[u] = pc[u] /\ result'[u] = result[u]
  BY <1>1, <1>2 DEF Labels
<1>4. CallTypeOK(Labels)'
  BY <1>1, <1>3 DEF CallTypeOK
<1>5. TypeOK'
  BY <1>4 DEF IndInv, TypeOK, Labels
<1>6. CacheFaithful'
  BY DEF IndInv, CacheFaithful
<1>7. \A u \in Threads \ {t} : Same(u)
  BY <1>3 DEF Same
<1>8. ThreadInv(t)'
  BY <1>3 DEF ThreadInv
<1> QED BY <1>5, <1>6, <1>7, <1>8, StepFrame

(* A read that needs a damaged chunk, or one that cannot be read, fails.   *)
LEMMA FailInv ==
  ASSUME IndInv, NEW t \in Threads, GoesOn(t), Finish(t, DS!Err),
         UNCHANGED <<chunk_cache, chunk_data, offset, len, written, buf>>,
         Damaged(chunk_index(t)) \/ chunk_index(t) \in Unreliable
  PROVE  IndInv'
<1>1. chunk_index(t) \in DOMAIN chunks /\ Meets(t, chunk_index(t))
  BY InChunk DEF IndInv
<1>2. PICK i \in DOMAIN chunks : i = chunk_index(t)
  BY <1>1
<1>3. result'[t] = DS!Err
  BY DEF Finish, IndInv, TypeOK, CallTypeOK
<1>4. LocalTo(t)'
  <2>1. (Damaged(i) \/ i \in Unreliable) /\ Meets(t, i)
    BY <1>1, <1>2
  <2>2. result'[t].kind = "err"
    BY <1>3 DEF DS!Err
  <2> QED BY <2>1, <2>2 DEF LocalTo, Meets
<1> QED BY <1>4, ReplyTypes, FinishFrame

(* read_at is entered: nothing is read yet.                                *)
LEMMA ReadAtInv ==
  ASSUME IndInv, NEW t \in Threads, NEW o \in 0..MaxU64, NEW n \in 0..MaxLen, ReadAt(t, o, n)
  PROVE  IndInv'
<1>1. /\ pc' = [pc EXCEPT ![t] = "loop"] /\ offset' = [offset EXCEPT ![t] = o]
      /\ len' = [len EXCEPT ![t] = n] /\ written' = [written EXCEPT ![t] = 0]
      /\ buf' = [buf EXCEPT ![t] = NoBytes] /\ result' = [result EXCEPT ![t] = DS!NoReply]
      /\ UNCHANGED <<chunk_cache, chunk_data>>
  BY DEF ReadAt, Enter
<1>2. /\ pc \in [Threads -> Labels] /\ offset \in [Threads -> 0..MaxU64]
      /\ len \in [Threads -> 0..MaxLen] /\ written \in [Threads -> 0..MaxLen]
      /\ buf \in [Threads -> Prefix] /\ result \in [Threads -> Replies]
      /\ \A u \in Threads : written[u] <= len[u]
  BY DEF IndInv, TypeOK, CallTypeOK, Labels
<1>3. 0 \in 0..MaxLen /\ 0 <= n /\ n \in Nat /\ o \in Nat
  BY ReadCallAssumption
<1>4. /\ pc' \in [Threads -> Labels] /\ offset' \in [Threads -> 0..MaxU64]
      /\ len' \in [Threads -> 0..MaxLen] /\ written' \in [Threads -> 0..MaxLen]
      /\ buf' \in [Threads -> Prefix] /\ result' \in [Threads -> Replies]
  BY <1>1, <1>2, <1>3, NoBytesType, ReplyTypes DEF Labels
<1>5. /\ pc'[t] = "loop" /\ offset'[t] = o /\ len'[t] = n /\ written'[t] = 0
      /\ buf'[t] = NoBytes /\ result'[t] = DS!NoReply
      /\ \A u \in Threads \ {t} : Same(u)
  BY <1>1, <1>2 DEF Same
<1>6. \A u \in Threads : written'[u] <= len'[u]
  BY <1>2, <1>3, <1>5 DEF Same
<1>7. TypeOK'
  BY <1>1, <1>4, <1>6 DEF IndInv, TypeOK, CallTypeOK, Labels
<1>8. CacheFaithful'
  BY <1>1 DEF IndInv, CacheFaithful
<1>9. ThreadInv(t)'
  <2>1. PrefixFaithful(t)'
    <3>1. NoBytes = DS!Slice(o, 0) /\ 0 <= DS!Available(o, n)
      BY <1>3, NoBytesType, AvailableType
    <3> QED BY <1>5, <3>1 DEF PrefixFaithful
  <2>2. Unhurt(t, written[t])'
    BY <1>5 DEF Unhurt
  <2>3. LocalTo(t)'
    BY <1>5 DEF LocalTo, DS!NoReply
  <2> QED BY <1>5, <2>1, <2>2, <2>3 DEF ThreadInv
<1> QED BY <1>5, <1>7, <1>8, <1>9, StepFrame

(* At the end of the loop every byte there is was read.                    *)
LEMMA ReadIsWhole ==
  ASSUME IndInv, NEW t \in Threads, pc[t] = "loop", ~GoesOn(t)
  PROVE  /\ written[t] = DS!Available(offset[t], len[t])
         /\ buf[t] = DS!Slice(offset[t], written[t])
<1>1. /\ offset[t] \in Nat /\ len[t] \in Nat /\ written[t] \in Nat /\ written[t] <= len[t]
      /\ media_size \in Nat
  BY ThreadType, ReadCallAssumption DEF IndInv
<1>2. buf[t] = DS!Slice(offset[t], written[t]) /\ written[t] <= DS!Available(offset[t], len[t])
  BY DEF IndInv, ThreadInv, PrefixFaithful
<1>3. ~(written[t] < len[t] /\ offset[t] + written[t] < media_size)
  BY DEF GoesOn, current_offset
<1>4. written[t] = DS!Available(offset[t], len[t])
  BY <1>1, <1>2, <1>3 DEF DS!Available
<1> QED BY <1>2, <1>4

LEMMA LoopInv ==
  ASSUME IndInv, NEW t \in Threads, Loop(t)
  PROVE  IndInv'
<1>1. pc[t] = "loop" /\ UNCHANGED <<chunk_cache, offset, len, written, buf, chunk_data>>
  BY DEF Loop
<1>2. TypeOK /\ ThreadInv(t)
  BY DEF IndInv
<1>3. CASE GoesOn(t)
  <2> DEFINE l == IF chunks[chunk_index(t)].compressed THEN "lookup" ELSE "raw"
  <2>1. chunk_index(t) \in DOMAIN chunks
    BY <1>2, <1>3, InChunk
  <2>2. Goto(t, l)
    BY <1>3, <2>1 DEF Loop
  <2>3. l \in Labels
    BY DEF Labels
  <2>4. chunks[chunk_index(t)].compressed \in BOOLEAN
    BY <2>1, ChunkType
  <2>5. l \in {"lookup", "raw"} /\ (chunks[chunk_index(t)].compressed <=> l # "raw")
    BY <2>4
  <2> HIDE DEF l
  <2>6. /\ \A u \in Threads \ {t} : Same(u)
        /\ CallTypeOK(Labels)'
        /\ chunk_data' \in [Threads -> CachedChunk]
        /\ pc'[t] = l /\ chunk_index(t)' = chunk_index(t)
        /\ GoesOn(t)' <=> GoesOn(t)
        /\ PrefixFaithful(t)' <=> PrefixFaithful(t)
        /\ Unhurt(t, written[t])' <=> Unhurt(t, written[t])
        /\ LocalTo(t)'
    BY <1>1, <2>2, <2>3, GotoFrame
  <2>7. TypeOK'
    BY <1>1, <1>2, <2>6 DEF TypeOK, Labels
  <2>8. CacheFaithful'
    BY <1>1 DEF IndInv, CacheFaithful
  <2>9. ThreadInv(t)'
    BY <1>1, <1>2, <1>3, <2>5, <2>6 DEF ThreadInv
  <2> QED BY <2>6, <2>7, <2>8, <2>9, StepFrame
<1>4. CASE ~GoesOn(t)
  <2> DEFINE r == DS!Ok(written[t], buf[t])
  <2>1. Finish(t, r)
    BY <1>4 DEF Loop
  <2>2. /\ offset[t] \in Nat /\ len[t] \in 0..MaxLen /\ len[t] \in Nat /\ written[t] \in Nat
        /\ media_size \in Nat
    BY <1>2, ThreadType, ReadCallAssumption
  <2>3. /\ written[t] = DS!Available(offset[t], len[t])
        /\ buf[t] = DS!Slice(offset[t], written[t])
    BY <1>1, <1>4, ReadIsWhole
  <2>4. r \in Replies
    <3>1. written[t] \in 0..MaxLen /\ buf[t] \in Prefixes(written[t])
      BY <2>2, <2>3, PartType
    <3> QED BY <3>1, ReplyTypes
  <2>5. result'[t] = r
    BY <1>2, <2>1 DEF Finish, TypeOK, CallTypeOK
  <2>6. ASSUME NEW i \in DOMAIN chunks, Damaged(i) PROVE ~Meets(t, i)
    <3>1. /\ ChunkStart(i) \in Nat /\ ChunkEnd(i) \in Nat
          /\ ChunkEnd(i) <= media_size /\ ChunkStart(i) < ChunkEnd(i)
      BY ChunkType, EwfReaderAssumption DEF ChunkStart, ChunkEnd
    <3>2. ~(written[t] > 0 /\ offset[t] < ChunkEnd(i) /\ ChunkStart(i) < offset[t] + written[t])
      BY <1>1, <1>2, <2>6 DEF ThreadInv, Unhurt
    <3>3. ~(len[t] > 0 /\ offset[t] < ChunkEnd(i) /\ ChunkStart(i) < offset[t] + len[t])
      BY <2>2, <2>3, <3>1, <3>2 DEF DS!Available
    <3> QED BY <3>3 DEF Meets, ChunkStart, ChunkEnd
  <2>7. LocalTo(t)'
    <3>1. result'[t].kind = "ok"
      BY <2>5 DEF DS!Ok
    <3>2. \A i \in DOMAIN chunks : Meets(t, i)' <=> Meets(t, i)
      BY <1>1 DEF Meets
    <3> QED BY <2>6, <3>1, <3>2 DEF LocalTo
  <2> QED BY <1>1, <2>1, <2>4, <2>7, FinishFrame
<1> QED BY <1>3, <1>4

(* A piece of a sound chunk is put into the buffer.                        *)
LEMMA EmitInv ==
  ASSUME IndInv, NEW t \in Threads, pc[t] # "idle", GoesOn(t), ~Damaged(chunk_index(t)),
         Emit(t, ChunkBytes(chunk_index(t)), chunk_relative_offset(t), chunk_available(t)),
         UNCHANGED <<chunk_cache, offset, len>>,
         chunk_data' = chunk_data \/ chunk_data' = [chunk_data EXCEPT ![t] = NoBytes]
  PROVE  IndInv'
<1> DEFINE c == chunk_index(t)
           o == offset[t]
           m == len[t]
           w == written[t]
           s == chunks[c].logical_offset
           z == chunks[c].logical_size
           rel == chunk_relative_offset(t)
           n == chunk_available(t)
<1>1. TypeOK /\ ThreadInv(t)
  BY DEF IndInv
<1>2. /\ o \in Nat /\ m \in Nat /\ m \in 0..MaxLen /\ w \in Nat /\ w < m
  BY <1>1, ThreadType DEF GoesOn
<1>3. /\ c \in DOMAIN chunks /\ s <= o + w /\ o + w < s + z
  BY <1>1, InChunk DEF ChunkStart, ChunkEnd, current_offset
<1>4. s \in Nat /\ z \in Nat /\ s + z <= media_size
  BY <1>3, ChunkType, EwfReaderAssumption DEF ChunkEnd
<1>5. rel = (o + w) - s /\ n = IF z - rel <= m - w THEN z - rel ELSE m - w
  BY DEF chunk_relative_offset, chunk_available, Clamp, current_offset
<1>6. /\ buf[t] = DS!Slice(o, w)
      /\ Unhurt(t, w)
      /\ LocalTo(t)
  BY <1>1 DEF ThreadInv, PrefixFaithful
<1>7. /\ buf' = [buf EXCEPT ![t] = Extended(t, w, ChunkBytes(c), rel, n)]
      /\ written' = [written EXCEPT ![t] = @ + n]
      /\ pc' = [pc EXCEPT ![t] = "loop"] /\ result' = result
  BY DEF Emit, Goto
<1>8. ChunkBytes(c) = DS!Slice(s, z)
  BY DEF ChunkBytes
<1> HIDE DEF c, o, m, w, s, z, rel, n
<1>9. /\ rel \in Nat /\ n \in Nat /\ n > 0
      /\ rel + n <= z /\ s + rel = o + w
      /\ w + n <= m /\ w + n <= DS!Available(o, m) /\ o + (w + n) <= s + z
  BY <1>2, <1>3, <1>4, <1>5, ReadCallAssumption DEF DS!Available
<1>10. Extended(t, w, ChunkBytes(c), rel, n) = DS!Slice(o, w + n)
  <2> DEFINE before == buf[t]
  <2>1. before = DS!Slice(o, w)
    BY <1>6
  <2> HIDE DEF before
  <2>2. ASSUME NEW i \in 0..(w + n - 1)
        PROVE  (IF i < w THEN before[i] ELSE DS!Slice(s, z)[rel + i - w]) = Data[o + i]
    <3>1. CASE i < w
      BY <1>2, <2>1, <3>1 DEF DS!Slice
    <3>2. CASE i >= w
      <4>1. rel + i - w \in 0..(z - 1) /\ s + (rel + i - w) = o + i
        BY <1>2, <1>4, <1>9, <3>2
      <4> QED BY <1>2, <3>2, <4>1 DEF DS!Slice
    <3> QED BY <1>2, <3>1, <3>2
  <2>3. 0..(w + n - 1) = 0..((w + n) - 1)
    BY <1>2, <1>9, w + n - 1 = (w + n) - 1
  <2>4. Extended(t, w, ChunkBytes(c), rel, n) = [i \in 0..(w + n - 1) |-> Data[o + i]]
    BY <1>8, <2>2 DEF Extended, before
  <2> QED BY <2>3, <2>4, Zenon DEF DS!Slice
<1>11. /\ w + n \in Nat /\ w + n \in 0..MaxLen /\ DS!Slice(o, w + n) \in Prefix
  BY <1>2, <1>9, PartType
<1>12. /\ pc \in [Threads -> Labels] /\ written \in [Threads -> 0..MaxLen]
       /\ buf \in [Threads -> Prefix] /\ chunk_data \in [Threads -> CachedChunk]
       /\ \A u \in Threads : written[u] <= len[u]
  BY <1>1 DEF TypeOK, CallTypeOK, Labels
<1>13. /\ buf' = [buf EXCEPT ![t] = DS!Slice(o, w + n)]
       /\ written' = [written EXCEPT ![t] = w + n]
  BY <1>7, <1>10 DEF w
<1>14. /\ pc' \in [Threads -> Labels] /\ written' \in [Threads -> 0..MaxLen]
       /\ buf' \in [Threads -> Prefix] /\ chunk_data' \in [Threads -> CachedChunk]
  BY <1>7, <1>11, <1>12, <1>13, NoBytesType DEF Labels
<1>15. /\ pc'[t] = "loop" /\ written'[t] = w + n /\ buf'[t] = DS!Slice(o, w + n)
       /\ offset'[t] = o /\ len'[t] = m
       /\ \A u \in Threads \ {t} : Same(u)
  BY <1>7, <1>12, <1>13 DEF Same, o, m
<1>16. \A u \in Threads : written'[u] <= len'[u]
  BY <1>9, <1>12, <1>15 DEF Same
<1>17. TypeOK'
  BY <1>1, <1>7, <1>14, <1>16 DEF TypeOK, CallTypeOK, Labels
<1>18. CacheFaithful'
  BY DEF IndInv, CacheFaithful
<1>19. Unhurt(t, written[t])'
  <2> SUFFICES ASSUME NEW i \in DOMAIN chunks, Damaged(i)
               PROVE  ~(w + n > 0 /\ o < ChunkEnd(i) /\ ChunkStart(i) < o + (w + n))
    BY <1>15 DEF Unhurt
  <2>1. i # c
    BY DEF c
  <2>2. ChunkStart(c) = s /\ ChunkEnd(c) = s + z
    BY DEF ChunkStart, ChunkEnd, s, z
  <2>3. ChunkStart(i) \in Nat /\ ChunkEnd(i) \in Nat /\ ChunkStart(i) < ChunkEnd(i)
    BY ChunkType, EwfReaderAssumption DEF ChunkStart, ChunkEnd
  <2>4. ChunkEnd(i) <= s \/ s + z <= ChunkStart(i)
    BY <1>3, <2>1, <2>2, ChunksApart
  <2>5. ~(w > 0 /\ o < ChunkEnd(i) /\ ChunkStart(i) < o + w)
    BY <1>6 DEF Unhurt, o
  <2>6. CASE s + z <= ChunkStart(i)
    BY <1>2, <1>4, <1>9, <2>3, <2>6
  <2>7. CASE ChunkEnd(i) <= s
    BY <1>2, <1>3, <1>4, <2>3, <2>5, <2>7
  <2> QED BY <2>4, <2>6, <2>7
<1>20. LocalTo(t)'
  BY <1>6, <1>7 DEF LocalTo, Meets
<1>21. ThreadInv(t)'
  BY <1>9, <1>15, <1>19, <1>20 DEF ThreadInv, PrefixFaithful
<1> QED BY <1>15, <1>17, <1>18, <1>21, StepFrame

LEMMA ReadRawInv ==
  ASSUME IndInv, NEW t \in Threads, ReadRaw(t)
  PROVE  IndInv'
<1>1. /\ pc[t] = "raw" /\ UNCHANGED <<chunk_cache, offset, len, chunk_data>>
  BY DEF ReadRaw
<1>2. GoesOn(t) /\ ~chunks[chunk_index(t)].compressed
  BY <1>1 DEF IndInv, ThreadInv
<1>3. CASE Emit(t, ChunkBytes(chunk_index(t)), chunk_relative_offset(t), chunk_available(t))
  BY <1>1, <1>2, <1>3, EmitInv DEF Damaged
<1>4. CASE /\ chunk_index(t) \in Unreliable
           /\ Finish(t, DS!Err)
           /\ UNCHANGED <<written, buf>>
  BY <1>1, <1>2, <1>4, FailInv
<1> QED BY <1>3, <1>4 DEF ReadRaw

LEMMA CopyInv ==
  ASSUME IndInv, NEW t \in Threads, Copy(t)
  PROVE  IndInv'
<1>1. /\ pc[t] = "copy" /\ UNCHANGED <<chunk_cache, offset, len>>
      /\ chunk_data' = [chunk_data EXCEPT ![t] = NoBytes]
      /\ Emit(t, chunk_data[t], chunk_relative_offset(t), chunk_available(t))
  BY DEF Copy
<1>2. /\ GoesOn(t) /\ ~Damaged(chunk_index(t))
      /\ chunk_data[t] = ChunkBytes(chunk_index(t))
  BY <1>1 DEF IndInv, ThreadInv
<1>3. Emit(t, ChunkBytes(chunk_index(t)), chunk_relative_offset(t), chunk_available(t))
  BY <1>1, <1>2
<1> QED BY <1>1, <1>2, <1>3, EmitInv

(* A step that takes chunk d, or none, and goes on to l.                   *)
LEMMA TakeInv ==
  ASSUME IndInv, NEW t \in Threads, NEW l \in Labels, Goto(t, l),
         GoesOn(t), chunks[chunk_index(t)].compressed,
         UNCHANGED <<offset, len, written, buf>>,
         \/ l = "decode" /\ chunk_data' = chunk_data
         \/ /\ l \in {"insert", "copy"}
            /\ ~Damaged(chunk_index(t))
            /\ \/ chunk_data' = [chunk_data EXCEPT ![t] = ChunkBytes(chunk_index(t))]
               \/ chunk_data' = chunk_data /\ chunk_data[t] = ChunkBytes(chunk_index(t)),
         DOMAIN chunk_cache' \subseteq DOMAIN chunks,
         \A i \in DOMAIN chunk_cache' : chunk_cache'[i] \in CachedChunk,
         CacheFaithful', pc[t] # "idle"
  PROVE  IndInv'
<1>1. TypeOK /\ ThreadInv(t)
  BY DEF IndInv
<1>2. chunk_index(t) \in DOMAIN chunks
  BY <1>1, InChunk
<1>3. ChunkBytes(chunk_index(t)) \in CachedChunk
  BY <1>2, ChunkBytesType
<1>4. \/ chunk_data' = chunk_data
      \/ \E d \in CachedChunk : chunk_data' = [chunk_data EXCEPT ![t] = d]
  BY <1>3
<1>5. /\ \A u \in Threads \ {t} : Same(u)
      /\ CallTypeOK(Labels)'
      /\ chunk_data' \in [Threads -> CachedChunk]
      /\ pc'[t] = l /\ chunk_index(t)' = chunk_index(t)
      /\ GoesOn(t)' <=> GoesOn(t)
      /\ PrefixFaithful(t)' <=> PrefixFaithful(t)
      /\ Unhurt(t, written[t])' <=> Unhurt(t, written[t])
      /\ LocalTo(t)'
  BY <1>4, GotoFrame
<1>6. TypeOK'
  BY <1>5 DEF TypeOK, Labels
<1>7. l \in {"insert", "copy"} => chunk_data'[t] = ChunkBytes(chunk_index(t))
  BY <1>1 DEF TypeOK
<1>8. ThreadInv(t)'
  <2>1. PrefixFaithful(t)' /\ Unhurt(t, written[t])' /\ GoesOn(t)'
    BY <1>1, <1>5 DEF ThreadInv
  <2>2. l \notin {"idle", "loop", "raw"} /\ (l \in {"insert", "copy"} => ~Damaged(chunk_index(t)))
    OBVIOUS
  <2> QED BY <1>5, <1>7, <2>1, <2>2 DEF ThreadInv, ChunkBytes, Damaged
<1> QED BY <1>5, <1>6, <1>8, StepFrame

(* The key of a chunk is its index.                                        *)
LEMMA KeyIsIndex ==
  ASSUME TypeOK, NEW t \in Threads, GoesOn(t)
  PROVE  cache_key(t) = chunk_index(t)
<1> DEFINE c == chunk_index(t)
<1>1. c \in 0..(NumberOfChunks - 1) /\ NumberOfChunks \in Int
  BY InChunk, EwfReaderAssumption, ReadCallAssumption DEF Geometry, Tiled, NumberOfChunks
<1> HIDE DEF c
<1>2. c % (MaxU32 + 1) = c
  BY <1>1, EwfReaderAssumption
<1> QED BY <1>2 DEF c, cache_key

LEMMA ReadCachedChunkInv ==
  ASSUME IndInv, NEW t \in Threads, ReadCachedChunk(t)
  PROVE  IndInv'
<1> DEFINE c == chunk_index(t)
<1>1. /\ pc[t] = "lookup" /\ UNCHANGED <<chunk_cache, offset, len, written, buf>>
  BY DEF ReadCachedChunk
<1>2. GoesOn(t) /\ chunks[c].compressed
  BY <1>1 DEF IndInv, ThreadInv
<1>3. /\ DOMAIN chunk_cache' \subseteq DOMAIN chunks
      /\ \A i \in DOMAIN chunk_cache' : chunk_cache'[i] \in CachedChunk
      /\ CacheFaithful'
  BY <1>1 DEF IndInv, TypeOK, CacheFaithful
<1>4. cache_key(t) = c
  BY <1>2, KeyIsIndex DEF IndInv
<1>5. CASE c \in DOMAIN chunk_cache
  <2>1. ~Damaged(c) /\ chunk_cache[c] = ChunkBytes(c)
    BY <1>5 DEF IndInv, CacheFaithful
  <2>2. Goto(t, "copy") /\ chunk_data' = [chunk_data EXCEPT ![t] = ChunkBytes(c)]
    BY <1>4, <1>5, <2>1 DEF ReadCachedChunk
  <2> QED BY <1>1, <1>2, <1>3, <2>1, <2>2, TakeInv DEF Labels
<1>6. CASE c \notin DOMAIN chunk_cache
  <2>1. Goto(t, "decode") /\ chunk_data' = chunk_data
    BY <1>4, <1>6 DEF ReadCachedChunk
  <2> QED BY <1>1, <1>2, <1>3, <2>1, TakeInv DEF Labels
<1> QED BY <1>5, <1>6

LEMMA DecodeInv ==
  ASSUME IndInv, NEW t \in Threads, Decode(t)
  PROVE  IndInv'
<1> DEFINE c == chunk_index(t)
<1>1. /\ pc[t] = "decode" /\ UNCHANGED <<chunk_cache, offset, len, written, buf>>
  BY DEF Decode
<1>2. GoesOn(t) /\ chunks[c].compressed
  BY <1>1 DEF IndInv, ThreadInv
<1>3. /\ DOMAIN chunk_cache' \subseteq DOMAIN chunks
      /\ \A i \in DOMAIN chunk_cache' : chunk_cache'[i] \in CachedChunk
      /\ CacheFaithful'
  BY <1>1 DEF IndInv, TypeOK, CacheFaithful
<1>4. CASE /\ ~Damaged(c) /\ Goto(t, "insert")
           /\ chunk_data' = [chunk_data EXCEPT ![t] = ChunkBytes(c)]
  BY <1>1, <1>2, <1>3, <1>4, TakeInv DEF Labels
<1>5. CASE /\ Damaged(c) \/ c \in Unreliable
           /\ Finish(t, DS!Err)
           /\ UNCHANGED chunk_data
  BY <1>1, <1>2, <1>5, FailInv
<1> QED BY <1>4, <1>5 DEF Decode

(* The first thread to insert a chunk wins; the others hold the same bytes.*)
LEMMA CacheChunkInv ==
  ASSUME IndInv, NEW t \in Threads, CacheChunk(t)
  PROVE  IndInv'
<1> DEFINE c == chunk_index(t)
<1>1. /\ pc[t] = "insert" /\ UNCHANGED <<offset, len, written, buf>> /\ Goto(t, "copy")
  BY DEF CacheChunk
<1>2. /\ GoesOn(t) /\ chunks[c].compressed /\ ~Damaged(c)
      /\ chunk_data[t] = ChunkBytes(c)
  BY <1>1 DEF IndInv, ThreadInv
<1>3. c \in DOMAIN chunks /\ ChunkBytes(c) \in CachedChunk
  BY <1>2, InChunk, ChunkBytesType DEF IndInv
<1>4. cache_key(t) = c
  BY <1>2, KeyIsIndex DEF IndInv
<1>5. CASE c \in DOMAIN chunk_cache
  <2>1. chunk_cache[c] = ChunkBytes(c)
    BY <1>5 DEF IndInv, CacheFaithful
  <2>2. chunk_data' = [chunk_data EXCEPT ![t] = ChunkBytes(c)] /\ chunk_cache' = chunk_cache
    BY <1>4, <1>5, <2>1 DEF CacheChunk
  <2>3. /\ DOMAIN chunk_cache' \subseteq DOMAIN chunks
        /\ \A i \in DOMAIN chunk_cache' : chunk_cache'[i] \in CachedChunk
        /\ CacheFaithful'
    BY <2>2 DEF IndInv, TypeOK, CacheFaithful
  <2> QED BY <1>1, <1>2, <2>2, <2>3, TakeInv DEF Labels
<1>6. CASE c \notin DOMAIN chunk_cache
  <2>1. /\ chunk_data' = chunk_data
        /\ chunk_cache' = [i \in DOMAIN chunk_cache \cup {c} |->
                             IF i = c THEN chunk_data[t] ELSE chunk_cache[i]]
    BY <1>4, <1>6 DEF CacheChunk
  <2> HIDE DEF c
  <2>2. /\ DOMAIN chunk_cache' \subseteq DOMAIN chunks
        /\ \A i \in DOMAIN chunk_cache' : chunk_cache'[i] \in CachedChunk
    BY <1>2, <1>3, <2>1 DEF IndInv, TypeOK
  <2>3. CacheFaithful'
    <3> SUFFICES ASSUME NEW i \in DOMAIN chunk_cache'
                 PROVE  /\ chunks[i].compressed /\ ~Damaged(i)
                        /\ chunk_cache'[i] = ChunkBytes(i)
      BY DEF CacheFaithful, Damaged, ChunkBytes
    <3>1. CASE i = c
      BY <1>2, <2>1, <3>1
    <3>2. CASE i # c
      BY <2>1, <3>2 DEF IndInv, CacheFaithful
    <3> QED BY <3>1, <3>2
  <2> QED BY <1>1, <1>2, <2>1, <2>2, <2>3, TakeInv DEF Labels, c
<1> QED BY <1>5, <1>6

LEMMA InitInv == Init => IndInv
<1> SUFFICES ASSUME Init PROVE IndInv
  OBVIOUS
<1>1. /\ pc = [t \in Threads |-> "idle"] /\ offset = [t \in Threads |-> 0]
      /\ len = [t \in Threads |-> 0] /\ written = [t \in Threads |-> 0]
      /\ buf = [t \in Threads |-> NoBytes] /\ result = [t \in Threads |-> DS!NoReply]
      /\ chunk_cache = [i \in {} |-> NoBytes] /\ chunk_data = [t \in Threads |-> NoBytes]
  BY DEF Init, CallInit
<1>2. 0 \in 0..MaxLen /\ 0 \in 0..MaxU64
  BY ReadCallAssumption
<1>3. DOMAIN chunk_cache = {}
  BY <1>1
<1>4. TypeOK
  BY <1>1, <1>2, <1>3, NoBytesType, ReplyTypes DEF TypeOK, CallTypeOK
<1>5. CacheFaithful
  BY <1>3 DEF CacheFaithful
<1>6. ASSUME NEW t \in Threads PROVE ThreadInv(t)
  BY <1>1 DEF ThreadInv, LocalTo, DS!NoReply
<1> QED BY <1>4, <1>5, <1>6 DEF IndInv

LEMMA NextInv == IndInv /\ [Next]_vars => IndInv'
<1> SUFFICES ASSUME IndInv, [Next]_vars PROVE IndInv'
  OBVIOUS
<1>1. ASSUME NEW t \in Threads, Step(t) PROVE IndInv'
  BY <1>1, LoopInv, ReadRawInv, ReadCachedChunkInv, DecodeInv, CacheChunkInv, CopyInv DEF Step
<1>2. CASE UNCHANGED vars
  <2>1. TypeOK' /\ CacheFaithful'
    BY <1>2 DEF vars, IndInv, TypeOK, CallTypeOK, CacheFaithful
  <2>2. \A u \in Threads : Same(u)
    BY <1>2 DEF vars, Same
  <2> QED BY <2>1, <2>2, SameThread DEF IndInv
<1> QED BY <1>1, <1>2, ReadAtInv DEF Next

LEMMA Invariance == Spec => []IndInv
  BY InitInv, NextInv, PTL DEF Spec

(* However the threads interleave, the chunk cache and every buffer hold   *)
(* the bytes of the media (read_cached_chunk, read_compressed_chunk,       *)
(* cache_chunk).                                                           *)
THEOREM ReadsCorrect == Spec => []ReadInv
<1>1. IndInv => ReadInv
  BY DEF IndInv, ReadInv, ThreadInv, PartialReadFaithful
<1> QED BY <1>1, Invariance, PTL

(* A damaged chunk fails the reads that need it and no others, cached or   *)
(* not, whoever comes first.                                               *)
THEOREM DamageStaysLocal == Spec => []DamageIsLocal
<1>1. IndInv => DamageIsLocal
  BY DEF IndInv, ThreadInv, LocalTo, DamageIsLocal
<1> QED BY <1>1, Invariance, PTL

-----------------------------------------------------------------------------
(* The reader is a DataSource.                                             *)

(* The call a thread is in, as DataSource sees it.                         *)
CallOf(t) == IF pc[t] = "idle" THEN [kind |-> "none"]
             ELSE [kind |-> "read_at", offset |-> offset[t], len |-> len[t]]

(* Going on inside read_at is not seen; its end is the answer.             *)
LEMMA StepSimulation ==
  ASSUME IndInv, NEW t \in Threads, Step(t)
  PROVE  [DS!Next]_(DS!vars)
<1> DEFINE n == DS!Available(offset[t], len[t])
           Whole == DS!Ok(n, DS!Slice(offset[t], n))
<1>1. pc[t] # "idle" /\ offset' = offset /\ len' = len
  BY DEF Step, Loop, ReadRaw, ReadCachedChunk, Decode, CacheChunk, Copy
<1>2. TypeOK
  BY DEF IndInv
<1>3. \/ \E l \in Labels \ {"idle"} : Goto(t, l)
      \/ Finish(t, DS!Err)
      \/ Finish(t, Whole)
  <2>1. CASE Loop(t)
    <3>1. CASE GoesOn(t)
      BY <2>1, <3>1 DEF Loop, Labels
    <3>2. CASE ~GoesOn(t)
      BY <2>1, <3>2, ReadIsWhole DEF Loop
    <3> QED BY <3>1, <3>2
  <2>2. CASE ReadRaw(t)
    BY <2>2 DEF ReadRaw, Emit, Labels
  <2>3. CASE ReadCachedChunk(t)
    BY <2>3 DEF ReadCachedChunk, Labels
  <2>4. CASE Decode(t)
    BY <2>4 DEF Decode, Labels
  <2>5. CASE CacheChunk(t)
    BY <2>5 DEF CacheChunk, Labels
  <2>6. CASE Copy(t)
    BY <2>6 DEF Copy, Emit, Labels
  <2> QED BY <2>1, <2>2, <2>3, <2>4, <2>5, <2>6 DEF Step
<1> HIDE DEF n
<1>4. ASSUME NEW l \in Labels \ {"idle"}, Goto(t, l)
      PROVE  [DS!Next]_(DS!vars)
  <2>1. pc'[t] = l /\ result' = result /\ \A u \in Threads : u # t => pc'[u] = pc[u]
    BY <1>2, <1>4 DEF Goto, TypeOK, CallTypeOK
  <2>2. [u \in Threads |-> CallOf(u)]' = [u \in Threads |-> CallOf(u)]
    BY <1>1, <2>1 DEF CallOf
  <2> QED BY <2>1, <2>2 DEF DS!vars, CallOf
<1>5. ASSUME NEW r, Finish(t, r)
      PROVE  /\ [u \in Threads |-> CallOf(u)]'
                  = [[u \in Threads |-> CallOf(u)] EXCEPT ![t] = DS!NoCall]
             /\ result' = [result EXCEPT ![t] = r]
  <2>1. pc'[t] = "idle" /\ \A u \in Threads : u # t => pc'[u] = pc[u]
    BY <1>2, <1>5 DEF Finish, TypeOK, CallTypeOK
  <2> QED BY <1>1, <1>5, <2>1 DEF CallOf, DS!NoCall, Finish
<1>6. CallOf(t) = DS!ReadCall(offset[t], len[t]) /\ CallOf(t) # DS!NoCall
  BY <1>1 DEF CallOf, DS!ReadCall, DS!NoCall
<1>7. CASE Finish(t, DS!Err)
  <2>1. DS!Fail(t)
    BY <1>5, <1>6, <1>7 DEF DS!Fail, CallOf
  <2> QED BY <2>1 DEF DS!Next
<1>8. CASE Finish(t, Whole)
  <2>1. CallOf(t).offset = offset[t] /\ CallOf(t).len = len[t]
    BY <1>6 DEF DS!ReadCall
  <2>2. n \in DS!Counts(CallOf(t).offset, CallOf(t).len)
    BY <2>1 DEF DS!Counts, n
  <2> HIDE DEF n
  <2>3. DS!Return(t)
    BY <2>1, <2>2, <1>5, <1>6, <1>8 DEF DS!Return, CallOf
  <2> QED BY <2>3 DEF DS!Next
<1> QED BY <1>3, <1>4, <1>7, <1>8

(* Entering read_at is the call.                                           *)
LEMMA CallSimulation ==
  ASSUME IndInv, NEW t \in Threads, NEW o \in 0..MaxU64, NEW n \in 0..MaxLen, ReadAt(t, o, n)
  PROVE  DS!Next
<1>1. CallOf(t) = DS!NoCall
  BY DEF CallOf, DS!NoCall, ReadAt, Enter
<1>2. /\ pc'[t] # "idle" /\ offset'[t] = o /\ len'[t] = n
      /\ \A u \in Threads : u # t => pc'[u] = pc[u] /\ offset'[u] = offset[u] /\ len'[u] = len[u]
      /\ result' = [result EXCEPT ![t] = DS!NoReply]
  BY DEF IndInv, TypeOK, CallTypeOK, ReadAt, Enter
<1>3. [u \in Threads |-> CallOf(u)]'
         = [[u \in Threads |-> CallOf(u)] EXCEPT ![t] = DS!ReadCall(o, n)]
  BY <1>2 DEF CallOf, DS!ReadCall
<1>4. DS!Call(t)
  BY <1>1, <1>2, <1>3 DEF DS!Call, CallOf
<1> QED BY <1>4 DEF DS!Next

(* EwfDataSource promises what every data source promises: each read_at is *)
(* answered with all the bytes there are from its offset on, or fails.     *)
THEOREM Refinement == Spec => ImplementsDataSource
<1>1. Init => DS!Init
  BY DEF Init, CallInit, DS!Init, DS!NoCall, DS!NoReply
<1>2. IndInv /\ [Next]_vars => [DS!Next]_(DS!vars)
  <2> SUFFICES ASSUME IndInv, [Next]_vars PROVE [DS!Next]_(DS!vars)
    OBVIOUS
  <2>1. CASE UNCHANGED vars
    BY <2>1 DEF vars, DS!vars
  <2> QED BY <2>1, StepSimulation, CallSimulation DEF Next
<1> QED BY <1>1, <1>2, Invariance, PTL DEF Spec, ImplementsDataSource, DS!Spec
=============================================================================
