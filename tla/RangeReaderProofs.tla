-------------------------- MODULE RangeReaderProofs -------------------------
(***************************************************************************)
(* Proofs about the two readers that search a list of ranges for an        *)
(* offset.                                                                 *)
(*                                                                         *)
(* ExtentMap, for any list of extents that tiles, any sources and however  *)
(* they answer: a read holds stored bytes of the media, and ends at the    *)
(* first byte that is not stored, and not before.                          *)
(*                                                                         *)
(* UdifReader, for any list of block ranges that tiles, any damage and any *)
(* number of threads, provided that ranges with one data offset are one    *)
(* block: the cache and the buffers hold bytes of the media, damage is     *)
(* local, and the reader is a DataSource.                                  *)
(*                                                                         *)
(* The two share the variables of ReadCall and the lemmas about them, and  *)
(* nothing else: the first part cites ExtentMapAssumption only, the second *)
(* UdifReaderAssumption only.                                              *)
(***************************************************************************)
EXTENDS ExtentMap, UdifReader, RangeMapProofs

Labels == {"idle", "loop", "zero", "source", "fetched"}

(* What t has in its buffer, the piece it is fetching included.            *)
Have(t) == written[t] + (IF pc[t] \in {"source", "fetched"} THEN read_offset[t] ELSE 0)

(* The n first bytes of t's request are stored, and d is what they are.    *)
StoredPart(t, d, n) == /\ d = DS!Slice(offset[t], n)
                       /\ n <= DS!Available(offset[t], len[t])
                       /\ \A i \in 0..(n - 1) : Stored(offset[t] + i)

(* What StopsAtFirstGap says of one thread.                                *)
StopsAtGap(t) ==
  result[t].kind = "ok" =>
    LET n == result[t].count IN
    /\ result[t].data = DS!Slice(offset[t], n)
    /\ \A i \in 0..(n - 1) : Stored(offset[t] + i)
    /\ n < DS!Available(offset[t], len[t]) => ~Stored(offset[t] + n)

(* What a thread knows while it reads: besides the bytes it has, that the  *)
(* extent it is at exists and is of the kind it takes it for, and that a   *)
(* source that had nothing more ended before the next byte.                *)
ThreadInv(t) ==
  /\ pc[t] # "idle" => StoredPart(t, buf[t], Have(t))
  /\ pc[t] \notin {"idle", "loop"} =>
       /\ GoesOn(t)
       /\ entry(t).target = Zero <=> pc[t] = "zero"
  /\ pc[t] \in {"source", "fetched"} => read_offset[t] <= entry_available(t)
  /\ pc[t] = "fetched" => ~Stored(current_offset(t) + read_offset[t])
  /\ StopsAtGap(t)

IndInv == /\ CallTypeOK(Labels)
          /\ read_offset \in [Threads -> 0..MaxLen]
          /\ \A t \in Threads : ThreadInv(t)

-----------------------------------------------------------------------------
(* The extents.                                                            *)

LEMMA EntryType ==
  ASSUME NEW i \in DOMAIN entries
  PROVE  /\ entries[i].logical_offset \in Nat
         /\ entries[i].size \in Nat /\ entries[i].size > 0
         /\ entries[i].source_offset \in Nat
         /\ entries[i].target \in Sources \cup {Zero}
         /\ End(entries[i]) <= media_size
<1>1. DOMAIN entries = 1..Len(entries)
  BY ExtentMapAssumption
<1> DEFINE E == [logical_offset : 0..MaxU64, size : 0..MaxU64,
                 target : Sources \cup {Zero}, source_offset : 0..MaxU64]
<1>4. entries \in Seq(E)
  BY ExtentMapAssumption
<1> HIDE DEF E
<1>5. entries[i] \in E
  BY <1>4
<1>2. /\ entries[i].logical_offset \in 0..MaxU64 /\ entries[i].size \in 0..MaxU64
      /\ entries[i].target \in Sources \cup {Zero} /\ entries[i].source_offset \in 0..MaxU64
  BY <1>5 DEF E
<1>3. entries[i].size > 0 /\ End(entries[i]) <= media_size
  BY <1>1, ExtentMapAssumption DEF Tiles
<1> QED BY <1>2, <1>3, ReadCallAssumption

(* The search finds the extent that holds an offset of the media.          *)
LEMMA EntryAt ==
  ASSUME NEW o \in Nat, o < media_size
  PROVE  /\ find_entry(entries, o) \in DOMAIN entries
         /\ find_entry(entries, o) # 0
         /\ entries[find_entry(entries, o)].logical_offset <= o
         /\ o < End(entries[find_entry(entries, o)])
<1>1. DOMAIN entries = 1..Len(entries) /\ Len(entries) \in Nat
  BY ExtentMapAssumption
<1>2. IsRangeList(entries)
  BY <1>1, EntryType DEF IsRangeList, IsRange
<1>3. media_size \in Nat /\ o \in 0..(media_size - 1) /\ Tiles(entries, media_size)
  BY ReadCallAssumption, ExtentMapAssumption
<1>4. /\ find_entry(entries, o) \in 1..Len(entries)
      /\ entries[find_entry(entries, o)].logical_offset <= o
      /\ o < End(entries[find_entry(entries, o)])
  BY <1>2, <1>3, FindEntry
<1> QED BY <1>1, <1>4

(* An offset lies in one extent only, and that one says whether the byte   *)
(* is stored, and which it is.                                             *)
LEMMA StoredIn ==
  ASSUME NEW i \in DOMAIN entries, NEW o \in Nat,
         entries[i].logical_offset <= o, o < End(entries[i])
  PROVE  /\ Stored(o) <=> \/ entries[i].target = Zero
                          \/ SourceOffset(entries[i], o) \in DOMAIN SourceData[entries[i].target]
         /\ Stored(o) => Data[o] = IF entries[i].target = Zero THEN 0
                                   ELSE SourceData[entries[i].target][SourceOffset(entries[i], o)]
<1>1. ASSUME NEW j \in DOMAIN entries, entries[j].logical_offset <= o, o < End(entries[j])
      PROVE  j = i
  <2>1. /\ entries[i].logical_offset \in Nat /\ entries[j].logical_offset \in Nat
        /\ End(entries[i]) \in Nat /\ End(entries[j]) \in Nat
    BY EntryType DEF End
  <2>2. DOMAIN entries = 1..Len(entries) /\ Len(entries) \in Nat
    BY ExtentMapAssumption
  <2>3. /\ i < j => End(entries[i]) <= entries[j].logical_offset
        /\ j < i => End(entries[j]) <= entries[i].logical_offset
    BY <2>2, ExtentMapAssumption DEF Tiles
  <2>4. i \in Nat /\ j \in Nat
    BY <2>2
  <2> QED BY <1>1, <2>1, <2>3, <2>4
<1>2. Stored(o) <=> \/ entries[i].target = Zero
                    \/ SourceOffset(entries[i], o) \in DOMAIN SourceData[entries[i].target]
  BY <1>1 DEF Stored
<1>3. o \in entries[i].logical_offset..(End(entries[i]) - 1)
  BY EntryType DEF End
<1> QED BY <1>2, <1>3, ExtentMapAssumption

(* A source answers with bytes it has, and with none only at its end.      *)
LEMMA InnerCountsType ==
  ASSUME NEW s \in Sources, NEW o \in Nat, NEW n \in Nat, NEW c \in InnerCounts(s, o, n)
  PROVE  /\ c \in 0..n
         /\ \A p \in o..(o + c - 1) : p \in DOMAIN SourceData[s]
         /\ c = 0 /\ n > 0 => o \notin DOMAIN SourceData[s]
<1> DEFINE D == DOMAIN SourceData[s]
           have == {k \in 0..n : \A p \in o..(o + k - 1) : p \in D}
           most == CHOOSE k \in have : \A j \in have : j <= k
<1>1. PICK N \in 0..(MaxU64 + 1) : D = 0..(N - 1)
  BY ExtentMapAssumption
<1> DEFINE k0 == IF o >= N THEN 0 ELSE IF n <= N - o THEN n ELSE N - o
<1>2. N \in Nat /\ k0 \in 0..n /\ (k0 > 0 => o + k0 <= N) /\ (k0 < n => o + k0 >= N)
  BY <1>1, ReadCallAssumption
<1> HIDE DEF k0, D
<1>3. k0 \in have
  <2>1. ASSUME NEW p \in o..(o + k0 - 1) PROVE p \in D
    BY <1>1, <1>2
  <2> QED BY <1>2, <2>1
<1>4. ASSUME NEW j \in have PROVE j <= k0
  <2> SUFFICES ASSUME j > k0 PROVE FALSE
    BY <1>2
  <2>1. j \in 0..n /\ k0 < n /\ o + k0 \in o..(o + j - 1)
    BY <1>2
  <2>2. o + k0 \in D
    BY <2>1
  <2> QED BY <1>1, <1>2, <2>1, <2>2
<1> HIDE DEF have
<1>5. most \in have /\ \A j \in have : j <= most
  BY <1>3, <1>4
<1>6. c \in (IF ShortReads /\ most > 0 THEN 1..most ELSE {most})
  BY DEF InnerCounts, D, have
<1> HIDE DEF most
<1>7. most \in 0..n /\ \A p \in o..(o + most - 1) : p \in D
  BY <1>5 DEF have
<1>8. c \in 0..most /\ (c = 0 => most = 0)
  BY <1>6, <1>7
<1>9. \A p \in o..(o + c - 1) : p \in o..(o + most - 1)
  BY <1>7, <1>8
<1>10. ASSUME most = 0, n > 0 PROVE o \notin D
  <2> SUFFICES ASSUME o \in D PROVE 1 \in have
    BY <1>5, <1>10
  <2> QED BY <1>10 DEF have
<1> QED BY <1>7, <1>8, <1>9, <1>10 DEF D

-----------------------------------------------------------------------------
(* Types.                                                                  *)

LEMMA AvailableType ==
  ASSUME NEW o \in Nat, NEW n \in Nat
  PROVE  DS!Available(o, n) \in 0..n
  BY ReadCallAssumption DEF DS!Available

LEMMA NoBytesType ==
  /\ NoBytes \in Prefix
  /\ \A o : NoBytes = DS!Slice(o, 0)
<1>1. NoBytes \in Prefixes(0)
  BY DEF NoBytes, Prefixes
<1>2. 0 \in 0..MaxLen
  BY ReadCallAssumption
<1>3. ASSUME NEW o PROVE NoBytes = DS!Slice(o, 0)
  BY DEF NoBytes, DS!Slice
<1> QED BY <1>1, <1>2, <1>3 DEF Prefix

LEMMA ReplyTypes ==
  /\ DS!Err \in Replies
  /\ DS!NoReply \in Replies
  /\ \A n \in 0..MaxLen : \A d \in Prefixes(n) : DS!Ok(n, d) \in Replies
  BY DEF Replies, DS!Ok

(* The part of a request that was read fits the buffer.                    *)
LEMMA PartType ==
  ASSUME NEW o \in Nat, NEW m \in 0..MaxLen, NEW n \in Nat, n <= DS!Available(o, m)
  PROVE  /\ n \in 0..MaxLen /\ n <= m
         /\ DS!Slice(o, n) \in Prefixes(n)
         /\ DS!Slice(o, n) \in Prefix
<1>1. MaxLen \in Nat /\ m \in Nat /\ media_size \in Nat
  BY ReadCallAssumption
<1>2. n \in 0..MaxLen /\ n <= m /\ (n > 0 => o + n <= media_size)
  BY <1>1 DEF DS!Available
<1>3. ASSUME NEW i \in 0..(n - 1)
      PROVE  Data[o + i] \in DS!Bytes
  <2>1. o + i \in 0..(media_size - 1)
    BY <1>1, <1>2
  <2> QED BY <2>1 DEF DS!Bytes
<1>4. DS!Slice(o, n) \in Prefixes(n)
  BY <1>3 DEF DS!Slice, Prefixes
<1> QED BY <1>2, <1>4 DEF Prefix

LEMMA ThreadType ==
  ASSUME CallTypeOK(Labels), NEW t \in Threads
  PROVE  /\ offset[t] \in Nat /\ offset[t] \in 0..MaxU64
         /\ len[t] \in Nat /\ len[t] \in 0..MaxLen
         /\ written[t] \in Nat /\ written[t] <= len[t]
         /\ pc[t] \in Labels
  BY ReadCallAssumption DEF CallTypeOK

(* Inside a round of the loop the thread is in an extent there is, and     *)
(* something of it is left.                                                *)
LEMMA InEntry ==
  ASSUME CallTypeOK(Labels), NEW t \in Threads, GoesOn(t)
  PROVE  \E i \in DOMAIN entries :
           /\ find_entry(entries, current_offset(t)) = i
           /\ entry(t) = entries[i]
           /\ entries[i].logical_offset <= offset[t] + written[t]
           /\ offset[t] + written[t] < End(entries[i])
           /\ entry_available(t) \in Nat /\ entry_available(t) > 0
           /\ written[t] + entry_available(t) <= DS!Available(offset[t], len[t])
           /\ offset[t] + (written[t] + entry_available(t)) <= End(entries[i])
           /\ physical_offset(t) = SourceOffset(entries[i], offset[t] + written[t])
<1> DEFINE o == offset[t]
           m == len[t]
           w == written[t]
           i == find_entry(entries, o + w)
           s == entries[i].logical_offset
           z == entries[i].size
           n == entry_available(t)
<1>1. o \in Nat /\ m \in Nat /\ w \in Nat /\ w < m /\ o + w < media_size /\ media_size \in Nat
  BY ThreadType, ReadCallAssumption DEF GoesOn, current_offset
<1>2. current_offset(t) = o + w /\ entry(t) = entries[i]
  BY DEF current_offset, entry
<1>3. o + w \in Nat
  BY <1>1
<1>4. i \in DOMAIN entries /\ s <= o + w /\ o + w < End(entries[i])
  BY <1>1, <1>3, EntryAt
<1>5. s \in Nat /\ z \in Nat /\ s + z <= media_size /\ End(entries[i]) = s + z
  BY <1>4, EntryType DEF End
<1>6. n = IF z - ((o + w) - s) <= m - w THEN z - ((o + w) - s) ELSE m - w
  BY <1>2 DEF entry_available, Clamp, entry_relative_offset
<1>7. physical_offset(t) = SourceOffset(entries[i], o + w)
  BY <1>2 DEF physical_offset, entry_relative_offset, SourceOffset
<1> HIDE DEF o, m, w, i, s, z, n
<1>8. n \in Nat /\ n > 0 /\ w + n <= DS!Available(o, m) /\ o + (w + n) <= s + z
  BY <1>1, <1>4, <1>5, <1>6 DEF DS!Available
<1> QED BY <1>2, <1>4, <1>5, <1>7, <1>8 DEF o, m, w, i, s, n

(* The c bytes of d from position from on are those of the media that      *)
(* follow the first k from o on.                                           *)
Follow(d, from, c, o, k) == \A j \in 0..(c - 1) : d[from + j] = Data[o + (k + j)]

(* A buffer that holds the bytes from o on is extended with the next c.    *)
LEMMA ExtendedIsSlice ==
  ASSUME NEW t \in Threads, NEW o \in Nat, NEW k \in Nat, NEW c \in Nat,
         NEW d, NEW from \in Nat,
         buf[t] = DS!Slice(o, k), Follow(d, from, c, o, k)
  PROVE  Extended(t, k, d, from, c) = DS!Slice(o, k + c)
<1> DEFINE before == buf[t]
<1>1. before = DS!Slice(o, k)
  OBVIOUS
<1> HIDE DEF before
<1>2. ASSUME NEW i \in 0..(k + c - 1)
      PROVE  (IF i < k THEN before[i] ELSE d[from + i - k]) = Data[o + i]
  <2>1. CASE i < k
    BY <1>1, <2>1 DEF DS!Slice
  <2>2. CASE i >= k
    <3>1. i - k \in 0..(c - 1) /\ from + (i - k) = from + i - k /\ o + (k + (i - k)) = o + i
      BY <2>2
    <3>2. d[from + (i - k)] = Data[o + (k + (i - k))]
      BY <3>1 DEF Follow
    <3> QED BY <2>2, <3>1, <3>2
  <2> QED BY <2>1, <2>2
<1>3. 0..(k + c - 1) = 0..((k + c) - 1)
  BY k + c - 1 = (k + c) - 1
<1>4. Extended(t, k, d, from, c) = [i \in 0..(k + c - 1) |-> Data[o + i]]
  BY <1>2 DEF Extended, before
<1> QED BY <1>3, <1>4, Zenon DEF DS!Slice

(* And what a read has grows by stored bytes.                              *)
LEMMA StoredPartGrows ==
  ASSUME NEW t \in Threads, NEW k \in Nat, NEW c \in Nat, NEW d, NEW from \in Nat,
         offset[t] \in Nat, StoredPart(t, buf[t], k),
         k + c <= DS!Available(offset[t], len[t]),
         \A j \in 0..(c - 1) : /\ Stored(offset[t] + (k + j))
                               /\ d[from + j] = Data[offset[t] + (k + j)]
  PROVE  StoredPart(t, Extended(t, k, d, from, c), k + c)
<1>1. Extended(t, k, d, from, c) = DS!Slice(offset[t], k + c)
  <2>1. Follow(d, from, c, offset[t], k)
    BY DEF Follow
  <2> QED BY <2>1, ExtendedIsSlice DEF StoredPart
<1>2. ASSUME NEW i \in 0..((k + c) - 1) PROVE Stored(offset[t] + i)
  <2>1. CASE i < k
    BY <2>1 DEF StoredPart
  <2>2. CASE i >= k
    <3>1. i - k \in 0..(c - 1) /\ k + (i - k) = i
      BY <2>2
    <3>2. Stored(offset[t] + (k + (i - k)))
      BY <3>1
    <3> QED BY <3>1, <3>2
  <2> QED BY <2>1, <2>2
<1> QED BY <1>1, <1>2 DEF StoredPart

-----------------------------------------------------------------------------
(* The steps of one thread and what the others know.                       *)

Same(u) == /\ pc'[u] = pc[u] /\ offset'[u] = offset[u] /\ len'[u] = len[u]
           /\ written'[u] = written[u] /\ buf'[u] = buf[u] /\ result'[u] = result[u]
           /\ read_offset'[u] = read_offset[u]

(* Where a thread is depends on its offset, its length and what is written.*)
LEMMA SamePlace ==
  ASSUME NEW u \in Threads, offset'[u] = offset[u], len'[u] = len[u], written'[u] = written[u]
  PROVE  /\ current_offset(u)' = current_offset(u)
         /\ GoesOn(u)' <=> GoesOn(u)
         /\ entry(u)' = entry(u)
         /\ entry_available(u)' = entry_available(u)
<1>1. current_offset(u)' = current_offset(u)
  BY DEF current_offset
<1>2. entry(u)' = entry(u)
  BY <1>1 DEF entry
<1>3. entry_available(u)' = entry_available(u)
  BY <1>1, <1>2 DEF entry_available, Clamp, entry_relative_offset
<1> QED BY <1>1, <1>2, <1>3 DEF GoesOn

LEMMA SameThread ==
  ASSUME NEW u \in Threads, ThreadInv(u), Same(u)
  PROVE  ThreadInv(u)'
<1>1. /\ current_offset(u)' = current_offset(u) /\ (GoesOn(u)' <=> GoesOn(u))
      /\ entry(u)' = entry(u) /\ entry_available(u)' = entry_available(u)
  BY SamePlace DEF Same
<1>2. Have(u)' = Have(u)
  BY DEF Same, Have
<1>3. StoredPart(u, buf[u], Have(u))' <=> StoredPart(u, buf[u], Have(u))
  BY <1>2 DEF Same, StoredPart
<1>4. StopsAtGap(u)' <=> StopsAtGap(u)
  BY DEF Same, StopsAtGap
<1> QED BY <1>1, <1>3, <1>4 DEF Same, ThreadInv

LEMMA StepFrame ==
  ASSUME IndInv, NEW t \in Threads, \A u \in Threads \ {t} : Same(u),
         CallTypeOK(Labels)', read_offset' \in [Threads -> 0..MaxLen], ThreadInv(t)'
  PROVE  IndInv'
<1>1. \A u \in Threads : ThreadInv(u)'
  BY SameThread DEF IndInv
<1> QED BY <1>1 DEF IndInv

(* A step that goes on inside read_at, with b in the buffer, w written     *)
(* and r fetched.                                                          *)
LEMMA GotoFrame ==
  ASSUME IndInv, NEW t \in Threads, NEW l \in Labels, NEW b \in Prefix,
         NEW w \in 0..MaxLen, w <= len[t], NEW r \in 0..MaxLen,
         Goto(t, l), UNCHANGED <<offset, len>>,
         buf' = [buf EXCEPT ![t] = b],
         written' = [written EXCEPT ![t] = w],
         read_offset' = [read_offset EXCEPT ![t] = r]
  PROVE  /\ \A u \in Threads \ {t} : Same(u)
         /\ CallTypeOK(Labels)'
         /\ read_offset' \in [Threads -> 0..MaxLen]
         /\ pc'[t] = l /\ buf'[t] = b /\ written'[t] = w /\ read_offset'[t] = r
         /\ offset'[t] = offset[t] /\ len'[t] = len[t]
         /\ StopsAtGap(t)'
<1>1. /\ pc \in [Threads -> Labels] /\ buf \in [Threads -> Prefix]
      /\ written \in [Threads -> 0..MaxLen] /\ read_offset \in [Threads -> 0..MaxLen]
      /\ CallTypeOK(Labels) /\ StopsAtGap(t) /\ \A u \in Threads : written[u] <= len[u]
  BY DEF IndInv, CallTypeOK, ThreadInv
<1>2. pc' = [pc EXCEPT ![t] = l] /\ result' = result
  BY DEF Goto
<1>3. /\ pc' \in [Threads -> Labels] /\ buf' \in [Threads -> Prefix]
      /\ written' \in [Threads -> 0..MaxLen] /\ read_offset' \in [Threads -> 0..MaxLen]
  BY <1>1, <1>2
<1>4. /\ pc'[t] = l /\ buf'[t] = b /\ written'[t] = w /\ read_offset'[t] = r
      /\ \A u \in Threads \ {t} : Same(u)
  BY <1>1, <1>2 DEF Same
<1>5. \A u \in Threads : written'[u] <= len'[u]
  BY <1>1, <1>4 DEF Same
<1>6. CallTypeOK(Labels)'
  BY <1>1, <1>2, <1>3, <1>5 DEF CallTypeOK
<1>7. StopsAtGap(t)'
  BY <1>1, <1>2 DEF StopsAtGap
<1> QED BY <1>3, <1>4, <1>6, <1>7

(* A step that ends the call.                                              *)
LEMMA FinishFrame ==
  ASSUME IndInv, NEW t \in Threads, NEW r \in Replies, Finish(t, r),
         UNCHANGED <<offset, len, written, buf>>,
         read_offset' = read_offset \/ read_offset' = [read_offset EXCEPT ![t] = 0],
         StopsAtGap(t)'
  PROVE  IndInv'
<1>1. /\ pc \in [Threads -> Labels] /\ result \in [Threads -> Replies]
      /\ CallTypeOK(Labels) /\ read_offset \in [Threads -> 0..MaxLen]
  BY DEF IndInv, CallTypeOK
<1>2. pc' = [pc EXCEPT ![t] = "idle"] /\ result' = [result EXCEPT ![t] = r]
  BY DEF Finish
<1>3. 0 \in 0..MaxLen
  BY ReadCallAssumption
<1>4. /\ pc' \in [Threads -> Labels] /\ result' \in [Threads -> Replies] /\ pc'[t] = "idle"
      /\ \A u \in Threads \ {t} : pc'[u] = pc[u] /\ result'[u] = result[u]
  BY <1>1, <1>2 DEF Labels
<1>5. /\ read_offset' \in [Threads -> 0..MaxLen]
      /\ \A u \in Threads \ {t} : read_offset'[u] = read_offset[u]
  BY <1>1, <1>3
<1>6. CallTypeOK(Labels)'
  BY <1>1, <1>4 DEF CallTypeOK
<1>7. \A u \in Threads \ {t} : Same(u)
  BY <1>4, <1>5 DEF Same
<1>8. ThreadInv(t)'
  BY <1>4 DEF ThreadInv
<1> QED BY <1>5, <1>6, <1>7, <1>8, StepFrame

(* A read may fail at any point.                                           *)
LEMMA FailInv ==
  ASSUME IndInv, NEW t \in Threads, Finish(t, DS!Err), UNCHANGED <<offset, len, written, buf>>,
         read_offset' = read_offset \/ read_offset' = [read_offset EXCEPT ![t] = 0]
  PROVE  IndInv'
<1>1. result'[t] = DS!Err
  BY DEF Finish, IndInv, CallTypeOK
<1>2. StopsAtGap(t)'
  BY <1>1 DEF StopsAtGap, DS!Err
<1> QED BY <1>2, ReplyTypes, FinishFrame

(* A read may end with what it has when it has everything, or when the     *)
(* next byte is not stored.                                                *)
LEMMA DoneInv ==
  ASSUME IndInv, NEW t \in Threads, Finish(t, DS!Ok(written[t], buf[t])),
         UNCHANGED <<offset, len, written, buf>>,
         read_offset' = read_offset \/ read_offset' = [read_offset EXCEPT ![t] = 0],
         StoredPart(t, buf[t], written[t]),
         written[t] < DS!Available(offset[t], len[t]) => ~Stored(offset[t] + written[t])
  PROVE  IndInv'
<1> DEFINE r == DS!Ok(written[t], buf[t])
<1>1. offset[t] \in Nat /\ len[t] \in 0..MaxLen /\ written[t] \in Nat
  BY ThreadType DEF IndInv
<1>2. /\ buf[t] = DS!Slice(offset[t], written[t])
      /\ written[t] <= DS!Available(offset[t], len[t])
      /\ \A i \in 0..(written[t] - 1) : Stored(offset[t] + i)
  BY DEF StoredPart
<1>3. written[t] \in 0..MaxLen /\ buf[t] \in Prefixes(written[t])
  BY <1>1, <1>2, PartType
<1>4. r \in Replies
  BY <1>3, ReplyTypes
<1>5. result'[t] = r
  BY DEF Finish, IndInv, CallTypeOK
<1>6. result'[t].count = written[t] /\ result'[t].data = buf[t]
  BY <1>5 DEF DS!Ok
<1> HIDE DEF r
<1>7. StopsAtGap(t)'
  BY <1>2, <1>6 DEF StopsAtGap
<1> QED BY <1>4, <1>7, FinishFrame DEF r

-----------------------------------------------------------------------------
(* The steps.                                                              *)

(* read_at is entered: nothing is read yet.                                *)
LEMMA ReadAtInv ==
  ASSUME IndInv, NEW t \in Threads, NEW o \in 0..MaxU64, NEW n \in 0..MaxLen, ReadAt(t, o, n)
  PROVE  IndInv'
<1>1. /\ pc' = [pc EXCEPT ![t] = "loop"] /\ offset' = [offset EXCEPT ![t] = o]
      /\ len' = [len EXCEPT ![t] = n] /\ written' = [written EXCEPT ![t] = 0]
      /\ buf' = [buf EXCEPT ![t] = NoBytes] /\ result' = [result EXCEPT ![t] = DS!NoReply]
      /\ read_offset' = read_offset
  BY DEF ReadAt, Enter
<1>2. /\ pc \in [Threads -> Labels] /\ offset \in [Threads -> 0..MaxU64]
      /\ len \in [Threads -> 0..MaxLen] /\ written \in [Threads -> 0..MaxLen]
      /\ buf \in [Threads -> Prefix] /\ result \in [Threads -> Replies]
      /\ \A u \in Threads : written[u] <= len[u]
      /\ read_offset \in [Threads -> 0..MaxLen]
  BY DEF IndInv, CallTypeOK
<1>3. 0 \in 0..MaxLen /\ 0 <= n /\ n \in Nat /\ o \in Nat
  BY ReadCallAssumption
<1>4. /\ pc' \in [Threads -> Labels] /\ offset' \in [Threads -> 0..MaxU64]
      /\ len' \in [Threads -> 0..MaxLen] /\ written' \in [Threads -> 0..MaxLen]
      /\ buf' \in [Threads -> Prefix] /\ result' \in [Threads -> Replies]
  BY <1>1, <1>2, <1>3, NoBytesType, ReplyTypes DEF Labels
<1>5. /\ pc'[t] = "loop" /\ offset'[t] = o /\ len'[t] = n /\ written'[t] = 0
      /\ buf'[t] = NoBytes /\ result'[t] = DS!NoReply
      /\ \A u \in Threads \ {t} : Same(u)
  BY <1>1, <1>2 DEF Same
<1>6. \A u \in Threads : written'[u] <= len'[u]
  BY <1>2, <1>3, <1>5 DEF Same
<1>7. CallTypeOK(Labels)'
  BY <1>4, <1>6 DEF CallTypeOK
<1>8. StoredPart(t, buf[t], Have(t))'
  <2>1. NoBytes = DS!Slice(o, 0) /\ 0 <= DS!Available(o, n)
    BY <1>3, NoBytesType, AvailableType
  <2>2. Have(t)' = 0
    BY <1>5 DEF Have
  <2> QED BY <1>5, <2>1, <2>2 DEF StoredPart
<1>9. StopsAtGap(t)'
  BY <1>5 DEF StopsAtGap, DS!NoReply
<1>10. ThreadInv(t)'
  BY <1>5, <1>8, <1>9 DEF ThreadInv
<1> QED BY <1>1, <1>2, <1>5, <1>7, <1>10, StepFrame

LEMMA LoopInv ==
  ASSUME IndInv, NEW t \in Threads, Loop(t)
  PROVE  IndInv'
<1>1. /\ pc[t] = "loop" /\ UNCHANGED <<offset, len, written, buf>>
      /\ read_offset' = [read_offset EXCEPT ![t] = 0]
  BY DEF Loop
<1>2. StoredPart(t, buf[t], written[t])
  <2>1. Have(t) = written[t]
    BY <1>1, ThreadType DEF Have, IndInv
  <2> QED BY <1>1, <2>1 DEF IndInv, ThreadInv
<1>3. /\ offset[t] \in Nat /\ len[t] \in Nat /\ written[t] \in Nat /\ written[t] <= len[t]
      /\ media_size \in Nat
  BY ThreadType, ReadCallAssumption DEF IndInv
<1>4. CASE ~GoesOn(t)
  <2>1. Finish(t, DS!Ok(written[t], buf[t]))
    BY <1>4 DEF Loop
  <2>2. ~(written[t] < DS!Available(offset[t], len[t]))
    BY <1>3, <1>4 DEF GoesOn, current_offset, DS!Available
  <2> QED BY <1>1, <1>2, <2>1, <2>2, DoneInv
<1>5. CASE GoesOn(t) /\ Finish(t, DS!Err)
  BY <1>1, <1>5, FailInv
<1>6. CASE GoesOn(t) /\ Goto(t, IF entry(t).target = Zero THEN "zero" ELSE "source")
  <2> DEFINE l == IF entry(t).target = Zero THEN "zero" ELSE "source"
             b == buf[t]
             w == written[t]
             r == 0
  <2>1. l \in {"zero", "source"} /\ (entry(t).target = Zero <=> l = "zero") /\ l \in Labels
    BY DEF Labels
  <2>2. Goto(t, l) /\ b \in Prefix /\ w \in 0..MaxLen /\ w <= len[t] /\ r \in 0..MaxLen
    BY <1>6, ReadCallAssumption DEF IndInv, CallTypeOK
  <2>3. /\ buf' = [buf EXCEPT ![t] = b] /\ written' = [written EXCEPT ![t] = w]
        /\ read_offset' = [read_offset EXCEPT ![t] = r]
        /\ UNCHANGED <<offset, len>>
    BY <1>1 DEF IndInv, CallTypeOK
  <2> HIDE DEF l, b, w, r
  <2>4. /\ \A u \in Threads \ {t} : Same(u)
        /\ CallTypeOK(Labels)' /\ read_offset' \in [Threads -> 0..MaxLen]
        /\ pc'[t] = l /\ buf'[t] = b /\ written'[t] = w /\ read_offset'[t] = r
        /\ offset'[t] = offset[t] /\ len'[t] = len[t]
        /\ StopsAtGap(t)'
    BY <2>1, <2>2, <2>3, GotoFrame
  <2>5. /\ GoesOn(t)' /\ entry(t)' = entry(t) /\ entry_available(t)' = entry_available(t)
    BY <1>6, <2>4, SamePlace DEF w
  <2>6. 0 <= entry_available(t)
    BY <1>6, InEntry DEF IndInv
  <2>7. StoredPart(t, buf[t], Have(t))'
    <3>1. Have(t)' = w
      BY <1>3, <2>4 DEF Have, w, r
    <3> QED BY <1>2, <2>4, <3>1 DEF StoredPart, w, b
  <2>8. ThreadInv(t)'
    BY <2>1, <2>4, <2>5, <2>6, <2>7 DEF ThreadInv, r
  <2> QED BY <2>4, <2>8, StepFrame
<1> QED BY <1>4, <1>5, <1>6 DEF Loop

(* A sparse extent reads as zeros.                                         *)
LEMMA FillZeroInv ==
  ASSUME IndInv, NEW t \in Threads, FillZero(t)
  PROVE  IndInv'
<1> DEFINE o == offset[t]
           w == written[t]
           n == entry_available(t)
           zeros == [j \in 0..(n - 1) |-> 0]
           b == Extended(t, w, zeros, 0, n)
           r == read_offset[t]
<1>1. /\ pc[t] = "zero" /\ UNCHANGED <<read_offset, offset, len>>
      /\ buf' = [buf EXCEPT ![t] = b] /\ written' = [written EXCEPT ![t] = w + n]
      /\ Goto(t, "loop")
  BY DEF FillZero, Emit
<1>2. GoesOn(t) /\ entry(t).target = Zero
  BY <1>1 DEF IndInv, ThreadInv
<1>3. /\ o \in Nat /\ len[t] \in 0..MaxLen /\ w \in Nat /\ CallTypeOK(Labels)
      /\ r \in 0..MaxLen /\ read_offset' = [read_offset EXCEPT ![t] = r]
  BY <1>1, ThreadType DEF IndInv
<1>4. StoredPart(t, buf[t], w)
  <2>1. Have(t) = w
    BY <1>1, <1>3 DEF Have
  <2> QED BY <1>1, <2>1 DEF IndInv, ThreadInv
<1>5. PICK i \in DOMAIN entries :
           /\ entry(t) = entries[i]
           /\ entries[i].logical_offset <= o + w
           /\ n \in Nat /\ n > 0
           /\ w + n <= DS!Available(o, len[t])
           /\ o + (w + n) <= End(entries[i])
  BY <1>2, <1>3, InEntry
<1>6. entries[i].logical_offset \in Nat /\ End(entries[i]) \in Nat
  BY EntryType DEF End
<1>7. ASSUME NEW j \in 0..(n - 1)
      PROVE  Stored(o + (w + j)) /\ zeros[0 + j] = Data[o + (w + j)]
  <2>1. zeros[0 + j] = 0
    BY <1>5
  <2> HIDE DEF o, w, n
  <2>2. /\ o + (w + j) \in Nat /\ entries[i].logical_offset <= o + (w + j)
        /\ o + (w + j) < End(entries[i])
    BY <1>3, <1>5, <1>6
  <2>3. Stored(o + (w + j)) /\ Data[o + (w + j)] = 0
    BY <1>2, <1>5, <2>2, StoredIn
  <2> QED BY <2>1, <2>3
<1> HIDE DEF zeros
<1>8. StoredPart(t, b, w + n)
  BY <1>3, <1>4, <1>5, <1>7, 0 \in Nat, StoredPartGrows
<1>9. /\ w + n \in 0..MaxLen /\ w + n <= len[t] /\ b \in Prefix
  <2>1. b = DS!Slice(o, w + n) /\ w + n \in Nat
    BY <1>3, <1>5, <1>8 DEF StoredPart
  <2> QED BY <1>3, <1>5, <2>1, PartType
<1> HIDE DEF b, o, w, n, r
<1>10. /\ \A u \in Threads \ {t} : Same(u)
       /\ CallTypeOK(Labels)' /\ read_offset' \in [Threads -> 0..MaxLen]
       /\ pc'[t] = "loop" /\ buf'[t] = b /\ written'[t] = w + n
       /\ offset'[t] = offset[t] /\ len'[t] = len[t]
       /\ StopsAtGap(t)'
  BY <1>1, <1>3, <1>9, GotoFrame DEF Labels
<1>11. StoredPart(t, buf[t], Have(t))'
  <2>1. Have(t)' = w + n
    BY <1>3, <1>5, <1>10 DEF Have
  <2> QED BY <1>8, <1>10, <2>1 DEF StoredPart
<1>12. ThreadInv(t)'
  BY <1>10, <1>11 DEF ThreadInv
<1> QED BY <1>10, <1>12, StepFrame

(* One call of the source: its bytes are the next ones of the media, and   *)
(* when it has none the next byte is not stored.                           *)
LEMMA ReadSourceInv ==
  ASSUME IndInv, NEW t \in Threads, ReadSource(t)
  PROVE  IndInv'
<1> DEFINE o == offset[t]
           m == len[t]
           w == written[t]
           r == read_offset[t]
           n == entry_available(t)
           at == physical_offset(t) + r
           src == entry(t).target
<1>1. pc[t] = "source" /\ r < n /\ UNCHANGED <<offset, len, written>>
  BY DEF ReadSource
<1>2. GoesOn(t) /\ src # Zero
  BY <1>1 DEF IndInv, ThreadInv
<1>3. /\ o \in Nat /\ m \in 0..MaxLen /\ w \in Nat /\ w <= m /\ w \in 0..MaxLen
      /\ r \in 0..MaxLen /\ r \in Nat /\ CallTypeOK(Labels)
  BY ThreadType, ReadCallAssumption DEF IndInv, CallTypeOK
<1>4. StoredPart(t, buf[t], w + r)
  <2>1. Have(t) = w + r
    BY <1>1 DEF Have
  <2> QED BY <1>1, <2>1 DEF IndInv, ThreadInv
<1>5. PICK i \in DOMAIN entries :
           /\ entry(t) = entries[i]
           /\ entries[i].logical_offset <= o + w
           /\ n \in Nat /\ n > 0
           /\ w + n <= DS!Available(o, m)
           /\ o + (w + n) <= End(entries[i])
           /\ physical_offset(t) = SourceOffset(entries[i], o + w)
  BY <1>2, <1>3, InEntry
<1> DEFINE s == entries[i].logical_offset
           p == entries[i].source_offset
<1>6. s \in Nat /\ p \in Nat /\ End(entries[i]) \in Nat
  BY EntryType DEF End
<1>7. src = entries[i].target /\ src \in Sources
  BY <1>2, <1>5, EntryType
<1>8. at = (p + ((o + w) - s)) + r
  BY <1>5 DEF SourceOffset
<1> HIDE DEF o, m, w, r, n, at, src, s, p
<1>9. at \in Nat /\ n - r \in Nat /\ n - r > 0
  BY <1>1, <1>3, <1>5, <1>6, <1>8 DEF s
(* The bytes of the media from here on are those of the source.            *)
<1>10. ASSUME NEW j \in Nat, j < n - r
       PROVE  /\ Stored(o + ((w + r) + j)) <=> at + j \in DOMAIN SourceData[src]
              /\ Stored(o + ((w + r) + j)) => SourceData[src][at + j] = Data[o + ((w + r) + j)]
  <2> DEFINE q == o + ((w + r) + j)
  <2>1. q \in Nat /\ s <= q /\ q < End(entries[i]) /\ p + (q - s) = at + j
    BY <1>1, <1>3, <1>5, <1>6, <1>8, <1>10 DEF s
  <2> HIDE DEF q
  <2>2. SourceOffset(entries[i], q) = at + j
    BY <2>1 DEF SourceOffset, s, p
  <2>3. /\ Stored(q) <=> \/ entries[i].target = Zero
                         \/ SourceOffset(entries[i], q) \in DOMAIN SourceData[entries[i].target]
        /\ Stored(q) => Data[q] = IF entries[i].target = Zero THEN 0
                                   ELSE SourceData[entries[i].target][SourceOffset(entries[i], q)]
    BY <2>1, StoredIn DEF s
  <2> QED BY <1>2, <1>7, <2>2, <2>3 DEF q
<1>11. CASE Finish(t, DS!Err) /\ UNCHANGED <<buf, read_offset>>
  BY <1>1, <1>11, FailInv
<1>12. CASE \E count \in InnerCounts(src, at, n - r) :
             /\ buf' = [buf EXCEPT ![t] = Extended(t, w + r, SourceData[src], at, count)]
             /\ read_offset' = [read_offset EXCEPT ![t] = r + count]
             /\ Goto(t, IF count = 0 THEN "fetched" ELSE "source")
  <2>1. PICK c \in InnerCounts(src, at, n - r) :
             /\ buf' = [buf EXCEPT ![t] = Extended(t, w + r, SourceData[src], at, c)]
             /\ read_offset' = [read_offset EXCEPT ![t] = r + c]
             /\ Goto(t, IF c = 0 THEN "fetched" ELSE "source")
    BY <1>12
  <2>2. /\ c \in 0..(n - r)
        /\ \A k \in at..(at + c - 1) : k \in DOMAIN SourceData[src]
        /\ c = 0 /\ n - r > 0 => at \notin DOMAIN SourceData[src]
    BY <1>7, <1>9, InnerCountsType
  <2> DEFINE l == IF c = 0 THEN "fetched" ELSE "source"
             b == Extended(t, w + r, SourceData[src], at, c)
             k == w + r
             f == r + c
  <2>3. c \in Nat /\ k \in Nat /\ k + c = w + f /\ f \in Nat /\ f <= n
        /\ k + c <= DS!Available(o, m) /\ k + c <= m /\ f \in 0..MaxLen /\ MaxLen \in Nat
    <3>1. MaxLen \in Nat /\ media_size \in Nat
      BY ReadCallAssumption
    <3> QED BY <1>3, <1>5, <1>9, <2>2, <3>1 DEF DS!Available
  <2>4. ASSUME NEW j \in 0..(c - 1)
        PROVE  Stored(o + (k + j)) /\ SourceData[src][at + j] = Data[o + (k + j)]
    <3>1. j \in Nat /\ j < n - r /\ at + j \in at..(at + c - 1)
      BY <1>9, <2>2, <2>3
    <3> QED BY <1>10, <2>2, <3>1
  <2> HIDE DEF l, k, f
  <2>5. StoredPart(t, b, k + c)
    <3>1. StoredPart(t, buf[t], k)
      BY <1>4 DEF k
    <3>2. b = Extended(t, k, SourceData[src], at, c)
      BY DEF k
    <3>3. offset[t] \in Nat /\ k + c <= DS!Available(offset[t], len[t])
      BY <1>3, <2>3 DEF o, m
    <3>4. \A j \in 0..(c - 1) : /\ Stored(offset[t] + (k + j))
                                /\ SourceData[src][at + j] = Data[offset[t] + (k + j)]
      BY <2>4 DEF o
    <3> QED BY <1>9, <2>3, <3>1, <3>2, <3>3, <3>4, StoredPartGrows
  <2> HIDE DEF b
  <2>6. b \in Prefix
    <3>1. b = DS!Slice(o, k + c) /\ k + c \in Nat
      BY <2>3, <2>5 DEF StoredPart, o
    <3> QED BY <1>3, <2>3, <3>1, PartType
  <2>7. l \in Labels /\ l \in {"source", "fetched"} /\ (l = "fetched" => c = 0)
    BY DEF l, Labels
  <2>8. /\ Goto(t, l) /\ buf' = [buf EXCEPT ![t] = b]
        /\ written' = [written EXCEPT ![t] = w]
        /\ read_offset' = [read_offset EXCEPT ![t] = f]
        /\ UNCHANGED <<offset, len>>
    BY <1>1, <1>3, <2>1 DEF l, b, f, w, CallTypeOK
  <2>9. w <= len[t]
    BY <1>3 DEF m
  <2>10. /\ \A u \in Threads \ {t} : Same(u)
         /\ CallTypeOK(Labels)' /\ read_offset' \in [Threads -> 0..MaxLen]
         /\ pc'[t] = l /\ buf'[t] = b /\ written'[t] = w /\ read_offset'[t] = f
         /\ offset'[t] = offset[t] /\ len'[t] = len[t]
         /\ StopsAtGap(t)'
    BY <1>3, <2>3, <2>6, <2>7, <2>8, <2>9, GotoFrame
  <2>11. /\ GoesOn(t)' /\ entry(t)' = entry(t) /\ entry_available(t)' = entry_available(t)
         /\ current_offset(t)' = o + w
    BY <1>2, <2>10, SamePlace DEF w, o, current_offset
  <2>12. StoredPart(t, buf[t], Have(t))'
    <3>1. Have(t)' = k + c
      BY <2>3, <2>7, <2>10 DEF Have
    <3> QED BY <2>5, <2>10, <3>1 DEF StoredPart
  <2>13. l = "fetched" => ~Stored((o + w) + f)
    <3> SUFFICES ASSUME l = "fetched" PROVE ~Stored((o + w) + f)
      OBVIOUS
    <3>1. c = 0 /\ at + 0 \notin DOMAIN SourceData[src] /\ (o + w) + f = o + ((w + r) + 0)
      BY <1>3, <1>9, <2>2, <2>7 DEF f
    <3> QED BY <1>9, <1>10, <3>1
  <2>14. ThreadInv(t)'
    BY <1>2, <2>3, <2>7, <2>10, <2>11, <2>12, <2>13 DEF ThreadInv, src, n
  <2> QED BY <2>10, <2>14, StepFrame
<1> QED BY <1>11, <1>12 DEF ReadSource, at, src, n, r, w

(* The piece of an extent is taken over; a source that had nothing at all  *)
(* ends the read.                                                          *)
LEMMA EndSourceInv ==
  ASSUME IndInv, NEW t \in Threads, EndSource(t)
  PROVE  IndInv'
<1> DEFINE o == offset[t]
           w == written[t]
           r == read_offset[t]
           n == entry_available(t)
           b == buf[t]
<1>1. /\ pc[t] \in {"source", "fetched"} /\ (pc[t] = "source" => r = n)
      /\ written' = [written EXCEPT ![t] = w + r]
      /\ UNCHANGED <<read_offset, offset, len, buf>>
  BY DEF EndSource
<1>2. GoesOn(t) /\ (pc[t] = "fetched" => ~Stored((o + w) + r))
  BY <1>1 DEF IndInv, ThreadInv, current_offset
<1>3. /\ o \in Nat /\ len[t] \in 0..MaxLen /\ w \in Nat
      /\ r \in 0..MaxLen /\ r \in Nat /\ CallTypeOK(Labels)
  BY ThreadType, ReadCallAssumption DEF IndInv
<1>4. StoredPart(t, b, w + r)
  <2>1. Have(t) = w + r
    BY <1>1 DEF Have
  <2> QED BY <1>1, <2>1 DEF IndInv, ThreadInv
<1>5. CASE r = 0
  <2>1. Finish(t, DS!Ok(w, b))
    BY <1>5 DEF EndSource
  <2>2. written' = written
    BY <1>1, <1>3, <1>5 DEF CallTypeOK
  <2>3. n > 0
    BY <1>2, <1>3, InEntry
  <2>4. ~Stored(o + w)
    BY <1>1, <1>2, <1>3, <1>5, <2>3
  <2>5. StoredPart(t, b, w)
    BY <1>3, <1>4, <1>5
  <2> QED BY <1>1, <2>1, <2>2, <2>4, <2>5, DoneInv
<1>6. CASE r # 0
  <2> DEFINE k == w + r
  <2>1. Goto(t, "loop")
    BY <1>6 DEF EndSource
  <2>2. k \in Nat /\ k <= DS!Available(o, len[t])
    BY <1>3, <1>4 DEF StoredPart
  <2> HIDE DEF k
  <2>3. k \in 0..MaxLen /\ k <= len[t]
    BY <1>3, <2>2, PartType
  <2>4. /\ buf' = [buf EXCEPT ![t] = b] /\ b \in Prefix
        /\ written' = [written EXCEPT ![t] = k]
        /\ read_offset' = [read_offset EXCEPT ![t] = r]
        /\ UNCHANGED <<offset, len>>
    BY <1>1, <1>3 DEF CallTypeOK, IndInv, k
  <2> HIDE DEF b, r
  <2>5. /\ \A u \in Threads \ {t} : Same(u)
        /\ CallTypeOK(Labels)' /\ read_offset' \in [Threads -> 0..MaxLen]
        /\ pc'[t] = "loop" /\ buf'[t] = b /\ written'[t] = k
        /\ offset'[t] = offset[t] /\ len'[t] = len[t]
        /\ StopsAtGap(t)'
    BY <1>3, <2>1, <2>3, <2>4, GotoFrame DEF Labels
  <2>6. StoredPart(t, buf[t], Have(t))'
    <3>1. Have(t)' = k
      BY <2>2, <2>5 DEF Have
    <3> QED BY <1>4, <2>5, <3>1 DEF StoredPart, k
  <2>7. ThreadInv(t)'
    BY <2>5, <2>6 DEF ThreadInv
  <2> QED BY <2>5, <2>7, StepFrame
<1> QED BY <1>5, <1>6

LEMMA InitInv == Init => IndInv
<1> SUFFICES ASSUME Init PROVE IndInv
  OBVIOUS
<1>1. /\ pc = [t \in Threads |-> "idle"] /\ offset = [t \in Threads |-> 0]
      /\ len = [t \in Threads |-> 0] /\ written = [t \in Threads |-> 0]
      /\ buf = [t \in Threads |-> NoBytes] /\ result = [t \in Threads |-> DS!NoReply]
      /\ read_offset = [t \in Threads |-> 0]
  BY DEF Init, CallInit
<1>2. 0 \in 0..MaxLen /\ 0 \in 0..MaxU64
  BY ReadCallAssumption
<1>3. CallTypeOK(Labels) /\ read_offset \in [Threads -> 0..MaxLen]
  BY <1>1, <1>2, NoBytesType, ReplyTypes DEF CallTypeOK, Labels
<1>4. ASSUME NEW t \in Threads PROVE ThreadInv(t)
  BY <1>1 DEF ThreadInv, StopsAtGap, DS!NoReply
<1> QED BY <1>3, <1>4 DEF IndInv

LEMMA NextInv == IndInv /\ [Next]_vars => IndInv'
<1> SUFFICES ASSUME IndInv, [Next]_vars PROVE IndInv'
  OBVIOUS
<1>1. ASSUME NEW t \in Threads, Step(t) PROVE IndInv'
  BY <1>1, LoopInv, FillZeroInv, ReadSourceInv, EndSourceInv DEF Step
<1>2. CASE UNCHANGED vars
  <2>1. CallTypeOK(Labels)' /\ read_offset' \in [Threads -> 0..MaxLen]
    BY <1>2 DEF vars, IndInv, CallTypeOK
  <2>2. \A u \in Threads : Same(u)
    BY <1>2 DEF vars, Same
  <2> QED BY <2>1, <2>2, SameThread DEF IndInv
<1> QED BY <1>1, <1>2, ReadAtInv DEF Next

LEMMA Invariance == Spec => []IndInv
  BY InitInv, NextInv, PTL DEF Spec

-----------------------------------------------------------------------------
(* However short the sources answer and however the threads interleave,    *)
(* every buffer holds stored bytes of the media from its offset on         *)
(* (ExtentMapDataSource::read_at, read_from_source).                       *)
THEOREM ReadsCorrect == Spec => []ReadInv
<1>1. IndInv => TypeOK
  BY DEF IndInv, ThreadInv, TypeOK, Labels
<1>2. IndInv => PartialReadFaithful
  BY DEF IndInv, ThreadInv, StoredPart, Have, PartialReadFaithful
<1> QED BY <1>1, <1>2, Invariance, PTL DEF ReadInv

(* A read that succeeds ends at the first byte that no source holds, and   *)
(* at no other: read_from_source asks again after a short answer.          *)
THEOREM StopsAtGaps == Spec => []StopsAtFirstGap
<1>1. IndInv => StopsAtFirstGap
  BY DEF IndInv, ThreadInv, StopsAtGap, StopsAtFirstGap
<1> QED BY <1>1, Invariance, PTL

-----------------------------------------------------------------------------
(* UdifReader.                                                             *)

BlockLabels == {"idle", "loop", "sparse", "in_file", "lookup", "decode", "insert", "copy"}

(* Where a thread in a range of a type can be.                             *)
LabelsOf(type) == IF type = "compressed" THEN {"lookup", "decode", "insert", "copy"} ELSE {type}

(* What a thread can hold: nothing, or the bytes of a range.               *)
Blocks == {NoBytes} \cup {RangeBytes(i) : i \in DOMAIN block_ranges}

(* No corrupt block meets the first n bytes of t's request.                *)
Unhurt(t, n) ==
  \A i \in Corrupt :
    ~(n > 0 /\ offset[t] < End(block_ranges[i]) /\ block_ranges[i].logical_offset < offset[t] + n)

(* What DamageIsLocal and HotCacheSameBytes say of one thread's answer.    *)
Answered(t) ==
  /\ result[t].kind = "err" => \E i \in Corrupt \cup Unreliable : Meets(t, i)
  /\ result[t].kind = "ok" =>
       /\ \A i \in Corrupt : ~Meets(t, i)
       /\ result[t].data = DS!Slice(offset[t], DS!Available(offset[t], len[t]))

(* What a thread knows while it reads: besides the bytes it has, that the  *)
(* range it is at exists and is of the kind it takes it for, that a block  *)
(* in its hand is the one of that range, whoever decoded it, and that no   *)
(* corrupt block is behind it.                                             *)
BlockThreadInv(t) ==
  /\ pc[t] # "idle" => PrefixFaithful(t) /\ Unhurt(t, written[t])
  /\ pc[t] \notin {"idle", "loop"} => GoesOn(t) /\ pc[t] \in LabelsOf(range(t).type)
  /\ pc[t] \in {"insert", "copy"} =>
       /\ block[t] = RangeBytes(get_block_range(t))
       /\ get_block_range(t) \notin Corrupt
  /\ Answered(t)

BlockIndInv == /\ CallTypeOK(BlockLabels)
               /\ block \in [Threads -> Blocks]
               /\ CacheFaithful
               /\ \A t \in Threads : BlockThreadInv(t)

LEMMA RangeType ==
  ASSUME NEW i \in DOMAIN block_ranges
  PROVE  /\ block_ranges[i].logical_offset \in Nat
         /\ block_ranges[i].size \in Nat /\ block_ranges[i].size > 0
         /\ block_ranges[i].type \in {"sparse", "in_file", "compressed"}
         /\ End(block_ranges[i]) \in Nat
         /\ block_ranges[i].logical_offset < End(block_ranges[i])
         /\ End(block_ranges[i]) <= media_size
<1> DEFINE R == [logical_offset : 0..MaxU64, data_offset : 0..MaxU64,
                 size : 0..MaxU64, type : {"sparse", "in_file", "compressed"}]
<1>1. block_ranges \in Seq(R) /\ DOMAIN block_ranges = 1..Len(block_ranges)
  BY UdifReaderAssumption
<1> HIDE DEF R
<1>2. block_ranges[i] \in R
  BY <1>1
<1>3. /\ block_ranges[i].logical_offset \in 0..MaxU64 /\ block_ranges[i].size \in 0..MaxU64
      /\ block_ranges[i].type \in {"sparse", "in_file", "compressed"}
  BY <1>2 DEF R
<1>4. block_ranges[i].size > 0 /\ End(block_ranges[i]) <= media_size
  BY <1>1, UdifReaderAssumption DEF Tiles
<1> QED BY <1>3, <1>4, ReadCallAssumption DEF End

(* Two ranges share no byte.                                               *)
LEMMA RangesApart ==
  ASSUME NEW i \in DOMAIN block_ranges, NEW j \in DOMAIN block_ranges, i # j
  PROVE  \/ End(block_ranges[i]) <= block_ranges[j].logical_offset
         \/ End(block_ranges[j]) <= block_ranges[i].logical_offset
<1>1. DOMAIN block_ranges = 1..Len(block_ranges) /\ Len(block_ranges) \in Nat
  BY UdifReaderAssumption
<1>2. /\ i < j => End(block_ranges[i]) <= block_ranges[j].logical_offset
      /\ j < i => End(block_ranges[j]) <= block_ranges[i].logical_offset
  BY <1>1, UdifReaderAssumption DEF Tiles
<1>3. i < j \/ j < i
  BY <1>1
<1> QED BY <1>2, <1>3

LEMMA BlockThreadType ==
  ASSUME CallTypeOK(BlockLabels), NEW t \in Threads
  PROVE  /\ offset[t] \in Nat
         /\ len[t] \in Nat /\ len[t] \in 0..MaxLen
         /\ written[t] \in Nat /\ written[t] <= len[t] /\ written[t] \in 0..MaxLen
         /\ buf[t] \in Prefix
  BY ReadCallAssumption DEF CallTypeOK

(* Inside a round of the loop the thread is in a range there is, and       *)
(* something of it is left.                                                *)
LEMMA InRange ==
  ASSUME CallTypeOK(BlockLabels), NEW t \in Threads, GoesOn(t)
  PROVE  \E i \in DOMAIN block_ranges :
           /\ get_block_range(t) = i /\ get_block_range(t) # 0
           /\ range(t) = block_ranges[i]
           /\ block_ranges[i].logical_offset <= offset[t] + written[t]
           /\ offset[t] + written[t] < End(block_ranges[i])
           /\ Meets(t, i)
           /\ range_relative_offset(t) \in Nat
           /\ range_available(t) \in Nat /\ range_available(t) > 0
           /\ block_ranges[i].logical_offset + range_relative_offset(t) = offset[t] + written[t]
           /\ range_relative_offset(t) + range_available(t) <= block_ranges[i].size
           /\ written[t] + range_available(t) <= DS!Available(offset[t], len[t])
<1> DEFINE o == offset[t]
           m == len[t]
           w == written[t]
           i == find_entry(block_ranges, o + w)
           s == block_ranges[i].logical_offset
           z == block_ranges[i].size
           rel == range_relative_offset(t)
           n == range_available(t)
<1>1. o \in Nat /\ m \in Nat /\ w \in Nat /\ w < m /\ o + w < media_size /\ media_size \in Nat
  BY BlockThreadType, ReadCallAssumption DEF GoesOn, current_offset
<1>2. get_block_range(t) = i /\ range(t) = block_ranges[i]
  BY DEF current_offset, get_block_range, range
<1>3. DOMAIN block_ranges = 1..Len(block_ranges) /\ Len(block_ranges) \in Nat
  BY UdifReaderAssumption
<1>4. IsRangeList(block_ranges)
  BY <1>3, RangeType DEF IsRangeList, IsRange
<1>5. o + w \in 0..(media_size - 1) /\ Tiles(block_ranges, media_size)
  BY <1>1, UdifReaderAssumption
<1>6. i \in DOMAIN block_ranges /\ i # 0 /\ s <= o + w /\ o + w < End(block_ranges[i])
  BY <1>1, <1>3, <1>4, <1>5, FindEntry
<1>7. s \in Nat /\ z \in Nat /\ s + z <= media_size /\ End(block_ranges[i]) = s + z
  BY <1>6, RangeType DEF End
<1>8. rel = (o + w) - s /\ n = IF z - rel <= m - w THEN z - rel ELSE m - w
  BY <1>2 DEF range_available, Clamp, range_relative_offset, current_offset
<1> HIDE DEF o, m, w, i, s, z, rel, n
<1>9. /\ rel \in Nat /\ n \in Nat /\ n > 0 /\ s + rel = o + w /\ rel + n <= z
      /\ w + n <= DS!Available(o, m)
  BY <1>1, <1>6, <1>7, <1>8 DEF DS!Available
<1>10. m > 0 /\ o < s + z /\ s < o + m
  BY <1>1, <1>6, <1>7
<1>11. Meets(t, i)
  BY <1>7, <1>10 DEF Meets, o, m, s
<1> QED BY <1>2, <1>6, <1>9, <1>11 DEF o, m, w, i, s, z, rel, n

-----------------------------------------------------------------------------
(* The steps of one thread of UdifReader and what the others know.         *)

SameBlock(u) ==
  /\ pc'[u] = pc[u] /\ offset'[u] = offset[u] /\ len'[u] = len[u]
  /\ written'[u] = written[u] /\ buf'[u] = buf[u] /\ result'[u] = result[u]
  /\ block'[u] = block[u]

(* The range a thread is at depends on its offset and what is written.     *)
LEMMA SameRange ==
  ASSUME NEW u \in Threads, offset'[u] = offset[u], len'[u] = len[u], written'[u] = written[u]
  PROVE  /\ GoesOn(u)' <=> GoesOn(u)
         /\ get_block_range(u)' = get_block_range(u)
         /\ range(u)' = range(u)
         /\ Unhurt(u, written[u])' <=> Unhurt(u, written[u])
<1>1. current_offset(u)' = current_offset(u)
  BY DEF current_offset
<1>2. get_block_range(u)' = get_block_range(u)
  BY <1>1 DEF get_block_range
<1> QED BY <1>1, <1>2 DEF range, GoesOn, Unhurt

LEMMA SameBlockThread ==
  ASSUME NEW u \in Threads, BlockThreadInv(u), SameBlock(u)
  PROVE  BlockThreadInv(u)'
<1>1. /\ GoesOn(u)' <=> GoesOn(u)
      /\ get_block_range(u)' = get_block_range(u) /\ range(u)' = range(u)
      /\ Unhurt(u, written[u])' <=> Unhurt(u, written[u])
  BY SameRange DEF SameBlock
<1>2. PrefixFaithful(u)' <=> PrefixFaithful(u)
  BY DEF SameBlock, PrefixFaithful
<1>3. Answered(u)' <=> Answered(u)
  BY DEF SameBlock, Answered, Meets
<1>4. RangeBytes(get_block_range(u))' = RangeBytes(get_block_range(u))
  BY <1>1 DEF RangeBytes
<1> QED BY <1>1, <1>2, <1>3, <1>4 DEF SameBlock, BlockThreadInv

LEMMA BlockStepFrame ==
  ASSUME BlockIndInv, NEW t \in Threads, \A u \in Threads \ {t} : SameBlock(u),
         CallTypeOK(BlockLabels)', block' \in [Threads -> Blocks], CacheFaithful',
         BlockThreadInv(t)'
  PROVE  BlockIndInv'
<1>1. \A u \in Threads : BlockThreadInv(u)'
  BY SameBlockThread DEF BlockIndInv
<1>2. Blocks' = Blocks
  BY DEF Blocks
<1> QED BY <1>1, <1>2 DEF BlockIndInv

LEMMA NoBlock == NoBytes \in Blocks
  BY DEF Blocks

(* A step that goes on inside read_at, with b in the buffer, w written and *)
(* d in hand.                                                              *)
LEMMA BlockGotoFrame ==
  ASSUME BlockIndInv, NEW t \in Threads, NEW l \in BlockLabels, NEW b \in Prefix,
         NEW w \in 0..MaxLen, w <= len[t], NEW d \in Blocks,
         Goto(t, l), UNCHANGED <<offset, len>>,
         buf' = [buf EXCEPT ![t] = b],
         written' = [written EXCEPT ![t] = w],
         block' = [block EXCEPT ![t] = d]
  PROVE  /\ \A u \in Threads \ {t} : SameBlock(u)
         /\ CallTypeOK(BlockLabels)'
         /\ block' \in [Threads -> Blocks]
         /\ pc'[t] = l /\ buf'[t] = b /\ written'[t] = w /\ block'[t] = d
         /\ offset'[t] = offset[t] /\ len'[t] = len[t]
         /\ Answered(t)'
<1>1. /\ pc \in [Threads -> BlockLabels] /\ buf \in [Threads -> Prefix]
      /\ written \in [Threads -> 0..MaxLen] /\ block \in [Threads -> Blocks]
      /\ CallTypeOK(BlockLabels) /\ Answered(t) /\ \A u \in Threads : written[u] <= len[u]
  BY DEF BlockIndInv, CallTypeOK, BlockThreadInv
<1>2. pc' = [pc EXCEPT ![t] = l] /\ result' = result
  BY DEF Goto
<1>3. /\ pc' \in [Threads -> BlockLabels] /\ buf' \in [Threads -> Prefix]
      /\ written' \in [Threads -> 0..MaxLen] /\ block' \in [Threads -> Blocks]
  BY <1>1, <1>2
<1>4. /\ pc'[t] = l /\ buf'[t] = b /\ written'[t] = w /\ block'[t] = d
      /\ \A u \in Threads \ {t} : SameBlock(u)
  BY <1>1, <1>2 DEF SameBlock
<1>5. \A u \in Threads : written'[u] <= len'[u]
  BY <1>1, <1>4 DEF SameBlock
<1>6. CallTypeOK(BlockLabels)'
  BY <1>1, <1>2, <1>3, <1>5 DEF CallTypeOK
<1>7. Answered(t)'
  BY <1>1, <1>2 DEF Answered, Meets
<1> QED BY <1>3, <1>4, <1>6, <1>7

(* A step within a round of the loop, which holds block d afterwards.      *)
LEMMA RoundInv ==
  ASSUME BlockIndInv, NEW t \in Threads, pc[t] # "idle", GoesOn(t),
         NEW l \in LabelsOf(range(t).type), NEW d \in Blocks,
         Goto(t, l), UNCHANGED <<offset, len, written, buf>>,
         block' = [block EXCEPT ![t] = d], CacheFaithful',
         l \in {"insert", "copy"} =>
           d = RangeBytes(get_block_range(t)) /\ get_block_range(t) \notin Corrupt
  PROVE  BlockIndInv'
<1> DEFINE b == buf[t]
           w == written[t]
<1>1. /\ b \in Prefix /\ w \in 0..MaxLen /\ w <= len[t] /\ CallTypeOK(BlockLabels)
      /\ buf' = [buf EXCEPT ![t] = b] /\ written' = [written EXCEPT ![t] = w]
      /\ UNCHANGED <<offset, len>>
  BY DEF BlockIndInv, CallTypeOK
<1>2. range(t).type \in {"sparse", "in_file", "compressed"}
  BY <1>1, InRange, RangeType
<1>3. l \in BlockLabels \ {"idle", "loop"}
  BY <1>2 DEF LabelsOf, BlockLabels
<1> HIDE DEF b, w
<1>4. /\ \A u \in Threads \ {t} : SameBlock(u)
      /\ CallTypeOK(BlockLabels)' /\ block' \in [Threads -> Blocks]
      /\ pc'[t] = l /\ buf'[t] = b /\ written'[t] = w /\ block'[t] = d
      /\ offset'[t] = offset[t] /\ len'[t] = len[t]
      /\ Answered(t)'
  <2>1. l \in BlockLabels
    BY <1>3
  <2>2. /\ b \in Prefix /\ w \in 0..MaxLen /\ w <= len[t] /\ d \in Blocks
        /\ Goto(t, l) /\ UNCHANGED <<offset, len>>
        /\ buf' = [buf EXCEPT ![t] = b] /\ written' = [written EXCEPT ![t] = w]
        /\ block' = [block EXCEPT ![t] = d]
    BY <1>1
  <2> QED BY ONLY BlockIndInv, t \in Threads, <2>1, <2>2, BlockGotoFrame
<1>5. /\ GoesOn(t)' /\ get_block_range(t)' = get_block_range(t) /\ range(t)' = range(t)
      /\ Unhurt(t, written[t])' <=> Unhurt(t, written[t])
  BY <1>4, SameRange DEF w
<1>6. PrefixFaithful(t)' /\ Unhurt(t, written[t])'
  BY <1>4, <1>5 DEF BlockIndInv, BlockThreadInv, PrefixFaithful, b, w
<1>7. RangeBytes(get_block_range(t))' = RangeBytes(get_block_range(t))
  BY <1>5 DEF RangeBytes
<1>8. BlockThreadInv(t)'
  BY <1>3, <1>4, <1>5, <1>6, <1>7 DEF BlockThreadInv
<1> QED BY <1>4, <1>8, BlockStepFrame

(* A piece of a range that is not corrupt is put into the buffer.          *)
LEMMA PieceInv ==
  ASSUME BlockIndInv, NEW t \in Threads, pc[t] # "idle", GoesOn(t),
         get_block_range(t) \notin Corrupt,
         NEW data, NEW from \in Nat, NEW d \in Blocks,
         Follow(data, from, range_available(t), offset[t], written[t]),
         Emit(t, data, from, range_available(t)),
         UNCHANGED <<block_cache, offset, len>>,
         block' = [block EXCEPT ![t] = d]
  PROVE  BlockIndInv'
<1> DEFINE o == offset[t]
           m == len[t]
           w == written[t]
           n == range_available(t)
           b == Extended(t, w, data, from, n)
<1>1. /\ o \in Nat /\ m \in Nat /\ m \in 0..MaxLen /\ w \in Nat /\ CallTypeOK(BlockLabels)
  BY BlockThreadType DEF BlockIndInv
<1>2. PICK c \in DOMAIN block_ranges :
        /\ get_block_range(t) = c
        /\ block_ranges[c].logical_offset <= o + w
        /\ n \in Nat /\ n > 0
        /\ block_ranges[c].logical_offset + range_relative_offset(t) = o + w
        /\ range_relative_offset(t) \in Nat
        /\ range_relative_offset(t) + n <= block_ranges[c].size
        /\ w + n <= DS!Available(o, m)
  BY <1>1, InRange
<1>3. buf[t] = DS!Slice(o, w) /\ Unhurt(t, w)
  BY DEF BlockIndInv, BlockThreadInv, PrefixFaithful
<1>4. b = DS!Slice(o, w + n)
  <2>1. Follow(data, from, n, o, w)
    OBVIOUS
  <2>2. o \in Nat /\ w \in Nat /\ n \in Nat /\ buf[t] = DS!Slice(o, w)
    BY <1>1, <1>2, <1>3
  <2> HIDE DEF o, w, n
  <2> QED BY ONLY t \in Threads, from \in Nat, <2>1, <2>2, ExtendedIsSlice
<1>5. /\ buf' = [buf EXCEPT ![t] = b] /\ written' = [written EXCEPT ![t] = w + n]
      /\ Goto(t, "loop")
  BY DEF Emit
<1> HIDE DEF b, n, o, m, w
<1>6. w + n \in Nat /\ w + n \in 0..MaxLen /\ w + n <= m /\ b \in Prefix
  BY <1>1, <1>2, <1>4, PartType
<1>7. w + n <= len[t] /\ "loop" \in BlockLabels
  BY <1>6 DEF m, BlockLabels
<1>8. /\ \A u \in Threads \ {t} : SameBlock(u)
      /\ CallTypeOK(BlockLabels)' /\ block' \in [Threads -> Blocks]
      /\ pc'[t] = "loop" /\ buf'[t] = b /\ written'[t] = w + n
      /\ offset'[t] = offset[t] /\ len'[t] = len[t]
      /\ Answered(t)'
  BY <1>5, <1>6, <1>7, BlockGotoFrame
<1>9. PrefixFaithful(t)'
  BY <1>2, <1>4, <1>8 DEF PrefixFaithful, o, m
<1>10. Unhurt(t, written[t])'
  <2> SUFFICES ASSUME NEW i \in Corrupt
               PROVE  ~(/\ w + n > 0 /\ o < End(block_ranges[i])
                        /\ block_ranges[i].logical_offset < o + (w + n))
    BY <1>8 DEF Unhurt, o
  <2> DEFINE s == block_ranges[i].logical_offset
             e == End(block_ranges[i])
             cs == block_ranges[c].logical_offset
             ce == End(block_ranges[c])
  <2>1. i \in DOMAIN block_ranges /\ i # c
    BY <1>2, UdifReaderAssumption
  <2>2. /\ s \in Nat /\ e \in Nat /\ s < e /\ cs \in Nat /\ ce \in Nat
        /\ ce = cs + block_ranges[c].size /\ block_ranges[c].size \in Nat
    BY <2>1, RangeType DEF End
  <2>3. e <= cs \/ ce <= s
    BY <2>1, RangesApart
  <2>4. ~(w > 0 /\ o < e /\ s < o + w)
    BY <1>3 DEF Unhurt, o
  <2>5. o + (w + n) <= ce
    BY <1>1, <1>2, <2>2
  <2> HIDE DEF s, e, cs, ce
  <2>6. cs <= o + w
    BY <1>2 DEF cs
  <2>7. CASE ce <= s
    BY <1>1, <1>2, <2>2, <2>5, <2>7 DEF s, e
  <2>8. CASE e <= cs
    BY <1>1, <1>2, <2>2, <2>4, <2>6, <2>8 DEF s, e
  <2> QED BY <2>3, <2>7, <2>8
<1>11. BlockThreadInv(t)'
  BY <1>8, <1>9, <1>10 DEF BlockThreadInv
<1>12. CacheFaithful'
  BY DEF BlockIndInv, CacheFaithful, RangeBytes
<1> QED BY <1>8, <1>11, <1>12, BlockStepFrame

(* A step that ends the call.                                              *)
LEMMA BlockFinishFrame ==
  ASSUME BlockIndInv, NEW t \in Threads, NEW r \in Replies, Finish(t, r),
         UNCHANGED <<block_cache, block, offset, len, written, buf>>,
         Answered(t)'
  PROVE  BlockIndInv'
<1>1. /\ pc \in [Threads -> BlockLabels] /\ result \in [Threads -> Replies]
      /\ CallTypeOK(BlockLabels) /\ block \in [Threads -> Blocks]
  BY DEF BlockIndInv, CallTypeOK
<1>2. pc' = [pc EXCEPT ![t] = "idle"] /\ result' = [result EXCEPT ![t] = r]
  BY DEF Finish
<1>3. /\ pc' \in [Threads -> BlockLabels] /\ result' \in [Threads -> Replies] /\ pc'[t] = "idle"
      /\ \A u \in Threads \ {t} : pc'[u] = pc[u] /\ result'[u] = result[u]
  BY <1>1, <1>2 DEF BlockLabels
<1>4. CallTypeOK(BlockLabels)'
  BY <1>1, <1>3 DEF CallTypeOK
<1>5. CacheFaithful'
  BY DEF BlockIndInv, CacheFaithful, RangeBytes
<1>6. \A u \in Threads \ {t} : SameBlock(u)
  BY <1>3 DEF SameBlock
<1>7. BlockThreadInv(t)'
  BY <1>3 DEF BlockThreadInv
<1> QED BY <1>1, <1>4, <1>5, <1>6, <1>7, BlockStepFrame

(* A read that needs a corrupt block, or one that cannot be read, fails.   *)
LEMMA BlockFailInv ==
  ASSUME BlockIndInv, NEW t \in Threads, GoesOn(t), Finish(t, DS!Err),
         UNCHANGED <<block_cache, block, offset, len, written, buf>>,
         get_block_range(t) \in Corrupt \cup Unreliable
  PROVE  BlockIndInv'
<1>1. Meets(t, get_block_range(t))
  BY InRange DEF BlockIndInv
<1>2. result'[t] = DS!Err
  BY DEF Finish, BlockIndInv, CallTypeOK
<1>3. Answered(t)'
  <2>1. PICK i \in Corrupt \cup Unreliable : Meets(t, i)
    BY <1>1
  <2>2. result'[t].kind = "err" /\ Meets(t, i)'
    BY <1>2, <2>1 DEF DS!Err, Meets
  <2> QED BY <2>2 DEF Answered
<1> QED BY <1>3, ReplyTypes, BlockFinishFrame

-----------------------------------------------------------------------------
(* The steps of UdifReader.                                                *)

(* read_at is entered: nothing is read yet.                                *)
LEMMA UdifReadAtInv ==
  ASSUME BlockIndInv, NEW t \in Threads, NEW o \in 0..MaxU64, NEW n \in 0..MaxLen,
         UdifReadAt(t, o, n)
  PROVE  BlockIndInv'
<1>1. /\ pc' = [pc EXCEPT ![t] = "loop"] /\ offset' = [offset EXCEPT ![t] = o]
      /\ len' = [len EXCEPT ![t] = n] /\ written' = [written EXCEPT ![t] = 0]
      /\ buf' = [buf EXCEPT ![t] = NoBytes] /\ result' = [result EXCEPT ![t] = DS!NoReply]
      /\ UNCHANGED <<block_cache, block>>
  BY DEF UdifReadAt, Enter
<1>2. /\ pc \in [Threads -> BlockLabels] /\ offset \in [Threads -> 0..MaxU64]
      /\ len \in [Threads -> 0..MaxLen] /\ written \in [Threads -> 0..MaxLen]
      /\ buf \in [Threads -> Prefix] /\ result \in [Threads -> Replies]
      /\ \A u \in Threads : written[u] <= len[u]
      /\ block \in [Threads -> Blocks]
  BY DEF BlockIndInv, CallTypeOK
<1>3. 0 \in 0..MaxLen /\ 0 <= n /\ n \in Nat /\ o \in Nat
  BY ReadCallAssumption
<1>4. /\ pc' \in [Threads -> BlockLabels] /\ offset' \in [Threads -> 0..MaxU64]
      /\ len' \in [Threads -> 0..MaxLen] /\ written' \in [Threads -> 0..MaxLen]
      /\ buf' \in [Threads -> Prefix] /\ result' \in [Threads -> Replies]
  BY <1>1, <1>2, <1>3, NoBytesType, ReplyTypes DEF BlockLabels
<1>5. /\ pc'[t] = "loop" /\ offset'[t] = o /\ len'[t] = n /\ written'[t] = 0
      /\ buf'[t] = NoBytes /\ result'[t] = DS!NoReply
      /\ \A u \in Threads \ {t} : SameBlock(u)
  BY <1>1, <1>2 DEF SameBlock
<1>6. \A u \in Threads : written'[u] <= len'[u]
  BY <1>2, <1>3, <1>5 DEF SameBlock
<1>7. CallTypeOK(BlockLabels)'
  BY <1>4, <1>6 DEF CallTypeOK
<1>8. CacheFaithful'
  BY <1>1 DEF BlockIndInv, CacheFaithful, RangeBytes
<1>9. BlockThreadInv(t)'
  <2>1. PrefixFaithful(t)'
    <3>1. NoBytes = DS!Slice(o, 0) /\ 0 <= DS!Available(o, n)
      BY <1>3, NoBytesType, AvailableType
    <3> QED BY <1>5, <3>1 DEF PrefixFaithful
  <2>2. Unhurt(t, written[t])'
    BY <1>5 DEF Unhurt
  <2>3. Answered(t)'
    BY <1>5 DEF Answered, DS!NoReply
  <2> QED BY <1>5, <2>1, <2>2, <2>3 DEF BlockThreadInv
<1> QED BY <1>1, <1>2, <1>5, <1>7, <1>8, <1>9, BlockStepFrame

(* At the end of the loop every byte there is was read.                    *)
LEMMA BlocksAreWhole ==
  ASSUME BlockIndInv, NEW t \in Threads, pc[t] = "loop", ~GoesOn(t)
  PROVE  /\ written[t] = DS!Available(offset[t], len[t])
         /\ buf[t] = DS!Slice(offset[t], written[t])
<1>1. /\ offset[t] \in Nat /\ len[t] \in Nat /\ written[t] \in Nat /\ written[t] <= len[t]
      /\ media_size \in Nat
  BY BlockThreadType, ReadCallAssumption DEF BlockIndInv
<1>2. buf[t] = DS!Slice(offset[t], written[t]) /\ written[t] <= DS!Available(offset[t], len[t])
  BY DEF BlockIndInv, BlockThreadInv, PrefixFaithful
<1>3. ~(written[t] < len[t] /\ offset[t] + written[t] < media_size)
  BY DEF GoesOn, current_offset
<1>4. written[t] = DS!Available(offset[t], len[t])
  BY <1>1, <1>2, <1>3 DEF DS!Available
<1> QED BY <1>2, <1>4

LEMMA UdifLoopInv ==
  ASSUME BlockIndInv, NEW t \in Threads, UdifLoop(t)
  PROVE  BlockIndInv'
<1>1. pc[t] = "loop" /\ UNCHANGED <<block_cache, block, offset, len, written, buf>>
  BY DEF UdifLoop
<1>2. CallTypeOK(BlockLabels) /\ BlockThreadInv(t)
  BY DEF BlockIndInv
<1>3. CASE GoesOn(t)
  <2> DEFINE l == IF range(t).type = "compressed" THEN "lookup" ELSE range(t).type
             d == block[t]
  <2>1. get_block_range(t) # 0
    BY <1>2, <1>3, InRange
  <2>2. Goto(t, l)
    BY <1>3, <2>1 DEF UdifLoop
  <2>3. range(t).type \in {"sparse", "in_file", "compressed"}
    BY <1>2, <1>3, InRange, RangeType
  <2>4. l \in LabelsOf(range(t).type) /\ l \notin {"insert", "copy"}
    BY <2>3 DEF LabelsOf
  <2>5. d \in Blocks /\ block' = [block EXCEPT ![t] = d]
    BY <1>1 DEF BlockIndInv
  <2>6. CacheFaithful'
    BY <1>1 DEF BlockIndInv, CacheFaithful, RangeBytes
  <2> HIDE DEF l, d
  <2> QED BY <1>1, <1>3, <2>2, <2>4, <2>5, <2>6, RoundInv
<1>4. CASE ~GoesOn(t)
  <2> DEFINE r == DS!Ok(written[t], buf[t])
  <2>1. Finish(t, r)
    BY <1>4 DEF UdifLoop
  <2>2. /\ offset[t] \in Nat /\ len[t] \in 0..MaxLen /\ len[t] \in Nat /\ written[t] \in Nat
        /\ media_size \in Nat
    BY <1>2, BlockThreadType, ReadCallAssumption
  <2>3. /\ written[t] = DS!Available(offset[t], len[t])
        /\ buf[t] = DS!Slice(offset[t], written[t])
    BY <1>1, <1>4, BlocksAreWhole
  <2>4. r \in Replies
    <3>1. written[t] \in 0..MaxLen /\ buf[t] \in Prefixes(written[t])
      BY <2>2, <2>3, PartType
    <3> QED BY <3>1, ReplyTypes
  <2>5. result'[t] = r
    BY <1>2, <2>1 DEF Finish, CallTypeOK
  <2>6. ASSUME NEW i \in Corrupt PROVE ~Meets(t, i)
    <3> DEFINE s == block_ranges[i].logical_offset
               e == End(block_ranges[i])
    <3>1. s \in Nat /\ e \in Nat /\ e <= media_size /\ s < e
      BY UdifReaderAssumption, RangeType
    <3>2. ~(written[t] > 0 /\ offset[t] < e /\ s < offset[t] + written[t])
      BY <1>1, <1>2 DEF BlockThreadInv, Unhurt
    <3> HIDE DEF s, e
    <3>3. ~(len[t] > 0 /\ offset[t] < e /\ s < offset[t] + len[t])
      BY <2>2, <2>3, <3>1, <3>2 DEF DS!Available
    <3> QED BY <3>3 DEF Meets, s, e
  <2>7. Answered(t)'
    <3>1. result'[t].kind = "ok" /\ result'[t].data = buf[t]
      BY <2>5 DEF DS!Ok
    <3>2. \A i \in Corrupt : Meets(t, i)' <=> Meets(t, i)
      BY <1>1 DEF Meets
    <3>3. buf[t] = DS!Slice(offset[t], DS!Available(offset[t], len[t]))'
      BY <1>1, <2>3
    <3> QED BY <2>6, <3>1, <3>2, <3>3 DEF Answered
  <2> QED BY <1>1, <2>1, <2>4, <2>7, BlockFinishFrame
<1> QED BY <1>3, <1>4

(* A sparse range reads as zeros.                                          *)
LEMMA FillSparseInv ==
  ASSUME BlockIndInv, NEW t \in Threads, FillSparse(t)
  PROVE  BlockIndInv'
<1> DEFINE n == range_available(t)
           zeros == [j \in 0..(n - 1) |-> 0]
           d == block[t]
<1>1. /\ pc[t] = "sparse" /\ UNCHANGED <<block_cache, block, offset, len>>
      /\ Emit(t, zeros, 0, n)
  BY DEF FillSparse
<1>2. GoesOn(t) /\ range(t).type = "sparse" /\ CallTypeOK(BlockLabels)
  BY <1>1 DEF BlockIndInv, BlockThreadInv, LabelsOf
<1>3. PICK c \in DOMAIN block_ranges :
        /\ get_block_range(t) = c /\ range(t) = block_ranges[c]
        /\ range_relative_offset(t) \in Nat /\ n \in Nat
        /\ block_ranges[c].logical_offset + range_relative_offset(t) = offset[t] + written[t]
        /\ range_relative_offset(t) + n <= block_ranges[c].size
  BY <1>2, InRange
<1>4. get_block_range(t) \notin Corrupt
  BY <1>2, <1>3, UdifReaderAssumption
<1>5. ASSUME NEW j \in 0..(n - 1)
      PROVE  zeros[0 + j] = Data[offset[t] + (written[t] + j)]
  <2>1. zeros[0 + j] = 0
    BY <1>3
  <2>2. offset[t] \in Nat /\ written[t] \in Nat
    BY <1>2, BlockThreadType
  <2>3. /\ block_ranges[c].logical_offset \in Nat /\ block_ranges[c].size \in Nat
        /\ End(block_ranges[c]) = block_ranges[c].logical_offset + block_ranges[c].size
    BY RangeType DEF End
  <2> HIDE DEF n
  <2>4. offset[t] + (written[t] + j)
          \in block_ranges[c].logical_offset..(End(block_ranges[c]) - 1)
    BY <1>3, <2>2, <2>3
  <2>5. Data[offset[t] + (written[t] + j)] = 0
    BY <1>2, <1>3, <2>4, UdifReaderAssumption
  <2> QED BY <2>1, <2>5
<1>6. Follow(zeros, 0, n, offset[t], written[t])
  BY <1>5 DEF Follow
<1>7. d \in Blocks /\ block' = [block EXCEPT ![t] = d]
  BY <1>1 DEF BlockIndInv
<1> HIDE DEF zeros, d
<1> QED BY <1>1, <1>2, <1>4, <1>6, <1>7, 0 \in Nat, PieceInv DEF n

(* The bytes of a range, from where the thread is in it on, are those that *)
(* the media has there.                                                    *)
LEMMA RangeFollows ==
  ASSUME CallTypeOK(BlockLabels), NEW t \in Threads, GoesOn(t)
  PROVE  /\ Follow(RangeBytes(get_block_range(t)), range_relative_offset(t),
                   range_available(t), offset[t], written[t])
         /\ range_relative_offset(t) \in Nat
         /\ range_relative_offset(t) + range_available(t) - 1
              \in DOMAIN RangeBytes(get_block_range(t))
         /\ RangeBytes(get_block_range(t)) \in Blocks
<1> DEFINE rel == range_relative_offset(t)
           n == range_available(t)
<1>1. PICK c \in DOMAIN block_ranges :
        /\ get_block_range(t) = c
        /\ rel \in Nat /\ n \in Nat /\ n > 0
        /\ block_ranges[c].logical_offset + rel = offset[t] + written[t]
        /\ rel + n <= block_ranges[c].size
  BY InRange
<1> DEFINE s == block_ranges[c].logical_offset
           z == block_ranges[c].size
<1>2. s \in Nat /\ z \in Nat /\ offset[t] \in Nat /\ written[t] \in Nat
  BY RangeType, BlockThreadType
<1>3. RangeBytes(get_block_range(t)) = [i \in 0..(z - 1) |-> Data[s + i]]
  BY <1>1 DEF RangeBytes, DS!Slice
<1> HIDE DEF rel, n, s, z
<1>4. ASSUME NEW j \in 0..(n - 1)
      PROVE  [i \in 0..(z - 1) |-> Data[s + i]][rel + j] = Data[offset[t] + (written[t] + j)]
  <2>1. rel + j \in 0..(z - 1) /\ s + (rel + j) = offset[t] + (written[t] + j)
    BY <1>1, <1>2 DEF s, z
  <2> QED BY <2>1
<1>5. Follow(RangeBytes(get_block_range(t)), rel, n, offset[t], written[t])
  BY <1>3, <1>4 DEF Follow
<1>6. rel + n - 1 \in 0..(z - 1)
  BY <1>1, <1>2 DEF z
<1>7. RangeBytes(get_block_range(t)) \in Blocks
  BY <1>1 DEF Blocks
<1> QED BY <1>1, <1>3, <1>5, <1>6, <1>7 DEF rel, n

LEMMA ReadInFileInv ==
  ASSUME BlockIndInv, NEW t \in Threads, ReadInFile(t)
  PROVE  BlockIndInv'
<1> DEFINE d == block[t]
           data == RangeBytes(get_block_range(t))
           rel == range_relative_offset(t)
<1>1. pc[t] = "in_file" /\ UNCHANGED <<block_cache, block, offset, len>>
  BY DEF ReadInFile
<1>2. GoesOn(t) /\ CallTypeOK(BlockLabels) /\ range(t).type # "compressed"
  BY <1>1 DEF BlockIndInv, BlockThreadInv, LabelsOf
<1>3. CASE Emit(t, data, rel, range_available(t))
  <2>1. get_block_range(t) \notin Corrupt
    BY <1>2, UdifReaderAssumption DEF range
  <2>2. Follow(data, rel, range_available(t), offset[t], written[t]) /\ rel \in Nat
    BY <1>2, RangeFollows
  <2>3. d \in Blocks /\ block' = [block EXCEPT ![t] = d]
    BY <1>1 DEF BlockIndInv
  <2> HIDE DEF d, data, rel
  <2> QED BY <1>1, <1>2, <1>3, <2>1, <2>2, <2>3, PieceInv
<1>4. CASE /\ get_block_range(t) \in Unreliable
           /\ Finish(t, DS!Err)
           /\ UNCHANGED <<buf, written>>
  BY <1>1, <1>2, <1>4, BlockFailInv
<1> QED BY <1>3, <1>4 DEF ReadInFile

(* Where a thread that handles a block is.                                 *)
LEMMA InCompressed ==
  ASSUME BlockIndInv, NEW t \in Threads, pc[t] \in {"lookup", "decode", "insert", "copy"}
  PROVE  /\ GoesOn(t) /\ range(t).type = "compressed" /\ CallTypeOK(BlockLabels)
         /\ LabelsOf(range(t).type) = {"lookup", "decode", "insert", "copy"}
<1>1. GoesOn(t) /\ CallTypeOK(BlockLabels) /\ pc[t] \in LabelsOf(range(t).type)
  BY DEF BlockIndInv, BlockThreadInv
<1>2. range(t).type \in {"sparse", "in_file", "compressed"}
  BY <1>1, InRange, RangeType
<1>3. range(t).type = "compressed"
  BY <1>1, <1>2 DEF LabelsOf
<1> QED BY <1>1, <1>3 DEF LabelsOf

(* What is cached under the data offset of a compressed range are the      *)
(* bytes of that range, whichever range they were decoded for.             *)
LEMMA CachedIsOwn ==
  ASSUME OneBlockPerOffset, BlockIndInv, NEW t \in Threads, GoesOn(t),
         range(t).type = "compressed", range(t).data_offset \in DOMAIN block_cache
  PROVE  /\ block_cache[range(t).data_offset] = RangeBytes(get_block_range(t))
         /\ get_block_range(t) \notin Corrupt
<1>1. PICK i \in DOMAIN block_ranges \ Corrupt :
        /\ block_ranges[i].type = "compressed"
        /\ block_ranges[i].data_offset = range(t).data_offset
        /\ block_cache[range(t).data_offset] = RangeBytes(i)
  BY DEF BlockIndInv, CacheFaithful
<1>2. PICK c \in DOMAIN block_ranges : get_block_range(t) = c /\ range(t) = block_ranges[c]
  BY InRange DEF BlockIndInv
<1>3. RangeBytes(i) = RangeBytes(c) /\ (i \in Corrupt <=> c \in Corrupt)
  BY <1>1, <1>2 DEF OneBlockPerOffset
<1> QED BY <1>1, <1>2, <1>3

LEMMA LookupBlockInv ==
  ASSUME OneBlockPerOffset, BlockIndInv, NEW t \in Threads, LookupBlock(t)
  PROVE  BlockIndInv'
<1> DEFINE own == RangeBytes(get_block_range(t))
           d == block[t]
<1>1. pc[t] = "lookup" /\ UNCHANGED <<block_cache, offset, len, written, buf>>
  BY DEF LookupBlock
<1>2. GoesOn(t) /\ range(t).type = "compressed" /\ CallTypeOK(BlockLabels)
  BY <1>1, InCompressed
<1>3. CacheFaithful'
  BY <1>1 DEF BlockIndInv, CacheFaithful, RangeBytes
<1>4. "copy" \in LabelsOf(range(t).type) /\ "decode" \in LabelsOf(range(t).type)
  BY <1>2 DEF LabelsOf
<1>5. CASE range(t).data_offset \in DOMAIN block_cache
  <2>1. block_cache[range(t).data_offset] = own /\ get_block_range(t) \notin Corrupt
    BY <1>2, <1>5, CachedIsOwn
  <2>2. Goto(t, "copy") /\ block' = [block EXCEPT ![t] = own]
    BY <1>5, <2>1 DEF LookupBlock
  <2>3. own \in Blocks
    BY <1>2, RangeFollows
  <2> QED BY <1>1, <1>2, <1>3, <1>4, <2>1, <2>2, <2>3, RoundInv
<1>6. CASE range(t).data_offset \notin DOMAIN block_cache
  <2>1. Goto(t, "decode") /\ d \in Blocks /\ block' = [block EXCEPT ![t] = d]
    BY <1>6 DEF LookupBlock, BlockIndInv
  <2> HIDE DEF d
  <2> QED BY <1>1, <1>2, <1>3, <1>4, <2>1, RoundInv
<1> QED BY <1>5, <1>6

LEMMA DecodeBlockInv ==
  ASSUME BlockIndInv, NEW t \in Threads, DecodeBlock(t)
  PROVE  BlockIndInv'
<1> DEFINE own == RangeBytes(get_block_range(t))
<1>1. pc[t] = "decode" /\ UNCHANGED <<block_cache, offset, len, written, buf>>
  BY DEF DecodeBlock
<1>2. /\ GoesOn(t) /\ CallTypeOK(BlockLabels) /\ "insert" \in LabelsOf(range(t).type)
  BY <1>1, InCompressed
<1>3. CASE /\ get_block_range(t) \notin Corrupt
           /\ block' = [block EXCEPT ![t] = own]
           /\ Goto(t, "insert")
  <2>1. own \in Blocks
    BY <1>2, RangeFollows
  <2>2. CacheFaithful'
    BY <1>1 DEF BlockIndInv, CacheFaithful, RangeBytes
  <2> QED BY <1>1, <1>2, <1>3, <2>1, <2>2, RoundInv
<1>4. CASE /\ get_block_range(t) \in Corrupt \cup Unreliable
           /\ Finish(t, DS!Err)
           /\ UNCHANGED block
  BY <1>1, <1>2, <1>4, BlockFailInv
<1> QED BY <1>3, <1>4 DEF DecodeBlock

(* The first thread to insert a block wins; the others hold the same bytes.*)
LEMMA InsertBlockInv ==
  ASSUME OneBlockPerOffset, BlockIndInv, NEW t \in Threads, InsertBlock(t)
  PROVE  BlockIndInv'
<1> DEFINE own == RangeBytes(get_block_range(t))
           k == range(t).data_offset
<1>1. pc[t] = "insert" /\ Goto(t, "copy") /\ UNCHANGED <<offset, len, written, buf>>
  BY DEF InsertBlock
<1>2. /\ GoesOn(t) /\ range(t).type = "compressed" /\ CallTypeOK(BlockLabels)
      /\ "copy" \in LabelsOf(range(t).type)
  BY <1>1, InCompressed
<1>3. block[t] = own /\ get_block_range(t) \notin Corrupt
  BY <1>1 DEF BlockIndInv, BlockThreadInv
<1>4. own \in Blocks
  BY <1>2, RangeFollows
<1>5. block' = [block EXCEPT ![t] = own] /\ CacheFaithful'
  <2>1. CASE k \in DOMAIN block_cache
    <3>1. block_cache[k] = own
      BY <1>2, <2>1, CachedIsOwn
    <3>2. block' = [block EXCEPT ![t] = own] /\ block_cache' = block_cache
      BY <2>1, <3>1 DEF InsertBlock
    <3> QED BY <3>2 DEF BlockIndInv, CacheFaithful, RangeBytes
  <2>2. CASE k \notin DOMAIN block_cache
    <3>1. /\ block' = block
          /\ block_cache' = [e \in DOMAIN block_cache \cup {k} |->
                               IF e = k THEN block[t] ELSE block_cache[e]]
      BY <2>2 DEF InsertBlock
    <3>2. block' = [block EXCEPT ![t] = own]
      BY <1>3, <3>1 DEF BlockIndInv
    <3>3. PICK c \in DOMAIN block_ranges : get_block_range(t) = c /\ range(t) = block_ranges[c]
      BY <1>2, InRange
    <3>4. c \in DOMAIN block_ranges \ Corrupt /\ block_ranges[c].type = "compressed"
          /\ block_ranges[c].data_offset = k /\ own = RangeBytes(c)
      BY <1>2, <1>3, <3>3
    <3> HIDE DEF k, own
    <3>5. ASSUME NEW e \in DOMAIN block_cache'
          PROVE  \E i \in DOMAIN block_ranges \ Corrupt :
                   /\ block_ranges[i].type = "compressed" /\ block_ranges[i].data_offset = e
                   /\ block_cache'[e] = RangeBytes(i)
      <4>1. CASE e = k
        BY <1>3, <3>1, <3>4, <4>1
      <4>2. CASE e # k
        <5>1. e \in DOMAIN block_cache /\ block_cache'[e] = block_cache[e]
          BY <3>1, <4>2
        <5> QED BY <5>1 DEF BlockIndInv, CacheFaithful
      <4> QED BY <4>1, <4>2
    <3>6. CacheFaithful'
      BY <3>5 DEF CacheFaithful, RangeBytes
    <3> QED BY <3>2, <3>6
  <2> QED BY <2>1, <2>2
<1> HIDE DEF own
<1> QED BY <1>1, <1>2, <1>3, <1>4, <1>5, RoundInv DEF own

(* A block in hand is long enough for the range: no thread panics.         *)
LEMMA CopyBlockInv ==
  ASSUME BlockIndInv, NEW t \in Threads, CopyBlock(t)
  PROVE  /\ BlockIndInv'
         /\ Goto(t, "loop")
<1> DEFINE own == RangeBytes(get_block_range(t))
           rel == range_relative_offset(t)
           d == NoBytes
<1>1. /\ pc[t] = "copy" /\ UNCHANGED <<block_cache, offset, len>>
      /\ block' = [block EXCEPT ![t] = d]
  BY DEF CopyBlock
<1>2. GoesOn(t) /\ CallTypeOK(BlockLabels)
  BY <1>1, InCompressed
<1>3. block[t] = own /\ get_block_range(t) \notin Corrupt
  BY <1>1 DEF BlockIndInv, BlockThreadInv
<1>4. /\ Follow(own, rel, range_available(t), offset[t], written[t]) /\ rel \in Nat
      /\ rel + range_available(t) - 1 \in DOMAIN own
  BY <1>2, RangeFollows
<1>5. Emit(t, own, rel, range_available(t))
  BY <1>3, <1>4 DEF CopyBlock
<1>6. d \in Blocks
  BY NoBlock
<1> HIDE DEF own, rel, d
<1>7. BlockIndInv'
  BY <1>1, <1>2, <1>3, <1>4, <1>5, <1>6, PieceInv
<1> QED BY <1>5, <1>7 DEF Emit

LEMMA UdifInitInv == UdifInit => BlockIndInv
<1> SUFFICES ASSUME UdifInit PROVE BlockIndInv
  OBVIOUS
<1>1. /\ pc = [t \in Threads |-> "idle"] /\ offset = [t \in Threads |-> 0]
      /\ len = [t \in Threads |-> 0] /\ written = [t \in Threads |-> 0]
      /\ buf = [t \in Threads |-> NoBytes] /\ result = [t \in Threads |-> DS!NoReply]
      /\ block_cache = [d \in {} |-> NoBytes] /\ block = [t \in Threads |-> NoBytes]
  BY DEF UdifInit, CallInit
<1>2. 0 \in 0..MaxLen /\ 0 \in 0..MaxU64
  BY ReadCallAssumption
<1>3. CallTypeOK(BlockLabels) /\ block \in [Threads -> Blocks]
  BY <1>1, <1>2, NoBytesType, NoBlock, ReplyTypes DEF CallTypeOK, BlockLabels
<1>4. CacheFaithful
  BY <1>1 DEF CacheFaithful
<1>5. ASSUME NEW t \in Threads PROVE BlockThreadInv(t)
  BY <1>1 DEF BlockThreadInv, Answered, DS!NoReply
<1> QED BY <1>3, <1>4, <1>5 DEF BlockIndInv

LEMMA UdifNextInv ==
  ASSUME OneBlockPerOffset
  PROVE  BlockIndInv /\ [UdifNext]_udifVars => BlockIndInv'
<1> SUFFICES ASSUME BlockIndInv, [UdifNext]_udifVars PROVE BlockIndInv'
  OBVIOUS
<1>1. ASSUME NEW t \in Threads, UdifStep(t) PROVE BlockIndInv'
  BY <1>1, UdifLoopInv, FillSparseInv, ReadInFileInv, LookupBlockInv, DecodeBlockInv,
     InsertBlockInv, CopyBlockInv DEF UdifStep
<1>2. CASE UNCHANGED udifVars
  <2>1. CallTypeOK(BlockLabels)' /\ block' \in [Threads -> Blocks] /\ CacheFaithful'
    BY <1>2 DEF udifVars, BlockIndInv, CallTypeOK, CacheFaithful, RangeBytes
  <2>2. \A u \in Threads : SameBlock(u)
    BY <1>2 DEF udifVars, SameBlock
  <2>3. Blocks' = Blocks
    BY DEF Blocks
  <2> QED BY <2>1, <2>2, <2>3, SameBlockThread DEF BlockIndInv
<1> QED BY <1>1, <1>2, UdifReadAtInv DEF UdifNext

LEMMA UdifInvariance ==
  ASSUME OneBlockPerOffset
  PROVE  UdifSpec => []BlockIndInv
  BY UdifInitInv, UdifNextInv, PTL DEF UdifSpec

-----------------------------------------------------------------------------
(* If compressed ranges with one data offset are one block, the cache and  *)
(* every buffer hold bytes of the media, however the threads interleave    *)
(* and whichever range a cached block was decoded for                      *)
(* (UdifDataSource::read_at, read_decompressed_block).                     *)
THEOREM UdifReadsCorrect ==
  ASSUME OneBlockPerOffset
  PROVE  UdifSpec => []UdifReadInv
<1>1. BlockIndInv => UdifReadInv
  BY DEF BlockIndInv, BlockThreadInv, UdifReadInv, PartialBlocksFaithful, BlockLabels
<1> QED BY <1>1, UdifInvariance, PTL

(* Under the same condition a block that cannot be decoded fails the reads *)
(* that need it and no others, cached or not, whoever comes first.         *)
THEOREM UdifDamageStaysLocal ==
  ASSUME OneBlockPerOffset
  PROVE  UdifSpec => []DamageIsLocal
<1>1. BlockIndInv => DamageIsLocal
  BY DEF BlockIndInv, BlockThreadInv, Answered, DamageIsLocal
<1> QED BY <1>1, UdifInvariance, PTL

(* And then the cache does not show: no read panics, and each that         *)
(* succeeds answers the bytes of the media, whatever is cached.  Without   *)
(* the condition HotCacheSameBytes is false (read_decompressed_block keys  *)
(* its cache by the data offset alone).                                    *)
THEOREM UdifHotCache ==
  ASSUME OneBlockPerOffset
  PROVE  UdifSpec => []HotCacheSameBytes
<1>1. Panic \notin Replies
  BY DEF Panic, Replies, DS!NoReply, DS!Err
<1>2. BlockIndInv => HotCacheSameBytes
  BY <1>1 DEF BlockIndInv, BlockThreadInv, Answered, HotCacheSameBytes, CallTypeOK
<1> QED BY <1>2, UdifInvariance, PTL

-----------------------------------------------------------------------------
(* The UDIF reader is a DataSource.                                        *)

(* The call a thread is in, as DataSource sees it.                         *)
CallOf(t) == IF pc[t] = "idle" THEN [kind |-> "none"]
             ELSE [kind |-> "read_at", offset |-> offset[t], len |-> len[t]]

(* Going on inside read_at is not seen; its end is the answer.             *)
LEMMA StepSimulation ==
  ASSUME BlockIndInv, NEW t \in Threads, UdifStep(t)
  PROVE  [DS!Next]_(DS!vars)
<1> DEFINE n == DS!Available(offset[t], len[t])
           Whole == DS!Ok(n, DS!Slice(offset[t], n))
           Inside == BlockLabels \ {"idle"}
<1>1. pc[t] # "idle" /\ offset' = offset /\ len' = len
  BY DEF UdifStep, UdifLoop, FillSparse, ReadInFile, LookupBlock, DecodeBlock, InsertBlock, CopyBlock
<1>2. CallTypeOK(BlockLabels)
  BY DEF BlockIndInv
<1>3. \/ \E l \in Inside : Goto(t, l)
      \/ Finish(t, DS!Err)
      \/ Finish(t, Whole)
  <2>1. CASE UdifLoop(t)
    <3>1. CASE GoesOn(t)
      <4>1. range(t).type \in {"sparse", "in_file", "compressed"}
        BY <1>2, <3>1, InRange, RangeType
      <4> QED BY <2>1, <3>1, <4>1 DEF UdifLoop, BlockLabels
    <3>2. CASE ~GoesOn(t)
      BY <2>1, <3>2, BlocksAreWhole DEF UdifLoop
    <3> QED BY <3>1, <3>2
  <2>2. CASE FillSparse(t)
    BY <2>2 DEF FillSparse, Emit, BlockLabels
  <2>3. CASE ReadInFile(t)
    BY <2>3 DEF ReadInFile, Emit, BlockLabels
  <2>4. CASE LookupBlock(t)
    BY <2>4 DEF LookupBlock, BlockLabels
  <2>5. CASE DecodeBlock(t)
    BY <2>5 DEF DecodeBlock, BlockLabels
  <2>6. CASE InsertBlock(t)
    BY <2>6 DEF InsertBlock, BlockLabels
  <2>7. CASE CopyBlock(t)
    BY <2>7, CopyBlockInv DEF BlockLabels
  <2> QED BY <2>1, <2>2, <2>3, <2>4, <2>5, <2>6, <2>7 DEF UdifStep
<1> HIDE DEF n, Inside
<1>4. ASSUME NEW l \in Inside, Goto(t, l)
      PROVE  [DS!Next]_(DS!vars)
  <2>1. pc'[t] = l /\ l # "idle" /\ result' = result /\ \A u \in Threads : u # t => pc'[u] = pc[u]
    BY <1>2, <1>4 DEF Goto, CallTypeOK, Inside
  <2>2. [u \in Threads |-> CallOf(u)]' = [u \in Threads |-> CallOf(u)]
    BY <1>1, <2>1 DEF CallOf
  <2> QED BY <2>1, <2>2 DEF DS!vars, CallOf
<1>5. ASSUME NEW r, Finish(t, r)
      PROVE  /\ [u \in Threads |-> CallOf(u)]'
                  = [[u \in Threads |-> CallOf(u)] EXCEPT ![t] = DS!NoCall]
             /\ result' = [result EXCEPT ![t] = r]
  <2>1. pc'[t] = "idle" /\ \A u \in Threads : u # t => pc'[u] = pc[u]
    BY <1>2, <1>5 DEF Finish, CallTypeOK
  <2> QED BY <1>1, <1>5, <2>1 DEF CallOf, DS!NoCall, Finish
<1>6. CallOf(t) = DS!ReadCall(offset[t], len[t]) /\ CallOf(t) # DS!NoCall
  BY <1>1 DEF CallOf, DS!ReadCall, DS!NoCall
<1>7. CASE Finish(t, DS!Err)
  <2>1. DS!Fail(t)
    BY <1>5, <1>6, <1>7 DEF DS!Fail, CallOf
  <2> QED BY <2>1 DEF DS!Next
<1>8. CASE Finish(t, Whole)
  <2>1. CallOf(t).offset = offset[t] /\ CallOf(t).len = len[t]
    BY <1>6 DEF DS!ReadCall
  <2>2. n \in DS!Counts(CallOf(t).offset, CallOf(t).len)
    BY <2>1 DEF DS!Counts, n
  <2> HIDE DEF n
  <2>3. DS!Return(t)
    BY <2>1, <2>2, <1>5, <1>6, <1>8 DEF DS!Return, CallOf
  <2> QED BY <2>3 DEF DS!Next
<1> QED BY <1>3, <1>4, <1>7, <1>8

(* Entering read_at is the call.                                           *)
LEMMA CallSimulation ==
  ASSUME BlockIndInv, NEW t \in Threads, NEW o \in 0..MaxU64, NEW n \in 0..MaxLen,
         UdifReadAt(t, o, n)
  PROVE  DS!Next
<1>1. CallOf(t) = DS!NoCall
  BY DEF CallOf, DS!NoCall, UdifReadAt, Enter
<1>2. /\ pc'[t] # "idle" /\ offset'[t] = o /\ len'[t] = n
      /\ \A u \in Threads : u # t => pc'[u] = pc[u] /\ offset'[u] = offset[u] /\ len'[u] = len[u]
      /\ result' = [result EXCEPT ![t] = DS!NoReply]
  BY DEF BlockIndInv, CallTypeOK, UdifReadAt, Enter
<1>3. [u \in Threads |-> CallOf(u)]'
         = [[u \in Threads |-> CallOf(u)] EXCEPT ![t] = DS!ReadCall(o, n)]
  BY <1>2 DEF CallOf, DS!ReadCall
<1>4. DS!Call(t)
  BY <1>1, <1>2, <1>3 DEF DS!Call, CallOf
<1> QED BY <1>4 DEF DS!Next

(* UdifDataSource promises what every data source promises, if ranges with *)
(* one data offset are one block: each read_at is answered with all the    *)
(* bytes there are from its offset on, or fails.                           *)
THEOREM UdifRefinement ==
  ASSUME OneBlockPerOffset
  PROVE  UdifSpec => ImplementsDataSource
<1>1. UdifInit => DS!Init
  BY DEF UdifInit, CallInit, DS!Init, DS!NoCall, DS!NoReply
<1>2. BlockIndInv /\ [UdifNext]_udifVars => [DS!Next]_(DS!vars)
  <2> SUFFICES ASSUME BlockIndInv, [UdifNext]_udifVars PROVE [DS!Next]_(DS!vars)
    OBVIOUS
  <2>1. CASE UNCHANGED udifVars
    BY <2>1 DEF udifVars, DS!vars
  <2> QED BY <2>1, StepSimulation, CallSimulation DEF UdifNext
<1> QED BY <1>1, <1>2, UdifInvariance, PTL DEF UdifSpec, ImplementsDataSource, DS!Spec
=============================================================================
