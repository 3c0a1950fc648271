-------------------------- MODULE ProbeCacheProofs --------------------------
(***************************************************************************)
(* Proofs about ProbeCache, and about ReadExact and Cursor on top of it,   *)
(* for any number of threads and cursors, any source, window size and      *)
(* limit.                                                                  *)
(***************************************************************************)
EXTENDS Cursor, SequenceTheorems, TLAPS

(* Rounding down to a multiple of the window size.                         *)
LEMMA Alignment ==
  ASSUME NEW a \in Nat, NEW W \in Nat \ {0}
  PROVE  /\ (a \div W) * W \in Nat
         /\ (a \div W) * W <= a
         /\ a < (a \div W) * W + W
         /\ ((a \div W) * W) % W = 0
<1> DEFINE q == a \div W
<1>1. q \in Nat /\ a = W * q + (a % W) /\ (a % W) \in 0..(W - 1)
  BY Z3
<1>2. q * W \in Nat /\ q * W <= a /\ a < q * W + W
  BY <1>1, Z3
<1>3. (q * W) % W = 0
  BY <1>1, Z3
<1> QED BY <1>2, <1>3

(* with_options: a window is never empty.                                  *)
LEMMA WindowSizeType == WindowSize \in Nat \ {0}
  BY ProbeCacheAssumption DEF WindowSize

LEMMA AvailableType ==
  ASSUME NEW o \in Nat, NEW n \in Nat
  PROVE  /\ DS!Available(o, n) \in 0..n
         /\ DS!Available(o, n) > 0 => o + DS!Available(o, n) <= Size
  BY ProbeCacheAssumption DEF DS!Available

(* A run of the source's bytes has the type of a prefix.                   *)
LEMMA SliceType ==
  ASSUME NEW o \in Nat, NEW m \in Nat, NEW n \in 0..DS!Available(o, m)
  PROVE  DS!Slice(o, n) \in Prefixes(n)
<1>1. n \in Nat /\ (n > 0 => o + n <= Size)
  BY ProbeCacheAssumption DEF DS!Available
<1>2. ASSUME NEW i \in 0..(n - 1)
      PROVE  Data[o + i] \in DS!Bytes
  <2>1. o + i \in 0..(Size - 1)
    BY <1>1, ProbeCacheAssumption
  <2> QED BY <2>1 DEF DS!Bytes
<1> QED BY <1>2 DEF DS!Slice, Prefixes

LEMMA FaithfulWindowType ==
  ASSUME NEW w \in Nat, NEW win, FaithfulWindow(w, win)
  PROVE  win \in Window
<1>1. PICK n \in 0..DS!Available(w, WindowSize) :
             win = [len |-> n, bytes |-> DS!Slice(w, n)]
  BY DEF FaithfulWindow
<1>2. DS!Slice(w, n) \in Prefixes(n)
  BY SliceType, WindowSizeType
<1>3. n \in 0..WindowSize
  BY AvailableType, WindowSizeType
<1> QED BY <1>1, <1>2, <1>3 DEF Window

(* The answers of the inner source.                                        *)
LEMMA InnerCountsType ==
  ASSUME NEW o \in Nat, NEW m \in Nat, NEW n \in InnerCounts(o, m)
  PROVE  /\ n \in 0..DS!Available(o, m)
         /\ ~short => n = DS!Available(o, m)
  BY AvailableType DEF InnerCounts

(* The window that a thread is at contains the byte it is at.              *)
LEMMA WindowOffset ==
  ASSUME TypeOK, NEW t \in Threads
  PROVE  /\ absolute_offset(t) \in Nat
         /\ window_offset(t) \in Nat
         /\ window_offset(t) <= absolute_offset(t)
         /\ absolute_offset(t) < window_offset(t) + WindowSize
         /\ window_offset(t) % WindowSize = 0
<1>1. absolute_offset(t) \in Nat
  BY ProbeCacheAssumption DEF TypeOK, absolute_offset
<1> QED BY <1>1, Alignment, WindowSizeType DEF window_offset

LEMMA NoWindowType == NoWindow \in Window
<1>1. [i \in 0..-1 |-> 0] \in Prefixes(0)
  BY DEF Prefixes
<1> QED BY <1>1, WindowSizeType DEF NoWindow, Window

LEMMA ReplyTypes ==
  /\ DS!Err \in Replies
  /\ DS!NoReply \in Replies
  /\ \A o \in Nat, m \in 0..MaxLen : \A n \in 0..DS!Available(o, m) :
       DS!Ok(n, DS!Slice(o, n)) \in Replies
<1>1. ASSUME NEW o \in Nat, NEW m \in 0..MaxLen, NEW n \in 0..DS!Available(o, m)
      PROVE  DS!Ok(n, DS!Slice(o, n)) \in Replies
  <2>1. DS!Slice(o, n) \in Prefixes(n)
    BY SliceType
  <2>2. n \in 0..MaxLen
    BY AvailableType, ProbeCacheAssumption, SMTT(30)
  <2> QED BY <2>1, <2>2 DEF Replies, DS!Ok
<1> QED BY <1>1 DEF Replies

LEMMA InitInv == Init => IndInv
<1> SUFFICES ASSUME Init PROVE IndInv
  OBVIOUS
<1> USE DEF Init
<1>1. NoWindow \in Window
  BY NoWindowType
<1>2. [i \in 0..-1 |-> Blank] \in Buffers
  <2>1. 0 \in 0..MaxLen /\ 0 - 1 = -1
    BY ONLY ProbeCacheAssumption
  <2> QED BY ONLY <2>1 DEF Buffers
<1>3. [kind |-> "none"] \in Replies
  BY DEF Replies, DS!NoReply
<1>4. TypeOK
  BY <1>1, <1>2, <1>3, ProbeCacheAssumption DEF TypeOK
<1>5. CachedWindowsFaithful /\ CacheBounded
  BY DEF CachedWindowsFaithful, CacheBounded
<1>6. CopiesSharedWindow /\ ReadsFaithful /\ PartialReadFaithful
  BY DEF CopiesSharedWindow, ReadsFaithful, PartialReadFaithful, InLoop
<1> QED BY <1>4, <1>5, <1>6 DEF IndInv

(* read_at is entered.                                                     *)
LEMMA ReadAtInv ==
  ASSUME IndInv, NEW t \in Threads, NEW o \in 0..MaxU64, NEW n \in 0..MaxLen,
         ReadAt(t, o, n)
  PROVE  IndInv'
<1> USE DEF IndInv, ReadAt
<1>1. NoWindow \in Window
  BY NoWindowType
<1>2. [i \in 0..(n - 1) |-> Blank] \in Buffers
  BY DEF Buffers
<1>3. [kind |-> "none"] \in Replies
  BY DEF Replies, DS!NoReply
<1>4. TypeOK'
  BY <1>1, <1>2, <1>3, ProbeCacheAssumption, SMTT(40) DEF TypeOK
<1>5. CachedWindowsFaithful' /\ CacheBounded'
  BY DEF FaithfulWindow, CachedWindowsFaithful, CacheBounded
<1>6. CopiesSharedWindow'
  BY DEF CopiesSharedWindow, TypeOK, window_offset, absolute_offset
<1>7. ReadsFaithful'
  BY DEF ReadsFaithful, TypeOK
<1>8. PartialReadFaithful'
  <2>1. Cacheable(o, n) => n > 0
    BY ProbeCacheAssumption DEF Cacheable
  <2>2. 0 <= DS!Available(o, n)
    BY AvailableType, ProbeCacheAssumption
  <2> QED BY <2>1, <2>2 DEF FaithfulWindow, PartialReadFaithful, TypeOK, InLoop, window_offset, absolute_offset
<1> QED BY <1>4, <1>5, <1>6, <1>7, <1>8

(* A read that bypasses the cache.                                         *)
LEMMA BypassInv ==
  ASSUME IndInv, NEW t \in Threads, Bypass(t)
  PROVE  IndInv'
<1> USE DEF IndInv, Bypass
<1>1. offset[t] \in Nat /\ len[t] \in 0..MaxLen /\ len[t] \in Nat
  BY ProbeCacheAssumption DEF TypeOK
<1>2. PICK r : /\ Finish(t, r)
               /\ \/ \E n \in InnerCounts(offset[t], len[t]) :
                          r = DS!Ok(n, DS!Slice(offset[t], n))
                  \/ r = DS!Err
  OBVIOUS
<1>3. \/ r = DS!Err
      \/ \E n \in 0..DS!Available(offset[t], len[t]) :
            /\ r = DS!Ok(n, DS!Slice(offset[t], n))
            /\ ~short => n = DS!Available(offset[t], len[t])
  BY <1>1, <1>2, InnerCountsType
<1>4. r \in Replies
  BY <1>1, <1>3, ReplyTypes
<1>5. TypeOK'
  BY <1>2, <1>4 DEF TypeOK, Finish, locals
<1>6. CachedWindowsFaithful' /\ CacheBounded'
  BY <1>2 DEF Finish, FaithfulWindow, CachedWindowsFaithful, CacheBounded
<1>7. CopiesSharedWindow'
  BY <1>2 DEF CopiesSharedWindow, TypeOK, window_offset, absolute_offset, Finish, locals
<1>8. ReadsFaithful'
  BY <1>2, <1>3 DEF ReadsFaithful, TypeOK, Finish, locals, DS!Err
<1>9. PartialReadFaithful'
  BY <1>2 DEF FaithfulWindow, PartialReadFaithful, TypeOK, InLoop, window_offset, absolute_offset, Finish, locals
<1> QED BY <1>5, <1>6, <1>7, <1>8, <1>9

(* The lookup, hit or missed.                                              *)
LEMMA LookupInv ==
  ASSUME IndInv, NEW t \in Threads, Lookup(t)
  PROVE  IndInv'
<1> USE DEF IndInv, Lookup, Goto
<1>1. TypeOK'
  <2>1. \A w \in DOMAIN windows : windows[w] \in Window
    BY DEF TypeOK
  <2>2. window' \in [Threads -> Window]
    BY <2>1 DEF TypeOK
  <2>3. pc' \in [Threads -> {"idle", "bypass", "lookup", "fill", "insert", "copy"}]
    BY DEF TypeOK
  <2> QED BY <2>2, <2>3 DEF TypeOK
<1>2. CachedWindowsFaithful' /\ CacheBounded'
  BY DEF FaithfulWindow, CachedWindowsFaithful, CacheBounded
<1>3. CopiesSharedWindow'
  BY DEF CopiesSharedWindow, TypeOK, window_offset, absolute_offset
<1>4. ReadsFaithful'
  BY DEF ReadsFaithful, TypeOK
<1>5. PartialReadFaithful'
  BY DEF FaithfulWindow, PartialReadFaithful, TypeOK, InLoop, window_offset, absolute_offset
<1> QED BY <1>1, <1>2, <1>3, <1>4, <1>5

(* The window is read while no lock is held.                               *)
LEMMA FillInv ==
  ASSUME IndInv, NEW t \in Threads, Fill(t)
  PROVE  IndInv'
<1> USE DEF IndInv, Fill, Goto, Finish
<1> DEFINE w == window_offset(t)
<1>1. w \in Nat
  BY WindowOffset
<1>2. pc'[t] = "insert" => FaithfulWindow(w, window'[t])
  <2> SUFFICES ASSUME NEW n \in InnerCounts(w, WindowSize)
               PROVE  FaithfulWindow(w, [len |-> n, bytes |-> DS!Slice(w, n)])
    BY DEF TypeOK
  <2> QED BY <1>1, InnerCountsType, WindowSizeType DEF FaithfulWindow
<1>3. window'[t] \in Window
  BY <1>1, <1>2, FaithfulWindowType DEF TypeOK
<1>4. TypeOK'
  BY <1>3, ReplyTypes DEF TypeOK
<1>5. CachedWindowsFaithful' /\ CacheBounded'
  BY DEF FaithfulWindow, CachedWindowsFaithful, CacheBounded
<1>6. CopiesSharedWindow'
  BY DEF CopiesSharedWindow, TypeOK, window_offset, absolute_offset
<1>7. ReadsFaithful'
  <2>1. result' = result \/ result' = [result EXCEPT ![t] = DS!Err]
    OBVIOUS
  <2>2. \A u \in Threads : result'[u].kind = "ok" => result'[u] = result[u]
    BY <2>1 DEF TypeOK, DS!Err
  <2>3. offset' = offset /\ len' = len /\ short' = short
    OBVIOUS
  <2> HIDE DEF Fill
  <2> QED BY <2>2, <2>3 DEF ReadsFaithful
<1>8. PartialReadFaithful'
  <2>1. /\ offset' = offset /\ len' = len /\ written' = written /\ buf' = buf /\ short' = short
        /\ window_offset(t)' = w
        /\ InLoop(t)' => InLoop(t)
    BY DEF TypeOK, InLoop, window_offset, absolute_offset
  <2>2. \A u \in Threads : u # t => pc'[u] = pc[u] /\ window'[u] = window[u]
    BY DEF TypeOK
  <2> HIDE DEF Fill, Goto, Finish
  <2>3. ASSUME NEW u \in Threads, pc'[u] = "insert"
        PROVE  FaithfulWindow(window_offset(u), window[u])'
    <3>1. CASE u = t
      BY <3>1, <2>1, <2>3, <1>2 DEF FaithfulWindow
    <3>2. CASE u # t
      BY <3>2, <2>1, <2>2, <2>3 DEF FaithfulWindow, PartialReadFaithful, window_offset, absolute_offset
    <3> QED BY <3>1, <3>2
  <2>4. ASSUME NEW u \in Threads, InLoop(u)'
        PROVE  InLoop(u)
    BY <2>1, <2>2, <2>4 DEF InLoop
  <2> QED BY <2>1, <2>3, <2>4 DEF PartialReadFaithful, InLoop
<1> QED BY <1>4, <1>5, <1>6, <1>7, <1>8

(* The window is inserted, unless another thread was first.                *)
LEMMA InsertInv ==
  ASSUME IndInv, NEW t \in Threads, Insert(t)
  PROVE  IndInv'
<1> USE DEF IndInv, Insert, Goto
<1> DEFINE w == window_offset(t)
<1>1. /\ w \in Nat
      /\ w <= absolute_offset(t)
      /\ w % WindowSize = 0
      /\ FaithfulWindow(w, window[t])
  BY WindowOffset DEF PartialReadFaithful
<1>2. w < cache_limit /\ w \in 0..MaxU64
  <2>1. /\ offset[t] \in Nat /\ len[t] \in Nat /\ written[t] \in Nat
        /\ written[t] < len[t]
        /\ offset[t] + len[t] <= cache_limit
    BY ProbeCacheAssumption DEF TypeOK, PartialReadFaithful, InLoop, Cacheable
  <2>2. absolute_offset(t) < cache_limit
    BY <2>1, ProbeCacheAssumption DEF absolute_offset
  <2>3. absolute_offset(t) \in Nat
    BY <2>1 DEF absolute_offset
  <2> QED BY <1>1, <2>2, <2>3, ProbeCacheAssumption
<1>3. TypeOK'
  BY <1>2 DEF TypeOK
<1>4. CachedWindowsFaithful'
  BY <1>1 DEF FaithfulWindow, CachedWindowsFaithful
<1>5. CacheBounded'
  BY <1>1, <1>2 DEF CacheBounded
<1>6. CopiesSharedWindow'
  BY DEF CopiesSharedWindow, TypeOK, window_offset, absolute_offset
<1>7. ReadsFaithful'
  BY DEF ReadsFaithful, TypeOK
<1>8. PartialReadFaithful'
  BY DEF FaithfulWindow, PartialReadFaithful, TypeOK, InLoop, window_offset, absolute_offset
<1> QED BY <1>3, <1>4, <1>5, <1>6, <1>7, <1>8

(* The arithmetic of one round of the loop: the window starts at w and has *)
(* k bytes, the thread is at o + wr, of the m bytes it was asked for.      *)
LEMMA CopyArithmetic ==
  ASSUME NEW W \in Nat \ {0}, NEW w \in Nat, NEW k \in 0..DS!Available(w, W),
         NEW o \in Nat, NEW m \in Nat, NEW wr \in Nat, NEW inner, NEW n \in Int,
         wr < m, wr <= DS!Available(o, m),
         w <= o + wr, o + wr < w + W,
         inner = o + wr - w,
         n = IF k - inner <= m - wr THEN k - inner ELSE m - wr
  PROVE  /\ inner >= k =>
              (k = DS!Available(w, W) => wr = DS!Available(o, m))
         /\ inner < k =>
              /\ n \in Nat \ {0}
              /\ inner + n <= k
              /\ wr + n <= DS!Available(o, m)
              /\ k = DS!Available(w, W) /\ (k < W \/ wr + n >= m) =>
                    wr + n = DS!Available(o, m)
              /\ wr + n <= m
  BY ProbeCacheAssumption DEF DS!Available

(* One round of the loop.                                                  *)
LEMMA CopyInv ==
  ASSUME IndInv, NEW t \in Threads, Copy(t)
  PROVE  IndInv'
<1> USE DEF IndInv
<1> DEFINE W == WindowSize
           w == window_offset(t)
           o == offset[t]
           m == len[t]
           wr == written[t]
           inner == window_inner_offset(t)
           n == available(t)
           bytes == [i \in 0..(m - 1) |->
                       IF i \in wr..(wr + n - 1)
                       THEN window[t].bytes[inner + i - wr]
                       ELSE buf[t][i]]
           done == wr + n
           Whole(c) == /\ c \in 0..DS!Available(o, m)
                       /\ ~short => c = DS!Available(o, m)
<1>1. pc[t] = "copy"
  BY DEF Copy
<1>2. /\ W \in Nat \ {0} /\ w \in Nat /\ o \in Nat /\ m \in Nat /\ m \in 0..MaxLen
      /\ wr \in Nat /\ wr < m /\ wr <= DS!Available(o, m)
      /\ w <= o + wr /\ o + wr < w + W
      /\ inner = o + wr - w
      /\ \A i \in 0..(wr - 1) : buf[t][i] = Data[o + i]
  BY <1>1, WindowOffset, WindowSizeType, ProbeCacheAssumption
     DEF TypeOK, PartialReadFaithful, InLoop, absolute_offset, window_inner_offset
<1>3. FaithfulWindow(w, window[t])
  BY <1>1 DEF CopiesSharedWindow, CachedWindowsFaithful
<1>4. PICK k \in 0..DS!Available(w, W) :
             /\ window[t] = [len |-> k, bytes |-> DS!Slice(w, k)]
             /\ ~short => k = DS!Available(w, W)
  BY <1>3 DEF FaithfulWindow
<1>5. k \in Nat /\ window[t].len = k /\ window[t].bytes = DS!Slice(w, k)
  BY <1>2, <1>4, AvailableType
<1>6. n = IF k - inner <= m - wr THEN k - inner ELSE m - wr
  BY <1>2, <1>5 DEF available
<1>7. n \in Int
  BY <1>2, <1>5, <1>6
<1> HIDE DEF W, w, o, m, wr, inner, n
<1>8. /\ inner >= k => (k = DS!Available(w, W) => wr = DS!Available(o, m))
      /\ inner < k =>
              /\ n \in Nat \ {0}
              /\ inner + n <= k
              /\ wr + n <= DS!Available(o, m)
              /\ k = DS!Available(w, W) /\ (k < W \/ wr + n >= m) =>
                    wr + n = DS!Available(o, m)
              /\ wr + n <= m
  <2>1. k \in 0..DS!Available(w, W)
    BY <1>4
  <2> QED BY <2>1, <1>2, <1>6, <1>7, CopyArithmetic
<1>9. /\ offset' = offset /\ len' = len /\ windows' = windows /\ short' = short
      /\ window' = [window EXCEPT ![t] = NoWindow]
  BY DEF Copy, Finish, Goto
<1> DEFINE Ended == \E c : /\ Whole(c)
                           /\ result' = [result EXCEPT ![t] = DS!Ok(c, DS!Slice(o, c))]
                           /\ pc' = [pc EXCEPT ![t] = "idle"]
           GoesOn == /\ result' = result
                     /\ pc' = [pc EXCEPT ![t] = "lookup"]
                     /\ written'[t] < m
                     /\ written'[t] <= DS!Available(o, m)
                     /\ \A i \in 0..(written'[t] - 1) : buf'[t][i] = Data[o + i]
           Buffered == /\ buf' = [buf EXCEPT ![t] = buf'[t]]
                       /\ buf'[t] \in [0..(m - 1) -> DS!Bytes \cup {Blank}]
                       /\ written' = [written EXCEPT ![t] = written'[t]]
                       /\ written'[t] \in 0..m
<1>10. buf[t] \in [0..(m - 1) -> DS!Bytes \cup {Blank}]
  <2>1. PICK l \in 0..MaxLen : buf[t] \in [0..(l - 1) -> DS!Bytes \cup {Blank}]
    BY DEF TypeOK, Buffers
  <2>2. DOMAIN buf[t] = 0..(m - 1)
    BY DEF TypeOK, m
  <2> QED BY <2>1, <2>2
<1>11. (Ended \/ GoesOn) /\ Buffered
  <2>1. CASE inner >= k
    <3>1. /\ Finish(t, DS!Ok(wr, [i \in 0..(wr - 1) |-> buf[t][i]]))
          /\ buf' = buf /\ written' = written
      BY <2>1, <1>5 DEF Copy, inner, wr
    <3>2. [i \in 0..(wr - 1) |-> buf[t][i]] = DS!Slice(o, wr)
      BY <1>2 DEF DS!Slice
    <3>3. Whole(wr)
      BY <2>1, <1>2, <1>4, <1>8, AvailableType
    <3>4. Ended
      BY <3>1, <3>2, <3>3 DEF Finish
    <3>5. Buffered
      BY <3>1, <1>2, <1>10 DEF TypeOK, wr
    <3> QED BY <3>4, <3>5
  <2>2. CASE inner < k
    <3>1. n \in Nat \ {0} /\ inner + n <= k /\ done <= DS!Available(o, m) /\ done <= m
      BY <2>2, <1>8
    <3>2. /\ buf' = [buf EXCEPT ![t] = bytes]
          /\ written' = [written EXCEPT ![t] = done]
          /\ IF k < W \/ done >= m
             THEN Finish(t, DS!Ok(done, [i \in 0..(done - 1) |-> bytes[i]]))
             ELSE Goto(t, "lookup")
      BY <2>2, <1>2, <1>5 DEF Copy, inner, wr, n, m, W
    <3>3. \A i \in 0..(done - 1) : bytes[i] = Data[o + i]
      <4> SUFFICES ASSUME NEW i \in 0..(done - 1)
                   PROVE  bytes[i] = Data[o + i]
        OBVIOUS
      <4>1. i \in 0..(m - 1)
        BY <1>2, <3>1
      <4>2. CASE i < wr
        BY <4>1, <4>2, <1>2, <3>1
      <4>3. CASE i >= wr
        <5>1. inner + i - wr \in 0..(k - 1) /\ w + (inner + i - wr) = o + i
          BY <4>3, <1>2, <1>5, <3>1
        <5>2. bytes[i] = DS!Slice(w, k)[inner + i - wr]
          BY <4>1, <4>3, <1>2, <1>5, <3>1
        <5> QED BY <5>1, <5>2 DEF DS!Slice
      <4> QED BY <4>2, <4>3, <1>2, <3>1
    <3>4. bytes \in [0..(m - 1) -> DS!Bytes \cup {Blank}]
      <4> SUFFICES ASSUME NEW i \in 0..(m - 1)
                   PROVE  bytes[i] \in DS!Bytes \cup {Blank}
        OBVIOUS
      <4>1. CASE i < done
        <5>1. i \in 0..(done - 1)
          BY <4>1, <1>2, <3>1
        <5>2. bytes[i] = DS!Slice(o, done)[i]
          BY <5>1, <3>3 DEF DS!Slice
        <5>3. DS!Slice(o, done) \in Prefixes(done)
          BY <1>2, <3>1, SliceType
        <5> HIDE DEF bytes, done
        <5> QED BY <5>1, <5>2, <5>3 DEF Prefixes
      <4>2. CASE ~(i < done)
        BY <4>2, <1>2, <1>10, <3>1
      <4> QED BY <4>1, <4>2
    <3>5. Buffered
      BY <3>1, <3>2, <3>4, <1>2 DEF TypeOK
    <3>6. CASE k < W \/ done >= m
      <4>1. [i \in 0..(done - 1) |-> bytes[i]] = DS!Slice(o, done)
        BY <3>3 DEF DS!Slice
      <4>2. Whole(done)
        BY <3>6, <3>1, <2>2, <1>2, <1>4, <1>8, AvailableType
      <4>3. Ended
        BY <4>1, <4>2, <3>2, <3>6 DEF Finish
      <4> QED BY <4>3, <3>5
    <3>7. CASE ~(k < W \/ done >= m)
      <4>1. written'[t] = done /\ buf'[t] = bytes
        BY <3>2 DEF TypeOK
      <4>2. done < m
        BY <3>7, <3>1, <1>2
      <4>3. GoesOn
        BY <4>1, <4>2, <3>1, <3>2, <3>3, <3>7 DEF Goto
      <4> QED BY <4>3, <3>5
    <3> QED BY <3>6, <3>7
  <2>3. inner \in Int /\ k \in Int
    BY <1>2, <1>5
  <2>4. inner >= k \/ inner < k
    BY <2>3
  <2> HIDE DEF Ended, GoesOn, Buffered
  <2> QED BY <2>1, <2>2, <2>4
<1> HIDE DEF Ended, GoesOn, Buffered, bytes, done, Whole
<1>12. result' \in [Threads -> Replies]
  <2>1. \A c : Whole(c) => DS!Ok(c, DS!Slice(o, c)) \in Replies
    BY <1>2, ReplyTypes DEF Whole
  <2>2. result \in [Threads -> Replies]
    BY DEF TypeOK
  <2>3. CASE Ended
    BY <2>1, <2>2, <2>3 DEF Ended
  <2>4. CASE GoesOn
    BY <2>2, <2>4 DEF GoesOn
  <2> QED BY <2>3, <2>4, <1>11
<1>13. TypeOK'
  <2>1. buf'[t] \in Buffers
    BY <1>2, <1>11 DEF Buffered, Buffers
  <2>2. buf' \in [Threads -> Buffers]
    BY <2>1, <1>11 DEF Buffered, TypeOK
  <2>3. written'[t] \in 0..MaxLen
    BY <1>2, <1>11, ProbeCacheAssumption DEF Buffered
  <2>4. written' \in [Threads -> 0..MaxLen]
    BY <2>3, <1>11 DEF Buffered, TypeOK
  <2>5. pc' \in [Threads -> {"idle", "bypass", "lookup", "fill", "insert", "copy"}]
    BY <1>11 DEF Ended, GoesOn, TypeOK
  <2>6. DOMAIN buf'[t] = 0..(m - 1) /\ written'[t] <= m
    BY <1>2, <1>11 DEF Buffered
  <2>7. \A u \in Threads : u # t => buf'[u] = buf[u] /\ written'[u] = written[u]
    BY <1>11 DEF Buffered, TypeOK
  <2>8. \A u \in Threads : DOMAIN buf'[u] = 0..(len[u] - 1) /\ written'[u] <= len[u]
    BY <2>6, <2>7 DEF TypeOK, m
  <2> QED BY <2>2, <2>4, <2>5, <2>8, <1>9, <1>12, NoWindowType DEF TypeOK
<1>14. CachedWindowsFaithful' /\ CacheBounded'
  BY <1>9 DEF FaithfulWindow, CachedWindowsFaithful, CacheBounded
<1>15. CopiesSharedWindow'
  <2>1. \A u \in Threads : pc'[u] = "copy" =>
           u # t /\ pc[u] = "copy" /\ window'[u] = window[u] /\ written'[u] = written[u]
    BY <1>9, <1>11 DEF Ended, GoesOn, Buffered, TypeOK
  <2> QED BY <2>1, <1>9 DEF CopiesSharedWindow, window_offset, absolute_offset
<1>16. ReadsFaithful'
  <2>1. \A u \in Threads : u # t => result'[u] = result[u]
    BY <1>11 DEF Ended, GoesOn, TypeOK
  <2>2. result'[t].kind = "ok" /\ ~GoesOn =>
          \E c \in 0..DS!Available(o, m) :
             /\ result'[t] = DS!Ok(c, DS!Slice(o, c))
             /\ ~short => c = DS!Available(o, m)
    BY <1>11 DEF Ended, Whole, TypeOK
  <2>3. GoesOn => result' = result
    BY DEF GoesOn
  <2> QED BY <2>1, <2>2, <2>3, <1>9 DEF ReadsFaithful, o, m
<1>17. PartialReadFaithful'
  <2>1. ASSUME NEW u \in Threads, u # t
        PROVE  /\ pc'[u] = pc[u] /\ written'[u] = written[u] /\ buf'[u] = buf[u]
               /\ window'[u] = window[u]
    BY <2>1, <1>9, <1>11 DEF Ended, GoesOn, Buffered, TypeOK
  <2>2. pc'[t] # "insert"
    BY <1>11 DEF Ended, GoesOn, TypeOK
  <2>3. InLoop(t)' => GoesOn
    BY <1>11 DEF Ended, InLoop, TypeOK
  <2>4. Cacheable(o, m)
    BY <1>1 DEF PartialReadFaithful, InLoop, o, m
  <2>5. ASSUME NEW u \in Threads, pc'[u] = "insert"
        PROVE  FaithfulWindow(window_offset(u), window[u])'
    BY <2>1, <2>2, <2>5, <1>9
       DEF FaithfulWindow, PartialReadFaithful, window_offset, absolute_offset
  <2> QED BY <2>1, <2>2, <2>3, <2>4, <2>5, <1>9 DEF PartialReadFaithful, InLoop, GoesOn, o, m
<1> QED BY <1>13, <1>14, <1>15, <1>16, <1>17

LEMMA NextInv == IndInv /\ [Next]_vars => IndInv'
<1> SUFFICES ASSUME IndInv, [Next]_vars PROVE IndInv'
  OBVIOUS
<1>1. ASSUME NEW t \in Threads, Step(t)
      PROVE  IndInv'
  BY <1>1, BypassInv, LookupInv, FillInv, InsertInv, CopyInv DEF Step
<1>2. ASSUME NEW t \in Threads, NEW o \in 0..MaxU64, NEW n \in 0..MaxLen, ReadAt(t, o, n)
      PROVE  IndInv'
  BY <1>2, ReadAtInv
<1>3. CASE UNCHANGED vars
  BY <1>3 DEF vars, FaithfulWindow, IndInv, TypeOK, CachedWindowsFaithful, CacheBounded,
              CopiesSharedWindow, ReadsFaithful, PartialReadFaithful, InLoop,
              window_offset, absolute_offset
<1> QED BY <1>1, <1>2, <1>3 DEF Next

(* IndInv is an invariant of read_at under every interleaving.             *)
THEOREM Invariance == Spec => []IndInv
  BY InitInv, NextInv, PTL DEF Spec

(* Type correctness: positions in the buffer never pass its end.           *)
THEOREM TypeCorrect == Spec => []TypeOK
<1>1. IndInv => TypeOK
  BY DEF IndInv
<1> QED BY <1>1, Invariance, PTL

(* What read_window caches and what a thread copies from, whoever inserted *)
(* it; and the cache's bound (cacheable).                                  *)
THEOREM CacheCorrect ==
  Spec => [](CachedWindowsFaithful /\ CacheBounded /\ CopiesSharedWindow)
<1>1. IndInv => CachedWindowsFaithful /\ CacheBounded /\ CopiesSharedWindow
  BY DEF IndInv
<1> QED BY <1>1, Invariance, PTL

(* Every read_at that succeeds returns bytes of the source.                *)
THEOREM ReadsCorrect == Spec => []ReadsFaithful
<1>1. IndInv => ReadsFaithful
  BY DEF IndInv
<1> QED BY <1>1, Invariance, PTL

(* No step of read_at replaces or drops a cached window.                   *)
THEOREM Stability == Spec => WindowsAreStable
<1> DEFINE Stable == \A w \in DOMAIN windows : w \in DOMAIN windows' /\ windows'[w] = windows[w]
<1>1. ASSUME NEW t \in Threads, Step(t) PROVE Stable
  BY <1>1 DEF Step, Bypass, Lookup, Fill, Insert, Copy
<1>2. [Next]_vars => [Stable]_vars
  BY <1>1 DEF Next, ReadAt, vars
<1> QED BY <1>2, PTL DEF Spec, WindowsAreStable

(* The call a thread is in, as DataSource sees it.                         *)
CallOf(t) == IF pc[t] = "idle" THEN [kind |-> "none"]
             ELSE [kind |-> "read_at", offset |-> offset[t], len |-> len[t]]

(* A step inside read_at either goes on, or ends the call with an error or *)
(* with bytes.                                                             *)
LEMMA StepOutcome ==
  ASSUME IndInv, NEW t \in Threads, Step(t)
  PROVE  /\ pc[t] # "idle" /\ offset' = offset /\ len' = len /\ short' = short
         /\ \E l, r : /\ pc' = [pc EXCEPT ![t] = l]
                      /\ result' = [result EXCEPT ![t] = r]
                      /\ \/ l # "idle" /\ r = result[t]
                         \/ l = "idle" /\ r = DS!Err
                         \/ l = "idle" /\ r.kind = "ok"
<1> USE DEF IndInv
<1>1. pc[t] # "idle" /\ offset' = offset /\ len' = len /\ short' = short
  BY DEF Step, Bypass, Lookup, Fill, Insert, Copy, locals, Finish, Goto
<1> DEFINE Outcome(l, r) == /\ pc' = [pc EXCEPT ![t] = l]
                            /\ result' = [result EXCEPT ![t] = r]
                            /\ \/ l # "idle" /\ r = result[t]
                               \/ l = "idle" /\ r = DS!Err
                               \/ l = "idle" /\ r.kind = "ok"
<1> SUFFICES \E l, r : Outcome(l, r)
  BY <1>1
<1>2. result = [result EXCEPT ![t] = result[t]]
  BY DEF TypeOK
<1>3. ASSUME NEW l, Goto(t, l), l # "idle"
      PROVE  Outcome(l, result[t])
  BY <1>2, <1>3 DEF Goto
<1>4. ASSUME Finish(t, DS!Err)
      PROVE  Outcome("idle", DS!Err)
  BY <1>4 DEF Finish
<1>5. ASSUME NEW n, NEW d, Finish(t, DS!Ok(n, d))
      PROVE  Outcome("idle", DS!Ok(n, d))
  BY <1>5 DEF Finish, DS!Ok
<1> HIDE DEF Outcome
<1>6. CASE Bypass(t)
  BY <1>6, <1>4, <1>5 DEF Bypass
<1>7. CASE Lookup(t)
  BY <1>7, <1>3 DEF Lookup
<1>8. CASE Fill(t)
  BY <1>8, <1>3, <1>4 DEF Fill
<1>9. CASE Insert(t)
  BY <1>9, <1>3 DEF Insert
<1>10. CASE Copy(t)
  BY <1>10, <1>3, <1>5 DEF Copy
<1> QED BY <1>6, <1>7, <1>8, <1>9, <1>10 DEF Step

(* Going on is not seen by a caller; the end of the call is the answer     *)
(* DataSource gives.                                                       *)
LEMMA StepSimulation ==
  ASSUME IndInv, IndInv', NEW t \in Threads, Step(t)
  PROVE  [DS!Next]_(DS!vars)
<1>1. pc[t] # "idle" /\ offset' = offset /\ len' = len /\ short' = short
  BY StepOutcome
<1>2. PICK l, r : /\ pc' = [pc EXCEPT ![t] = l]
                  /\ result' = [result EXCEPT ![t] = r]
                  /\ \/ l # "idle" /\ r = result[t]
                     \/ l = "idle" /\ r = DS!Err
                     \/ l = "idle" /\ r.kind = "ok"
  BY StepOutcome
<1> USE DEF IndInv
<1>3. pc'[t] = l /\ result'[t] = r /\ \A u \in Threads : u # t => pc'[u] = pc[u]
  BY <1>2 DEF TypeOK
<1>4. CASE l # "idle" /\ r = result[t]
  <2>1. [u \in Threads |-> CallOf(u)]' = [u \in Threads |-> CallOf(u)]
    BY <1>1, <1>3, <1>4 DEF CallOf
  <2>2. result' = result
    BY <1>2, <1>4 DEF TypeOK
  <2> QED BY <2>1, <2>2, <1>1 DEF DS!vars, CallOf
<1>5. ASSUME l = "idle"
      PROVE  [u \in Threads |-> CallOf(u)]'
                = [[u \in Threads |-> CallOf(u)] EXCEPT ![t] = DS!NoCall]
  BY <1>1, <1>3, <1>5 DEF CallOf, DS!NoCall
<1>6. CallOf(t) = DS!ReadCall(offset[t], len[t]) /\ CallOf(t) # DS!NoCall
  BY <1>1 DEF CallOf, DS!ReadCall, DS!NoCall
<1>7. CASE l = "idle" /\ r = DS!Err
  <2>1. DS!Fail(t)
    BY <1>1, <1>2, <1>5, <1>6, <1>7 DEF DS!Fail, CallOf
  <2> QED BY <2>1 DEF DS!Next
<1>8. CASE l = "idle" /\ r.kind = "ok"
  <2>1. PICK n \in 0..DS!Available(offset[t], len[t]) :
             /\ r = DS!Ok(n, DS!Slice(offset[t], n))
             /\ ~short => n = DS!Available(offset[t], len[t])
    BY <1>1, <1>3, <1>8 DEF ReadsFaithful
  <2>2. CallOf(t).offset = offset[t] /\ CallOf(t).len = len[t]
    BY <1>6 DEF DS!ReadCall
  <2>3. n \in DS!Counts(CallOf(t).offset, CallOf(t).len)
    BY <2>1, <2>2 DEF DS!Counts
  <2>4. DS!Return(t)
    BY <2>1, <2>2, <2>3, <1>1, <1>2, <1>5, <1>6, <1>8 DEF DS!Return, CallOf
  <2> QED BY <2>4 DEF DS!Next
<1> QED BY <1>2, <1>4, <1>7, <1>8

(* Entering read_at is the call.                                           *)
LEMMA CallSimulation ==
  ASSUME IndInv, NEW t \in Threads, NEW o \in 0..MaxU64, NEW n \in 0..MaxLen,
         ReadAt(t, o, n)
  PROVE  DS!Next
<1> USE DEF IndInv, ReadAt
<1>1. CallOf(t) = DS!NoCall
  BY DEF CallOf, DS!NoCall
<1>2. pc'[t] # "idle" /\ offset'[t] = o /\ len'[t] = n
  BY DEF TypeOK
<1>3. \A u \in Threads : u # t => pc'[u] = pc[u] /\ offset'[u] = offset[u] /\ len'[u] = len[u]
  BY DEF TypeOK
<1>4. [u \in Threads |-> CallOf(u)]'
         = [[u \in Threads |-> CallOf(u)] EXCEPT ![t] = DS!ReadCall(o, n)]
  BY <1>2, <1>3 DEF CallOf, DS!ReadCall
<1>5. result' = [result EXCEPT ![t] = DS!NoReply]
  BY DEF DS!NoReply
<1>6. DS!Call(t)
  BY <1>1, <1>4, <1>5 DEF DS!Call, CallOf
<1> QED BY <1>6 DEF DS!Next

(* Wrapping a source in the probe cache changes nothing that a caller can  *)
(* see, whatever the threads do and however short the source answers.      *)
THEOREM Refinement == Spec => ImplementsDataSource
<1>1. Init => DS!Init
  BY ProbeCacheAssumption DEF Init, DS!Init, DS!NoCall, DS!NoReply
<1>2. IndInv /\ IndInv' /\ [Next]_vars => [DS!Next]_(DS!vars)
  <2> SUFFICES ASSUME IndInv, IndInv', [Next]_vars PROVE [DS!Next]_(DS!vars)
    OBVIOUS
  <2>1. CASE UNCHANGED vars
    BY <2>1 DEF vars, DS!vars
  <2> QED BY <2>1, StepSimulation, CallSimulation DEF Next
<1> QED BY <1>1, <1>2, Invariance, PTL DEF Spec, ImplementsDataSource, DS!Spec

-----------------------------------------------------------------------------
(* read_exact_at, read_all and the cursors.                                *)

(* When a count of zero means the end of the source: the inner source does *)
(* not answer short, or nothing is cached.                                 *)
ZeroIsEnd == TRUE \notin ShortReads \/ cache_limit = 0

Jobs == [method : {"none", "exact", "all"}, offset : 0..MaxU64, len : 0..MaxLen,
         read_offset : 0..MaxLen, data : UNION {Prefixes(n) : n \in 0..MaxLen},
         waiting : BOOLEAN, outcome : {"none", "running", "ok", "err"}]

(* What the loops of read_exact_at and read_all know.                      *)
JobInv(t) ==
  /\ job[t] \in Jobs
  /\ job[t].data = DS!Slice(job[t].offset, job[t].read_offset)
  /\ job[t].read_offset <= DS!Available(job[t].offset, job[t].len)
  /\ job[t].method = "none" => job[t] = NoJob
  /\ job[t].method = "all" => job[t].offset = 0 /\ job[t].len = Size
  /\ Running(t) => job[t].read_offset < job[t].len
  /\ job[t].waiting => /\ Running(t)
                       /\ offset[t] = job[t].offset + job[t].read_offset
                       /\ len[t] = job[t].len - job[t].read_offset
                       /\ pc[t] = "idle" => result[t].kind # "none"
  /\ job[t].method = "exact" /\ job[t].outcome = "ok" => job[t].read_offset = job[t].len

(* And when a count of zero is the end.                                    *)
EndInv(t) ==
  /\ result[t].kind = "ok" /\ result[t].count = 0 => DS!Available(offset[t], len[t]) = 0
  /\ job[t].method = "all" /\ job[t].outcome = "ok" => job[t].read_offset = Size
  /\ job[t].method = "exact" /\ job[t].outcome = "err" =>
       result[t].kind = "err" \/ job[t].offset + job[t].len > Size

(* What a thread knows of the cursor it reads with: the read began where   *)
(* the cursor still is.                                                    *)
UseInv(t) ==
  /\ using[t] \in {NoUse} \cup [kind : {"read", "exact"}, cursor : Cursors]
  /\ using[t].kind = "read" =>
       /\ job[t] = NoJob
       /\ offset[t] = position[using[t].cursor]
       /\ pc[t] = "idle" => result[t].kind # "none"
  /\ using[t].kind = "exact" =>
       /\ job[t].method = "exact"
       /\ job[t].offset = position[using[t].cursor]
  /\ pc[t] # "idle" => job[t].waiting \/ using[t].kind = "read"

(* No two threads read with one cursor (&mut self).                        *)
Exclusive ==
  \A t, u \in Threads :
    /\ using[t].kind # "none" /\ using[u].kind # "none"
    /\ using[t].cursor = using[u].cursor
    => t = u

CursorInv ==
  /\ IndInv
  /\ job \in [Threads -> Jobs]
  /\ DOMAIN using = Threads
  /\ \A t \in Threads : JobInv(t) /\ (ZeroIsEnd => EndInv(t)) /\ UseInv(t)
  /\ Exclusive
  /\ position \in [Cursors -> 0..MaxU64]
  /\ start \in [Cursors -> 0..MaxU64]
  /\ DOMAIN stream = Cursors
  /\ StitchedReads

-----------------------------------------------------------------------------
Same(u) ==
  /\ pc'[u] = pc[u] /\ offset'[u] = offset[u] /\ len'[u] = len[u] /\ result'[u] = result[u]
  /\ job'[u] = job[u] /\ using'[u] = using[u]
  /\ using[u].kind # "none" => position'[using[u].cursor] = position[using[u].cursor]

Knows(u) == JobInv(u) /\ (ZeroIsEnd => EndInv(u)) /\ UseInv(u)

LEMMA SameUser ==
  ASSUME NEW u \in Threads, Knows(u), Same(u)
  PROVE  Knows(u)'
<1>1. Running(u)' <=> Running(u)
  BY DEF Same, Running
<1>2. JobInv(u)'
  BY <1>1 DEF Knows, Same, JobInv
<1>3. ZeroIsEnd => EndInv(u)'
  BY DEF Knows, Same, EndInv
<1>4. UseInv(u)'
  BY DEF Knows, Same, UseInv, NoUse
<1> QED BY <1>2, <1>3, <1>4 DEF Knows, ZeroIsEnd

(* A step of t, or of no thread, that leaves the others alone.             *)
LEMMA Frame ==
  ASSUME CursorInv, IndInv', \A u \in Threads : Same(u) \/ Knows(u)',
         job' \in [Threads -> Jobs], DOMAIN using' = Threads, Exclusive',
         position' \in [Cursors -> 0..MaxU64], start' \in [Cursors -> 0..MaxU64],
         DOMAIN stream' = Cursors, StitchedReads'
  PROVE  CursorInv'
<1>1. \A u \in Threads : Knows(u)'
  BY SameUser DEF CursorInv, Knows
<1> QED BY <1>1 DEF CursorInv, Knows

(* A step of t that moves no cursor.                                       *)
LEMMA StayFrame ==
  ASSUME CursorInv, IndInv', NEW t \in Threads, \A u \in Threads \ {t} : Same(u), Knows(t)',
         NEW j \in Jobs, job' = [job EXCEPT ![t] = j], UNCHANGED places,
         DOMAIN using' = Threads, Exclusive'
  PROVE  CursorInv'
<1>1. job' \in [Threads -> Jobs]
  BY DEF CursorInv
<1>2. /\ position' \in [Cursors -> 0..MaxU64] /\ start' \in [Cursors -> 0..MaxU64]
      /\ DOMAIN stream' = Cursors
  BY DEF CursorInv, places
<1>3. StitchedReads'
  BY DEF CursorInv, places, StitchedReads
<1> QED BY <1>1, <1>2, <1>3, Frame

LEMMA NoJobType ==
  /\ NoJob \in Jobs
  /\ NoJob.data = DS!Slice(0, 0)
  /\ NoJob.method = "none" /\ NoJob.outcome = "none" /\ NoJob.waiting = FALSE
  /\ NoJob.read_offset = 0 /\ NoJob.offset = 0 /\ NoJob.len = 0
<1>1. [i \in 0..-1 |-> Blank] \in Prefixes(0) /\ 0 \in 0..MaxLen /\ 0 \in 0..MaxU64
  BY ProbeCacheAssumption DEF Prefixes
<1>2. [i \in 0..-1 |-> Blank] = DS!Slice(0, 0)
  BY DEF DS!Slice
<1> QED BY <1>1, <1>2 DEF NoJob, Jobs

(* The call of read_at ends: a count of zero is the end of the source.     *)
LEMMA StepEnd ==
  ASSUME ZeroIsEnd, IndInv, IndInv', NEW t \in Threads, Step(t),
         result'[t].kind = "ok", result'[t].count = 0, pc'[t] = "idle"
  PROVE  DS!Available(offset[t], len[t]) = 0
<1>1. offset' = offset /\ len' = len
  BY StepOutcome
<1>2. CASE TRUE \notin ShortReads
  <2>1. PICK n \in 0..DS!Available(offset[t], len[t]) :
             /\ result'[t] = DS!Ok(n, DS!Slice(offset[t], n))
             /\ n = DS!Available(offset[t], len[t])
    BY <1>1, <1>2 DEF IndInv, TypeOK, ReadsFaithful
  <2> QED BY <2>1 DEF DS!Ok
<1>3. CASE cache_limit = 0
  <2>1. /\ offset[t] \in Nat /\ len[t] \in Nat
    BY ProbeCacheAssumption DEF IndInv, TypeOK
  <2>2. ~InLoop(t)
    BY <1>3, <2>1 DEF IndInv, PartialReadFaithful, Cacheable
  <2>3. Bypass(t)
    BY <2>2 DEF Step, InLoop, Lookup, Fill, Insert, Copy
  <2>4. result'[t].kind # "err"
    OBVIOUS
  <2>5. PICK n \in InnerCounts(offset[t], len[t]) :
             result'[t] = DS!Ok(n, DS!Slice(offset[t], n))
    BY <2>3, <2>4 DEF Bypass, Finish, DS!Err, IndInv, TypeOK
  <2>6. n = 0
    BY <2>5 DEF DS!Ok
  <2>7. DS!Available(offset[t], len[t]) \in Nat
    BY <2>1, AvailableType
  <2> QED BY <2>6, <2>7 DEF InnerCounts
<1> QED BY <1>2, <1>3 DEF ZeroIsEnd

LEMMA UserTypes ==
  ASSUME CursorInv, NEW t \in Threads
  PROVE  /\ IndInv /\ Knows(t) /\ job[t] \in Jobs
         /\ pc \in [Threads -> {"idle", "bypass", "lookup", "fill", "insert", "copy"}]
         /\ offset \in [Threads -> 0..MaxU64] /\ len \in [Threads -> 0..MaxLen]
         /\ result \in [Threads -> Replies]
         /\ offset[t] \in Nat /\ len[t] \in Nat
         /\ MaxU64 \in Nat /\ MaxLen \in Nat /\ Size \in 0..MaxU64
  BY ProbeCacheAssumption DEF CursorInv, Knows, IndInv, TypeOK

(* read_at goes on, for whichever call it was made.                        *)
LEMMA StepKeeps ==
  ASSUME CursorInv, NEW t \in Threads, Step(t), UNCHANGED <<job, using, places>>
  PROVE  CursorInv'
<1>1. /\ IndInv /\ Knows(t) /\ job[t] \in Jobs
      /\ pc \in [Threads -> {"idle", "bypass", "lookup", "fill", "insert", "copy"}]
      /\ result \in [Threads -> Replies]
  BY UserTypes
<1>2. IndInv'
  BY <1>1, NextInv DEF Next
<1>3. pc[t] # "idle" /\ offset' = offset /\ len' = len
  BY <1>1, StepOutcome
<1>4. PICK l, r : /\ pc' = [pc EXCEPT ![t] = l]
                  /\ result' = [result EXCEPT ![t] = r]
                  /\ \/ l # "idle" /\ r = result[t]
                     \/ l = "idle" /\ r = DS!Err
                     \/ l = "idle" /\ r.kind = "ok"
  BY <1>1, StepOutcome
<1>5. /\ pc'[t] = l /\ result'[t] = r
      /\ \A u \in Threads \ {t} : pc'[u] = pc[u] /\ result'[u] = result[u]
  BY <1>1, <1>4
<1>6. \A u \in Threads \ {t} : Same(u)
  BY <1>3, <1>5 DEF Same, places
<1>7. l = "idle" => r.kind # "none"
  BY <1>4 DEF DS!Err
<1>8. JobInv(t)'
  BY <1>1, <1>3, <1>5, <1>7 DEF Knows, JobInv, Running
<1>9. UseInv(t)'
  BY <1>1, <1>3, <1>5, <1>7 DEF Knows, UseInv, places
<1>10. ASSUME ZeroIsEnd PROVE EndInv(t)'
  <2>1. result'[t].kind = "ok" /\ result'[t].count = 0 => DS!Available(offset[t], len[t]) = 0
    <3>1. CASE l = "idle"
      BY <1>1, <1>2, <1>5, <1>10, <3>1, StepEnd
    <3>2. CASE l # "idle"
      BY <1>1, <1>4, <1>5, <1>10, <3>2 DEF Knows, EndInv
    <3> QED BY <3>1, <3>2
  <2>2. ~(job[t].method = "exact" /\ job[t].outcome = "err")
    BY <1>1, <1>3, NoJobType DEF Knows, UseInv, JobInv, Running
  <2> QED BY <1>1, <1>3, <1>10, <2>1, <2>2 DEF Knows, EndInv
<1>11. Knows(t)'
  BY <1>8, <1>9, <1>10 DEF Knows, ZeroIsEnd
<1>12. job' = [job EXCEPT ![t] = job[t]] /\ DOMAIN using' = Threads /\ Exclusive'
  BY DEF CursorInv, Exclusive
<1> QED BY <1>1, <1>2, <1>6, <1>11, <1>12, StayFrame

(* The loop of read_exact_at or read_all calls read_at.                    *)
LEMMA IssueKeeps ==
  ASSUME CursorInv, NEW t \in Threads, Issue(t), UNCHANGED <<using, places>>
  PROVE  CursorInv'
<1> DEFINE j == job[t]
           o == job[t].offset
           n == job[t].len
           r == job[t].read_offset
<1>1. /\ IndInv /\ Knows(t) /\ j \in Jobs
      /\ pc \in [Threads -> {"idle", "bypass", "lookup", "fill", "insert", "copy"}]
      /\ offset \in [Threads -> 0..MaxU64] /\ len \in [Threads -> 0..MaxLen]
      /\ result \in [Threads -> Replies]
      /\ MaxU64 \in Nat /\ MaxLen \in Nat /\ Size \in 0..MaxU64
  BY UserTypes
<1>2. Running(t) /\ ~j.waiting
  BY DEF Issue
<1>3. /\ o \in Nat /\ n \in 0..MaxLen /\ r \in Nat /\ r < n
      /\ j.outcome = "running" /\ j.method # "none"
  BY <1>1, <1>2, NoJobType DEF Jobs, Knows, JobInv, Running
<1>4. using[t].kind # "read"
  BY <1>1, <1>3, NoJobType DEF Knows, UseInv
<1>5. pc[t] = "idle"
  BY <1>1, <1>2, <1>4 DEF Knows, UseInv
<1>6. DOMAIN using' = Threads /\ Exclusive'
  BY DEF CursorInv, Exclusive
<1>7. CASE o + r > MaxU64
  <2> DEFINE k == [j EXCEPT !.outcome = "err"]
  <2>1. job' = [job EXCEPT ![t] = k] /\ UNCHANGED vars
    BY <1>7 DEF Issue
  <2>2. k \in Jobs
    BY <1>1 DEF Jobs
  <2>3. /\ k.method = j.method /\ k.offset = o /\ k.len = n /\ k.read_offset = r
        /\ k.data = j.data /\ k.waiting = FALSE /\ k.outcome = "err"
    BY <1>1, <1>2 DEF Jobs
  <2>4. job'[t] = k /\ \A u \in Threads \ {t} : job'[u] = job[u]
    BY <2>1 DEF CursorInv
  <2> HIDE DEF k
  <2>5. IndInv'
    BY <1>1, <2>1, NextInv
  <2>6. \A u \in Threads \ {t} : Same(u)
    BY <2>1, <2>4 DEF Same, vars, places
  <2>7. JobInv(t)'
    BY <1>1, <1>3, <2>2, <2>3, <2>4 DEF Knows, JobInv, Running
  <2>8. o + n > Size
    BY <1>1, <1>3, <1>7
  <2>9. ZeroIsEnd => EndInv(t)'
    BY <1>1, <2>1, <2>3, <2>4, <2>8 DEF Knows, EndInv, vars
  <2>10. UseInv(t)'
    BY <1>1, <1>4, <1>5, <2>1, <2>3, <2>4 DEF Knows, UseInv, vars, places
  <2>11. Knows(t)'
    BY <2>7, <2>9, <2>10 DEF Knows, ZeroIsEnd
  <2> QED BY <1>6, <2>1, <2>2, <2>5, <2>6, <2>11, StayFrame
<1>8. CASE o + r <= MaxU64
  <2> DEFINE k == [j EXCEPT !.waiting = TRUE]
             m == n - r
  <2>1. job' = [job EXCEPT ![t] = k] /\ ReadAt(t, o + r, m)
    BY <1>1, <1>3, <1>8 DEF Issue
  <2>2. k \in Jobs /\ o + r \in 0..MaxU64 /\ m \in 0..MaxLen
    <3>1. o + r \in 0..MaxU64 /\ m \in 0..MaxLen
      BY <1>1, <1>3, <1>8
    <3> QED BY <1>1, <3>1 DEF Jobs
  <2>3. /\ k.method = j.method /\ k.offset = o /\ k.len = n /\ k.read_offset = r
        /\ k.data = j.data /\ k.waiting = TRUE /\ k.outcome = "running"
    BY <1>1, <1>3 DEF Jobs
  <2>4. job'[t] = k /\ \A u \in Threads \ {t} : job'[u] = job[u]
    BY <2>1 DEF CursorInv
  <2> HIDE DEF k, m
  <2>5. IndInv'
    BY <1>1, <2>1, <2>2, ReadAtInv
  <2>6. /\ pc'[t] # "idle" /\ offset'[t] = o + r /\ len'[t] = m /\ result'[t] = [kind |-> "none"]
        /\ \A u \in Threads \ {t} : /\ pc'[u] = pc[u] /\ offset'[u] = offset[u]
                                    /\ len'[u] = len[u] /\ result'[u] = result[u]
    BY <1>1, <2>1 DEF ReadAt
  <2>7. \A u \in Threads \ {t} : Same(u)
    BY <2>4, <2>6 DEF Same, places
  <2>8. JobInv(t)'
    BY <1>1, <1>3, <2>2, <2>3, <2>4, <2>6 DEF Knows, JobInv, Running, m
  <2>9. ZeroIsEnd => EndInv(t)'
    BY <2>3, <2>4, <2>6 DEF EndInv
  <2>10. UseInv(t)'
    BY <1>1, <1>4, <2>3, <2>4, <2>6 DEF Knows, UseInv, places
  <2>11. Knows(t)'
    BY <2>8, <2>9, <2>10 DEF Knows, ZeroIsEnd
  <2> QED BY <1>6, <2>1, <2>2, <2>5, <2>7, <2>11, StayFrame
<1> QED BY <1>1, <1>3, <1>7, <1>8

(* A run of bytes, followed by the next ones.                              *)
Join(before, r, bytes, n) ==
  [i \in 0..(r + n - 1) |-> IF i < r THEN before[i] ELSE bytes[i - r]]

LEMMA SliceJoin ==
  ASSUME NEW o \in Nat, NEW r \in Nat, NEW n \in Nat, NEW before, NEW bytes,
         before = DS!Slice(o, r), bytes = DS!Slice(o + r, n)
  PROVE  Join(before, r, bytes, n) = DS!Slice(o, r + n)
<1>1. ASSUME NEW i \in 0..(r + n - 1)
      PROVE  (IF i < r THEN before[i] ELSE bytes[i - r]) = Data[o + i]
  <2>1. CASE i < r
    BY <2>1 DEF DS!Slice
  <2>2. CASE i >= r
    <3>1. i - r \in 0..(n - 1) /\ (o + r) + (i - r) = o + i
      BY <2>2
    <3> QED BY <2>2, <3>1 DEF DS!Slice
  <2> QED BY <2>1, <2>2
<1>2. 0..(r + n - 1) = 0..((r + n) - 1)
  BY r + n - 1 = (r + n) - 1
<1>3. Join(before, r, bytes, n) = [i \in 0..(r + n - 1) |-> Data[o + i]]
  BY <1>1 DEF Join
<1> QED BY <1>2, <1>3, Zenon DEF DS!Slice

(* The answer of read_at is taken over.                                    *)
LEMMA CollectKeeps ==
  ASSUME CursorInv, NEW t \in Threads, Collect(t), UNCHANGED <<using, places>>
  PROVE  CursorInv'
<1> DEFINE j == job[t]
           o == job[t].offset
           m == job[t].len
           r == job[t].read_offset
           k == job'[t]
<1>1. /\ IndInv /\ Knows(t) /\ j \in Jobs /\ result[t] \in Replies
      /\ MaxU64 \in Nat /\ MaxLen \in Nat /\ Size \in 0..MaxU64
  BY UserTypes
<1>2. Running(t) /\ j.waiting /\ pc[t] = "idle" /\ UNCHANGED vars
  BY DEF Collect
<1>3. /\ o \in Nat /\ o \in 0..MaxU64 /\ m \in Nat /\ m \in 0..MaxLen /\ r \in Nat /\ r < m
      /\ j.outcome = "running" /\ j.method \in {"exact", "all"}
  BY <1>1, <1>2, NoJobType DEF Jobs, Knows, JobInv, Running
<1>4. /\ j.data = DS!Slice(o, r) /\ r <= DS!Available(o, m)
      /\ offset[t] = o + r /\ len[t] = m - r /\ result[t].kind # "none"
      /\ j.method = "all" => o = 0 /\ m = Size
  BY <1>1, <1>2 DEF Knows, JobInv
<1>5. using[t].kind # "read"
  BY <1>1, <1>3, NoJobType DEF Knows, UseInv
<1>6. /\ DOMAIN using' = Threads /\ Exclusive' /\ IndInv'
  BY <1>1, <1>2, NextInv DEF CursorInv, Exclusive
<1>7. /\ \A u \in Threads \ {t} : job'[u] = job[u]
      /\ k = IF result[t].kind = "err" THEN [j EXCEPT !.waiting = FALSE, !.outcome = "err"]
             ELSE Advance(j, result[t].count, result[t].data)
      /\ job' = [job EXCEPT ![t] = k]
  BY DEF Collect, CursorInv
<1>8. \A u \in Threads \ {t} : Same(u)
  BY <1>2, <1>7 DEF Same, vars, places
<1> DEFINE Good == /\ k \in Jobs
                   /\ k.method = j.method /\ k.offset = o /\ k.len = m /\ k.waiting = FALSE
                   /\ k.read_offset \in Nat /\ k.read_offset <= DS!Available(o, m)
                   /\ k.data = DS!Slice(o, k.read_offset)
                   /\ k.outcome \in {"running", "ok", "err"}
                   /\ k.outcome = "running" => k.read_offset < m
                   /\ k.method = "exact" /\ k.outcome = "ok" => k.read_offset = m
                   /\ ZeroIsEnd => /\ k.method = "all" /\ k.outcome = "ok" => k.read_offset = Size
                                   /\ k.method = "exact" /\ k.outcome = "err" =>
                                        result[t].kind = "err" \/ o + m > Size
<1>9. ASSUME result[t].kind = "err" PROVE Good
  <2>1. k = [j EXCEPT !.waiting = FALSE, !.outcome = "err"]
    BY <1>7, <1>9
  <2>2. k \in Jobs
    BY <1>1, <2>1 DEF Jobs
  <2>3. /\ k.method = j.method /\ k.offset = o /\ k.len = m /\ k.read_offset = r
        /\ k.data = j.data /\ k.waiting = FALSE /\ k.outcome = "err"
    BY <1>1, <2>1 DEF Jobs
  <2> QED BY <1>3, <1>4, <1>9, <2>2, <2>3
<1>10. ASSUME result[t].kind # "err" PROVE Good
  <2>1. result[t].kind = "ok"
    BY <1>1, <1>4, <1>10 DEF Replies, DS!NoReply, DS!Err
  <2>2. PICK n \in 0..DS!Available(o + r, m - r) : result[t] = DS!Ok(n, DS!Slice(o + r, n))
    BY <1>1, <1>4, <2>1 DEF IndInv, ReadsFaithful
  <2>3. result[t].count = n /\ result[t].data = DS!Slice(o + r, n)
    BY <2>2 DEF DS!Ok
  <2>4. k = Advance(j, n, DS!Slice(o + r, n))
    BY <1>7, <1>10, <2>3
  <2>5. n \in Nat /\ r + n <= m /\ r + n <= DS!Available(o, m)
    BY <1>1, <1>3, <1>4, <2>2 DEF DS!Available
  <2>6. CASE n = 0
    <3> DEFINE out == IF j.method = "exact" THEN "err" ELSE "ok"
    <3>1. k = [j EXCEPT !.waiting = FALSE, !.outcome = out]
      BY <2>4, <2>6 DEF Advance
    <3>2. out \in {"ok", "err"} /\ (out = "ok" <=> j.method = "all")
      BY <1>3
    <3> HIDE DEF out
    <3>3. k \in Jobs
      BY <1>1, <3>1, <3>2 DEF Jobs
    <3>4. /\ k.method = j.method /\ k.offset = o /\ k.len = m /\ k.read_offset = r
          /\ k.data = j.data /\ k.waiting = FALSE /\ k.outcome = out
      BY <1>1, <3>1 DEF Jobs
    <3>5. ASSUME ZeroIsEnd
          PROVE  o + r >= Size
      <4>1. DS!Available(o + r, m - r) = 0
        BY <1>1, <1>4, <2>1, <2>3, <2>6, <3>5 DEF Knows, EndInv
      <4> QED BY <1>1, <1>3, <4>1 DEF DS!Available
    <3>6. ZeroIsEnd => /\ j.method = "all" => r = Size
                       /\ j.method = "exact" => o + m > Size
      BY <1>1, <1>3, <1>4, <3>5 DEF DS!Available
    <3> QED BY <1>3, <1>4, <3>2, <3>3, <3>4, <3>6
  <2>7. CASE n # 0
    <3> DEFINE out == IF r + n < m THEN "running" ELSE "ok"
               before == j.data
               bytes == DS!Slice(o + r, n)
               d == Join(before, r, bytes, n)
               h == r + n
    <3>1. k = [j EXCEPT !.waiting = FALSE, !.read_offset = h, !.data = d, !.outcome = out]
      BY <2>4, <2>7 DEF Advance, Join
    <3>2. /\ out \in {"running", "ok"} /\ (out = "running" <=> h < m)
          /\ h \in 0..MaxLen /\ h \in Nat /\ h <= m /\ h <= DS!Available(o, m)
      BY <1>1, <1>3, <2>5
    <3>3. d = DS!Slice(o, h)
      <4>1. before = DS!Slice(o, r) /\ bytes = DS!Slice(o + r, n)
        BY <1>4
      <4> HIDE DEF before, bytes, o, r
      <4> QED BY <1>3, <2>5, <4>1, SliceJoin
    <3> HIDE DEF out, d, h
    <3>4. d \in Prefixes(h)
      BY <1>3, <3>2, <3>3, SliceType
    <3>5. k \in Jobs
      <4>1. d \in UNION {Prefixes(x) : x \in 0..MaxLen}
        BY <3>2, <3>4
      <4> QED BY <1>1, <3>1, <3>2, <4>1 DEF Jobs
    <3>6. /\ k.method = j.method /\ k.offset = o /\ k.len = m /\ k.read_offset = h
          /\ k.data = d /\ k.waiting = FALSE /\ k.outcome = out
      BY <1>1, <3>1 DEF Jobs
    <3>7. /\ j.method = "all" /\ out = "ok" => h = Size
          /\ out = "ok" => h = m
      BY <1>3, <1>4, <3>2
    <3> QED BY <1>3, <3>2, <3>3, <3>5, <3>6, <3>7
  <2> QED BY <2>6, <2>7
<1>11. Good
  BY <1>9, <1>10
<1>12. JobInv(t)'
  BY <1>3, <1>4, <1>11 DEF JobInv, Running
<1>13. ZeroIsEnd => EndInv(t)'
  BY <1>1, <1>2, <1>11 DEF Knows, EndInv, vars
<1>14. UseInv(t)'
  BY <1>1, <1>2, <1>5, <1>11 DEF Knows, UseInv, vars, places
<1>15. Knows(t)'
  BY <1>12, <1>13, <1>14 DEF Knows, ZeroIsEnd
<1> QED BY <1>6, <1>7, <1>8, <1>11, <1>15, StayFrame

LEMMA NoUseKind == NoUse.kind = "none"
  BY DEF NoUse

(* read_exact_at or read_all is entered, by itself or with a cursor that   *)
(* nobody holds.                                                           *)
LEMMA BeginKeeps ==
  ASSUME CursorInv, NEW t \in Threads, NEW m \in {"exact", "all"},
         NEW o \in 0..MaxU64, NEW n \in 0..MaxLen, Begin(t, m, o, n), Ready(t), UNCHANGED places,
         m = "all" => o = 0 /\ n = Size,
         \/ using' = using
         \/ \E c \in Cursors : /\ m = "exact" /\ ~Held(c) /\ o = position[c]
                               /\ using' = [using EXCEPT ![t] = Use("exact", c)]
  PROVE  CursorInv'
<1> DEFINE out == IF n = 0 THEN "ok" ELSE "running"
           k == [NoJob EXCEPT !.method = m, !.offset = o, !.len = n, !.outcome = out]
<1>1. /\ IndInv /\ Knows(t)
      /\ MaxU64 \in Nat /\ MaxLen \in Nat /\ Size \in 0..MaxU64
  BY UserTypes
<1>2. /\ job' = [job EXCEPT ![t] = k] /\ UNCHANGED vars
  BY DEF Begin
<1>3. /\ k \in Jobs /\ k.method = m /\ k.offset = o /\ k.len = n /\ k.read_offset = 0
      /\ k.data = NoJob.data /\ k.waiting = FALSE /\ k.outcome = out
  BY NoJobType DEF Jobs
<1>4. out \in {"ok", "running"} /\ (out = "ok" <=> n = 0)
  OBVIOUS
<1>5. job'[t] = k /\ \A u \in Threads \ {t} : job'[u] = job[u]
  BY <1>2 DEF CursorInv
<1> HIDE DEF k, out
<1>6. using[t] = NoUse /\ using[t].kind = "none" /\ ~Running(t)
  BY NoUseKind DEF Ready
<1>7. pc[t] = "idle"
  BY <1>1, <1>6 DEF Knows, UseInv, JobInv
<1>8. IndInv'
  BY <1>1, <1>2, NextInv
<1>9. DOMAIN using' = Threads /\ \A u \in Threads \ {t} : using'[u] = using[u]
  BY DEF CursorInv
<1>10. \A u \in Threads \ {t} : Same(u)
  BY <1>2, <1>5, <1>9 DEF Same, vars, places
<1>11. /\ o \in Nat /\ n \in Nat /\ 0 <= DS!Available(o, n) /\ k.data = DS!Slice(o, 0)
  <2>1. o \in Nat /\ n \in Nat
    BY <1>1
  <2>2. DS!Slice(o, 0) = DS!Slice(0, 0)
    BY DEF DS!Slice
  <2> QED BY <1>3, <2>1, <2>2, AvailableType, NoJobType
<1>12. JobInv(t)'
  BY <1>3, <1>4, <1>5, <1>11 DEF JobInv, Running
<1>13. ZeroIsEnd => EndInv(t)'
  BY <1>1, <1>2, <1>3, <1>4, <1>5 DEF Knows, EndInv, vars
<1>14. CASE using' = using
  <2>1. UseInv(t)' /\ Exclusive'
    BY <1>1, <1>2, <1>6, <1>7, <1>14 DEF Knows, UseInv, vars, CursorInv, Exclusive
  <2>2. Knows(t)'
    BY <1>12, <1>13, <2>1 DEF Knows, ZeroIsEnd
  <2> QED BY <1>2, <1>3, <1>8, <1>9, <1>10, <2>1, <2>2, StayFrame
<1>15. ASSUME NEW c \in Cursors, m = "exact", ~Held(c), o = position[c],
              using' = [using EXCEPT ![t] = Use("exact", c)]
       PROVE  CursorInv'
  <2>1. using'[t].kind = "exact" /\ using'[t].cursor = c
        /\ using'[t] \in [kind : {"read", "exact"}, cursor : Cursors]
    BY <1>15 DEF CursorInv, Use
  <2>2. UseInv(t)'
    BY <1>2, <1>3, <1>5, <1>7, <1>15, <2>1 DEF UseInv, vars, places
  <2>3. \A u \in Threads \ {t} : using[u].kind # "none" => using[u].cursor # c
    BY <1>15 DEF Held
  <2>4. Exclusive'
    BY <1>9, <2>1, <2>3 DEF CursorInv, Exclusive
  <2>5. Knows(t)'
    BY <1>12, <1>13, <2>2 DEF Knows, ZeroIsEnd
  <2> QED BY <1>2, <1>3, <1>8, <1>9, <1>10, <2>4, <2>5, StayFrame
<1> QED BY <1>14, <1>15

(* A cursor's read enters read_at.                                         *)
LEMMA ReadKeeps ==
  ASSUME CursorInv, NEW t \in Threads, NEW c \in Cursors, NEW n \in 0..MaxLen, Read(t, c, n)
  PROVE  CursorInv'
<1> DEFINE o == position[c]
           k == NoJob
<1>1. /\ IndInv /\ Knows(t)
      /\ pc \in [Threads -> {"idle", "bypass", "lookup", "fill", "insert", "copy"}]
      /\ offset \in [Threads -> 0..MaxU64] /\ len \in [Threads -> 0..MaxLen]
      /\ result \in [Threads -> Replies]
  BY UserTypes
<1>2. /\ Ready(t) /\ ~Held(c) /\ ReadAt(t, o, n)
      /\ job' = [job EXCEPT ![t] = k]
      /\ using' = [using EXCEPT ![t] = Use("read", c)]
      /\ UNCHANGED places
  BY DEF Read
<1>3. o \in 0..MaxU64
  BY DEF CursorInv
<1>4. IndInv'
  BY <1>1, <1>2, <1>3, ReadAtInv
<1>5. /\ k \in Jobs /\ k = NoJob /\ k.data = DS!Slice(0, 0) /\ k.method = "none" /\ k.outcome = "none"
      /\ k.waiting = FALSE /\ k.read_offset = 0 /\ k.offset = 0 /\ k.len = 0
  BY NoJobType
<1> HIDE DEF o, k
<1>6. /\ pc'[t] # "idle" /\ offset'[t] = o /\ len'[t] = n /\ result'[t] = [kind |-> "none"]
      /\ \A u \in Threads \ {t} : /\ pc'[u] = pc[u] /\ offset'[u] = offset[u]
                                  /\ len'[u] = len[u] /\ result'[u] = result[u]
  BY <1>1, <1>2 DEF ReadAt
<1>7. /\ job'[t] = k
      /\ \A u \in Threads \ {t} : job'[u] = job[u] /\ using'[u] = using[u]
      /\ DOMAIN using' = Threads
  BY <1>2 DEF CursorInv
<1>8. /\ using'[t].kind = "read" /\ using'[t].cursor = c
      /\ using'[t] \in [kind : {"read", "exact"}, cursor : Cursors]
  BY <1>2 DEF CursorInv, Use
<1>9. \A u \in Threads \ {t} : Same(u)
  BY <1>2, <1>6, <1>7 DEF Same, places
<1>10. JobInv(t)'
  <2>1. 0 <= DS!Available(0, 0)
    BY AvailableType
  <2> QED BY <1>5, <1>7, <2>1 DEF JobInv, Running
<1>11. EndInv(t)'
  BY <1>5, <1>6, <1>7 DEF EndInv
<1>12. UseInv(t)'
  BY <1>2, <1>5, <1>6, <1>7, <1>8 DEF UseInv, places, o
<1>13. Exclusive'
  <2>1. \A u \in Threads \ {t} : using[u].kind # "none" => using[u].cursor # c
    BY <1>2 DEF Held
  <2> QED BY <1>7, <1>8, <2>1 DEF CursorInv, Exclusive
<1>14. Knows(t)'
  BY <1>10, <1>11, <1>12 DEF Knows, ZeroIsEnd
<1> QED BY <1>2, <1>4, <1>5, <1>7, <1>9, <1>13, <1>14, StayFrame

(* The position follows the bytes of the source that were returned.        *)
LEMMA AdvancedStitched ==
  ASSUME CursorInv, NEW c \in Cursors, NEW m \in Nat,
         NEW n \in Nat, n <= DS!Available(position[c], m),
         NEW bytes, bytes = DS!Slice(position[c], n), Advanced(c, n, bytes)
  PROVE  /\ position' \in [Cursors -> 0..MaxU64] /\ start' \in [Cursors -> 0..MaxU64]
         /\ DOMAIN stream' = Cursors
         /\ \A d \in Cursors : d # c => position'[d] = position[d]
         /\ StitchedReads'
<1> DEFINE p == position[c]
           a == start[c]
           old == stream[c]
           more == [i \in 1..n |-> bytes[i - 1]]
<1>1. /\ position \in [Cursors -> 0..MaxU64] /\ start \in [Cursors -> 0..MaxU64]
      /\ DOMAIN stream = Cursors /\ StitchedReads
      /\ MaxU64 \in Nat /\ Size \in 0..MaxU64
  BY ProbeCacheAssumption DEF CursorInv
<1>2. /\ position' = [position EXCEPT ![c] = p + n] /\ start' = start
      /\ stream' = [stream EXCEPT ![c] = old \o more]
  BY DEF Advanced
<1>3. /\ p \in Nat /\ a \in Nat /\ a <= p /\ p <= MaxU64
      /\ old = [i \in 1..(p - a) |-> Data[a + i - 1]]
      /\ p > a => p <= Size
  BY <1>1 DEF StitchedReads
<1>4. p + n \in a..MaxU64 /\ (p + n > a => p + n <= Size) /\ p + n \in 0..MaxU64
  BY <1>1, <1>3 DEF DS!Available
<1>5. bytes = DS!Slice(p, n)
  OBVIOUS
<1> HIDE DEF p, a
<1>6. old \o more = [i \in 1..((p + n) - a) |-> Data[a + i - 1]]
  <2> DEFINE l == p - a
             S == {Data[x] : x \in Int}
  <2>1. l \in Nat /\ (p + n) - a = l + n /\ p = a + l
    BY <1>3
  <2> HIDE DEF l
  <2>2. old \in Seq(S) /\ Len(old) = l /\ \A i \in 1..l : old[i] = Data[a + i - 1]
    <3>1. old = [i \in 1..l |-> Data[a + i - 1]]
      BY <1>3 DEF l
    <3> HIDE DEF old
    <3>2. \A i \in 1..l : old[i] = Data[a + i - 1] /\ a + i - 1 \in Int
      BY <1>3, <2>1, <3>1
    <3>3. \A i \in 1..l : old[i] \in S
      BY <3>2
    <3>4. old \in [1..l -> S]
      BY <3>1, <3>3
    <3> HIDE DEF S
    <3> QED BY <2>1, <3>2, <3>4
  <2>3. \A i \in 1..n : more[i] = Data[a + (l + i) - 1]
    <3> SUFFICES ASSUME NEW i \in 1..n PROVE bytes[i - 1] = Data[a + (l + i) - 1]
      OBVIOUS
    <3>1. i - 1 \in 0..(n - 1) /\ p + (i - 1) = a + (l + i) - 1
      BY <1>3, <2>1
    <3> QED BY <1>5, <3>1 DEF DS!Slice
  <2>4. more \in Seq(S) /\ Len(more) = n
    <3>1. \A i \in 1..n : more[i] \in S
      <4> SUFFICES ASSUME NEW i \in 1..n PROVE more[i] \in S
        OBVIOUS
      <4>1. more[i] = Data[a + (l + i) - 1] /\ a + (l + i) - 1 \in Int
        BY <1>3, <2>1, <2>3
      <4> HIDE DEF more
      <4> QED BY <4>1
    <3> QED BY <3>1
  <2> HIDE DEF old, more, S
  <2> DEFINE all == old \o more
  <2>5. /\ Len(all) = l + n /\ all \in Seq(S)
        /\ \A i \in 1..(l + n) : all[i] = IF i <= l THEN old[i] ELSE more[i - l]
    BY <2>2, <2>4, ConcatProperties
  <2> HIDE DEF all
  <2>6. ASSUME NEW i \in 1..(l + n) PROVE all[i] = Data[a + i - 1]
    <3>1. CASE i <= l
      BY <2>1, <2>2, <2>5, <3>1
    <3>2. CASE i > l
      <4>1. i - l \in 1..n /\ l + (i - l) = i
        BY <2>1, <3>2
      <4>2. more[i - l] = Data[a + (l + (i - l)) - 1]
        BY <2>3, <4>1
      <4> QED BY <2>1, <2>5, <3>2, <4>1, <4>2
    <3> QED BY <2>1, <3>1, <3>2
  <2>7. all \in [1..(l + n) -> S]
    BY <2>5
  <2>8. all = [i \in 1..(l + n) |-> Data[a + i - 1]]
    BY <2>6, <2>7
  <2> QED BY <2>1, <2>8, Zenon DEF all
<1> HIDE DEF old, more
<1>7. /\ position' \in [Cursors -> 0..MaxU64] /\ start' \in [Cursors -> 0..MaxU64]
      /\ DOMAIN stream' = Cursors
      /\ position'[c] = p + n /\ start'[c] = a /\ stream'[c] = old \o more
      /\ \A d \in Cursors : d # c =>
           position'[d] = position[d] /\ start'[d] = start[d] /\ stream'[d] = stream[d]
  BY <1>1, <1>2, <1>4 DEF a
<1>8. StitchedReads'
  <2> SUFFICES ASSUME NEW d \in Cursors
               PROVE  /\ position'[d] \in start'[d]..MaxU64
                      /\ stream'[d] = [i \in 1..(position'[d] - start'[d]) |-> Data[start'[d] + i - 1]]
                      /\ position'[d] > start'[d] => position'[d] <= Size
    BY DEF StitchedReads
  <2>1. CASE d = c
    BY <1>4, <1>6, <1>7, <2>1
  <2>2. CASE d # c
    BY <1>1, <1>7, <2>2 DEF StitchedReads
  <2> QED BY <2>1, <2>2
<1> QED BY <1>7, <1>8

(* A call with a cursor ends: the cursor is released, and stays where it   *)
(* is or follows the bytes of the source that were returned.               *)
LEMMA ReleaseKeeps ==
  ASSUME CursorInv, NEW t \in Threads, Release(t), using[t].kind # "none",
         pc[t] = "idle", ~Running(t),
         \/ UNCHANGED places
         \/ \E n \in Nat, m \in Nat :
              LET c == using[t].cursor IN
              /\ n <= DS!Available(position[c], m)
              /\ Advanced(c, n, DS!Slice(position[c], n))
  PROVE  CursorInv'
<1> DEFINE c == using[t].cursor
<1>1. /\ IndInv /\ Knows(t)
  BY UserTypes
<1>2. UNCHANGED <<vars, job>> /\ using' = [using EXCEPT ![t] = NoUse]
  BY DEF Release, jobVars
<1>3. c \in Cursors
  BY <1>1, NoUseKind DEF Knows, UseInv
<1>4. /\ using'[t] = NoUse /\ using'[t].kind = "none" /\ DOMAIN using' = Threads
      /\ \A u \in Threads \ {t} : using'[u] = using[u]
  BY <1>2, NoUseKind DEF CursorInv
<1>5. IndInv'
  BY <1>1, <1>2, NextInv
<1>6. /\ position' \in [Cursors -> 0..MaxU64] /\ start' \in [Cursors -> 0..MaxU64]
      /\ DOMAIN stream' = Cursors /\ StitchedReads'
      /\ \A d \in Cursors : d # c => position'[d] = position[d]
  <2>1. CASE UNCHANGED places
    BY <2>1 DEF places, CursorInv, StitchedReads
  <2>2. CASE \E n \in Nat, m \in Nat :
               /\ n <= DS!Available(position[c], m)
               /\ Advanced(c, n, DS!Slice(position[c], n))
    BY <1>3, <2>2, AdvancedStitched
  <2> QED BY <2>1, <2>2
<1>7. \A u \in Threads \ {t} : Same(u)
  <2> SUFFICES ASSUME NEW u \in Threads \ {t}, using[u].kind # "none"
               PROVE  position'[using[u].cursor] = position[using[u].cursor]
    BY <1>2, <1>4 DEF Same, vars
  <2>1. using[u].cursor # c
    BY DEF CursorInv, Exclusive
  <2>2. using[u].cursor \in Cursors
    BY NoUseKind DEF CursorInv, UseInv
  <2> QED BY <1>6, <2>1, <2>2
<1>8. JobInv(t)' /\ (ZeroIsEnd => EndInv(t)')
  BY <1>1, <1>2 DEF Knows, JobInv, Running, EndInv, vars
<1>9. UseInv(t)'
  BY <1>2, <1>4 DEF UseInv, vars
<1>10. Knows(t)'
  BY <1>8, <1>9 DEF Knows, ZeroIsEnd
<1>11. Exclusive'
  BY <1>4 DEF CursorInv, Exclusive
<1>12. job' \in [Threads -> Jobs]
  BY <1>2 DEF CursorInv
<1> QED BY <1>4, <1>5, <1>6, <1>7, <1>10, <1>11, <1>12, Frame

LEMMA EndReadKeeps ==
  ASSUME CursorInv, NEW t \in Threads, EndRead(t)
  PROVE  CursorInv'
<1> DEFINE c == using[t].cursor
<1>1. /\ using[t].kind = "read" /\ pc[t] = "idle" /\ Release(t)
      /\ IF result[t].kind = "ok" THEN Advanced(c, result[t].count, result[t].data)
         ELSE UNCHANGED places
  BY DEF EndRead
<1>2. IndInv /\ Knows(t) /\ offset[t] \in Nat /\ len[t] \in Nat
  BY UserTypes
<1>3. ~Running(t) /\ offset[t] = position[c]
  BY <1>1, <1>2, NoJobType DEF Knows, UseInv, Running
<1>4. CASE result[t].kind # "ok"
  BY <1>1, <1>3, <1>4, ReleaseKeeps
<1>5. CASE result[t].kind = "ok"
  <2>1. PICK n \in 0..DS!Available(offset[t], len[t]) :
             result[t] = DS!Ok(n, DS!Slice(offset[t], n))
    BY <1>2, <1>5 DEF IndInv, ReadsFaithful
  <2>2. result[t].count = n /\ result[t].data = DS!Slice(offset[t], n)
    BY <2>1 DEF DS!Ok
  <2>3. n \in Nat /\ n <= DS!Available(position[c], len[t])
    BY <1>2, <1>3, <2>1, AvailableType
  <2>4. Advanced(c, n, DS!Slice(position[c], n))
    BY <1>1, <1>3, <1>5, <2>2
  <2> QED BY <1>1, <1>2, <1>3, <2>3, <2>4, ReleaseKeeps
<1> QED BY <1>4, <1>5

LEMMA EndExactKeeps ==
  ASSUME CursorInv, NEW t \in Threads, EndExact(t)
  PROVE  CursorInv'
<1> DEFINE c == using[t].cursor
           n == job[t].len
<1>1. /\ using[t].kind = "exact" /\ ~Running(t) /\ Release(t)
      /\ IF job[t].outcome = "ok" THEN Advanced(c, n, job[t].data)
         ELSE UNCHANGED places
  BY DEF EndExact
<1>2. IndInv /\ Knows(t) /\ job[t] \in Jobs /\ MaxLen \in Nat
  BY UserTypes
<1>3. /\ job[t].method = "exact" /\ job[t].offset = position[c]
      /\ ~job[t].waiting /\ pc[t] = "idle"
  BY <1>1, <1>2 DEF Knows, UseInv, JobInv
<1>4. CASE job[t].outcome # "ok"
  BY <1>1, <1>3, <1>4, ReleaseKeeps
<1>5. CASE job[t].outcome = "ok"
  <2>1. /\ n \in Nat /\ n <= DS!Available(position[c], n)
        /\ job[t].data = DS!Slice(position[c], n)
    BY <1>2, <1>3, <1>5 DEF Knows, JobInv, Jobs
  <2>2. Advanced(c, n, DS!Slice(position[c], n))
    BY <1>1, <1>5, <2>1
  <2> QED BY <1>1, <1>3, <2>1, <2>2, ReleaseKeeps
<1> QED BY <1>4, <1>5

(* A cursor that nobody reads with is created, forked or moved.            *)
LEMMA MoveToKeeps ==
  ASSUME CursorInv, NEW c \in Cursors, NEW p \in 0..MaxU64, MoveTo(c, p)
  PROVE  CursorInv'
<1>1. /\ position' = [position EXCEPT ![c] = p] /\ start' = [start EXCEPT ![c] = p]
      /\ stream' = [stream EXCEPT ![c] = <<>>]
      /\ UNCHANGED <<vars, job, using>> /\ ~Held(c)
  BY DEF MoveTo, jobVars
<1>2. /\ position \in [Cursors -> 0..MaxU64] /\ start \in [Cursors -> 0..MaxU64]
      /\ DOMAIN stream = Cursors /\ StitchedReads /\ MaxU64 \in Nat
  BY ProbeCacheAssumption DEF CursorInv
<1>3. /\ position' \in [Cursors -> 0..MaxU64] /\ start' \in [Cursors -> 0..MaxU64]
      /\ DOMAIN stream' = Cursors
      /\ position'[c] = p /\ start'[c] = p /\ stream'[c] = <<>>
      /\ \A d \in Cursors : d # c =>
           position'[d] = position[d] /\ start'[d] = start[d] /\ stream'[d] = stream[d]
  BY <1>1, <1>2
<1>4. StitchedReads'
  <2> SUFFICES ASSUME NEW d \in Cursors
               PROVE  /\ position'[d] \in start'[d]..MaxU64
                      /\ stream'[d] = [i \in 1..(position'[d] - start'[d]) |-> Data[start'[d] + i - 1]]
                      /\ position'[d] > start'[d] => position'[d] <= Size
    BY DEF StitchedReads
  <2>1. CASE d = c
    <3>1. 1..(p - p) = {} /\ p \in p..MaxU64 /\ ~(p > p)
      BY <1>2
    <3>2. <<>> = [i \in {} |-> Data[p + i - 1]]
      OBVIOUS
    <3> QED BY <1>3, <2>1, <3>1, <3>2
  <2>2. CASE d # c
    BY <1>2, <1>3, <2>2 DEF StitchedReads
  <2> QED BY <2>1, <2>2
<1>5. \A u \in Threads : Same(u)
  <2> SUFFICES ASSUME NEW u \in Threads, using[u].kind # "none"
               PROVE  position'[using[u].cursor] = position[using[u].cursor]
    BY <1>1 DEF Same, vars
  <2>1. using[u].cursor # c
    BY <1>1 DEF Held
  <2>2. using[u].cursor \in Cursors
    BY NoUseKind DEF CursorInv, UseInv
  <2> QED BY <1>3, <2>1, <2>2
<1>6. IndInv'
  BY <1>1, NextInv DEF CursorInv
<1>7. job' \in [Threads -> Jobs] /\ DOMAIN using' = Threads /\ Exclusive'
  BY <1>1 DEF CursorInv, Exclusive
<1> QED BY <1>3, <1>4, <1>5, <1>6, <1>7, Frame

LEMMA CursorInitInv == CursorInit => CursorInv
<1> SUFFICES ASSUME CursorInit PROVE CursorInv
  OBVIOUS
<1>1. /\ Init /\ job = [t \in Threads |-> NoJob] /\ using = [t \in Threads |-> NoUse]
      /\ position = [c \in Cursors |-> 0] /\ start = [c \in Cursors |-> 0]
      /\ stream = [c \in Cursors |-> <<>>]
  BY DEF CursorInit, JobInit
<1>2. IndInv
  BY <1>1, InitInv
<1>3. /\ job \in [Threads -> Jobs] /\ DOMAIN using = Threads /\ DOMAIN stream = Cursors
      /\ position \in [Cursors -> 0..MaxU64] /\ start \in [Cursors -> 0..MaxU64]
  BY <1>1, NoJobType, ProbeCacheAssumption
<1>4. ASSUME NEW t \in Threads
      PROVE  JobInv(t) /\ (ZeroIsEnd => EndInv(t)) /\ UseInv(t)
  <2>1. job[t] = NoJob /\ using[t] = NoUse /\ result[t] = [kind |-> "none"] /\ pc[t] = "idle"
    BY <1>1 DEF Init
  <2>2. 0 <= DS!Available(0, 0)
    BY AvailableType
  <2>3. JobInv(t)
    BY <2>1, <2>2, NoJobType DEF JobInv, Running
  <2>4. EndInv(t)
    BY <2>1, NoJobType DEF EndInv
  <2>5. UseInv(t)
    BY <2>1, NoUseKind DEF UseInv
  <2> QED BY <2>3, <2>4, <2>5
<1>5. Exclusive
  BY <1>1, NoUseKind DEF Exclusive
<1>6. StitchedReads
  <2> SUFFICES ASSUME NEW c \in Cursors
               PROVE  /\ position[c] \in start[c]..MaxU64
                      /\ stream[c] = [i \in 1..(position[c] - start[c]) |-> Data[start[c] + i - 1]]
                      /\ position[c] > start[c] => position[c] <= Size
    BY DEF StitchedReads
  <2>1. position[c] = 0 /\ start[c] = 0 /\ stream[c] = <<>>
    BY <1>1
  <2>2. 1..(0 - 0) = {} /\ 0 \in 0..MaxU64
    BY ProbeCacheAssumption
  <2>3. <<>> = [i \in {} |-> Data[0 + i - 1]]
    OBVIOUS
  <2> QED BY <2>1, <2>2, <2>3
<1> QED BY <1>2, <1>3, <1>4, <1>5, <1>6 DEF CursorInv

LEMMA CursorNextInv ==
  ASSUME Size <= MaxLen
  PROVE  CursorInv /\ [CursorNext]_cursorVars => CursorInv'
<1> SUFFICES ASSUME CursorInv, [CursorNext]_cursorVars PROVE CursorInv'
  OBVIOUS
<1>1. /\ MaxU64 \in Nat /\ MaxLen \in Nat /\ Size \in 0..MaxU64 /\ Size \in 0..MaxLen /\ 0 \in 0..MaxU64
      /\ position \in [Cursors -> 0..MaxU64]
  BY ProbeCacheAssumption DEF CursorInv
<1>2. ASSUME NEW t \in Threads, Direct(t) PROVE CursorInv'
  <2>1. CASE \E o \in 0..MaxU64, n \in 0..MaxLen : ReadExactAt(t, o, n)
    BY <1>2, <2>1, BeginKeeps DEF Direct, ReadExactAt
  <2>2. CASE ReadAll(t)
    BY <1>1, <1>2, <2>2, BeginKeeps DEF Direct, ReadAll
  <2> QED BY <1>2, <2>1, <2>2 DEF Direct
<1>3. ASSUME NEW t \in Threads, CursorStep(t) PROVE CursorInv'
  BY <1>3, StepKeeps, IssueKeeps, CollectKeeps, EndReadKeeps, EndExactKeeps DEF CursorStep, JobStep
<1>4. ASSUME NEW t \in Threads, NEW c \in Cursors, NEW n \in 0..MaxLen, ReadExactly(t, c, n)
      PROVE  CursorInv'
  BY <1>1, <1>4, BeginKeeps DEF ReadExactly, ReadExactAt
<1>5. ASSUME NEW c \in Cursors, NEW d \in Cursors, Fork(c, d) PROVE CursorInv'
  BY <1>1, <1>5, MoveToKeeps DEF Fork
<1>6. ASSUME NEW c \in Cursors, NEW p \in 0..MaxU64, ForkAt(c, p) PROVE CursorInv'
  BY <1>6, MoveToKeeps DEF ForkAt
<1>7. ASSUME NEW c \in Cursors, NEW whence, NEW by, Seek(c, whence, by) PROVE CursorInv'
  BY <1>7, MoveToKeeps DEF Seek
<1>8. CASE UNCHANGED cursorVars
  <2>1. /\ UNCHANGED <<vars, job, using, position, start, stream>>
    BY <1>8 DEF cursorVars, jobVars, places
  <2>2. IndInv'
    BY <2>1, NextInv DEF CursorInv
  <2>3. \A u \in Threads : Same(u)
    BY <2>1 DEF Same, vars
  <2>4. /\ job' \in [Threads -> Jobs] /\ DOMAIN using' = Threads /\ Exclusive'
        /\ position' \in [Cursors -> 0..MaxU64] /\ start' \in [Cursors -> 0..MaxU64]
        /\ DOMAIN stream' = Cursors /\ StitchedReads'
    BY <2>1 DEF CursorInv, Exclusive, StitchedReads
  <2> QED BY <2>2, <2>3, <2>4, Frame
<1> QED BY <1>2, <1>3, <1>4, <1>5, <1>6, <1>7, <1>8, ReadKeeps DEF CursorNext

(* MaxLen bounds the buffers of the model, and read_all passes one of the  *)
(* size of the source.                                                     *)
LEMMA CursorInvariance ==
  ASSUME Size <= MaxLen
  PROVE  CursorSpec => []CursorInv
  BY CursorInitInv, CursorNextInv, PTL DEF CursorSpec

(* What a cursor has returned since it was created or last sought is the   *)
(* source from there to its position: a read that fails does not move it,  *)
(* and however short the source answers no byte is skipped or repeated     *)
(* (DataSourceCursor::read, read_exact, seek, fork).                       *)
THEOREM CursorsStitch ==
  ASSUME Size <= MaxLen
  PROVE  CursorSpec => []StitchedReads
<1>1. CursorInv => StitchedReads
  BY DEF CursorInv
<1> QED BY <1>1, CursorInvariance, PTL

(* An exact read that succeeds has filled its buffer with the bytes at its *)
(* offset, however short the source answers (read_exact_at).               *)
THEOREM ExactReads ==
  ASSUME Size <= MaxLen
  PROVE  CursorSpec => []ExactIsExact
<1>1. CursorInv => ExactIsExact
  <2> SUFFICES ASSUME CursorInv, NEW t \in Threads,
                      job[t].method = "exact", job[t].outcome = "ok"
               PROVE  /\ DOMAIN job[t].data = 0..(job[t].len - 1)
                      /\ \A i \in DOMAIN job[t].data :
                           /\ job[t].offset + i < Size
                           /\ job[t].data[i] = Data[job[t].offset + i]
    BY DEF ExactIsExact
  <2> DEFINE o == job[t].offset
             n == job[t].len
  <2>1. Knows(t) /\ job[t] \in Jobs /\ MaxU64 \in Nat /\ MaxLen \in Nat /\ Size \in 0..MaxU64
    BY UserTypes
  <2>2. /\ job[t].data = DS!Slice(o, n) /\ n <= DS!Available(o, n)
        /\ o \in Nat /\ n \in Nat
    BY <2>1 DEF Knows, JobInv, Jobs
  <2>3. \A i \in 0..(n - 1) : o + i < Size
    BY <2>1, <2>2 DEF DS!Available
  <2> QED BY <2>2, <2>3 DEF DS!Slice
<1> QED BY <1>1, CursorInvariance, PTL

(* When a count of zero means the end of the source, an exact read of      *)
(* bytes the source has fails only if a read_at failed.  (With a cache and *)
(* a source that answers short it may: see ReadExactShort.cfg.)            *)
THEOREM ExactReadsFailPastEnd ==
  ASSUME Size <= MaxLen, TRUE \notin ShortReads \/ cache_limit = 0
  PROVE  CursorSpec => []ExactFailsOnlyPastEnd
<1>1. CursorInv => ExactFailsOnlyPastEnd
  BY DEF CursorInv, EndInv, ExactFailsOnlyPastEnd, ZeroIsEnd
<1> QED BY <1>1, CursorInvariance, PTL

(* And read_all returns the whole source.                                  *)
THEOREM AllReadsWhole ==
  ASSUME Size <= MaxLen, TRUE \notin ShortReads \/ cache_limit = 0
  PROVE  CursorSpec => []AllIsWhole
<1>1. CursorInv => AllIsWhole
  BY DEF CursorInv, JobInv, EndInv, AllIsWhole, ZeroIsEnd
<1> QED BY <1>1, CursorInvariance, PTL
=============================================================================
