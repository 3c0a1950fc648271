----------------------------- MODULE ProbeCache -----------------------------
(***************************************************************************)
(* ProbeCachedDataSource (keramics-drivers/src/source/probe_cache.rs): a   *)
(* data source that answers small reads near the start of another source   *)
(* from windows of that source it has read before.  Threads share it       *)
(* through an Arc.  The windows live in a HashMap behind an RwLock; the    *)
(* lock is released between the lookup of a window and its insertion, so   *)
(* that two threads may both miss and both read the same window.           *)
(*                                                                         *)
(* One action per critical section or call of the inner source.  The       *)
(* inner source is modelled by what the DataSource trait lets it answer:   *)
(* an error, or a count of bytes from the offset on.  A source that is     *)
(* short may answer fewer bytes than it has (as a positioned read of a     *)
(* file may), another number each time, and then it is not at its end.     *)
(***************************************************************************)
EXTENDS Integers

CONSTANTS Threads,
          Size,          \* inner.size()
          Data,          \* the inner source's bytes: a function on 0..(Size - 1)
          MaxU64,        \* the largest u64
          MaxLen,        \* bound: the longest buffer passed to read_at
          window_size,   \* options of with_options
          cache_limit,
          ShortReads,    \* the inner sources considered: does one answer short?
          InnerFails,    \* may the inner source fail?
          Blank          \* what a byte of the caller's buffer is before the read

ASSUME ProbeCacheAssumption ==
  /\ MaxU64 \in Nat
  /\ Size \in 0..MaxU64
  /\ MaxLen \in Nat
  /\ DOMAIN Data = 0..(Size - 1)
  /\ window_size \in Nat
  /\ cache_limit \in 0..MaxU64
  /\ ShortReads \subseteq BOOLEAN
  /\ InnerFails \in BOOLEAN

VARIABLES short,     \* does inner answer short?  (a property of the source)
          windows,   \* the HashMap: window offset -> window
          pc,        \* pc[t]: where t is in read_at
          offset,    \* the arguments of t's read_at
          len,
          buf,       \* t's buffer
          written,   \* the local variable of read_at
          window,    \* the window t holds an Arc of
          result     \* the outcome of t's last read_at

vars == <<short, windows, pc, offset, len, buf, written, window, result>>
locals == <<offset, len, buf, written, window>>

(* Instantiated for the abstract replies, Available and Slice.             *)
DS == INSTANCE DataSource WITH
        Readers <- Threads,
        call    <- [t \in Threads |->
                      IF pc[t] = "idle" THEN [kind |-> "none"]
                      ELSE [kind |-> "read_at", offset |-> offset[t], len |-> len[t]]],
        reply   <- result

(* with_options: a window has at least one byte.                           *)
WindowSize == IF window_size < 1 THEN 1 ELSE window_size

NoWindow == [len |-> 0, bytes |-> [i \in 0..-1 |-> 0]]

(* fn cacheable: reads that end within the limit, with checked_add.        *)
Cacheable(o, n) == /\ n # 0
                   /\ o + n <= MaxU64
                   /\ o + n <= cache_limit

(* A slip: what was written before is forgotten.                           *)
RequestOffset(t) == offset[t]

absolute_offset(t) == offset[t] + written[t]
window_offset(t)   == (absolute_offset(t) \div WindowSize) * WindowSize

(* What the loop copies from a window: up to its end, or the buffer's.     *)
window_inner_offset(t) == absolute_offset(t) - window_offset(t)

(* A slip: the last byte of the window is left out.                        *)
AvailableOffByOne(t) ==
  LET there == window[t].len - window_inner_offset(t) - 1
      left  == len[t] - written[t]
  IN  IF there <= left THEN there ELSE left

available(t) ==
  LET there == window[t].len - window_inner_offset(t)
      left  == len[t] - written[t]
  IN  IF there <= left THEN there ELSE left

(* The counts the inner source may answer to read_at(o, n bytes).          *)
InnerCounts(o, n) ==
  IF short /\ DS!Available(o, n) > 0
  THEN 1..DS!Available(o, n)
  ELSE {DS!Available(o, n)}

Finish(t, r) == /\ result' = [result EXCEPT ![t] = r]
                /\ pc' = [pc EXCEPT ![t] = "idle"]
                /\ UNCHANGED short

Goto(t, l) == /\ pc' = [pc EXCEPT ![t] = l]
              /\ UNCHANGED <<result, short>>

Init == /\ short \in ShortReads
        /\ windows = [w \in {} |-> NoWindow]
        /\ pc      = [t \in Threads |-> "idle"]
        /\ offset  = [t \in Threads |-> 0]
        /\ len     = [t \in Threads |-> 0]
        /\ buf     = [t \in Threads |-> [i \in 0..-1 |-> Blank]]
        /\ written = [t \in Threads |-> 0]
        /\ window  = [t \in Threads |-> NoWindow]
        /\ result  = [t \in Threads |-> [kind |-> "none"]]

(* read_at(o, n bytes) is entered: too far or empty reads bypass the cache. *)
ReadAt(t, o, n) ==
  /\ pc[t] = "idle"
  /\ pc' = [pc EXCEPT ![t] = IF Cacheable(o, n) THEN "lookup" ELSE "bypass"]
  /\ offset'  = [offset EXCEPT ![t] = o]
  /\ len'     = [len EXCEPT ![t] = n]
  /\ buf'     = [buf EXCEPT ![t] = [i \in 0..(n - 1) |-> Blank]]
  /\ written' = [written EXCEPT ![t] = 0]
  /\ window'  = [window EXCEPT ![t] = NoWindow]
  /\ result'  = [result EXCEPT ![t] = [kind |-> "none"]]
  /\ UNCHANGED <<short, windows>>

(* return self.inner.read_at(offset, buf)                                  *)
Bypass(t) ==
  /\ pc[t] = "bypass"
  /\ \/ \E n \in InnerCounts(offset[t], len[t]) :
           Finish(t, DS!Ok(n, DS!Slice(offset[t], n)))
     \/ InnerFails /\ Finish(t, DS!Err)
  /\ UNCHANGED <<windows, locals>>

(* read_window: the lookup under the read lock.                            *)
Lookup(t) ==
  /\ pc[t] = "lookup"
  /\ IF window_offset(t) \in DOMAIN windows
     THEN /\ window' = [window EXCEPT ![t] = windows[window_offset(t)]]
          /\ Goto(t, "copy")
     ELSE /\ Goto(t, "fill")
          /\ UNCHANGED window
  /\ UNCHANGED <<windows, offset, len, buf, written>>

(* A slip: the window is read from the offset of the request.              *)
FillUnaligned(t) ==
  /\ pc[t] = "fill"
  /\ \E n \in InnerCounts(absolute_offset(t), WindowSize) :
        window' = [window EXCEPT ![t] =
                     [len |-> n, bytes |-> DS!Slice(absolute_offset(t), n)]]
  /\ Goto(t, "insert")
  /\ UNCHANGED <<windows, offset, len, buf, written>>

(* read_window: inner.read_at of a whole window, no lock held.             *)
Fill(t) ==
  /\ pc[t] = "fill"
  /\ \/ /\ \E n \in InnerCounts(window_offset(t), WindowSize) :
             window' = [window EXCEPT ![t] =
                          [len |-> n, bytes |-> DS!Slice(window_offset(t), n)]]
        /\ Goto(t, "insert")
     \/ /\ InnerFails
        /\ Finish(t, DS!Err)
        /\ UNCHANGED window
  /\ UNCHANGED <<windows, offset, len, buf, written>>

(* A slip: insert instead of entry().or_insert_with(): the last one wins.  *)
InsertOverwriting(t) ==
  LET w == window_offset(t) IN
  /\ pc[t] = "insert"
  /\ windows' = [v \in DOMAIN windows \cup {w} |->
                   IF v = w THEN window[t] ELSE windows[v]]
  /\ Goto(t, "copy")
  /\ UNCHANGED locals

(* read_window: entry(window_offset).or_insert_with under the write lock:  *)
(* a window that another thread inserted meanwhile wins.                   *)
Insert(t) ==
  LET w == window_offset(t) IN
  /\ pc[t] = "insert"
  /\ IF w \in DOMAIN windows
     THEN /\ window' = [window EXCEPT ![t] = windows[w]]
          /\ UNCHANGED windows
     ELSE /\ windows' = [v \in DOMAIN windows \cup {w} |->
                           IF v = w THEN window[t] ELSE windows[v]]
          /\ UNCHANGED window
  /\ Goto(t, "copy")
  /\ UNCHANGED <<offset, len, buf, written>>

(* The rest of the loop's body.                                            *)
Copy(t) ==
  LET inner == window_inner_offset(t)
      n     == available(t)
      bytes == [i \in 0..(len[t] - 1) |->
                  IF i \in written[t]..(written[t] + n - 1)
                  THEN window[t].bytes[inner + i - written[t]]
                  ELSE buf[t][i]]
      done  == written[t] + n
  IN
  /\ pc[t] = "copy"
  /\ IF inner >= window[t].len
     THEN /\ Finish(t, DS!Ok(written[t], [i \in 0..(written[t] - 1) |-> buf[t][i]]))
          /\ UNCHANGED <<buf, written>>
     ELSE /\ buf'     = [buf EXCEPT ![t] = bytes]
          /\ written' = [written EXCEPT ![t] = done]
          /\ IF window[t].len < WindowSize \/ done >= len[t]
             THEN Finish(t, DS!Ok(done, [i \in 0..(done - 1) |-> bytes[i]]))
             ELSE Goto(t, "lookup")
  /\ window' = [window EXCEPT ![t] = NoWindow]          \* the Arc goes out of scope
  /\ UNCHANGED <<windows, offset, len>>

Step(t) == Bypass(t) \/ Lookup(t) \/ Fill(t) \/ Insert(t) \/ Copy(t)

Next == \E t \in Threads :
          \/ \E o \in 0..MaxU64, n \in 0..MaxLen : ReadAt(t, o, n)
          \/ Step(t)

(* A thread that is inside read_at keeps running: the locks are held for a *)
(* bounded time only, and the inner source answers.                        *)
Fairness == \A t \in Threads : WF_vars(Step(t))

Spec == Init /\ [][Next]_vars /\ Fairness
-----------------------------------------------------------------------------

Prefixes(n) == [0..(n - 1) -> DS!Bytes]
Window  == UNION {[len : {n}, bytes : Prefixes(n)] : n \in 0..WindowSize}
Buffers == UNION {[0..(n - 1) -> DS!Bytes \cup {Blank}] : n \in 0..MaxLen}
Replies == {DS!NoReply, DS!Err}
             \cup UNION {[kind : {"ok"}, count : {n}, data : Prefixes(n)] : n \in 0..MaxLen}

(* Every variable has the type its Rust declaration gives it; positions in *)
(* the buffer never pass its end.                                          *)
TypeOK ==
  /\ short \in ShortReads
  /\ DOMAIN windows \subseteq 0..MaxU64
  /\ windows \in [DOMAIN windows -> Window]
  /\ pc \in [Threads -> {"idle", "bypass", "lookup", "fill", "insert", "copy"}]
  /\ offset \in [Threads -> 0..MaxU64]
  /\ len \in [Threads -> 0..MaxLen]
  /\ written \in [Threads -> 0..MaxLen]
  /\ window \in [Threads -> Window]
  /\ buf \in [Threads -> Buffers]
  /\ result \in [Threads -> Replies]
  /\ \A t \in Threads : /\ DOMAIN buf[t] = 0..(len[t] - 1)
                        /\ written[t] <= len[t]

(* A window of the cache is a run of the inner source's bytes at its own   *)
(* offset, never at another window's, and (unless the inner source answers *)
(* short) the longest such run: a short window means the end of the source *)
(* (read_window; read_at relies on it when it stops after a short window). *)
FaithfulWindow(w, win) ==
  \E n \in 0..DS!Available(w, WindowSize) :
     /\ win = [len |-> n, bytes |-> DS!Slice(w, n)]
     /\ ~short => n = DS!Available(w, WindowSize)

CachedWindowsFaithful ==
  \A w \in DOMAIN windows : FaithfulWindow(w, windows[w])

(* The cache holds windows of the first cache_limit bytes only, aligned,   *)
(* so that it never grows past the limit plus one window (cacheable).      *)
CacheBounded ==
  \A w \in DOMAIN windows : w % WindowSize = 0 /\ w < cache_limit

(* Between the lookup and the insertion of a window no lock is held, yet a *)
(* thread copies from the window every other thread sees: whoever inserted *)
(* first wins (or_insert_with, then entry.clone()).                        *)
CopiesSharedWindow ==
  \A t \in Threads : pc[t] = "copy" =>
     /\ window_offset(t) \in DOMAIN windows
     /\ window[t] = windows[window_offset(t)]

(* A read that succeeds returns bytes of the source at the offset that was *)
(* asked for, across any number of windows, hit or missed, and as many as  *)
(* the source has when the inner source does not answer short.             *)
ReadsFaithful ==
  \A t \in Threads : result[t].kind = "ok" =>
     \E n \in 0..DS!Available(offset[t], len[t]) :
        /\ result[t] = DS!Ok(n, DS!Slice(offset[t], n))
        /\ ~short => n = DS!Available(offset[t], len[t])

(* Why the above holds: a thread inside the loop has filled a proper part  *)
(* of its buffer, with bytes of the source, and the window it is about to  *)
(* insert is faithful though no lock protects it.                          *)
InLoop(t) == pc[t] \in {"lookup", "fill", "insert", "copy"}

PartialReadFaithful ==
  \A t \in Threads :
    /\ InLoop(t) => /\ Cacheable(offset[t], len[t])
                    /\ written[t] < len[t]
                    /\ written[t] <= DS!Available(offset[t], len[t])
                    /\ \A i \in 0..(written[t] - 1) : buf[t][i] = Data[offset[t] + i]
    /\ pc[t] = "insert" => FaithfulWindow(window_offset(t), window[t])

IndInv == /\ TypeOK
          /\ CachedWindowsFaithful
          /\ CacheBounded
          /\ CopiesSharedWindow
          /\ ReadsFaithful
          /\ PartialReadFaithful

(* A cached window is never replaced or dropped, though two threads may    *)
(* both have missed it and hold different answers of an inner source that  *)
(* answers short: a reader that comes later sees the bytes earlier readers *)
(* saw (entry().or_insert_with()).                                         *)
WindowsAreStable ==
  [][\A w \in DOMAIN windows : w \in DOMAIN windows' /\ windows'[w] = windows[w]]_vars

(* Wrapping a source in the probe cache changes nothing a caller can see:  *)
(* over a source that does not answer short it is one that does not.       *)
ImplementsDataSource == DS!Spec

(* Every read_at returns: the loop over the windows makes progress.        *)
EveryReadReturns == \A t \in Threads : (pc[t] # "idle") ~> (pc[t] = "idle")
=============================================================================
