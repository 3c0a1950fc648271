----------------------------- MODULE DataSource -----------------------------
(***************************************************************************)
(* What a keramics-drivers data source promises its callers, whatever is   *)
(* behind it: an immutable sequence of bytes that any number of readers    *)
(* may read at any offset at the same time.  A reader calls                *)
(* read_at(offset, buf) and is eventually answered either with an error,   *)
(* or with a count and the bytes of the source from that offset on: all    *)
(* that it has, or, of a source that answers short, any number of them.    *)
(* (trait DataSource, keramics-drivers/src/source/data_source.rs.)         *)
(*                                                                         *)
(* The drivers are shown to implement this specification: see ProbeCache   *)
(* and EwfReader.                                                          *)
(***************************************************************************)
EXTENDS Integers

CONSTANTS Readers,   \* the threads that share the source
          Size,      \* DataSource::size()
          Data,      \* the bytes: a function on 0..(Size - 1)
          MaxU64,    \* the largest u64
          MaxLen     \* bound: the longest buffer a reader passes

VARIABLES call,      \* call[r]: the read_at r is in, or NoCall
          reply,     \* reply[r]: the answer to r's last read_at, or NoReply
          short      \* may it answer with fewer bytes than it has?

vars == <<call, reply, short>>

NoCall  == [kind |-> "none"]
NoReply == [kind |-> "none"]
Err     == [kind |-> "err"]
ReadCall(o, n) == [kind |-> "read_at", offset |-> o, len |-> n]
Ok(n, bytes)   == [kind |-> "ok", count |-> n, data |-> bytes]

(* Every value a byte of the source has.                                  *)
Bytes == {Data[p] : p \in 0..(Size - 1)}

(* The number of bytes the source has at offset o, up to n.                *)
Available(o, n) == IF o >= Size THEN 0
                   ELSE IF n <= Size - o THEN n ELSE Size - o

(* The n bytes of the source that start at offset o.                       *)
Slice(o, n) == [i \in 0..(n - 1) |-> Data[o + i]]

Init == /\ call  = [r \in Readers |-> NoCall]
        /\ reply = [r \in Readers |-> NoReply]
        /\ short \in BOOLEAN

Call(r) == /\ call[r] = NoCall
           /\ reply' = [reply EXCEPT ![r] = NoReply]
           /\ \E o \in 0..MaxU64, n \in 0..MaxLen :
                 call' = [call EXCEPT ![r] = ReadCall(o, n)]
           /\ UNCHANGED short

(* How many bytes it may answer a request for n bytes at o with.           *)
Counts(o, n) == IF short THEN 0..Available(o, n) ELSE {Available(o, n)}

(* The source answers with its bytes.                                      *)
Return(r) == /\ call[r] # NoCall
             /\ \E n \in Counts(call[r].offset, call[r].len) :
                   reply' = [reply EXCEPT ![r] = Ok(n, Slice(call[r].offset, n))]
             /\ call' = [call EXCEPT ![r] = NoCall]
             /\ UNCHANGED short

(* Or it fails: the read has no effect the caller may rely on.             *)
Fail(r) == /\ call[r] # NoCall
           /\ reply' = [reply EXCEPT ![r] = Err]
           /\ call'  = [call EXCEPT ![r] = NoCall]
           /\ UNCHANGED short

Next == \E r \in Readers : Call(r) \/ Return(r) \/ Fail(r)

Spec == Init /\ [][Next]_vars
=============================================================================
