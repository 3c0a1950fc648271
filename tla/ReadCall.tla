------------------------------ MODULE ReadCall ------------------------------
(***************************************************************************)
(* What the read_at of every image driver has in common: each thread that  *)
(* shares the source walks its own request from the offset on, one piece   *)
(* of the media after the other, until its buffer is full or the media     *)
(* ends.  EwfReader, UdifReader and ExtentMap say what a piece is and how  *)
(* it is fetched.                                                          *)
(* (EwfDataSource::read_at, keramics-drivers/src/image/ewf/mod.rs.)        *)
(***************************************************************************)
EXTENDS Integers

CONSTANTS Threads,
          media_size,    \* what size() answers
          Data,          \* the bytes of the media: a function on 0..(media_size - 1)
          MaxU64,
          MaxLen         \* bound: the longest buffer passed to read_at

ASSUME ReadCallAssumption ==
  /\ MaxU64 \in Nat
  /\ MaxLen \in Nat
  /\ media_size \in 0..MaxU64
  /\ DOMAIN Data = 0..(media_size - 1)

VARIABLES pc,            \* pc[t]: where t is in read_at
          offset,        \* the arguments of t's read_at
          len,
          written,       \* the local variable of read_at
          buf,           \* the part of t's buffer that it has filled
          result         \* the outcome of t's last read_at

callVars == <<pc, offset, len, written, buf, result>>

DS == INSTANCE DataSource WITH
        Readers <- Threads,
        Size    <- media_size,
        call    <- [t \in Threads |->
                      IF pc[t] = "idle" THEN [kind |-> "none"]
                      ELSE [kind |-> "read_at", offset |-> offset[t], len |-> len[t]]],
        reply   <- result,
        short   <- FALSE

NoBytes == [i \in 0..-1 |-> 0]

current_offset(t) == offset[t] + written[t]

Finish(t, r) == /\ result' = [result EXCEPT ![t] = r]
                /\ pc' = [pc EXCEPT ![t] = "idle"]

Goto(t, l) == /\ pc' = [pc EXCEPT ![t] = l]
              /\ UNCHANGED result

(* The first n bytes of the buffer, followed by m bytes of data from       *)
(* position from on.                                                       *)
Extended(t, n, data, from, m) ==
  [i \in 0..(n + m - 1) |-> IF i < n THEN buf[t][i] ELSE data[from + i - n]]

(* n bytes are put into the buffer, and the loop goes round.               *)
Emit(t, data, from, n) ==
  /\ buf' = [buf EXCEPT ![t] = Extended(t, written[t], data, from, n)]
  /\ written' = [written EXCEPT ![t] = @ + n]
  /\ Goto(t, "loop")

CallInit == /\ pc      = [t \in Threads |-> "idle"]
            /\ offset  = [t \in Threads |-> 0]
            /\ len     = [t \in Threads |-> 0]
            /\ written = [t \in Threads |-> 0]
            /\ buf     = [t \in Threads |-> NoBytes]
            /\ result  = [t \in Threads |-> DS!NoReply]

(* A thread enters read_at.                                                *)
Enter(t, o, n) ==
  /\ pc[t] = "idle"
  /\ pc'      = [pc EXCEPT ![t] = "loop"]
  /\ offset'  = [offset EXCEPT ![t] = o]
  /\ len'     = [len EXCEPT ![t] = n]
  /\ written' = [written EXCEPT ![t] = 0]
  /\ buf'     = [buf EXCEPT ![t] = NoBytes]
  /\ result'  = [result EXCEPT ![t] = DS!NoReply]

(* The condition of the loop, which also covers the early return for a     *)
(* read past the end or of nothing.                                        *)
GoesOn(t) == written[t] < len[t] /\ current_offset(t) < media_size

(* What is left of a piece that has there bytes more, up to the end of the *)
(* buffer.                                                                 *)
Clamp(t, there) == IF there <= len[t] - written[t] THEN there ELSE len[t] - written[t]
-----------------------------------------------------------------------------
Prefixes(n) == [0..(n - 1) -> DS!Bytes]
Prefix == UNION {Prefixes(n) : n \in 0..MaxLen}
Replies == {DS!NoReply, DS!Err}
             \cup UNION {[kind : {"ok"}, count : {n}, data : Prefixes(n)] : n \in 0..MaxLen}

(* No more is ever written than the buffer holds.                          *)
CallTypeOK(labels) ==
  /\ pc \in [Threads -> labels]
  /\ offset \in [Threads -> 0..MaxU64]
  /\ len \in [Threads -> 0..MaxLen]
  /\ written \in [Threads -> 0..MaxLen]
  /\ buf \in [Threads -> Prefix]
  /\ result \in [Threads -> Replies]
  /\ \A t \in Threads : written[t] <= len[t]

(* What t has put into its buffer so far are the bytes of the media from   *)
(* its offset on.                                                          *)
PrefixFaithful(t) == /\ buf[t] = DS!Slice(offset[t], written[t])
                     /\ written[t] <= DS!Available(offset[t], len[t])

(* The driver promises what every data source promises: DataSource's       *)
(* read_at, answered with all the bytes there are, or with an error.       *)
ImplementsDataSource == DS!Spec

(* Every read_at returns.                                                  *)
EveryReadReturns == \A t \in Threads : (pc[t] # "idle") ~> (pc[t] = "idle")
=============================================================================
