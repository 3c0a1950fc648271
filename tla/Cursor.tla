------------------------------- MODULE Cursor -------------------------------
(***************************************************************************)
(* Sequential readers of a shared source: DataSourceCursor                 *)
(* (keramics-drivers/src/source/cursor.rs) over the read_at and            *)
(* read_exact_at of a probe-cached source, beside threads that use the     *)
(* source itself.  Each cursor has its own position and is read by one     *)
(* thread at a time (its methods take &mut self).                          *)
(***************************************************************************)
EXTENDS ReadExact, Sequences

CONSTANT Cursors

VARIABLES position,      \* position[c]
          using,         \* using[t]: the cursor t is reading with, and how
          start,         \* history: where c was last created or sought to
          stream         \* history: the bytes its reads have returned since

places == <<position, start, stream>>
cursorVars == <<jobVars, using, places>>

NoUse == [kind |-> "none"]
Use(kind, c) == [kind |-> kind, cursor |-> c]
Held(c) == \E t \in Threads : using[t].kind # "none" /\ using[t].cursor = c

CursorInit == /\ JobInit
              /\ using    = [t \in Threads |-> NoUse]
              /\ position = [c \in Cursors |-> 0]
              /\ start    = [c \in Cursors |-> 0]
              /\ stream   = [c \in Cursors |-> <<>>]

(* The cursor is now at p, and starts a new stream.                        *)
MoveTo(c, p) == /\ ~Held(c)
                /\ position' = [position EXCEPT ![c] = p]
                /\ start'    = [start EXCEPT ![c] = p]
                /\ stream'   = [stream EXCEPT ![c] = <<>>]
                /\ UNCHANGED <<jobVars, using>>

(* c becomes a fork of d.                                                  *)
Fork(c, d) == c # d /\ ~Held(d) /\ MoveTo(c, position[d])

(* c becomes a new cursor, or a fork, at p.                                *)
ForkAt(c, p) == MoveTo(c, p)

(* SeekFrom::Start, Current and End; a position that is not a u64 is       *)
(* refused, and the cursor stays.                                          *)
SeekBase(c, whence) == CASE whence = "start" -> 0
                         [] whence = "current" -> position[c]
                         [] whence = "end" -> Size
Seek(c, whence, by) ==
  LET new_position == SeekBase(c, whence) + by IN
  /\ whence = "start" => by >= 0
  /\ new_position \in 0..MaxU64
  /\ MoveTo(c, new_position)

Ready(t) == using[t] = NoUse /\ ~Running(t)

(* read enters read_at, read_exact enters read_exact_at.                   *)
Read(t, c, n) ==
  /\ Ready(t) /\ ~Held(c)
  /\ ReadAt(t, position[c], n)
  /\ job' = [job EXCEPT ![t] = NoJob]
  /\ using' = [using EXCEPT ![t] = Use("read", c)]
  /\ UNCHANGED places

ReadExactly(t, c, n) ==
  /\ Ready(t) /\ ~Held(c)
  /\ ReadExactAt(t, position[c], n)
  /\ using' = [using EXCEPT ![t] = Use("exact", c)]
  /\ UNCHANGED places

(* The bytes are the caller's and the position follows them.  They exist,  *)
(* so that checked_add does not fail.                                      *)
Advanced(c, n, bytes) ==
  /\ position' = [position EXCEPT ![c] = @ + n]
  /\ stream'   = [stream EXCEPT ![c] = @ \o [i \in 1..n |-> bytes[i - 1]]]
  /\ UNCHANGED start

Release(t) == using' = [using EXCEPT ![t] = NoUse] /\ UNCHANGED jobVars

(* A failed call leaves the position.                                      *)
EndRead(t) ==
  /\ using[t].kind = "read" /\ pc[t] = "idle"
  /\ Release(t)
  /\ IF result[t].kind = "ok"
       THEN Advanced(using[t].cursor, result[t].count, result[t].data)
       ELSE UNCHANGED places

(* A slip: an exact read that fails keeps the position it got to.          *)
EndExactMoved(t) ==
  /\ using[t].kind = "exact" /\ ~Running(t)
  /\ Release(t)
  /\ position' = [position EXCEPT ![using[t].cursor] = @ + job[t].read_offset]
  /\ UNCHANGED <<start, stream>>

EndExact(t) ==
  /\ using[t].kind = "exact" /\ ~Running(t)
  /\ Release(t)
  /\ IF job[t].outcome = "ok"
       THEN Advanced(using[t].cursor, job[t].len, job[t].data)
       ELSE UNCHANGED places

(* The source itself, without a cursor.                                    *)
Direct(t) ==
  /\ Ready(t)
  /\ (\E o \in 0..MaxU64, n \in 0..MaxLen : ReadExactAt(t, o, n)) \/ ReadAll(t)
  /\ UNCHANGED <<using, places>>

CursorStep(t) ==
  \/ JobStep(t) /\ UNCHANGED <<using, places>>
  \/ EndRead(t)
  \/ EndExact(t)

CursorNext ==
  \/ \E t \in Threads :
       \/ Direct(t)
       \/ CursorStep(t)
       \/ \E c \in Cursors, n \in 0..MaxLen : Read(t, c, n) \/ ReadExactly(t, c, n)
  \/ \E c \in Cursors :
       \/ \E d \in Cursors : Fork(c, d)
       \/ \E p \in 0..MaxU64 : ForkAt(c, p)
       \/ \E whence \in {"start", "current", "end"}, by \in (-MaxU64)..MaxU64 :
            Seek(c, whence, by)

(* A thread in a call keeps running, and the source answers.               *)
CursorSpec == CursorInit /\ [][CursorNext]_cursorVars
                /\ \A t \in Threads : WF_cursorVars(CursorStep(t))
-----------------------------------------------------------------------------
(* What a cursor has returned since it was created or last sought is the   *)
(* source from there to its position: no byte is skipped or repeated, and  *)
(* a read that fails, however far it got, leaves the position where it     *)
(* was.                                                                    *)
StitchedReads ==
  \A c \in Cursors :
    /\ position[c] \in start[c]..MaxU64
    /\ stream[c] = [i \in 1..(position[c] - start[c]) |-> Data[start[c] + i - 1]]
    /\ position[c] > start[c] => position[c] <= Size

(* Every read, read_exact and read_all ends, however short the source      *)
(* answers: the loops make progress with every answer that does not end    *)
(* them, and none waits for another cursor.                                *)
EveryCallEnds == \A t \in Threads : ~Ready(t) ~> Ready(t)
=============================================================================
