----------------------------- MODULE ReadExact ------------------------------
(***************************************************************************)
(* The two provided methods of trait DataSource that loop over read_at,    *)
(* read_exact_at and read_all (keramics-drivers/src/source/data_source.rs),*)
(* called by several threads on one shared ProbeCachedDataSource.          *)
(***************************************************************************)
EXTENDS ProbeCache

VARIABLE job    \* job[t]: the read_exact_at or read_all that t is in, or was

jobVars == <<vars, job>>

NoJob == [method |-> "none", offset |-> 0, len |-> 0, read_offset |-> 0,
          data |-> [i \in 0..-1 |-> Blank], waiting |-> FALSE, outcome |-> "none"]

Running(t) == job[t].outcome = "running"

JobInit == Init /\ job = [t \in Threads |-> NoJob]

Begin(t, m, o, n) ==
  /\ ~Running(t)
  /\ job' = [job EXCEPT ![t] =
               [NoJob EXCEPT !.method = m, !.offset = o, !.len = n,
                             !.outcome = IF n = 0 THEN "ok" ELSE "running"]]
  /\ UNCHANGED vars

ReadExactAt(t, o, n) == Begin(t, "exact", o, n)

(* size(), a buffer of that many bytes, then the loop from offset zero.    *)
ReadAll(t) == Begin(t, "all", 0, Size)

(* The loop calls read_at on the rest of the buffer; checked_add of the    *)
(* offset may overflow in read_exact_at.                                   *)
Issue(t) ==
  LET current_offset == job[t].offset + job[t].read_offset IN
  /\ Running(t) /\ ~job[t].waiting
  /\ IF current_offset > MaxU64
     THEN /\ job' = [job EXCEPT ![t].outcome = "err"]
          /\ UNCHANGED vars
     ELSE /\ ReadAt(t, current_offset, job[t].len - job[t].read_offset)
          /\ job' = [job EXCEPT ![t].waiting = TRUE]

(* Slips: a count of zero ends an exact read well; a short count is taken  *)
(* for the end of the source; a count of zero does not end the loop.       *)
AdvanceUnchecked(j, n, bytes) ==
  [j EXCEPT !.waiting = FALSE,
            !.read_offset = @ + n,
            !.data = [i \in 0..(j.read_offset + n - 1) |->
                        IF i < j.read_offset THEN @[i] ELSE bytes[i - j.read_offset]],
            !.outcome = IF n > 0 /\ j.read_offset + n < j.len THEN "running" ELSE "ok"]

AdvanceOnce(j, n, bytes) ==
  [j EXCEPT !.waiting = FALSE,
            !.read_offset = @ + n,
            !.data = bytes,
            !.outcome = IF j.method = "exact" /\ n < j.len THEN "err" ELSE "ok"]

AdvanceForever(j, n, bytes) ==
  [j EXCEPT !.waiting = FALSE,
            !.read_offset = @ + n,
            !.data = [i \in 0..(j.read_offset + n - 1) |->
                        IF i < j.read_offset THEN @[i] ELSE bytes[i - j.read_offset]],
            !.outcome = IF j.read_offset + n < j.len THEN "running" ELSE "ok"]

(* What the loop does with a count: zero is an error for read_exact_at and *)
(* the end of the data for read_all; otherwise it goes on until the buffer *)
(* is full.                                                                *)
Advance(j, n, bytes) ==
  LET filled == [i \in 0..(j.read_offset + n - 1) |->
                   IF i < j.read_offset THEN j.data[i] ELSE bytes[i - j.read_offset]]
  IN  IF n = 0
      THEN [j EXCEPT !.waiting = FALSE,
                     !.outcome = IF j.method = "exact" THEN "err" ELSE "ok"]
      ELSE [j EXCEPT !.waiting = FALSE,
                     !.read_offset = @ + n,
                     !.data = filled,
                     !.outcome = IF j.read_offset + n < j.len THEN "running" ELSE "ok"]

Collect(t) ==
  /\ Running(t) /\ job[t].waiting
  /\ pc[t] = "idle"
  /\ job' = [job EXCEPT ![t] =
               IF result[t].kind = "err"
               THEN [@ EXCEPT !.waiting = FALSE, !.outcome = "err"]
               ELSE Advance(@, result[t].count, result[t].data)]
  /\ UNCHANGED vars

JobStep(t) == Issue(t) \/ Collect(t) \/ (Step(t) /\ UNCHANGED job)

JobNext == \E t \in Threads :
             \/ \E o \in 0..MaxU64, n \in 0..MaxLen : ReadExactAt(t, o, n)
             \/ ReadAll(t)
             \/ JobStep(t)

JobSpec == JobInit /\ [][JobNext]_jobVars /\ \A t \in Threads : WF_jobVars(JobStep(t))
-----------------------------------------------------------------------------
(* An exact read that succeeds has filled its buffer with the bytes of the *)
(* source from its offset on, however many answers it took.                *)
ExactIsExact ==
  \A t \in Threads : job[t].method = "exact" /\ job[t].outcome = "ok" =>
     /\ DOMAIN job[t].data = 0..(job[t].len - 1)
     /\ \A i \in DOMAIN job[t].data :
          job[t].offset + i < Size /\ job[t].data[i] = Data[job[t].offset + i]

(* "Reads an exact amount of data starting at the specified offset": an    *)
(* exact read of bytes the source has fails only if a read_at failed.      *)
ExactFailsOnlyPastEnd ==
  \A t \in Threads : job[t].method = "exact" /\ job[t].outcome = "err" =>
     result[t].kind = "err" \/ job[t].offset + job[t].len > Size

(* "Reads the entire source into memory": read_all returns the whole       *)
(* source, not a prefix of it.                                             *)
AllIsWhole ==
  \A t \in Threads : job[t].method = "all" /\ job[t].outcome = "ok" =>
     job[t].data = DS!Slice(0, Size)

=============================================================================
