-------------------------------- MODULE Pipes --------------------------------
(***************************************************************************)
(* Pipe buffers (src/src/ops_pipeline.inl): fixed circular buffers between *)
(* one producer and one consumer coroutine, with end-of-stream and error   *)
(* signals, and the pool that buffers return to once both sides are done.  *)
(*                                                                         *)
(* Operators are atomic; between two of them any other ready coroutine may *)
(* run.  A coroutine that blocks sleeps until it is woken and then resumes *)
(* at @pipe-put-retry or @pipe-get-retry with the buffer it saved on its   *)
(* execution stack: the one handle that can outlive the buffer.            *)
(***************************************************************************)
EXTENDS Naturals, Sequences, FiniteSets

CONSTANTS Co,            \* coroutine contexts
          Buf,           \* places for a header with its data array
          Null,          \* nulloffset
          PipeClasses,   \* sm_pipe_pool_classes, ascending
          MaxCapacity,   \* bound: capacities asked for
          MaxSent,       \* bound: values put into one pipe
          MaxGen,        \* bound: times a place is handed out
          ForeignClose   \* may a coroutine close a pipe whose live producer
                         \* is another one?

\* PipeRecycleSentinel, the largest length_t
Sentinel == 65535

ASSUME PipeAssumption ==
  /\ Null \notin Co \cup Buf
  /\ MaxCapacity \in 1..Sentinel /\ MaxSent \in Nat /\ MaxGen \in Nat
  /\ ForeignClose \in BOOLEAN
  /\ PipeClasses \in Seq(Nat \ {0})
  /\ \A i, j \in DOMAIN PipeClasses : i < j => PipeClasses[i] < PipeClasses[j]

VARIABLES hdr,        \* PipeBufferHeader and data array of every place
          pipePool,   \* m_pipe_pool: head of the free list of each class
          co,         \* where each coroutine stands, and whether it sleeps
          pipe        \* ghost: per place the pipes handed out so far, and the
                      \* values put into and taken from the present one

pipeVars == <<hdr, pipePool, co, pipe>>

\* A value names the pipe it was meant for and its place in the stream.
Value == [place : Buf, gen : 1..MaxGen, n : 1..MaxSent]

Unborn == [head |-> 0, tail |-> 0, count |-> 0, capacity |-> 0, closed |-> FALSE,
           consumer_dead |-> FALSE, error |-> FALSE, producer |-> Null,
           consumer |-> Null, blocked_writer |-> Null, blocked_reader |-> Null,
           data |-> << >>]

CoIdle == [at |-> "proc", asleep |-> FALSE, on |-> Null, val |-> Null]

PipesInit ==
  /\ hdr = [b \in Buf |-> Unborn]
  /\ pipePool = [i \in DOMAIN PipeClasses |-> Null]
  /\ co = [c \in Co |-> CoIdle]
  /\ pipe = [b \in Buf |-> [gen |-> 0, sent |-> 0, got |-> 0]]

InPool(b) == hdr[b].head = Sentinel
InUse(b)  == hdr[b].capacity > 0 /\ ~InPool(b)

\* c executes an operator of its own procedure.
CoRuns(c) == co[c].at = "proc" /\ ~co[c].asleep

\* coroutine_wake
Woken(who, s) ==
  [c \in Co |-> IF c = who /\ s[c].asleep THEN [s[c] EXCEPT !.asleep = FALSE] ELSE s[c]]

Blocked(c, s, k, b, v) ==
  [s EXCEPT ![c] = [at |-> k, asleep |-> TRUE, on |-> b, val |-> v]]

-----------------------------------------------------------------------------
(* The pool. *)

\* Index of the smallest class that fits, 0 for a buffer that bypasses the pool.
pipe_class_for_capacity(n) ==
  LET fits == {i \in DOMAIN PipeClasses : n <= PipeClasses[i]}
  IN  IF fits = {} THEN 0 ELSE CHOOSE i \in fits : \A j \in fits : i <= j

\* The data array has the size of the class, the ring uses the logical capacity.
Physical(n) == LET i == pipe_class_for_capacity(n) IN IF i = 0 THEN n ELSE PipeClasses[i]

NewData(n) == [i \in 1..Physical(n) |-> Null]

\* pipe_maybe_free with pipe_recycle: the free list is linked through the
\* slot of the blocked writer.
pipe_maybe_free(b, h) ==
  LET i == pipe_class_for_capacity(h[b].capacity)
  IN  IF h[b].closed /\ h[b].consumer_dead /\ i # 0
        THEN /\ hdr' = [h EXCEPT ![b].blocked_writer = pipePool[i], ![b].head = Sentinel]
             /\ pipePool' = [pipePool EXCEPT ![i] = b]
        ELSE hdr' = h /\ UNCHANGED pipePool

\* pipe-buffer, pipe_alloc_buffer: reuse the head of the class's free list,
\* else allocate a new place.
pipe_buffer(c) ==
  /\ CoRuns(c)
  /\ UNCHANGED co
  /\ \E n \in 1..MaxCapacity :
       LET i == pipe_class_for_capacity(n)
           Handed(b, data) ==
             /\ pipe[b].gen < MaxGen
             /\ hdr' = [hdr EXCEPT ![b] = [Unborn EXCEPT !.capacity = n, !.data = data]]
             /\ pipe' = [pipe EXCEPT ![b] = [gen |-> @.gen + 1, sent |-> 0, got |-> 0]]
       IN  IF i # 0 /\ pipePool[i] # Null
             THEN /\ Handed(pipePool[i], hdr[pipePool[i]].data)
                  /\ pipePool' = [pipePool EXCEPT ![i] = hdr[pipePool[i]].blocked_writer]
             ELSE /\ \E b \in Buf : hdr[b].capacity = 0 /\ Handed(b, NewData(n))
                  /\ UNCHANGED pipePool

-----------------------------------------------------------------------------
(* pipe-put and pipe-get. *)

\* Mutant: the write index wraps at the size of the data array.
PutWrapsPhysical(b, v) ==
  [hdr EXCEPT ![b].data[hdr[b].tail + 1] = v,
              ![b].tail = (@ + 1) % Len(hdr[b].data),
              ![b].count = @ + 1,
              ![b].blocked_reader = Null]

\* The headers after v was stored in b; the blocked reader is to be woken.
pipe_put_complete(b, v) ==
  [hdr EXCEPT ![b].data[hdr[b].tail + 1] = v,
              ![b].tail = (@ + 1) % hdr[b].capacity,
              ![b].count = @ + 1,
              ![b].blocked_reader = Null]

NextValue(b) == [place |-> b, gen |-> pipe[b].gen, n |-> pipe[b].sent + 1]

\* The bindings a put or a get may find: nobody yet, or this coroutine.
MayProduce(c, b) == hdr[b].producer \in {Null, c}
MayConsume(c, b) == hdr[b].consumer \in {Null, c}

\* pipe-put of the next value of the stream; every refused put leaves the
\* buffer as it is, but for the producer it has been bound to.
pipe_put(c) ==
  /\ CoRuns(c)
  /\ \E b \in Buf :
       /\ InUse(b) /\ MayProduce(c, b)
       /\ IF hdr[b].closed \/ hdr[b].error
            THEN hdr' = [hdr EXCEPT ![b].producer = c] /\ UNCHANGED <<co, pipe>>
            ELSE /\ pipe[b].sent < MaxSent
                 /\ pipe' = [pipe EXCEPT ![b].sent = @ + 1]
                 /\ IF hdr[b].count < hdr[b].capacity
                      THEN /\ hdr' = [pipe_put_complete(b, NextValue(b)) EXCEPT ![b].producer = c]
                           /\ co' = Woken(hdr[b].blocked_reader, co)
                      ELSE /\ hdr' = [hdr EXCEPT ![b].producer = c, ![b].blocked_writer = c]
                           /\ co' = Blocked(c, co, "put", b, NextValue(b))
       /\ UNCHANGED pipePool

\* The value c was waiting to put is never stored.
Withdrawn(c) ==
  [b \in Buf |-> IF co[c].at = "put" /\ co[c].on = b /\ co[c].val.gen = pipe[b].gen
                  THEN [pipe[b] EXCEPT !.sent = @ - 1] ELSE pipe[b]]

\* @pipe-put-retry: neither the sentinel nor the closed flag is looked at.
pipe_put_retry(c) ==
  LET b == co[c].on
  IN  /\ co[c].at = "put" /\ ~co[c].asleep
      /\ UNCHANGED pipePool
      /\ pipe' = IF hdr[b].error THEN Withdrawn(c) ELSE pipe
      /\ IF hdr[b].error
           THEN /\ hdr' = [hdr EXCEPT ![b].blocked_writer = Null]
                /\ co' = [co EXCEPT ![c] = CoIdle]
         ELSE IF hdr[b].count < hdr[b].capacity
           THEN /\ hdr' = [pipe_put_complete(b, co[c].val) EXCEPT ![b].blocked_writer = Null]
                /\ co' = Woken(hdr[b].blocked_reader, [co EXCEPT ![c] = CoIdle])
         ELSE /\ hdr' = [hdr EXCEPT ![b].blocked_writer = c]
              /\ co' = Blocked(c, co, "put", b, co[c].val)

\* pipe_get_complete.  The slot keeps its old value in the code; here it is
\* cleared, since no slot outside the ring's occupied part is ever read.
pipe_get_complete(c, b) ==
  /\ hdr' = [hdr EXCEPT ![b].consumer = c,
                        ![b].data[hdr[b].head + 1] = Null,
                        ![b].head = (@ + 1) % hdr[b].capacity,
                        ![b].count = @ - 1,
                        ![b].blocked_reader = IF @ = c THEN Null ELSE @,
                        ![b].blocked_writer = Null]
  /\ co' = Woken(hdr[b].blocked_writer, [co EXCEPT ![c] = CoIdle])
  /\ pipe' = [pipe EXCEPT ![b].got = @ + 1]
  /\ UNCHANGED pipePool

\* pipe_get_end: the consumer is done, with end-of-stream or with the error.
pipe_get_end(c, b) ==
  /\ pipe_maybe_free(b, [hdr EXCEPT ![b].consumer = c, ![b].consumer_dead = TRUE,
                                    ![b].blocked_reader = IF @ = c THEN Null ELSE @])
  /\ co' = [co EXCEPT ![c] = CoIdle]
  /\ UNCHANGED pipe

WaitForData(c, b) ==
  /\ hdr' = [hdr EXCEPT ![b].consumer = c, ![b].blocked_reader = c]
  /\ co' = Blocked(c, co, "get", b, Null)
  /\ UNCHANGED <<pipePool, pipe>>

TakeOrWait(c, b) ==
  IF hdr[b].count > 0 THEN pipe_get_complete(c, b)
  ELSE IF hdr[b].closed THEN pipe_get_end(c, b)
  ELSE WaitForData(c, b)

\* pipe-get
pipe_get(c) ==
  /\ CoRuns(c)
  /\ \E b \in Buf : InUse(b) /\ MayConsume(c, b) /\ TakeOrWait(c, b)

\* @pipe-get-retry
pipe_get_retry(c) ==
  /\ co[c].at = "get" /\ ~co[c].asleep
  /\ TakeOrWait(c, co[c].on)

-----------------------------------------------------------------------------
(* Closing. *)

\* Who may close: programs leave it to the producer while that one is alive,
\* unless ForeignClose.
MayClose(c, b) ==
  \A d \in Co \ {c} : hdr[b].producer = d => ForeignClose \/ co[d].at = "dead"

\* Mutant: close wakes nobody.
CloseSilently(c) ==
  /\ CoRuns(c)
  /\ \E b \in Buf :
       /\ InUse(b) /\ MayClose(c, b)
       /\ pipe_maybe_free(b, [hdr EXCEPT ![b].closed = TRUE])
       /\ UNCHANGED <<co, pipe>>

\* pipe-close, pipe_close_and_wake_reader
pipe_close(c) ==
  /\ CoRuns(c)
  /\ \E b \in Buf :
       /\ InUse(b) /\ MayClose(c, b)
       /\ pipe_maybe_free(b, [hdr EXCEPT ![b].closed = TRUE, ![b].blocked_reader = Null])
       /\ co' = Woken(hdr[b].blocked_reader, co)
       /\ UNCHANGED pipe

\* pipe-error-close, and @pipe-cleanup of a stage that failed
pipe_error_close(c) ==
  /\ CoRuns(c)
  /\ \E b \in Buf :
       /\ InUse(b) /\ MayClose(c, b)
       /\ pipe_maybe_free(b, [hdr EXCEPT ![b].closed = TRUE, ![b].error = TRUE,
                                         ![b].blocked_reader = Null,
                                         ![b].blocked_writer = Null])
       /\ co' = Woken(hdr[b].blocked_writer, Woken(hdr[b].blocked_reader, co))
       /\ UNCHANGED pipe

-----------------------------------------------------------------------------
(* Death of a coroutine and reuse of its context. *)

\* coroutine_kill: death owns the cleanup of registrations in every buffer
\* that is not parked.
coroutine_scrub_pipes(c) ==
  [b \in Buf |->
     IF InPool(b) THEN hdr[b]
     ELSE [hdr[b] EXCEPT !.blocked_reader = IF @ = c THEN Null ELSE @,
                         !.blocked_writer = IF @ = c THEN Null ELSE @]]

KillUser(c) ==
  /\ co[c].at # "dead"
  /\ co' = [co EXCEPT ![c] = [CoIdle EXCEPT !.at = "dead"]]
  /\ hdr' = coroutine_scrub_pipes(c)
  /\ pipe' = Withdrawn(c)
  /\ UNCHANGED pipePool

\* A new coroutine in the context of a dead one.
Respawn(c) ==
  /\ co[c].at = "dead"
  /\ co' = [co EXCEPT ![c] = CoIdle]
  /\ UNCHANGED <<hdr, pipePool, pipe>>

PipesStep(c) ==
  \/ pipe_buffer(c) \/ pipe_put(c) \/ pipe_put_retry(c) \/ pipe_get(c)
  \/ pipe_get_retry(c) \/ pipe_close(c) \/ pipe_error_close(c) \/ KillUser(c) \/ Respawn(c)

PipesNext == \E c \in Co : PipesStep(c)

PipesSpec == PipesInit /\ [][PipesNext]_pipeVars


-----------------------------------------------------------------------------
(* Properties. *)

\* Values in the ring, oldest first.
PipeContents(b) ==
  [i \in 1..hdr[b].count |-> hdr[b].data[((hdr[b].head + i - 1) % hdr[b].capacity) + 1]]

\* Indices stay inside the data array, which holds the logical capacity, and a
\* binding or a registration names a coroutine.
PipesTypeOK ==
  /\ \A i \in DOMAIN PipeClasses : pipePool[i] \in Buf \cup {Null}
  /\ \A c \in Co : /\ co[c].at \in {"proc", "put", "get", "dead"}
                   /\ co[c].on \in Buf \cup {Null}
                   /\ co[c].val \in Value \cup {Null}
  /\ \A b \in Buf :
       /\ hdr[b].blocked_writer \in IF InPool(b) THEN Buf \cup {Null} ELSE Co \cup {Null}
       /\ {hdr[b].producer, hdr[b].consumer, hdr[b].blocked_reader} \subseteq Co \cup {Null}
       /\ InUse(b) => /\ hdr[b].head < Len(hdr[b].data) /\ hdr[b].tail < Len(hdr[b].data)
                      /\ hdr[b].count <= hdr[b].capacity
                      /\ hdr[b].capacity <= Len(hdr[b].data)

\* Coroutines with a value for the present pipe in b.
Waiting(b) == {c \in Co : /\ co[c].at = "put" /\ co[c].on = b
                           /\ co[c].val.gen = pipe[b].gen}

\* The ring of a pipe in use holds exactly the values put into this pipe and
\* not yet received, in order: no wrap-around, no late retry of a producer
\* and no reuse of the place loses, repeats, reorders or smuggles in a value.
InOrder ==
  \A b \in Buf : InUse(b) =>
    /\ \A i \in 1..hdr[b].count :
         PipeContents(b)[i] = [place |-> b, gen |-> pipe[b].gen, n |-> pipe[b].got + i]
    /\ pipe[b].got + hdr[b].count + Cardinality(Waiting(b)) = pipe[b].sent

\* A coroutine sleeps only for a reason and where the other side finds it: a
\* writer is registered with a full pipe without error, a reader with an
\* empty open one.
NoLostWakeup ==
  \A c \in Co : co[c].asleep =>
    LET h == hdr[co[c].on]
    IN  IF co[c].at = "put"
          THEN ~h.error /\ h.count = h.capacity /\ h.blocked_writer = c
          ELSE ~h.closed /\ h.count = 0 /\ h.blocked_reader = c

\* The places reached from the head of the free list of class i: those in
\* every set that has the head and with a place the one it is linked to.
Linked(S) == \A b \in S : InPool(b) => hdr[b].blocked_writer \in S \cup {Null}
Chain(i) == {b \in Buf : \A S \in SUBSET Buf :
                            pipePool[i] \in S \cup {Null} /\ Linked(S) => b \in S}

\* The free lists hold exactly the recycled places, each in the class of its
\* data array, and no place that a pipe still uses.
PoolChain ==
  \A i \in DOMAIN PipeClasses :
    Chain(i) = {b \in Buf : InPool(b) /\ Len(hdr[b].data) = PipeClasses[i]}

\* A consumer that was told the end of the stream has received every value
\* handed to pipe-put, and nothing is put any more.
EndIsFinal ==
  \A b \in Buf : hdr[b].consumer_dead =>
    hdr[b].closed /\ hdr[b].count = 0 /\ (~hdr[b].error => pipe[b].got = pipe[b].sent)

\* Nobody sleeps on a pipe that could serve it, an end of stream comes after
\* the last value, and a place is recycled when both sides are done with it.
PipesSound == PipesTypeOK /\ NoLostWakeup /\ PoolChain /\ EndIsFinal

=============================================================================
