------------------------------- MODULE Streams -------------------------------
(***************************************************************************)
(* The stream pool and its buffered files (stream.inl, ops_stream_io.inl): *)
(* slots handed out from a free list under a small stream id, one buffer   *)
(* for reading and writing a file, string streams, save levels, and the    *)
(* stream that `print` goes to.                                            *)
(*                                                                         *)
(* A handle is what a Stream object holds, a slot and an id; programs keep *)
(* handles after the stream was closed.  Beside the buffered state the     *)
(* model keeps what an unbuffered file would be: ref (its contents) and    *)
(* pos (where the stream stands), and what the last reading returned and   *)
(* should have returned.                                                   *)
(*                                                                         *)
(* A file has at most one stream at a time; short writes and I/O errors    *)
(* are left out.  StSloppy names the careless uses an instance allows.     *)
(***************************************************************************)
EXTENDS Integers, Sequences, SequencesExt, FiniteSetsExt

CONSTANTS
    StSlots,    \* number of pooled streams
    StFiles,    \* file names
    StIds,      \* dynamic stream ids are 1 .. StIds (FIRST_SID .. 255)
    StBuf,      \* m_stream_buffer_size
    StLen,      \* bound on the length of a file
    StOpens,    \* bound on the openings
    StSaves,    \* bound on the save level
    StModes,    \* file modes used
    StSloppy    \* careless uses: "stale" asks a closed handle for a position, "stdout" closes
                \* the stream print goes to, "closed string" extracts from a closed string
                \* stream, "reset string" resets one

VARIABLE sm

StBytes == {"x"}
StReadable(m) == m \in {"r", "R", "W", "A"}
StWritable(m) == m \in {"w", "a", "R", "W", "A", "string"}

\* An unused slot: free_stream leaves id and status cleared.
StFree == [sid |-> 0, mode |-> "closed", file |-> "none", at |-> 0, rbuf |-> <<>>, wset |-> FALSE, wbuf |-> <<>>,
           dir |-> {}, level |-> 0]

StInit == sm = [slot |-> [i \in 1 .. StSlots |-> StFree], free |-> [i \in 1 .. StSlots |-> i], inuse |-> <<>>,
                next |-> 1, wrapped |-> FALSE, level |-> 0, disk |-> [f \in StFiles |-> <<"y", "z", "y">>],
                handles |-> <<>>, opens |-> 0, stdout |-> 0, stdoutSid |-> 0,
                ref |-> [f \in StFiles |-> <<"y", "z", "y">>], pos |-> [i \in 1 .. StSlots |-> 0], text |-> [i \in 1 .. StSlots |-> <<>>],
                got |-> <<>>, want |-> <<>>, exact |-> TRUE]

is_open(s, h) == s.slot[h.slot].sid = h.sid /\ s.slot[h.slot].mode # "closed"
is_readable(s, h) == is_open(s, h) /\ StReadable(s.slot[h.slot].mode)
is_writable(s, h) == is_open(s, h) /\ StWritable(s.slot[h.slot].mode)

-----------------------------------------------------------------------------
(* Slots and ids *)

\* The next id; once the counter has wrapped, ids of open streams are passed over.  0: all in use, a limit-check.
next_sid(s) ==
    LET After(n) == IF n = StIds THEN 1 ELSE n + 1
        used == {s.slot[i].sid : i \in Range(s.inuse)}
        Nth(k) == ((s.next - 1 + k) % StIds) + 1
        Wrapped(k) == s.wrapped \/ s.next + k >= StIds
        fine == {k \in 0 .. StIds - 1 : ~(Wrapped(k) /\ Nth(k) \in used)}
    IN IF fine = {} THEN [sid |-> 0, next |-> s.next, wrapped |-> TRUE]
       ELSE [sid |-> Nth(Min(fine)), next |-> After(Nth(Min(fine))), wrapped |-> Wrapped(Min(fine))]

\* alloc_stream and the configuration of the slot, file or string.
configure(s, mode, file, at) ==
    LET i == Head(s.free)
        id == next_sid(s)
    IN [s EXCEPT !.free = Tail(@), !.inuse = <<i>> \o @, !.next = id.next, !.wrapped = id.wrapped, !.opens = @ + 1,
                 !.slot[i] = [StFree EXCEPT !.sid = id.sid, !.mode = mode, !.file = file, !.at = at, !.level = s.level,
                                            !.wset = mode = "string"],
                 !.handles = Append(@, [slot |-> i, sid |-> id.sid]),
                 !.pos[i] = at, !.text[i] = <<>>]

free_stream(s, i) ==
    [s EXCEPT !.slot[i] = StFree, !.inuse = Remove(@, i), !.free = <<i>> \o @, !.pos[i] = 0,
              !.text[i] = IF "closed string" \in StSloppy THEN @ ELSE <<>>]

-----------------------------------------------------------------------------
(* Writing *)

\* A file after bytes are written at a position.
StOverlay(c, at, b) == [k \in 1 .. (IF at + Len(b) > Len(c) THEN at + Len(b) ELSE Len(c)) |->
                          IF k \in at + 1 .. at + Len(b) THEN b[k - at] ELSE IF k <= Len(c) THEN c[k] ELSE "0"]

\* flush: nothing pending; the first write of a stream only opens its buffer; otherwise the buffer goes to the file.
flush(s, i) ==
    LET p == s.slot[i]
    IN CASE p.file = "none" \/ (p.wset /\ p.wbuf = <<>>) -> s
         [] ~(p.file = "none" \/ (p.wset /\ p.wbuf = <<>>)) /\ "W" \notin p.dir -> [s EXCEPT !.slot[i].wset = TRUE, !.slot[i].wbuf = <<>>, !.slot[i].dir = @ \union {"W"}]
         [] OTHER -> [s EXCEPT !.disk[p.file] = StOverlay(@, p.at, p.wbuf), !.slot[i].at = @ + Len(p.wbuf), !.slot[i].wbuf = <<>>]

\* A flush that would turn a reading stream round raises set-file-position-required.
flush_refused(s, i) == LET p == s.slot[i] IN p.file # "none" /\ ~(p.wset /\ p.wbuf = <<>>) /\ "R" \in p.dir

StFull(p) == ~p.wset \/ Len(p.wbuf) = StBuf

putc(s, i, c) ==
    LET p == s.slot[i]
        r == IF StFull(p) THEN flush(s, i) ELSE s
    IN IF StFull(p) /\ (p.mode = "string" \/ flush_refused(s, i)) THEN s ELSE [r EXCEPT !.slot[i].wbuf = Append(@, c)]
putc_refused(s, i) == StFull(s.slot[i]) /\ (s.slot[i].mode = "string" \/ flush_refused(s, i))

-----------------------------------------------------------------------------
(* Closing and reading *)

\* close: a written buffer is flushed first.
close(s, i) == free_stream(IF "W" \in s.slot[i].dir THEN flush(s, i) ELSE s, i)

\* fill_file: a buffer of bytes; the end of a read-only file closes the stream.
fill(s, i) ==
    LET p == s.slot[i]
        data == SubSeq(s.disk[p.file], p.at + 1, IF p.at + StBuf < Len(s.disk[p.file]) THEN p.at + StBuf ELSE Len(s.disk[p.file]))
    IN IF p.at < Len(s.disk[p.file]) THEN [s EXCEPT !.slot[i].rbuf = data, !.slot[i].at = @ + Len(data), !.slot[i].dir = @ \union {"R"}]
       ELSE IF StWritable(p.mode) THEN s ELSE close(s, i)
fill_refused(s, i) == s.slot[i].rbuf = <<>> /\ "W" \in s.slot[i].dir

\* getc n times, into s.got; stops at the end of the file.
getc(s, i) ==
    LET r == IF s.slot[i].rbuf = <<>> /\ s.slot[i].mode # "closed" THEN fill(s, i) ELSE s
    IN IF r.slot[i].rbuf = <<>> \/ r.slot[i].mode = "closed" THEN r
       ELSE [r EXCEPT !.got = Append(@, Head(r.slot[i].rbuf)), !.slot[i].rbuf = Tail(@)]
getn(s, i, n) == FoldLeft(LAMBDA r, k : getc(r, i), [s EXCEPT !.got = <<>>], [k \in 1 .. n |-> k])

\* reset: both directions forgotten, what was buffered is lost.
reset(s, i) == [s EXCEPT !.slot[i].rbuf = <<>>, !.slot[i].wset = FALSE, !.slot[i].wbuf = <<>>, !.slot[i].dir = {}]

get_filepos(s, i) ==
    LET p == s.slot[i]
    IN IF p.file = "none" \/ p.mode = "closed" THEN 0 ELSE IF "R" \in p.dir THEN p.at - Len(p.rbuf) ELSE IF "W" \in p.dir THEN p.at + Len(p.wbuf) ELSE p.at

set_filepos_unflushed(s, i, to) ==
    IF s.slot[i].mode = "closed" \/ s.slot[i].file = "none" THEN s ELSE [reset(s, i) EXCEPT !.slot[i].at = to]

set_filepos(s, i, to) ==
    IF s.slot[i].mode = "closed" \/ s.slot[i].file = "none" THEN s
    ELSE [reset(IF "W" \in s.slot[i].dir THEN flush(s, i) ELSE s, i) EXCEPT !.slot[i].at = to]

-----------------------------------------------------------------------------
(* What an unbuffered file would do *)

RefWrite(s, i, c) == LET f == s.slot[i].file
                     IN IF f = "none" THEN [s EXCEPT !.text[i] = Append(@, c)]
                        ELSE [s EXCEPT !.ref[f] = StOverlay(@, s.pos[i], <<c>>), !.pos[i] = @ + 1]
RefRead(s, i, n) == LET c == s.ref[s.slot[i].file]
                        end == IF s.pos[i] + n < Len(c) THEN s.pos[i] + n ELSE Len(c)
                    IN [s EXCEPT !.want = SubSeq(c, s.pos[i] + 1, end), !.pos[i] = IF end > @ THEN end ELSE @]
RefForget(s, i) == IF s.slot[i].file = "none" THEN s ELSE [s EXCEPT !.ref[s.slot[i].file] = s.disk[s.slot[i].file], !.pos[i] = s.slot[i].at]
StClear(s) == [s EXCEPT !.exact = TRUE]
\* The end of an operator that returns something: the two answers are compared.
StEnd(s) == [s EXCEPT !.exact = s.got = s.want, !.got = <<>>, !.want = <<>>]

-----------------------------------------------------------------------------
(* The operators *)

stream(f, m) ==
    LET s == StClear(sm)
        t == IF m \in {"w", "W"} THEN [s EXCEPT !.disk[f] = <<>>, !.ref[f] = <<>>] ELSE s
    IN /\ s.free # <<>> /\ s.opens < StOpens /\ next_sid(s).sid # 0
       /\ \A i \in Range(s.inuse) : s.slot[i].file # f
       /\ sm' = configure(t, m, f, IF m \in {"a", "A"} THEN Len(t.disk[f]) ELSE 0)

make_string_stream == /\ sm.free # <<>> /\ sm.opens < StOpens /\ next_sid(sm).sid # 0
                      /\ sm' = configure(StClear(sm), "string", "none", 0)

\* The operators check the id of their handle, except for the two positions and the two string-stream operators.
closestream(h) == is_open(sm, h) /\ ("stdout" \in StSloppy \/ sm.stdout # h.slot) /\ sm' = close(StClear(sm), h.slot)
writestream(h, c) == LET s == StClear(sm)
                     IN /\ is_writable(s, h) /\ ~putc_refused(s, h.slot) /\ Len(s.ref[IF s.slot[h.slot].file = "none" THEN CHOOSE f \in StFiles : TRUE ELSE s.slot[h.slot].file]) < StLen
                        /\ sm' = RefWrite(putc(s, h.slot, c), h.slot, c)
readstream(h, n) == LET s == StClear(sm)
                    IN /\ is_readable(s, h) /\ ~fill_refused(s, h.slot)
                       /\ sm' = StEnd(getn(RefRead(s, h.slot, n), h.slot, n))

\* flushstream consumes all input of a readable stream.
Drained(s, i) ==
    LET f == s.slot[i].file
    IN [reset(getn([s EXCEPT !.pos[i] = Len(s.ref[f])], i, Len(s.disk[f]) + 1), i) EXCEPT !.got = <<>>]

\* A stream that is both has been flushed when the reading is refused.
flushstream(h) ==
    LET i == h.slot
        flushed == IF is_writable(sm, h) THEN flush(StClear(sm), i) ELSE StClear(sm)
    IN /\ is_open(sm, h)
       /\ ~(is_writable(sm, h) /\ flush_refused(sm, i))
       /\ sm' = IF ~is_readable(sm, h) \/ fill_refused(flushed, i) THEN flushed ELSE Drained(flushed, i)

\* reset of a string stream puts its write pointer at the end of the buffer, behind bytes never written.
reset_string(s, i) == [s EXCEPT !.slot[i].wbuf = @ \o [k \in 1 .. StBuf - Len(@) |-> "?"]]

resetstream(h) ==
    /\ is_open(sm, h)
    /\ sm.slot[h.slot].mode = "string" => "reset string" \in StSloppy
    /\ sm' = LET s == StClear(sm)
             IN IF s.slot[h.slot].mode = "string" THEN reset_string(s, h.slot) ELSE RefForget(reset(s, h.slot), h.slot)
streamposition(h) == /\ "stale" \in StSloppy \/ is_open(sm, h)
                     /\ sm' = StEnd([sm EXCEPT !.got = <<get_filepos(sm, h.slot)>>,
                                          !.want = <<IF is_open(sm, h) /\ sm.slot[h.slot].file # "none" THEN sm.pos[h.slot] ELSE 0>>])
setstreamposition(h, to) ==
    /\ "stale" \in StSloppy \/ is_open(sm, h)
    /\ sm' = LET s == set_filepos(StClear(sm), h.slot, to) IN IF is_open(sm, h) THEN [s EXCEPT !.pos[h.slot] = to] ELSE s
get_string_stream(h) ==
    /\ "closed string" \in StSloppy \/ is_open(sm, h)
    /\ sm.slot[h.slot].mode = "string" \/ "closed string" \in StSloppy
    /\ sm' = StEnd([sm EXCEPT !.got = IF sm.slot[h.slot].mode = "string" THEN sm.slot[h.slot].wbuf ELSE <<"error">>, !.want = sm.text[h.slot]])
clear_string_stream(h) == /\ is_open(sm, h) /\ sm.slot[h.slot].mode = "string"
                          /\ sm' = [StClear(sm) EXCEPT !.slot[h.slot].wbuf = <<>>, !.text[h.slot] = <<>>]

\* set-stdout keeps the slot only; print writes to it as long as the slot is writable.
set_stdout(h) == /\ is_writable(sm, h)
                 /\ sm' = [StClear(sm) EXCEPT !.stdout = h.slot, !.stdoutSid = h.sid]
print_stdout(c) == LET i == sm.stdout
                       s == StClear(sm)
                       mine == sm.slot[i].sid = sm.stdoutSid
                   IN /\ i # 0 /\ StWritable(sm.slot[i].mode) /\ ~putc_refused(s, i)
                      /\ Len(s.ref[IF s.slot[i].file = "none" THEN CHOOSE f \in StFiles : TRUE ELSE s.slot[i].file]) < StLen
                      /\ sm' = IF mine THEN RefWrite(putc(s, i, c), i, c) ELSE putc(s, i, c)

save_level == sm.level < StSaves /\ sm' = [StClear(sm) EXCEPT !.level = @ + 1]

\* Stream::restore: streams opened above the level restored to are closed.
restore(s) == LET gone == {i \in Range(s.inuse) : s.slot[i].level > s.level - 1}
              IN FoldLeft(LAMBDA r, i : IF i \in gone THEN close(r, i) ELSE r, [s EXCEPT !.level = @ - 1], s.inuse)
restore_level == /\ sm.level > 0 /\ ("stdout" \in StSloppy \/ sm.stdout = 0)
                 /\ sm' = restore(StClear(sm))

StNext ==
    \/ \E f \in StFiles, m \in StModes : stream(f, m)
    \/ make_string_stream
    \/ \E k \in DOMAIN sm.handles :
        LET h == sm.handles[k] IN
        \/ closestream(h)
        \/ \E c \in StBytes : writestream(h, c)
        \/ \E n \in {1, 3} : readstream(h, n)
        \/ flushstream(h)
        \/ resetstream(h)
        \/ streamposition(h)
        \/ \E to \in {1, StLen} : setstreamposition(h, to)
        \/ get_string_stream(h)
        \/ clear_string_stream(h)
        \/ set_stdout(h)
    \/ print_stdout("x")
    \/ save_level
    \/ restore_level

StSpec == StInit /\ [][StNext]_sm

-----------------------------------------------------------------------------
(* Properties *)

\* A reading, a position or the text of a string stream is what it would be without a buffer.
StreamExact == sm.exact

\* A file without an open stream holds everything that was written to it: no close, restore, seek or full buffer loses,
\* repeats or misplaces a byte.
NothingLost == \A f \in StFiles : (\A i \in Range(sm.inuse) : sm.slot[i].file # f) => sm.disk[f] = sm.ref[f]

\* The free and the in-use list share out the slots, open streams have ids of their own, and nothing opened above the
\* current save level is left.
PoolExact ==
    /\ Range(sm.free) \intersect Range(sm.inuse) = {}
    /\ Len(sm.free) + Len(sm.inuse) = StSlots /\ Range(sm.free) \union Range(sm.inuse) = 1 .. StSlots
    /\ \A i \in 1 .. StSlots : i \in Range(sm.inuse) <=> sm.slot[i].mode # "closed"
    /\ \A i, j \in Range(sm.inuse) : sm.slot[i].sid = sm.slot[j].sid => i = j
    /\ \A i \in Range(sm.inuse) : sm.slot[i].level <= sm.level

\* A handle stands for the stream it was made for: it is never open again after that stream was closed.
HandleFresh == \A j, k \in DOMAIN sm.handles : j < k /\ sm.handles[j] = sm.handles[k] => ~is_open(sm, sm.handles[j])

\* Buffers never show: no reading, position, close, restore or seek differs
\* from one without a buffer, and slots are shared out exactly.
StreamsSound == StreamExact /\ NothingLost /\ PoolExact

=============================================================================
