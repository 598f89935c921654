------------------------------- MODULE Snapshot -------------------------------
(***************************************************************************)
(* snap-shot, thaw and starting from an image (ops_snapshot.inl).          *)
(*                                                                         *)
(* The image is written section by section to target.tmp and then renamed; *)
(* any write may fail, and the process may die between any two steps.      *)
(* thaw first validates the whole image, opening the files of its streams  *)
(* and allocating its memory blocks, and only then overwrites the VM.  The *)
(* image may be cut short or altered on disk, the user's file cut short.   *)
(*                                                                         *)
(* The VM's contents are a version number (work), its global region is glob*)
(* cells below the limit, temp is how far below the limit the watermark of *)
(* the scratch region stands.  Streams: a script being executed, a file, a *)
(* file in append mode, a memory block, a pipe.  A stream's fd and buffer  *)
(* are entries of the tables fds and heap.  SnUses names the uses an       *)
(* instance allows beside the plain ones.                                  *)
(***************************************************************************)
EXTENDS Integers, FiniteSets, FiniteSetsExt, Functions

CONSTANTS
    SnSlots,    \* number of streams
    SnKinds,    \* kinds a program may open, of {"file", "append", "memory", "pipe"}
    SnFile,     \* length of the user's file at the start
    SnScript,   \* bytes of the script
    SnChunk,    \* bytes a stream buffer holds
    SnWork,     \* bound on work
    SnHosts,    \* hosts the program is started on: [cap, ops], VM capacity and user operators
    SnActs,     \* bound on the program's own steps
    SnSnaps,    \* bound on snap-shots and starts together
    SnFaults,   \* bound on crashes, failures and damages together
    SnUses      \* subset of {"again", "globals", "borrowed", "stdout", "tail"}

VARIABLE sn

SnNone == [kind |-> "closed", fd |-> 0, at |-> 0, unread |-> 0, pend |-> 0, buf |-> 0, rest |-> 0, borrowed |-> FALSE]
SnSections == <<"header", "memory blocks", "file blocks", "VM", "global VM">>
SnWhole == 5
SnNoImage == [len |-> 0, bad |-> FALSE, im |-> <<>>]

\* What a stream still has to say, and where it stands: what a program sees of it.
SnView(s, i) ==
    LET p == s.stream[i]
    IN CASE p.kind \in {"file"} -> <<p.kind, p.at - p.unread + p.pend, s.fds[p.fd]>>
         [] p.kind = "append" -> <<p.kind, "end", s.fds[p.fd]>>
         [] p.kind \in {"memory"} -> <<p.kind, p.unread + p.rest>>
         [] p.kind = "script" -> <<p.kind, p.unread + p.rest + (IF s.fds[p.fd] = "script" THEN SnScript - p.at ELSE 0)>>
         [] OTHER -> <<"closed">>

SnInit == sn = [pc |-> "down", host |-> [cap |-> 0, ops |-> 0], work |-> 0, glob |-> 0, temp |-> 0, globOK |-> TRUE, heapOK |-> TRUE, keptOK |-> TRUE,
                stream |-> [i \in 1 .. SnSlots |-> SnNone], fds |-> <<>>, heap |-> {}, stdout |-> 0,
                img |-> SnNoImage, tmp |-> SnNoImage, flen |-> SnFile, faults |-> 0, snaps |-> 0, acts |-> 0,
                job |-> [fd |-> 0, mem |-> <<>>, ufs |-> <<>>, im |-> <<>>], last |-> <<>>, fresh |-> "no"]

SnFd(s) == CHOOSE n \in 3 .. 3 + SnSlots * 2 + 2 : n \notin DOMAIN s.fds
SnBuf(s) == CHOOSE n \in 1 .. SnSlots * 2 + 2 : n \notin s.heap
OpenFd(s, what) == [s EXCEPT !.fds = [n \in DOMAIN s.fds \union {SnFd(s)} |-> IF n \in DOMAIN s.fds THEN s.fds[n] ELSE what]]
CloseFds(s, ns) == [s EXCEPT !.fds = [n \in DOMAIN s.fds \ ns |-> s.fds[n]]]

SnUsed(s) == s.work + 1

\* An empty VM at its default start: the script is open, its first bytes in the buffer.
Boot(s, host) ==
    [s EXCEPT !.pc = "run", !.host = host, !.snaps = @ + 1, !.work = 0, !.glob = 0, !.temp = 0, !.globOK = TRUE,
              !.fds = [n \in {1, 3} |-> IF n = 1 THEN "terminal" ELSE "script"], !.heap = {}, !.stdout = 0, !.fresh = "no",
              !.stream = [i \in 1 .. SnSlots |-> IF i = 1 THEN [SnNone EXCEPT !.kind = "script", !.fd = 3, !.at = SnChunk, !.unread = SnChunk] ELSE SnNone]]

-----------------------------------------------------------------------------
(* What programs do *)

Working(s) == s.pc = "run"
Seen(s) == [s EXCEPT !.fresh = "no", !.acts = @ + 1]

\* The process is gone, with its memory and its descriptors.
Died(s) == [s EXCEPT !.pc = "down", !.fds = <<>>, !.heap = {}, !.fresh = "no", !.work = 0, !.glob = 0, !.temp = 0, !.stdout = 0,
                     !.stream = [i \in 1 .. SnSlots |-> SnNone], !.job = [fd |-> 0, mem |-> <<>>, ufs |-> <<>>, im |-> <<>>]]

Mutate(s) == IF SnUsed(s) + 1 + s.glob <= s.host.cap /\ s.work < SnWork THEN {[Seen(s) EXCEPT !.work = @ + 1]} ELSE {}

\* A global cell: the watermark of the scratch region is clamped below it.
AllocGlobal(s) ==
    IF "globals" \in SnUses /\ s.glob = 0 /\ SnUsed(s) + 1 <= s.host.cap
    THEN {[Seen(s) EXCEPT !.glob = 1, !.temp = IF @ < 1 THEN 1 ELSE @]} ELSE {}

\* An operator that takes a scratch cell below the watermark and gives it back.
TempAlloc(s) ==
    IF SnUsed(s) + s.temp + 1 <= s.host.cap THEN {[Seen(s) EXCEPT !.globOK = @ /\ s.temp >= s.glob]} ELSE {}

OpenStream(s, i, kind) ==
    LET n == SnFd(s)
        b == SnBuf(s)
    IN IF s.stream[i].kind # "closed" THEN {}
       ELSE CASE kind \in {"file", "append"} ->
                   {[Seen(OpenFd(s, "user file")) EXCEPT !.stream[i] = [SnNone EXCEPT !.kind = kind, !.fd = n, !.at = IF kind = "append" THEN s.flen ELSE 0]]}
              [] kind = "pipe" -> {[Seen(OpenFd(s, "pipe")) EXCEPT !.stream[i] = [SnNone EXCEPT !.kind = kind, !.fd = n]]}
              [] kind = "memory" -> {[Seen(s) EXCEPT !.heap = @ \union {b}, !.stream[i] = [SnNone EXCEPT !.kind = kind, !.buf = b, !.rest = 2]]}
                                    \union (IF "borrowed" \in SnUses
                                            THEN {[Seen(s) EXCEPT !.stream[i] = [SnNone EXCEPT !.kind = kind, !.borrowed = TRUE, !.rest = 2]]} ELSE {})

\* A byte read; the buffer is filled from the external block first, then from the file.
ReadStream(s, i) ==
    LET p == s.stream[i]
        left == IF s.fds[p.fd] = "script" THEN SnScript - p.at ELSE IF s.fds[p.fd] = "user file" THEN Max({0, s.flen - p.at}) ELSE 0
        n == Min({SnChunk, IF p.rest > 0 THEN p.rest ELSE left})
    IN IF p.kind \notin {"file", "memory", "script"} \/ p.pend > 0 THEN {}
       ELSE IF p.unread > 0 THEN {[Seen(s) EXCEPT !.stream[i].unread = @ - 1]}
       ELSE IF p.rest > 0
       THEN {[Seen(s) EXCEPT !.stream[i].rest = @ - n, !.stream[i].unread = n - 1, !.stream[i].buf = IF p.rest = n THEN 0 ELSE @,
                             !.heap = IF p.rest = n THEN @ \ {p.buf} ELSE @]}
       ELSE IF p.kind # "memory" /\ left > 0 THEN {[Seen(s) EXCEPT !.stream[i].at = p.at + n, !.stream[i].unread = n - 1]}
       ELSE {}

WriteStream(s, i) ==
    LET p == s.stream[i]
    IN IF p.kind \in {"file", "append"} /\ p.unread = 0 /\ p.pend = 0 /\ p.at < SnFile + 1 THEN {[Seen(s) EXCEPT !.stream[i].pend = 1]} ELSE {}

FlushStream(s, i) ==
    LET p == s.stream[i]
        end == p.at + p.pend
    IN [s EXCEPT !.flen = IF end > @ THEN end ELSE @, !.stream[i].at = end, !.stream[i].pend = 0]

CloseStream(s, i) ==
    LET p == s.stream[i]
        r == IF p.pend > 0 THEN FlushStream(s, i) ELSE s
    IN IF p.kind \in {"closed", "script"} \/ s.stdout = i THEN {}
       ELSE {[Seen(CloseFds(r, {p.fd})) EXCEPT !.heap = @ \ {p.buf}, !.stream[i] = SnNone]}

SetStdout(s, i) == IF "stdout" \in SnUses /\ s.stream[i].kind = "file" THEN {[Seen(s) EXCEPT !.stdout = i]} ELSE {}

-----------------------------------------------------------------------------
(* snap-shot *)

Normalise_kept(s, i) == FlushStream([s EXCEPT !.stream[i].unread = 0], i)

\* A file stream's buffers are emptied so that its descriptor stands where the stream does: unread bytes are given back,
\* pending ones written.
Normalise(s, i) ==
    LET r == FlushStream([s EXCEPT !.stream[i].at = @ - s.stream[i].unread], i)
    IN [r EXCEPT !.stream[i].unread = 0]

\* Regular files other than the script: those that can be repositioned.
Files(s) == {i \in 1 .. SnSlots : s.stream[i].kind \in {"file", "append"}}
Pipes(s) == {i \in 1 .. SnSlots : s.stream[i].kind = "pipe"}

\* The files among is normalised: all of them, or fewer when a seek or a write fails on the way.
Normalised(s, is) == FoldSet(LAMBDA i, x : Normalise(x, i), s, is)

FlushStdout(s) == IF s.stdout = 0 THEN s ELSE FlushStream(s, s.stdout)

\* User files normalised, pipes closed for good, output flushed.
Quiesced(s) ==
    LET r == FlushStdout(Normalised(s, Files(s)))
    IN [CloseFds(r, {s.stream[i].fd : i \in Pipes(s)}) EXCEPT !.stream = [i \in 1 .. SnSlots |-> IF i \in Pipes(s) THEN SnNone ELSE r.stream[i]]]

\* The unread rest of the script, from its file.
StartupTail(s, i) == LET p == s.stream[i] IN IF p.kind = "script" /\ s.fds[p.fd] = "script" THEN SnScript - p.at ELSE 0

\* The streams as the VM blob holds them: addresses outside of the VM are blanked.
VMBlob(s) == [i \in 1 .. SnSlots |-> [s.stream[i] EXCEPT !.buf = 0]]

\* What the header, the blocks and the VM blob hold: blocks for memory streams with unread bytes and for the script's tail.
ImageOf(s) ==
    LET Block(i) == IF s.stream[i].kind = "memory" THEN s.stream[i].rest ELSE StartupTail(s, i)
    IN [host |-> s.host, used |-> SnUsed(s), work |-> s.work, glob |-> s.glob, stdout |-> s.stdout, stream |-> VMBlob(s),
        mem |-> [i \in {j \in 1 .. SnSlots : Block(j) > 0} |-> Block(i)],
        ufs |-> [i \in Files(s) |-> s.stream[i].at]]

\* What a program sees of its VM and its streams.
SnSeen(s) == [work |-> s.work, glob |-> s.glob, view |-> [i \in 1 .. SnSlots |-> SnView(s, i)]]

\* Unless "again" is allowed, nobody snaps or thaws while the script's tail is in a block of an earlier image.
Plain(s) == "again" \in SnUses \/ \A i \in 1 .. SnSlots : s.stream[i].kind = "script" => s.stream[i].rest = 0

\* A failed snap-shot: what the program sees now is compared with what it saw before.
Failed(s, seen) == [s EXCEPT !.pc = "run", !.keptOK = @ /\ SnSeen(s) = seen]

\* A failure with the temporary file open: the Guard closes and removes it.
TmpUnlinked(s) == Failed([CloseFds(s, {s.job.fd}) EXCEPT !.tmp = SnNoImage, !.job.fd = 0], s.job.im.seen)

\* The script's tail is read through its own descriptor, which is put back after the last chunk only.
write_fd_range(s) ==
    LET i == CHOOSE j \in 1 .. SnSlots : s.stream[j].kind = "script"
    IN IF "tail" \in SnUses /\ s.pc = "memory blocks" /\ \E j \in 1 .. SnSlots : StartupTail(s, j) > 0
       THEN {[s EXCEPT !.stream[i].at = SnScript]} ELSE {}

\* A fault, while the instance allows another.
Faulty(s, r) == IF s.faults < SnFaults THEN {[r EXCEPT !.faults = @ + 1]} ELSE {}

\* The preparation and the opening of target.tmp, which may fail.
snapshot_op(s) ==
    LET q == Quiesced([s EXCEPT !.fresh = "no"])
        n == SnFd(q)
    IN IF s.temp # s.glob \/ ~Plain(s) THEN {}
       ELSE {[OpenFd(q, "tmp") EXCEPT !.pc = "header", !.tmp = SnNoImage, !.job.fd = n, !.job.im = [image |-> ImageOf(q), seen |-> SnSeen(s)]]}
            \union Faulty(s, Failed(q, SnSeen(s)))
            \union UNION {Faulty(s, Failed(Normalised([s EXCEPT !.fresh = "no"], is), SnSeen(s))) : is \in SUBSET Files(s) \ {Files(s)}}

\* One section written, or a failed write.
write_all(s) ==
    LET k == CHOOSE n \in 1 .. SnWhole : SnSections[n] = s.pc
    IN {[s EXCEPT !.tmp = [len |-> k, bad |-> FALSE, im |-> s.job.im], !.pc = IF k = SnWhole THEN "rename" ELSE SnSections[k + 1]]}
       \union UNION {Faulty(s, TmpUnlinked(r)) : r \in {s} \union write_fd_range(s)}

\* The temporary file takes the target's place in one step.
rename_tmp(s) ==
    {[CloseFds(s, {s.job.fd}) EXCEPT !.img = s.tmp, !.tmp = SnNoImage, !.last = s.job.im, !.snaps = @ + 1, !.pc = "run", !.job.fd = 0]}
    \union Faulty(s, TmpUnlinked(s))

-----------------------------------------------------------------------------
(* thaw *)

\* A failure during validation: the Guard closes the image and the files opened for it and frees the blocks.
Released(s) ==
    [CloseFds(s, {s.job.fd} \union Range(s.job.ufs))
        EXCEPT !.heap = @ \ Range(s.job.mem), !.pc = "run", !.job = [fd |-> 0, mem |-> <<>>, ufs |-> <<>>, im |-> <<>>]]

thaw_op(s) ==
    IF s.img.len = 0 \/ ~Plain(s) THEN {}
    ELSE {[OpenFd([s EXCEPT !.fresh = "no"], "image") EXCEPT !.pc = "thaw header", !.job.fd = SnFd(s), !.job.im = s.img.im.image]}

\* The header fits the host: room for both regions, and the same capacity when there are globals, whose offsets stay.
Fits(im, host) == im.used <= host.cap /\ (im.glob > 0 => im.host.cap = host.cap) /\ im.glob <= host.cap - im.used

thaw_header(s) == {IF s.img.len >= 1 /\ Fits(s.job.im, s.host) THEN [s EXCEPT !.pc = "thaw memory"] ELSE Released(s)}

Extended(f, i, v) == [j \in DOMAIN f \union {i} |-> IF j = i THEN v ELSE f[j]]

\* A memory block is read into a buffer of its own.
thaw_memory(s) ==
    LET todo == DOMAIN s.job.im.mem \ DOMAIN s.job.mem
    IN IF todo = {} THEN {[s EXCEPT !.pc = "thaw files"]}
       ELSE IF s.img.len < 2 THEN {Released(s)}
       ELSE {[s EXCEPT !.heap = @ \union {SnBuf(s)}, !.job.mem = Extended(@, Min(todo), SnBuf(s))]} \union Faulty(s, Released(s))

\* The file of a stream is opened and positioned: at its end in append mode, else where it stood, if it is long enough.
thaw_files(s) ==
    LET todo == DOMAIN s.job.im.ufs \ DOMAIN s.job.ufs
        i == Min(todo)
    IN IF todo = {} THEN {[s EXCEPT !.pc = "thaw check"]}
       ELSE IF s.img.len < 3 \/ (s.job.im.stream[i].kind = "file" /\ s.flen < s.job.im.ufs[i]) THEN {Released(s)}
       ELSE {[OpenFd(s, "user file") EXCEPT !.job.ufs = Extended(@, i, SnFd(s))]} \union Faulty(s, Released(s))

\* The whole file is there and its checksum is the header's.
thaw_scan_tail_crc(s) == s.img.len = SnWhole /\ ~s.img.bad

\* The image must be whole and made for the host's user operators; then output is flushed, which may fail.
thaw_check(s) ==
    {IF thaw_scan_tail_crc(s) /\ s.job.im.host.ops = s.host.ops
     THEN [FlushStdout(s) EXCEPT !.pc = "commit"] ELSE Released(s)}
    \union Faulty(s, Released(s))

\* The registers of the header over a VM read from the image.
restore_from_header(s, im) ==
    [s EXCEPT !.work = im.work, !.glob = im.glob, !.temp = 0, !.stream = im.stream, !.stdout = im.stdout]

\* A stream of the image gets its block, its file or, for the script, /dev/null; what has neither is closed.
fixup_one_stream(p, i, mem, ufs, null, rest, end) ==
    LET held == [p EXCEPT !.buf = IF i \in DOMAIN mem THEN mem[i] ELSE 0, !.rest = IF i \in DOMAIN mem THEN rest[i] ELSE 0]
    IN CASE p.kind = "memory" -> [held EXCEPT !.borrowed = IF i \in DOMAIN mem THEN FALSE ELSE @]
         [] p.kind = "script" -> [held EXCEPT !.fd = null]
         [] p.kind = "file" /\ i \in DOMAIN ufs -> [p EXCEPT !.fd = ufs[i]]
         [] p.kind = "append" /\ i \in DOMAIN ufs -> [p EXCEPT !.fd = ufs[i], !.at = end]
         [] OTHER -> SnNone

apply_fixup_streams(s, im, mem, ufs) ==
    LET script == {i \in 1 .. SnSlots : s.stream[i].kind = "script"}
        r == IF script = {} THEN s ELSE OpenFd(s, "null")
    IN [r EXCEPT !.stream = [i \in 1 .. SnSlots |-> fixup_one_stream(s.stream[i], i, mem, ufs, SnFd(s), im.mem, s.flen)]]

\* The stream print goes to gets the terminal's descriptor.
reattach_stdio(s) == IF s.stdout = 0 THEN s ELSE [s EXCEPT !.stream[s.stdout].fd = 1]

\* The point of no return: blocks freed, descriptors closed, the VM overwritten; a read error aborts the process.
thaw_commit(s) ==
    LET im == s.job.im
        owned == {i \in 1 .. SnSlots : s.stream[i].kind = "memory"}
        files == {i \in 1 .. SnSlots : s.stream[i].kind \in {"file", "append", "pipe", "script"}}
        r == [CloseFds(s, {s.job.fd} \union {s.stream[i].fd : i \in files})
                 EXCEPT !.heap = @ \ {s.stream[i].buf : i \in owned},
                        !.heapOK = @ /\ \A i \in owned : ~(s.stream[i].borrowed /\ s.stream[i].rest > 0),
                        !.pc = "run", !.fresh = "thaw", !.job = [fd |-> 0, mem |-> <<>>, ufs |-> <<>>, im |-> <<>>]]
    IN {reattach_stdio(apply_fixup_streams(restore_from_header(r, im), im, s.job.mem, s.job.ufs))} \union Faulty(s, Died(s))

-----------------------------------------------------------------------------
(* Starting from an image, and faults *)

\* Every memory block is read into a buffer of its own, numbered from 1.
StartBlocks(im) == [i \in DOMAIN im.mem |-> Cardinality({j \in DOMAIN im.mem : j <= i})]

\* After the whole file was read over the empty VM: checksums and user operators.
StartIntact(s, host) == s.img.len = SnWhole /\ ~s.img.bad /\ s.img.im.image.host.ops = host.ops

\* The VM goes on from the image's registers; no file is reopened.
Started(r, im, mem) == reattach_stdio(apply_fixup_streams(restore_from_header(r, im), im, mem, <<>>))

\* A program that starts from an image, or does not start.
startup_image(s, host) ==
    LET im == s.img.im.image
        mem == StartBlocks(im)
        r == [Boot(s, host) EXCEPT !.fds = [n \in {1} |-> "terminal"], !.heap = Range(mem), !.fresh = "image"]
    IN IF Fits(im, host) /\ StartIntact(s, host) THEN {Started(r, im, mem)} ELSE {}

DamageImage(s) == {[s EXCEPT !.fresh = "no", !.img = d, !.last = <<>>] : d \in {[s.img EXCEPT !.bad = TRUE]} \union {[s.img EXCEPT !.len = k] : k \in 1 .. s.img.len - 1}}

-----------------------------------------------------------------------------
(* Next step *)

SnTo(set) == sn' \in set

SnStart == sn.pc = "down" /\ sn.snaps < SnSnaps /\ \E host \in SnHosts : SnTo({Boot(sn, host)})
SnStartImage == sn.pc = "down" /\ sn.snaps < SnSnaps /\ sn.img.len > 0 /\ \E host \in SnHosts : SnTo(startup_image(sn, host))
SnProgram ==
    /\ Working(sn) /\ sn.acts < SnActs
    /\ \/ SnTo(Mutate(sn))
       \/ SnTo(AllocGlobal(sn))
       \/ SnTo(TempAlloc(sn))
       \/ \E i \in 1 .. SnSlots :
            \/ \E kind \in SnKinds : SnTo(OpenStream(sn, i, kind))
            \/ SnTo(ReadStream(sn, i))
            \/ SnTo(WriteStream(sn, i))
            \/ SnTo(CloseStream(sn, i))
            \/ SnTo(SetStdout(sn, i))
SnSnap == Working(sn) /\ sn.snaps < SnSnaps /\ SnTo(snapshot_op(sn))
SnWriteSection == sn.pc \in {SnSections[k] : k \in 1 .. SnWhole} /\ SnTo(write_all(sn))
SnRename == sn.pc = "rename" /\ SnTo(rename_tmp(sn))
SnThaw == Working(sn) /\ SnTo(thaw_op(sn))
SnThawHeader == sn.pc = "thaw header" /\ SnTo(thaw_header(sn))
SnThawMemory == sn.pc = "thaw memory" /\ SnTo(thaw_memory(sn))
SnThawFiles == sn.pc = "thaw files" /\ SnTo(thaw_files(sn))
SnThawCheck == sn.pc = "thaw check" /\ SnTo(thaw_check(sn))
SnCommit == sn.pc = "commit" /\ SnTo(thaw_commit(sn))
SnCrash == sn.pc # "down" /\ SnTo(Faulty(sn, Died(sn)))
SnDamage == sn.pc \in {"down", "run"} /\ sn.img.len > 0 /\ \E r \in DamageImage(sn) : SnTo(Faulty(sn, r))
SnTruncate == sn.pc \in {"down", "run"} /\ sn.flen > 0 /\ SnTo(Faulty(sn, [sn EXCEPT !.flen = 0, !.fresh = "no"]))

SnNext ==
    \/ SnStart \/ SnStartImage \/ SnProgram
    \/ SnSnap \/ SnWriteSection \/ SnRename
    \/ SnThaw \/ SnThawHeader \/ SnThawMemory \/ SnThawFiles \/ SnThawCheck \/ SnCommit
    \/ SnCrash \/ SnDamage \/ SnTruncate

SnSpec == SnInit /\ [][SnNext]_sn

-----------------------------------------------------------------------------
(* Properties *)

\* From the first snap-shot on there is always a whole image to go back to, the last one completed, whatever writes fail and
\* wherever the process dies (until the file itself is damaged).
ImageSurvives == sn.last # <<>> => sn.img = [len |-> SnWhole, bad |-> FALSE, im |-> sn.last]

\* After a thaw the program sees the VM and the streams it had at the snap-shot: the same position in a file, the same unread
\* bytes of a block and of its own script; pipes are closed, and so are files when the image was started anew.
RoundTrip ==
    sn.fresh # "no" =>
        /\ sn.last # <<>>
        /\ LET seen == sn.last.seen
               Lost(i) == seen.view[i][1] \in {"file", "append"} /\ sn.fresh = "image"
           IN SnSeen(sn) = [seen EXCEPT !.view = [i \in 1 .. SnSlots |-> IF Lost(i) THEN <<"closed">> ELSE seen.view[i]]]

\* Every descriptor and every block is held by exactly one stream or by the snap-shot or thaw under way: a thaw that fails
\* half way, or succeeds, leaks and shares nothing.
HandlesExact ==
    sn.pc # "down" =>
        LET fd(i) == {sn.stream[i].fd} \ {0}
            buf(i) == {sn.stream[i].buf} \ {0}
            held == {sn.job.fd} \union Range(sn.job.ufs)
        IN /\ DOMAIN sn.fds = {1} \union (held \ {0}) \union UNION {fd(i) : i \in 1 .. SnSlots}
           /\ sn.heap = Range(sn.job.mem) \union UNION {buf(i) : i \in 1 .. SnSlots}
           /\ \A i, j \in 1 .. SnSlots : i # j => fd(i) \intersect fd(j) = {} /\ buf(i) \intersect buf(j) = {}

\* A snap-shot that fails, wherever it does, leaves the program with the streams it had, at the positions it had (pipes are
\* closed first of all).
FailureHarmless == sn.keptOK

\* Scratch memory never overwrites the global region: the watermark stays at or below its edge.
GlobalsIntact == sn.globOK

\* Only buffers that came from malloc are given to free.
OnlyOwnFreed == sn.heapOK

\* There is always a whole image to go back to, a thaw brings back what the
\* program saw, no descriptor or block is lost or shared on the way, and a
\* failed snap-shot changes nothing.
SnapshotSound == ImageSurvives /\ RoundTrip /\ HandlesExact /\ FailureHarmless

=============================================================================
