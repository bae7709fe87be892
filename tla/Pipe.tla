-------------------------------- MODULE Pipe ---------------------------------
(***************************************************************************)
(* Pipes and the files they are used through: the byte buffer and its      *)
(* sleepers (fs/pipe/pipe_state.c), the two inodes (fs/pipe/pipe_inode.c,  *)
(* fs/vfs/inode.c), the file tables (fs/file.c, fs/fs.c), the loops of     *)
(* sysfile_read and sysfile_write (fs/sysfile.c), and fork, exec, kill and *)
(* exit as far as they touch files (process/proc.c).                       *)
(*                                                                         *)
(* One pipe at a time, without a name.  Bytes are numbered in the order in *)
(* which they are accepted: the code never looks at them.  A kernel call   *)
(* is atomic up to the points where it may sleep: in pipe_state_wait, and  *)
(* after a round of the sysfile loops, where lock_mm is called.  The       *)
(* semaphore of the pipe is never held over such a point.                  *)
(***************************************************************************)
EXTENDS Integers, Sequences, FiniteSets, SequencesExt, FiniteSetsExt

CONSTANTS
    Proc,
    Table,      \* fs_structs
    NFd,        \* FS_STRUCT_NENTRY
    FirstExec,  \* the first fd that exec closes: 2
    BufSize,    \* PIPE_BUFSIZE
    IobufSize,  \* IOBUF_SIZE
    ReqLen,     \* the lengths asked for
    MaxBytes,   \* bound: bytes written to one pipe
    NoTable

ASSUME PipeAssumption ==
    /\ IsFiniteSet(Proc) /\ IsFiniteSet(Table) /\ NoTable \notin Table
    /\ {NFd, BufSize, IobufSize} \subseteq Nat \ {0} /\ ReqLen \subseteq Nat \ {0}
    /\ FirstExec \in Nat /\ MaxBytes \in Nat

Fd  == 0 .. NFd - 1
End == {"r", "w"}   \* the inodes, PIN_RDONLY and PIN_WRONLY

VARIABLES
    file,        \* filemap of each table: status, node and open_count
    fs_struct,   \* the table of each process; NoTable: no such process
    open, ref,   \* open_count and ref_count of the inodes
    p_rpos, p_wpos, buf, isclosed,
    ref_count,   \* of the pipe_state; 0: it is not in memory
    pc,          \* "user"; "loop": in a sysfile loop, between two rounds; in
                 \* pipe_state_wait: "asleep" or "interrupted", with a record
                 \* in the queue, or "woken", taken out with WT_PIPE
    call,        \* the call in progress: the inode and the descriptor it uses,
                 \* len (bytes still to transfer), ret of pipe_state_write
    exiting,     \* PF_EXITING
    rcvd         \* ghost: the bytes read from this pipe

pipeVars == <<p_rpos, p_wpos, buf, isclosed, ref_count>>
fileVars == <<file, fs_struct, open, ref>>
vars == <<fileVars, pipeVars, pc, call, exiting, rcvd>>

NoCall == [end |-> "none", fd |-> 0, len |-> 0, ret |-> 0]
NoFile == [status |-> "NONE", node |-> "r", count |-> 0]
NewFile(e) == [status |-> "OPENED", node |-> e, count |-> 1]

Init ==
    /\ file = [t \in Table |-> [d \in Fd |-> NoFile]]
    /\ \E p \in Proc, t \in Table :
         fs_struct = [q \in Proc |-> IF q = p THEN t ELSE NoTable]
    /\ open = [e \in End |-> 0] /\ ref = open
    /\ p_rpos = 0 /\ p_wpos = 0 /\ buf = [i \in 0 .. BufSize - 1 |-> 0]
    /\ isclosed = TRUE /\ ref_count = 0
    /\ pc = [p \in Proc |-> "user"]
    /\ call = [p \in Proc |-> NoCall]
    /\ exiting = [p \in Proc |-> FALSE]
    /\ rcvd = <<>>

Running(p) == fs_struct[p] # NoTable /\ pc[p] = "user"
Files(p) == file[fs_struct[p]]
is_empty == p_rpos = p_wpos
is_full == p_wpos - p_rpos >= BufSize

\* The processes in reader_queue or writer_queue, when w are the values of pc
Queue(w, e) == {p \in Proc : w[p] \in {"asleep", "interrupted"} /\ call[p].end = e}

\* Mutant: one of the queue is woken, the others are not.
pipe_state_wakeup_one(w, e) ==
    IF Queue(w, e) = {} THEN w
    ELSE [w EXCEPT ![CHOOSE q \in Queue(w, e) : TRUE] = "woken"]

pipe_state_wakeup(w, e) == [p \in Proc |-> IF p \in Queue(w, e) THEN "woken" ELSE w[p]]

-----------------------------------------------------------------------------
(* Closing.  A file that a close, an exec or an exit has closed goes when  *)
(* the last call that uses it has released it (filemap_free), and with it  *)
(* a reference to the inode (vfs_close); the last of these closes the pipe *)
(* and gives up the inode's reference to the pipe's state.                 *)

Gone(f) == f.status = "CLOSED" /\ f.count = 0

Closed(f) == IF f.status = "OPENED" THEN [f EXCEPT !.status = "CLOSED", !.count = @ - 1]
             ELSE f

pipe_state_close(w) == pipe_state_wakeup(pipe_state_wakeup(w, "r"), "w")

\* vfs_close of the files of m that are gone
vfs_close(m, w) ==
    LET n(e) == Cardinality({d \in Fd : Gone(m[d]) /\ m[d].node = e})
        last(cnt) == {e \in End : n(e) > 0 /\ cnt[e] = n(e)}
    IN /\ open' = [e \in End |-> open[e] - n(e)]
       /\ ref' = [e \in End |-> ref[e] - n(e)]
       /\ isclosed' = (isclosed \/ last(open) # {})
       /\ pc' = IF last(open) # {} THEN pipe_state_close(w) ELSE w
       /\ ref_count' = ref_count - Cardinality(last(ref))

\* p leaves the kernel, with its files as in m and pc as in w, or it exits:
\* put_fs, and for the last user of the table fs_destroy.
Leave(p, exits, m, w) ==
    LET t == fs_struct[p]
        lastUser == exits /\ \A q \in Proc \ {p} : fs_struct[q] # t
        m2 == IF lastUser THEN [d \in Fd |-> Closed(m[d])] ELSE m
    IN /\ file' = [file EXCEPT ![t] = [d \in Fd |-> IF Gone(m2[d]) THEN NoFile ELSE m2[d]]]
       /\ fs_struct' = [fs_struct EXCEPT ![p] = IF exits THEN NoTable ELSE t]
       /\ exiting' = [exiting EXCEPT ![p] = FALSE]
       /\ vfs_close(m2, w)

\* The end of a call: a process that has been killed exits (may_killed).
BackToUser(p, m, w) == Leave(p, exiting[p], m, w)

-----------------------------------------------------------------------------
(* Files.                                                                  *)

Free(m) == {d \in Fd : m[d].status = "NONE"}

\* file_pipe, with pipe_open: the two lowest free descriptors
file_pipe(p) ==
    /\ Running(p) /\ ref_count = 0
    /\ Cardinality(Free(Files(p))) >= 2
    /\ LET r == Min(Free(Files(p)))
           w == Min(Free(Files(p)) \ {r})
       IN file' = [file EXCEPT ![fs_struct[p]][r] = NewFile("r"),
                               ![fs_struct[p]][w] = NewFile("w")]
    /\ open' = [e \in End |-> 1] /\ ref' = open'
    /\ p_rpos' = 0 /\ p_wpos' = 0 /\ isclosed' = FALSE /\ ref_count' = 2
    /\ buf' = [i \in DOMAIN buf |-> 0] /\ rcvd' = <<>>
    /\ UNCHANGED <<fs_struct, pc, call, exiting>>

file_close(p, d) ==
    /\ Running(p) /\ Files(p)[d].status = "OPENED"
    /\ BackToUser(p, [Files(p) EXCEPT ![d] = Closed(@)], pc)
    /\ UNCHANGED <<p_rpos, p_wpos, buf, call, rcvd>>

\* fs_closeall, by do_execve
fs_closeall(p) ==
    /\ Running(p) /\ \E d \in Fd : d >= FirstExec /\ Files(p)[d].status = "OPENED"
    /\ BackToUser(p, [d \in Fd |-> IF d >= FirstExec THEN Closed(Files(p)[d])
                                   ELSE Files(p)[d]], pc)
    /\ UNCHANGED <<p_rpos, p_wpos, buf, call, rcvd>>

file_dup(p, d1, d2) ==
    /\ Running(p)
    /\ Files(p)[d1].status = "OPENED" /\ d2 \in Free(Files(p))
    /\ LET e == Files(p)[d1].node
       IN /\ file' = [file EXCEPT ![fs_struct[p]][d2] = NewFile(e)]
          /\ open' = [open EXCEPT ![e] = @ + 1]
          /\ ref' = [ref EXCEPT ![e] = @ + 1]
    /\ UNCHANGED <<fs_struct, pipeVars, pc, call, exiting, rcvd>>

\* do_fork: the child shares the table (CLONE_FS) ...
copy_fs_shared(p, q) ==
    /\ Running(p) /\ fs_struct[q] = NoTable
    /\ fs_struct' = [fs_struct EXCEPT ![q] = fs_struct[p]]
    /\ UNCHANGED <<file, open, ref, pipeVars, pc, call, exiting, rcvd>>

\* ... or gets one of its own, with the files that are open (dup_fs).
copy_fs(p, q, t) ==
    /\ Running(p) /\ fs_struct[q] = NoTable
    /\ \A o \in Proc : fs_struct[o] # t
    /\ LET dup == {d \in Fd : Files(p)[d].status = "OPENED"}
           n(e) == Cardinality({d \in dup : Files(p)[d].node = e})
       IN /\ file' = [file EXCEPT ![t] = [d \in Fd |-> IF d \in dup
                                            THEN NewFile(Files(p)[d].node) ELSE NoFile]]
          /\ open' = [e \in End |-> open[e] + n(e)]
          /\ ref' = [e \in End |-> ref[e] + n(e)]
    /\ fs_struct' = [fs_struct EXCEPT ![q] = t]
    /\ UNCHANGED <<pipeVars, pc, call, exiting, rcvd>>

-----------------------------------------------------------------------------
(* Reading and writing.                                                    *)

\* fd2file, and the test for the direction
Usable(p, d, e) == Files(p)[d].status = "OPENED" /\ Files(p)[d].node = e

\* The size of this round (alen), less what pipe_state_write has done of it
Want(c) == Min({IobufSize, c.len}) - c.ret

\* Mutant: the table's entry is not marked as used during the call.
filemap_not_acquired(p, d) == Files(p)

filemap_acquire(p, d) == [Files(p) EXCEPT ![d].count = @ + 1]

\* The process sleeps in pipe_state_wait; m are its files and c its call.
pipe_state_wait(p, c, m, w) ==
    /\ pc' = [w EXCEPT ![p] = "asleep"]
    /\ call' = [call EXCEPT ![p] = c]
    /\ file' = [file EXCEPT ![fs_struct[p]] = m]
    /\ UNCHANGED <<fs_struct, open, ref, isclosed, ref_count, exiting>>

\* A round that has transferred n bytes ends: filemap_release, and then the
\* loop's own test.
RoundEnds(p, c, m, n, w) ==
    LET m2 == [m EXCEPT ![c.fd].count = @ - 1]
        out == n = 0 \/ n = c.len
    IN /\ call' = [call EXCEPT ![p] = IF out THEN NoCall
                                     ELSE [c EXCEPT !.len = @ - n, !.ret = 0]]
       /\ IF out THEN BackToUser(p, m2, [w EXCEPT ![p] = "user"])
          ELSE /\ vfs_close(m2, [w EXCEPT ![p] = "loop"])
               /\ file' = [file EXCEPT ![fs_struct[p]] =
                            [d \in Fd |-> IF Gone(m2[d]) THEN NoFile ELSE m2[d]]]
               /\ UNCHANGED <<fs_struct, exiting>>

\* One pass of pipe_state_read, from try_again
pipe_state_read(p, c, m) ==
    LET k == Min({Want(c), p_wpos - p_rpos})
    IN /\ \/ is_empty /\ isclosed /\ RoundEnds(p, c, m, 0, pc)
          \/ is_empty /\ ~isclosed /\ pipe_state_wait(p, c, m, pc)
          \/ ~is_empty /\ RoundEnds(p, c, m, k, pipe_state_wakeup(pc, "w"))
       /\ rcvd' = rcvd \o [i \in 1 .. k |-> buf[(p_rpos + i - 1) % BufSize]]
       /\ p_rpos' = p_rpos + k
       /\ UNCHANGED <<p_wpos, buf>>

\* Mutant: off by one at the end of the buffer.
RoomPlus1 == BufSize + 1 - (p_wpos - p_rpos)

\* The bytes that pipe_state_write can store before is_full holds
Room == BufSize - (p_wpos - p_rpos)

\* One pass of pipe_state_write, from try_again
pipe_state_write(p, c, m) ==
    LET k == IF isclosed THEN 0 ELSE Min({Want(c), Room})
        c2 == [c EXCEPT !.ret = @ + k]
        w == pipe_state_wakeup(pc, "r")
    IN /\ \/ isclosed /\ RoundEnds(p, c, m, c.ret, pc)
          \/ ~isclosed /\ k < Want(c) /\ pipe_state_wait(p, c2, m, w)
          \/ ~isclosed /\ k = Want(c) /\ RoundEnds(p, c, m, c2.ret, w)
       /\ p_wpos' = p_wpos + k
       /\ buf' = [i \in DOMAIN buf |->
                    LET new == {j \in 0 .. k - 1 : (p_wpos + j) % BufSize = i}
                    IN IF new = {} THEN buf[i] ELSE p_wpos + Max(new) + 1]
       /\ UNCHANGED <<p_rpos, rcvd>>

\* A pass, of whichever kind the call is
Pass(p, c, m) ==
    IF c.end = "r" THEN pipe_state_read(p, c, m) ELSE pipe_state_write(p, c, m)

\* sysfile_read and sysfile_write, with the first round.  Bound: MaxBytes.
sysfile(p, e, d, len) ==
    /\ Running(p) /\ Usable(p, d, e)
    /\ e = "w" =>
         p_wpos + len + MapThenSumSet(LAMBDA q : IF call[q].end = "w" THEN call[q].len ELSE 0,
                                      Proc) <= MaxBytes
    /\ Pass(p, [end |-> e, fd |-> d, len |-> len, ret |-> 0], filemap_acquire(p, d))

\* Another round.  The descriptor is looked up again.
NextRound(p) ==
    LET c == call[p]
    IN /\ pc[p] = "loop"
       /\ \/ Usable(p, c.fd, c.end) /\ Pass(p, c, filemap_acquire(p, c.fd))
          \/ /\ ~Usable(p, c.fd, c.end)
             /\ BackToUser(p, Files(p), [pc EXCEPT ![p] = "user"])
             /\ call' = [call EXCEPT ![p] = NoCall]
             /\ UNCHANGED <<p_rpos, p_wpos, buf, rcvd>>

\* The rest of pipe_state_wait, and what its caller makes of it
WaitReturns(p) ==
    \/ pc[p] = "woken" /\ Pass(p, call[p], Files(p))
    \/ /\ pc[p] = "interrupted"
       /\ RoundEnds(p, call[p], Files(p), call[p].ret, pc)
       /\ UNCHANGED <<p_rpos, p_wpos, buf, rcvd>>

-----------------------------------------------------------------------------
\* do_kill of a process that is in the kernel: WT_PIPE can be interrupted.
do_kill(p) ==
    /\ pc[p] # "user" /\ ~exiting[p]
    /\ exiting' = [exiting EXCEPT ![p] = TRUE]
    /\ pc' = [pc EXCEPT ![p] = IF @ = "asleep" THEN "interrupted" ELSE @]
    /\ UNCHANGED <<fileVars, pipeVars, call, rcvd>>

\* do_exit, or the next trap of a process that was killed in user mode.  (One
\* that makes another call first is like one that is killed during it.)
do_exit(p) ==
    /\ Running(p)
    /\ Leave(p, TRUE, Files(p), pc)
    /\ UNCHANGED <<p_rpos, p_wpos, buf, call, rcvd>>

Next ==
    \E p \in Proc :
        \/ file_pipe(p) \/ fs_closeall(p)
        \/ \E d \in Fd : \/ file_close(p, d)
                         \/ \E d2 \in Fd : file_dup(p, d, d2)
                         \/ \E e \in End, len \in ReqLen : sysfile(p, e, d, len)
        \/ \E q \in Proc : copy_fs_shared(p, q) \/ \E t \in Table : copy_fs(p, q, t)
        \/ NextRound(p) \/ WaitReturns(p)
        \/ do_kill(p) \/ do_exit(p)

Spec == Init /\ [][Next]_vars

-----------------------------------------------------------------------------
\* The pipe is a bounded byte stream: what readers get is what writers have
\* put in, in that order and each byte once, round the end of the buffer, with
\* short and interrupted reads and writes of several processes at each end;
\* a closed pipe takes nothing more and still hands out what is left.
Ch == INSTANCE Channel WITH
        Capacity <- BufSize, accepted <- [i \in 1 .. p_wpos |-> i],
        delivered <- rcvd, closed <- isclosed

ImplementsChannel == Ch!Spec

\* Inside pipe_state_read or pipe_state_write, asleep or just woken
InRound(p) == pc[p] \in {"asleep", "interrupted", "woken"}

\* Nothing is freed while it is in use, and everything is once it is not: the
\* counts of files, inodes and the pipe's state are what refers to them, a
\* call that sleeps in the pipe keeps its file, and a table without users has
\* no file left (the assertion of fs_destroy).
NothingFreedInUse ==
    LET files == {x \in Table \X Fd : file[x[1]][x[2]].status # "NONE"}
        at(e) == Cardinality({x \in files : file[x[1]][x[2]].node = e})
        inside(t, d) == {p \in Proc : InRound(p) /\ fs_struct[p] = t /\ call[p].fd = d}
    IN /\ \A e \in End : open[e] = at(e) /\ ref[e] = at(e)
       /\ ref_count = Cardinality({e \in End : ref[e] > 0})
       /\ \A t \in Table, d \in Fd :
            file[t][d].count = Cardinality(inside(t, d))
                                 + (IF file[t][d].status = "OPENED" THEN 1 ELSE 0)
       /\ \A p \in Proc : InRound(p) => Files(p)[call[p].fd].status # "NONE"
                                       /\ Files(p)[call[p].fd].node = call[p].end
       /\ \A x \in files : \E p \in Proc : fs_struct[p] = x[1]

\* Nobody sleeps in the pipe in vain: a reader only while it is empty, a
\* writer only while it is full, and neither once an end has been closed.
NobodySleepsInVain ==
    \A p \in Proc :
        pc[p] = "asleep" =>
            /\ ~isclosed
            /\ IF call[p].end = "r" THEN is_empty ELSE is_full
==============================================================================
