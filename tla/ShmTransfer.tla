----------------------------- MODULE ShmTransfer -----------------------------
(***************************************************************************)
(* Copying standard input to standard output through shared memory         *)
(* (SP_HW9): share_mem_writer.c and share_mem_reader.c take turns under    *)
(* two System V semaphores, WRITE_SEM and READ_SEM.                        *)
(*                                                                         *)
(* Data are counted in cells of four bytes.  The segment has one page: the *)
(* writer's struct shm has an int cnt and its buf starts in cell 1, the    *)
(* reader's has a size_t cnt and its buf starts in cell 2.  The mapping is *)
(* as long as buf alone, so that the tail of buf lies beyond it, in memory *)
(* that each process has for itself.                                       *)
(***************************************************************************)
EXTENDS Integers, Sequences

CONSTANTS
  InLen,        \* cells on standard input; cell i of it has the value i
  MaxRead,      \* most cells one read() returns (sizeof buf)
  MapCells,     \* cells of the mapped segment (ftruncate, mmap)
  Starts,       \* the circumstances the two programs may be started in
  MayFail       \* may read() on stdin and write() on stdout fail

ASSUME InLenAssumption == InLen \in Nat
ASSUME MaxReadAssumption == MaxRead \in Nat \ {0}
ASSUME MapCellsAssumption == MapCells \in Nat \ {0}
ASSUME StartsAssumption == Starts \subseteq {"late", "fresh", "any"}

VARIABLES
  start,        \* "late": the reader is started after the writer's set-up;
                \* "fresh": side by side, with nothing left from earlier;
                \* "any": side by side, an earlier, killed pair may have left
                \* its objects behind, as it may in "late"
  shmExists,    \* does SHM_FILE exist
  semExists,    \* does the semaphore set of SEM_KEY exist
  semW, semR,   \* values of WRITE_SEM and READ_SEM
  cnt,          \* cell 0 of the segment
  mem,          \* the cells after it
  wpc,          \* writer: where it is in main
  pos,          \* cells of standard input read so far
  wbytes, wxfrs,   \* writer: bytes and xfrs
  rpc,          \* reader: where it is in main
  rbytes, rxfrs,   \* reader: bytes and xfrs
  stdout,       \* what the reader wrote
  chunks, taken    \* history: the counts the writer stored and the reader found

\* Nobody changes start: it is on both sides.
sems == <<semExists, semW, semR>>
writer == <<start, wpc, pos, wbytes, wxfrs, chunks>>
reader == <<start, rpc, rbytes, rxfrs, stdout, taken>>
vars == <<start, shmExists, semExists, semW, semR, cnt, mem, wpc, pos, wbytes, wxfrs,
          rpc, rbytes, rxfrs, stdout, chunks, taken>>

Cells == 1 .. MapCells - 1

\* Offsets of the two bufs: the first cell of buf is 1 + the offset.
WriterBuf == 0
ReaderBuf == 1

\* What killed processes may have left: either object, and a semaphore that
\* is up for one side or for none.
Init ==
  /\ start \in Starts
  /\ shmExists \in BOOLEAN /\ semExists \in BOOLEAN
  /\ start = "fresh" => ~shmExists /\ ~semExists
  /\ semW \in {0, 1} /\ semR \in {0, 1}
  /\ semW + semR <= IF semExists THEN 1 ELSE 0
  /\ cnt \in IF shmExists THEN {0, MaxRead} ELSE {0}
  /\ mem = [k \in Cells |-> 0]
  /\ wpc = "shm" /\ pos = 0 /\ wbytes = 0 /\ wxfrs = 0
  /\ rpc = "shm" /\ rbytes = 0 /\ rxfrs = 0 /\ stdout = <<>>
  /\ chunks = <<>> /\ taken = <<>>
-----------------------------------------------------------------------------
(* share_mem_writer.c *)

\* shm_open with O_CREAT, ftruncate, mmap.
WriterShm ==
  /\ wpc = "shm" /\ wpc' = "sem"
  /\ shmExists' = TRUE
  /\ UNCHANGED <<sems, cnt, mem, pos, wbytes, wxfrs, chunks, reader>>

\* semget with IPC_CREAT: a new set starts with zeroes, an old one as it is.
WriterSem ==
  /\ wpc = "sem" /\ wpc' = "initW"
  /\ semExists' = TRUE
  /\ UNCHANGED <<shmExists, semW, semR, cnt, mem, pos, wbytes, wxfrs, chunks, reader>>

\* Mutant: WRITE_SEM is left as an earlier writer left it.
WriterInitW_Skip ==
  /\ wpc = "initW" /\ wpc' = "initR"
  /\ UNCHANGED <<shmExists, sems, cnt, mem, pos, wbytes, wxfrs, chunks, reader>>

WriterInitW ==
  /\ wpc = "initW" /\ wpc' = "initR"
  /\ semW' = 1
  /\ UNCHANGED <<shmExists, semExists, semR, cnt, mem, pos, wbytes, wxfrs, chunks, reader>>

\* Mutant: READ_SEM is made available too.
WriterInitR_Available ==
  /\ wpc = "initR" /\ wpc' = "reserve"
  /\ semR' = 1
  /\ UNCHANGED <<shmExists, semExists, semW, cnt, mem, pos, wbytes, wxfrs, chunks, reader>>

WriterInitR ==
  /\ wpc = "initR" /\ wpc' = "reserve"
  /\ semR' = 0
  /\ UNCHANGED <<shmExists, semExists, semW, cnt, mem, pos, wbytes, wxfrs, chunks, reader>>

\* reserveSem(semid, WRITE_SEM), at the head of the loop and after it.
WriterReserve ==
  /\ wpc \in {"reserve", "last"}
  /\ semW > 0
  /\ semW' = semW - 1
  /\ wpc' = IF wpc = "reserve" THEN "read" ELSE "rmid"
  /\ UNCHANGED <<shmExists, semExists, semR, cnt, mem, pos, wbytes, wxfrs, chunks, reader>>

\* read() into buf: some cells, or none at the end of the input.  What falls
\* beyond the mapping does not reach the reader.
WriterRead ==
  /\ wpc = "read" /\ wpc' = "release"
  /\ \E n \in 0 .. MaxRead :
       /\ n <= InLen - pos
       /\ n = 0 => pos = InLen
       /\ mem' = [k \in Cells |-> IF k - WriterBuf \in 1 .. n THEN pos + k - WriterBuf
                                                             ELSE mem[k]]
       /\ cnt' = n
       /\ pos' = pos + n
       /\ chunks' = Append(chunks, n)
  /\ UNCHANGED <<shmExists, sems, wbytes, wxfrs, reader>>

\* read() fails: cnt is -1 and the writer exits without a word to the reader.
WriterReadFails ==
  /\ MayFail
  /\ wpc = "read" /\ wpc' = "failure"
  /\ cnt' = -1
  /\ UNCHANGED <<shmExists, sems, mem, pos, wbytes, wxfrs, chunks, reader>>

\* releaseSem(semid, READ_SEM)
WriterRelease ==
  /\ wpc = "release" /\ wpc' = "check"
  /\ semR' = semR + 1
  /\ UNCHANGED <<shmExists, semExists, semW, cnt, mem, pos, wbytes, wxfrs, chunks, reader>>

\* The writer looks at cnt again, which the reader may be using by now: leave
\* the loop on 0, else xfrs++, bytes += shmp->cnt.
WriterCheck ==
  /\ wpc = "check"
  /\ IF cnt = 0
       THEN wpc' = "last" /\ UNCHANGED <<wbytes, wxfrs>>
       ELSE wpc' = "reserve" /\ wbytes' = wbytes + cnt /\ wxfrs' = wxfrs + 1
  /\ UNCHANGED <<shmExists, sems, cnt, mem, pos, chunks, reader>>

\* semctl with IPC_RMID
WriterRmid ==
  /\ wpc = "rmid" /\ wpc' = "unlink"
  /\ semExists' = FALSE
  /\ UNCHANGED <<shmExists, semW, semR, cnt, mem, pos, wbytes, wxfrs, chunks, reader>>

\* shm_unlink, print the totals.
WriterUnlink ==
  /\ wpc = "unlink" /\ wpc' = "success"
  /\ shmExists' = FALSE
  /\ UNCHANGED <<sems, cnt, mem, pos, wbytes, wxfrs, chunks, reader>>

WriterSetup == WriterShm \/ WriterSem \/ WriterInitW \/ WriterInitR
WriterStep == WriterSetup \/ WriterReserve \/ WriterRead \/ WriterReadFails
                \/ WriterRelease \/ WriterCheck \/ WriterRmid \/ WriterUnlink
-----------------------------------------------------------------------------
(* share_mem_reader.c *)

\* shm_open without O_CREAT, mmap; then semget without IPC_CREAT.
ReaderShm ==
  /\ start = "late" => wpc \notin {"shm", "sem", "initW", "initR"}
  /\ rpc = "shm" /\ rpc' = IF shmExists THEN "sem" ELSE "failure"
  /\ UNCHANGED <<shmExists, sems, cnt, mem, writer, rbytes, rxfrs, stdout, taken>>

ReaderSem ==
  /\ rpc = "sem" /\ rpc' = IF semExists THEN "reserve" ELSE "failure"
  /\ UNCHANGED <<shmExists, sems, cnt, mem, writer, rbytes, rxfrs, stdout, taken>>

\* Mutant: the reader looks at the segment without waiting.
ReaderReserve_None ==
  /\ rpc = "reserve" /\ rpc' = "write"
  /\ UNCHANGED <<shmExists, sems, cnt, mem, writer, rbytes, rxfrs, stdout, taken>>

\* reserveSem(semid, READ_SEM)
ReaderReserve ==
  /\ rpc = "reserve" /\ semExists /\ semR > 0
  /\ rpc' = "write"
  /\ semR' = semR - 1
  /\ UNCHANGED <<shmExists, semExists, semW, cnt, mem, writer, rbytes, rxfrs, stdout, taken>>

\* Mutant: the transfers are counted where the bytes are, before the end shows.
ReaderXfrs_Early == rxfrs + 1

\* xfrs++ in the head of the loop, which the last transfer does not reach.
ReaderXfrs == IF cnt = 0 THEN rxfrs ELSE rxfrs + 1

\* write_n = shmp->cnt: leave the loop on 0, else count and write() that much
\* of buf.  A count of -1 is counted too: write() returns -1 = write_n.
ReaderWrite ==
  /\ rpc = "write" /\ rpc' = IF cnt = 0 THEN "last" ELSE "release"
  /\ rbytes' = rbytes + cnt
  /\ rxfrs' = ReaderXfrs
  /\ stdout' = stdout \o [i \in 1 .. cnt |->
                  IF i + ReaderBuf \in Cells THEN mem[i + ReaderBuf] ELSE 0]
  /\ taken' = Append(taken, cnt)
  /\ UNCHANGED <<shmExists, sems, cnt, mem, writer>>

\* write() fails or is short: the reader exits and the writer is not told.
ReaderWriteFails ==
  /\ MayFail
  /\ rpc = "write" /\ cnt # 0 /\ rpc' = "failure"
  /\ rbytes' = rbytes + cnt
  /\ UNCHANGED <<shmExists, sems, cnt, mem, writer, rxfrs, stdout, taken>>

\* Mutant: a second release at the end of the loop, as after it.
ReaderRelease_Twice ==
  /\ rpc \in {"release", "last"} /\ semExists
  /\ semW' = semW + 2
  /\ rpc' = IF rpc = "release" THEN "reserve" ELSE "success"
  /\ UNCHANGED <<shmExists, semExists, semR, cnt, mem, writer, rbytes, rxfrs, stdout, taken>>

\* releaseSem(semid, WRITE_SEM), at the end of the loop and after it.
ReaderRelease ==
  /\ rpc \in {"release", "last"} /\ semExists
  /\ semW' = semW + 1
  /\ rpc' = IF rpc = "release" THEN "reserve" ELSE "success"
  /\ UNCHANGED <<shmExists, semExists, semR, cnt, mem, writer, rbytes, rxfrs, stdout, taken>>

\* semop returns -1: the set was removed.
ReaderSemFails ==
  /\ rpc \in {"reserve", "release", "last"} /\ ~semExists
  /\ rpc' = "failure"
  /\ UNCHANGED <<shmExists, sems, cnt, mem, writer, rbytes, rxfrs, stdout, taken>>

ReaderStep == ReaderShm \/ ReaderSem \/ ReaderReserve \/ ReaderWrite
                \/ ReaderWriteFails \/ ReaderRelease \/ ReaderSemFails
-----------------------------------------------------------------------------
Next == WriterStep \/ ReaderStep

Spec == Init /\ [][Next]_vars
Fairness == WF_vars(WriterStep) /\ WF_vars(ReaderStep)
-----------------------------------------------------------------------------
(* Properties *)

\* Type invariant of the segment, the semaphores and the two processes.
TypeOK ==
  /\ start \in Starts
  /\ shmExists \in BOOLEAN /\ semExists \in BOOLEAN
  /\ semW \in Nat /\ semR \in Nat
  /\ cnt \in -1 .. MaxRead
  /\ mem \in [Cells -> Nat]
  /\ wpc \in {"shm", "sem", "initW", "initR", "reserve", "read", "release", "check",
              "last", "rmid", "unlink", "success", "failure"}
  /\ pos \in 0 .. InLen /\ wbytes \in Int /\ wxfrs \in Nat
  /\ rpc \in {"shm", "sem", "reserve", "write", "release", "last", "success", "failure"}
  /\ rbytes \in Int /\ rxfrs \in Nat
  /\ chunks \in Seq(0 .. MaxRead) /\ taken \in Seq(-1 .. MaxRead)

\* The circumstances the protocol is made for: the reader comes after the
\* writer set up the semaphores, or no semaphores are left from earlier.
Orderly == start \in {"late", "fresh"}

\* The writer never fills the segment while the reader empties it: the two
\* semaphores together let one process in, from whatever values an earlier
\* pair left in them.
Exclusive == Orderly => ~(wpc = "read" /\ rpc = "write")

\* The writer removes the semaphores only when the reader has done its last
\* semop: the reserveSem "check read finish" (share_mem_writer.c:175).
RemovedUnused == Orderly /\ wpc \in {"unlink", "success"} => rpc = "success"

\* The writer's total is the length of its input, even when a reader that came
\* too early disturbs the semaphores; and the totals the two programs print
\* agree, although the writer reads cnt after it has let the reader in
\* (share_mem_writer.c:146, 168).
TotalsAgree ==
  wpc = "success" =>
    /\ wbytes = InLen
    /\ Orderly => wbytes = rbytes /\ wxfrs = rxfrs /\ Len(stdout) = InLen

\* The counts the writer stores are the counts the reader finds, each once and
\* in order: no transfer is overwritten before it is read or read twice.
Channel == INSTANCE Handoff WITH
  Items <- 0 .. MaxRead,
  put <- IF Orderly THEN chunks ELSE <<>>,
  taken <- IF Orderly THEN taken ELSE <<>>
HandoffSpec == Channel!Spec

\* The two programs never wait for each other: unless one of them fails, both
\* come to their end, whatever values the semaphores had before.
Completed ==
  Orderly => <>(\/ wpc = "success" /\ rpc = "success"
                \/ wpc = "failure" \/ rpc = "failure")

\* "./writer < /etc/services & ./reader > out.txt" (share_mem_writer.c:1) copies
\* the input: what the reader wrote is what the writer read.
OutputIsInput == rpc = "success" => stdout = [i \in 1 .. InLen |-> i]
=============================================================================
