------------------------------ MODULE ShmProofs ------------------------------
(***************************************************************************)
(* Proofs about the two programs that share memory.  ShmTransfer, for      *)
(* inputs and buffers of any size: type correctness and, in the orderly    *)
(* circumstances the protocol is made for, mutual exclusion, removal of    *)
(* the semaphores after their last use, and refinement of Handoff; the     *)
(* writer's total is right in all circumstances.  SignalShm, for any       *)
(* number of consumers and messages: type correctness, the order of the    *)
(* data the handlers are called with, and the bound of the counter.        *)
(***************************************************************************)
EXTENDS ShmTransfer, SignalShm, SequenceTheorems, FiniteSetTheorems, TLAPS

\* Type correctness of segment, semaphores, writer and reader.
THEOREM TypeCorrect == Spec => []TypeOK
<1> USE InLenAssumption, MaxReadAssumption, MapCellsAssumption
<1>1. Init => TypeOK
  <2> SUFFICES ASSUME Init PROVE TypeOK
    OBVIOUS
  <2>1. /\ semW \in Nat /\ semR \in Nat
        /\ mem \in [Cells -> Nat] /\ wpc = "shm" /\ rpc = "shm" /\ start \in Starts
    BY DEF Init
  <2>5. shmExists \in BOOLEAN /\ semExists \in BOOLEAN
    BY Zenon DEF Init
  <2>2. cnt \in -1 .. MaxRead
    BY DEF Init
  <2>3. /\ pos \in 0 .. InLen /\ wbytes \in Int /\ wxfrs \in Nat /\ rbytes \in Int
        /\ rxfrs \in Nat /\ chunks \in Seq(0 .. MaxRead) /\ taken \in Seq(-1 .. MaxRead)
    BY DEF Init
  <2>4. QED
    BY <2>1, <2>2, <2>3, <2>5 DEF TypeOK
<1>2. TypeOK /\ [Next]_vars => TypeOK'
  <2> SUFFICES ASSUME TypeOK, [Next]_vars PROVE TypeOK'
    OBVIOUS
  <2> USE DEF TypeOK, sems, writer, reader
  <2>1. CASE WriterSetup
    <3>1. CASE WriterShm
      BY <3>1 DEF WriterShm
    <3>2. CASE WriterSem
      BY <3>2 DEF WriterSem
    <3>3. CASE WriterInitW
      BY <3>3 DEF WriterInitW
    <3>4. CASE WriterInitR
      BY <3>4 DEF WriterInitR
    <3>5. QED
      BY <2>1, <3>1, <3>2, <3>3, <3>4 DEF WriterSetup
  <2>2. CASE WriterReserve
    BY <2>2 DEF WriterReserve
  <2>3. CASE WriterRead
    <3>1. PICK n \in 0 .. MaxRead :
            /\ n <= InLen - pos
            /\ mem' = [k \in Cells |-> IF k - WriterBuf \in 1 .. n THEN pos + k - WriterBuf
                                                                   ELSE mem[k]]
            /\ cnt' = n /\ pos' = pos + n /\ chunks' = Append(chunks, n)
      BY <2>3 DEF WriterRead
    <3>2. mem' \in [Cells -> Nat]
      <4>1. ASSUME NEW k \in Cells PROVE mem'[k] \in Nat
        BY <3>1, <4>1 DEF Cells, WriterBuf
      <4>2. QED
        BY <3>1, <4>1
    <3>3. cnt' \in -1 .. MaxRead /\ pos' \in 0 .. InLen /\ chunks' \in Seq(0 .. MaxRead)
      BY <3>1
    <3>4. QED
      BY <2>3, <3>2, <3>3 DEF WriterRead
  <2>4. CASE WriterReadFails
    BY <2>4 DEF WriterReadFails
  <2>5. CASE WriterRelease \/ WriterCheck \/ WriterRmid \/ WriterUnlink
    <3>1. CASE WriterRelease
      BY <3>1 DEF WriterRelease
    <3>2. CASE WriterCheck
      BY <3>2 DEF WriterCheck
    <3>3. CASE WriterRmid
      BY <3>3 DEF WriterRmid
    <3>4. CASE WriterUnlink
      BY <3>4 DEF WriterUnlink
    <3>5. QED
      BY <2>5, <3>1, <3>2, <3>3, <3>4
  <2>6. CASE ReaderShm \/ ReaderSem \/ ReaderReserve
    <3>1. CASE ReaderShm
      BY <3>1 DEF ReaderShm
    <3>2. CASE ReaderSem
      BY <3>2 DEF ReaderSem
    <3>3. CASE ReaderReserve
      BY <3>3 DEF ReaderReserve
    <3>4. QED
      BY <2>6, <3>1, <3>2, <3>3
  <2>7. CASE ReaderWrite
    BY <2>7 DEF ReaderWrite, ReaderXfrs
  <2>8. CASE ReaderWriteFails \/ ReaderRelease \/ ReaderSemFails
    <3>1. CASE ReaderWriteFails
      BY <3>1 DEF ReaderWriteFails
    <3>2. CASE ReaderRelease
      BY <3>2 DEF ReaderRelease
    <3>3. CASE ReaderSemFails
      BY <3>3 DEF ReaderSemFails
    <3>4. QED
      BY <2>8, <3>1, <3>2, <3>3
  <2>9. CASE UNCHANGED vars
    BY <2>9 DEF vars
  <2>10. QED
    BY <2>1, <2>2, <2>3, <2>4, <2>5, <2>6, <2>7, <2>8, <2>9 DEF Next, WriterStep, ReaderStep
<1>3. QED
  BY <1>1, <1>2, PTL DEF Spec
-----------------------------------------------------------------------------
(* The inductive invariant behind Exclusive, RemovedUnused and HandoffSpec. *)

\* Before the writer's loop.
Setup == {"shm", "sem", "initW", "initR"}

\* The writer, or the reader, has passed its reserveSem and not yet its
\* releaseSem; a writer that is past its last reserveSem never gives it back.
WriterIn == wpc \in {"read", "release", "rmid", "unlink", "success", "failure"}
ReaderIn == rpc \in {"write", "release", "last"}

\* Until the writer is in its loop, the reader is not started (start = "late"), or
\* finds no READ_SEM to reserve.
SetupQuiet ==
  wpc \in Setup =>
    /\ start = "late" => rpc = "shm"
    /\ start # "late" => semR = 0 /\ rpc \in {"shm", "sem", "reserve", "failure"}
    /\ wpc = "initR" => semW = 1

\* From then on one token goes round: it is in a semaphore or with a process,
\* or lost with a process that failed.
OneToken ==
  wpc \notin Setup =>
    /\ semW \in {0, 1} /\ semR \in {0, 1}
    /\ semW = 1 => semR = 0 /\ ~WriterIn /\ ~ReaderIn
    /\ semR = 1 => ~WriterIn /\ ~ReaderIn
    /\ WriterIn => ~ReaderIn

\* The end of the input is handed over like any transfer: the reader leaves its
\* loop on the 0 that makes the writer leave its own.
EndAgreed ==
  /\ rpc = "release" => cnt # 0
  /\ rpc = "last" => cnt = 0
  /\ wpc = "last" => cnt = 0
  /\ wpc = "reserve" /\ semW = 0 => cnt # 0
  /\ rpc = "success" => cnt = 0 /\ wpc \in {"check", "last", "rmid", "unlink", "success"}
  /\ wpc \in {"check", "last"} /\ cnt = 0 /\ semW = 1 => rpc = "success"
  /\ wpc \in {"rmid", "unlink", "success"} => rpc = "success"

\* A transfer that is stored and not taken, and none.
Full == wpc = "release" \/ rpc = "write" \/ (wpc \notin Setup /\ semR = 1)
Empty == wpc \in Setup \cup {"read"} \/ rpc \in {"release", "last"} \/ (wpc \notin Setup /\ semW = 1)

Transfers ==
  /\ Full => Len(chunks) = Len(taken) + 1 /\ cnt = chunks[Len(chunks)]
  /\ Empty => Len(chunks) = Len(taken)

IInv == SetupQuiet /\ OneToken /\ EndAgreed /\ Transfers

OrderlyIInv == Orderly => IInv

\* How the programs were started does not change.
LEMMA StartKept == [Next]_vars => start' = start
<1> USE DEF writer, reader
<1>1. WriterStep => start' = start
  BY DEF WriterStep, WriterSetup, WriterShm, WriterSem, WriterInitW, WriterInitR, WriterReserve,
         WriterRead, WriterReadFails, WriterRelease, WriterCheck, WriterRmid, WriterUnlink
<1>2. ReaderStep => start' = start
  BY DEF ReaderStep, ReaderShm, ReaderSem, ReaderReserve, ReaderWrite, ReaderWriteFails,
         ReaderRelease, ReaderSemFails
<1>3. QED
  BY <1>1, <1>2 DEF Next, vars

\* The tokens: SetupQuiet and OneToken are preserved.
LEMMA TokenInductive ==
  ASSUME TypeOK, SetupQuiet, OneToken, [Next]_vars
  PROVE  SetupQuiet' /\ OneToken'
<1> USE DEF TypeOK, SetupQuiet, OneToken, Setup, WriterIn, ReaderIn, sems, writer, reader
<1>1. CASE WriterShm \/ WriterSem
  BY <1>1 DEF WriterShm, WriterSem
<1>2. CASE WriterInitW
  BY <1>2 DEF WriterInitW
<1>3. CASE WriterInitR
  BY <1>3 DEF WriterInitR
<1>4. CASE WriterReserve
  BY <1>4 DEF WriterReserve
<1>5. CASE WriterRead \/ WriterReadFails
  BY <1>5 DEF WriterRead, WriterReadFails
<1>6. CASE WriterRelease
  BY <1>6 DEF WriterRelease
<1>7. CASE WriterCheck \/ WriterRmid \/ WriterUnlink
  BY <1>7 DEF WriterCheck, WriterRmid, WriterUnlink
<1>8. CASE ReaderShm \/ ReaderSem
  BY <1>8 DEF ReaderShm, ReaderSem
<1>9. CASE ReaderReserve
  BY <1>9 DEF ReaderReserve
<1>10. CASE ReaderWrite \/ ReaderWriteFails
  BY <1>10 DEF ReaderWrite, ReaderWriteFails
<1>11. CASE ReaderRelease
  BY <1>11 DEF ReaderRelease
<1>12. CASE ReaderSemFails
  BY <1>12 DEF ReaderSemFails
<1>13. CASE UNCHANGED vars
  BY <1>13 DEF vars
<1>14. QED
  BY <1>1, <1>2, <1>3, <1>4, <1>5, <1>6, <1>7, <1>8, <1>9, <1>10, <1>11, <1>12, <1>13
     DEF Next, WriterStep, WriterSetup, ReaderStep

\* The end of the input: EndAgreed is preserved.
LEMMA EndInductive ==
  ASSUME TypeOK, SetupQuiet, OneToken, EndAgreed, [Next]_vars
  PROVE  EndAgreed'
<1> USE DEF TypeOK, SetupQuiet, OneToken, EndAgreed, Setup, WriterIn, ReaderIn, sems, writer, reader
<1>1. CASE WriterSetup
  BY SMTT(30), <1>1 DEF WriterSetup, WriterShm, WriterSem, WriterInitW, WriterInitR
<1>2. CASE WriterReserve
  BY <1>2 DEF WriterReserve
<1>3. CASE WriterRead \/ WriterReadFails
  BY <1>3 DEF WriterRead, WriterReadFails
<1>4. CASE WriterRelease
  BY <1>4 DEF WriterRelease
<1>5. CASE WriterCheck \/ WriterRmid \/ WriterUnlink
  BY <1>5 DEF WriterCheck, WriterRmid, WriterUnlink
<1>6. CASE ReaderShm \/ ReaderSem \/ ReaderReserve
  BY <1>6 DEF ReaderShm, ReaderSem, ReaderReserve
<1>7. CASE ReaderWrite \/ ReaderWriteFails
  BY <1>7 DEF ReaderWrite, ReaderWriteFails
<1>8. CASE ReaderRelease
  BY <1>8 DEF ReaderRelease
<1>9. CASE ReaderSemFails
  BY <1>9 DEF ReaderSemFails
<1>10. CASE UNCHANGED vars
  BY <1>10 DEF vars
<1>11. QED
  BY <1>1, <1>2, <1>3, <1>4, <1>5, <1>6, <1>7, <1>8, <1>9, <1>10 DEF Next, WriterStep, ReaderStep

\* The transfers: Transfers is preserved.
LEMMA TransferInductive ==
  ASSUME TypeOK, SetupQuiet, OneToken, Transfers, [Next]_vars
  PROVE  Transfers'
<1> USE DEF TypeOK, SetupQuiet, OneToken, Transfers, Full, Empty, Setup, WriterIn, ReaderIn,
            sems, writer, reader
<1>1. CASE WriterSetup
  BY <1>1 DEF WriterSetup, WriterShm, WriterSem, WriterInitW, WriterInitR
<1>2. CASE WriterReserve
  BY <1>2 DEF WriterReserve
<1>3. CASE WriterRead
  <2>1. PICK n \in 0 .. MaxRead : cnt' = n /\ chunks' = Append(chunks, n)
    BY <1>3 DEF WriterRead
  <2>2. Len(chunks') = Len(chunks) + 1 /\ chunks'[Len(chunks')] = n
    BY <2>1
  <2>3. QED
    BY <1>3, <2>1, <2>2 DEF WriterRead
<1>4. CASE WriterReadFails
  BY <1>4 DEF WriterReadFails
<1>5. CASE WriterRelease
  BY <1>5 DEF WriterRelease
<1>6. CASE WriterCheck \/ WriterRmid \/ WriterUnlink
  BY <1>6 DEF WriterCheck, WriterRmid, WriterUnlink
<1>7. CASE ReaderShm \/ ReaderSem \/ ReaderReserve
  <2>1. CASE ReaderShm \/ ReaderSem
    BY <2>1 DEF ReaderShm, ReaderSem
  <2>2. CASE ReaderReserve
    <3>1. wpc \notin Setup /\ wpc' = wpc /\ semR = 1 /\ UNCHANGED <<cnt, chunks, taken>>
      BY <2>2 DEF ReaderReserve
    <3>2. Full /\ ~Empty'
      BY <2>2, <3>1 DEF ReaderReserve
    <3>3. QED
      BY <3>1, <3>2
  <2>3. QED
    BY <1>7, <2>1, <2>2
<1>8. CASE ReaderWrite
  <2>1. Len(taken') = Len(taken) + 1
    BY <1>8 DEF ReaderWrite
  <2>2. QED
    BY <1>8, <2>1 DEF ReaderWrite
<1>9. CASE ReaderWriteFails
  BY <1>9 DEF ReaderWriteFails
<1>10. CASE ReaderRelease
  BY <1>10 DEF ReaderRelease
<1>11. CASE ReaderSemFails
  BY <1>11 DEF ReaderSemFails
<1>12. CASE UNCHANGED vars
  BY <1>12 DEF vars
<1>13. QED
  BY <1>1, <1>2, <1>3, <1>4, <1>5, <1>6, <1>7, <1>8, <1>9, <1>10, <1>11, <1>12
     DEF Next, WriterStep, ReaderStep

\* In orderly circumstances every reachable state satisfies the invariant.
THEOREM Invariant == Spec => [](TypeOK /\ OrderlyIInv)
<1>1. Init => OrderlyIInv
  <2> SUFFICES ASSUME Init, Orderly PROVE IInv
    BY DEF OrderlyIInv
  <2>1. wpc = "shm" /\ rpc = "shm" /\ chunks = <<>> /\ taken = <<>>
    BY DEF Init
  <2>2. start # "late" => semR = 0
    BY DEF Init, Orderly
  <2>3. SetupQuiet /\ OneToken
    BY <2>1, <2>2 DEF SetupQuiet, OneToken, Setup
  <2>4. EndAgreed
    BY <2>1 DEF EndAgreed
  <2>5. Transfers
    BY <2>1 DEF Transfers, Setup, Full, Empty
  <2>6. QED
    BY <2>3, <2>4, <2>5 DEF IInv
<1>2. TypeOK /\ OrderlyIInv /\ [Next]_vars => OrderlyIInv'
  BY StartKept, TokenInductive, EndInductive, TransferInductive DEF OrderlyIInv, IInv, Orderly
<1>3. QED
  BY <1>1, <1>2, TypeCorrect, PTL DEF Spec

\* The writer and the reader are never in the segment together.
THEOREM MutualExclusion == Spec => []Exclusive
<1>1. OrderlyIInv => Exclusive
  BY DEF OrderlyIInv, IInv, Exclusive, SetupQuiet, OneToken, Setup, WriterIn, ReaderIn
<1>2. QED
  BY <1>1, Invariant, PTL

\* The semaphores are removed after the reader's last use of them.
THEOREM Removal == Spec => []RemovedUnused
<1>1. OrderlyIInv => RemovedUnused
  BY DEF OrderlyIInv, IInv, RemovedUnused, EndAgreed
<1>2. QED
  BY <1>1, Invariant, PTL

\* Counts cross the segment one at a time, each taken once and in order.
THEOREM Refinement == Spec => HandoffSpec
<1> DEFINE put == IF Orderly THEN chunks ELSE <<>>
           gone == IF Orderly THEN taken ELSE <<>>
<1>1. Init => Channel!Init
  BY DEF Init, Channel!Init
<1>2. TypeOK /\ OrderlyIInv /\ [Next]_vars => [Channel!Next]_<<put, gone>>
  <2> SUFFICES ASSUME TypeOK, OrderlyIInv, [Next]_vars
               PROVE  Channel!Next \/ UNCHANGED <<put, gone>>
    OBVIOUS
  <2>1. Orderly' <=> Orderly
    BY StartKept DEF Orderly
  <2>2. CASE ~Orderly
    BY <2>1, <2>2
  <2>3. CASE Orderly /\ WriterRead
    <3>1. PICK n \in 0 .. MaxRead : chunks' = Append(chunks, n)
      BY <2>3 DEF WriterRead
    <3>2. Len(chunks) = Len(taken) /\ taken' = taken
      BY <2>3 DEF WriterRead, reader, OrderlyIInv, IInv, Transfers, Empty
    <3>3. Channel!Put(n)
      BY <2>1, <2>3, <3>1, <3>2 DEF Channel!Put
    <3>4. QED
      BY <3>3 DEF Channel!Next
  <2>4. CASE Orderly /\ ReaderWrite
    <3>1. Len(chunks) = Len(taken) + 1 /\ cnt = chunks[Len(chunks)]
      BY <2>4 DEF ReaderWrite, OrderlyIInv, IInv, Transfers, Full
    <3>2. taken' = Append(taken, cnt) /\ chunks' = chunks
      BY <2>4 DEF ReaderWrite, writer
    <3>3. Channel!Take
      BY <2>1, <2>4, <3>1, <3>2 DEF TypeOK, Channel!Take
    <3>4. QED
      BY <3>3 DEF Channel!Next
  <2>5. CASE ~WriterRead /\ ~ReaderWrite
    <3>1. UNCHANGED <<chunks, taken>>
      BY <2>5 DEF Next, WriterStep, WriterSetup, ReaderStep, WriterShm, WriterSem, WriterInitW,
         WriterInitR, WriterReserve, WriterReadFails, WriterRelease, WriterCheck, WriterRmid,
         WriterUnlink, ReaderShm, ReaderSem, ReaderReserve, ReaderWriteFails, ReaderRelease,
         ReaderSemFails, writer, reader, vars
    <3>2. QED
      BY <2>1, <3>1
  <2>6. QED
    BY <2>2, <2>3, <2>4, <2>5
<1>3. QED
  BY <1>1, <1>2, TypeCorrect, Invariant, PTL DEF Spec, HandoffSpec, Channel!Spec
-----------------------------------------------------------------------------
(* The totals the two programs print. *)

\* The writer's bytes are what it has read, but for a count that it has stored and
\* not looked at again; it leaves its loop at the end of the input.
WriterSum ==
  /\ wpc \notin {"release", "check", "failure"} => wbytes = pos
  /\ wpc \in {"release", "check"} => wbytes + cnt = pos /\ (cnt = 0 => pos = InLen)
  /\ wpc \in {"last", "rmid", "unlink", "success"} => pos = InLen

\* A transfer that the writer, or the reader, has still to count.
WriterDue == IF wpc \in {"release", "check"} /\ cnt # 0 THEN 1 ELSE 0
ReaderDue == IF Full /\ cnt # 0 THEN 1 ELSE 0

\* Unless it failed, the reader has written what the writer has read, but for what
\* is in the segment, and both count the same transfers.
ReaderSum ==
  rpc # "failure" =>
    /\ stdout \in Seq(Nat) /\ Len(stdout) = rbytes
    /\ Full => rbytes + cnt = pos
    /\ Empty \/ wpc \in {"rmid", "unlink", "success"} => rbytes = pos
    /\ wxfrs + WriterDue = rxfrs + ReaderDue

OrderlySum == Orderly => ReaderSum

\* The writer's sum, whatever the reader does: only the writer changes cnt.
LEMMA WriterSumInductive ==
  ASSUME TypeOK, WriterSum, [Next]_vars
  PROVE  WriterSum'
<1> USE InLenAssumption, MaxReadAssumption DEF TypeOK, WriterSum, sems, writer, reader
<1>1. CASE WriterSetup
  BY <1>1 DEF WriterSetup, WriterShm, WriterSem, WriterInitW, WriterInitR
<1>2. CASE WriterReserve
  BY <1>2 DEF WriterReserve
<1>3. CASE WriterRead
  <2>1. PICK n \in 0 .. MaxRead : cnt' = n /\ pos' = pos + n /\ (n = 0 => pos = InLen)
    BY <1>3 DEF WriterRead
  <2>2. wpc = "read" /\ wpc' = "release" /\ wbytes' = wbytes
    BY <1>3 DEF WriterRead
  <2>3. QED
    BY <2>1, <2>2
<1>4. CASE WriterReadFails \/ WriterRelease
  BY <1>4 DEF WriterReadFails, WriterRelease
<1>5. CASE WriterCheck
  BY SMTT(30), <1>5 DEF WriterCheck
<1>6. CASE WriterRmid \/ WriterUnlink
  BY <1>6 DEF WriterRmid, WriterUnlink
<1>7. CASE ReaderStep \/ UNCHANGED vars
  <2>1. UNCHANGED <<wpc, wbytes, pos, cnt>>
    BY <1>7 DEF ReaderStep, ReaderShm, ReaderSem, ReaderReserve, ReaderWrite, ReaderWriteFails,
                ReaderRelease, ReaderSemFails, vars
  <2>2. QED
    BY <2>1
<1>8. QED
  BY <1>1, <1>2, <1>3, <1>4, <1>5, <1>6, <1>7 DEF Next, WriterStep

\* What the reader writes is as long as the count says.
LEMMA PieceWritten ==
  ASSUME TypeOK, ReaderWrite, cnt \in Nat, stdout \in Seq(Nat)
  PROVE  stdout' \in Seq(Nat) /\ Len(stdout') = Len(stdout) + cnt
<1> DEFINE piece == [k \in 1 .. cnt |-> IF k + ReaderBuf \in Cells THEN mem[k + ReaderBuf] ELSE 0]
<1>1. piece \in Seq(Nat) /\ Len(piece) = cnt
  BY DEF TypeOK
<1>2. stdout' = stdout \o piece
  BY DEF ReaderWrite
<1> HIDE DEF piece
<1>3. QED
  BY <1>1, <1>2, ConcatProperties

\* The reader's sum, under the token.
LEMMA ReaderSumInductive ==
  ASSUME TypeOK, IInv, ReaderSum, [Next]_vars
  PROVE  ReaderSum'
<1> SUFFICES ASSUME rpc' # "failure" PROVE ReaderSum'
  BY DEF ReaderSum
<1>f. rpc # "failure"
  BY DEF Next, WriterStep, WriterSetup, WriterShm, WriterSem, WriterInitW, WriterInitR, WriterReserve,
         WriterRead, WriterReadFails, WriterRelease, WriterCheck, WriterRmid, WriterUnlink,
         ReaderStep, ReaderShm, ReaderSem, ReaderReserve, ReaderWrite, ReaderWriteFails,
         ReaderRelease, ReaderSemFails, reader, vars
<1> USE InLenAssumption, MaxReadAssumption, <1>f
    DEF TypeOK, IInv, SetupQuiet, OneToken, EndAgreed, Setup, WriterIn, ReaderIn, ReaderSum,
        WriterDue, ReaderDue, Full, Empty, sems, writer, reader
<1>1. CASE WriterSetup
  BY SMTT(30), <1>1 DEF WriterSetup, WriterShm, WriterSem, WriterInitW, WriterInitR
<1>2. CASE WriterReserve
  BY <1>2 DEF WriterReserve
<1>3. CASE WriterRead
  <2>1. PICK n \in 0 .. MaxRead : cnt' = n /\ pos' = pos + n
    BY <1>3 DEF WriterRead
  <2>2. /\ wpc = "read" /\ wpc' = "release"
        /\ UNCHANGED <<semR, semW, wbytes, wxfrs, rpc, rbytes, rxfrs, stdout>>
    BY <1>3 DEF WriterRead
  <2>3. QED
    BY <2>1, <2>2
<1>4. CASE WriterReadFails
  BY <1>4 DEF WriterReadFails
<1>5. CASE WriterRelease
  BY <1>5 DEF WriterRelease
<1>6. CASE WriterCheck
  BY <1>6 DEF WriterCheck
<1>7. CASE WriterRmid \/ WriterUnlink
  BY <1>7 DEF WriterRmid, WriterUnlink
<1>8. CASE ReaderShm \/ ReaderSem
  BY <1>8 DEF ReaderShm, ReaderSem
<1>9. CASE ReaderReserve
  BY <1>9 DEF ReaderReserve
<1>10. CASE ReaderWrite
  <2>1. cnt \in 0 .. MaxRead
    BY <1>10 DEF ReaderWrite, Transfers
  <2>2. /\ rpc = "write" /\ rpc' = IF cnt = 0 THEN "last" ELSE "release"
        /\ rbytes' = rbytes + cnt /\ rxfrs' = IF cnt = 0 THEN rxfrs ELSE rxfrs + 1
        /\ UNCHANGED <<semR, semW, cnt, wpc, pos, wbytes, wxfrs>>
    BY <1>10 DEF ReaderWrite, ReaderXfrs
  <2>3. stdout' \in Seq(Nat) /\ Len(stdout') = Len(stdout) + cnt
    BY <1>10, <2>1, PieceWritten
  <2>4. Full /\ ~Full' /\ ~WriterIn
    BY <2>2
  <2>5. rbytes + cnt = pos /\ Len(stdout) = rbytes
    BY <2>4
  <2>6. rbytes' = pos' /\ Len(stdout') = rbytes'
    BY <2>1, <2>2, <2>3, <2>5
  <2>7. wxfrs' + WriterDue' = rxfrs' + ReaderDue'
    BY <2>1, <2>2, <2>4
  <2>8. QED
    BY <2>3, <2>4, <2>6, <2>7
<1>11. CASE ReaderWriteFails \/ ReaderSemFails
  BY <1>11 DEF ReaderWriteFails, ReaderSemFails
<1>12. CASE ReaderRelease
  BY <1>12 DEF ReaderRelease
<1>13. CASE UNCHANGED vars
  BY <1>13 DEF vars
<1>14. QED
  BY <1>1, <1>2, <1>3, <1>4, <1>5, <1>6, <1>7, <1>8, <1>9, <1>10, <1>11, <1>12, <1>13
     DEF Next, WriterStep, ReaderStep

\* The writer's total is its input; in orderly circumstances the reader prints the
\* same totals.
THEOREM Totals == Spec => []TotalsAgree
<1>1. Init => WriterSum /\ OrderlySum
  BY DEF Init, WriterSum, OrderlySum, ReaderSum, WriterDue, ReaderDue, Full, Empty, Setup
<1>2. TypeOK /\ OrderlyIInv /\ WriterSum /\ OrderlySum /\ [Next]_vars => WriterSum' /\ OrderlySum'
  BY StartKept, WriterSumInductive, ReaderSumInductive DEF OrderlyIInv, OrderlySum, Orderly
<1>3. TypeOK /\ OrderlyIInv /\ WriterSum /\ OrderlySum => TotalsAgree
  <2> SUFFICES ASSUME TypeOK, OrderlyIInv, WriterSum, OrderlySum, wpc = "success"
               PROVE  /\ wbytes = InLen
                      /\ Orderly => wbytes = rbytes /\ wxfrs = rxfrs /\ Len(stdout) = InLen
    BY DEF TotalsAgree
  <2>1. wbytes = InLen /\ pos = InLen
    BY DEF WriterSum
  <2>2. ASSUME Orderly PROVE rbytes = InLen /\ wxfrs = rxfrs /\ Len(stdout) = InLen
    <3>1. rpc = "success" /\ semR # 1 /\ ReaderSum
      BY <2>2 DEF OrderlyIInv, OrderlySum, IInv, EndAgreed, OneToken, Setup, WriterIn
    <3>2. WriterDue = 0 /\ ReaderDue = 0
      BY <3>1 DEF WriterDue, ReaderDue, Full
    <3>3. QED
      BY <2>1, <3>1, <3>2 DEF ReaderSum, TypeOK
  <2>3. QED
    BY <2>1, <2>2
<1>4. QED
  BY <1>1, <1>2, <1>3, Invariant, PTL DEF Spec
-----------------------------------------------------------------------------
(* SignalShm *)

\* Where the loops of main are; nobody runs before fork.
MainAt ==
  /\ mpc = "queue" => i < DataNum
  /\ mpc = "setup" => \A c \in Consumers : cpc[c] = "unborn"

\* Type correctness of the counter, main, the consumers and the pending signals.
THEOREM SigTypeCorrect == SigSpec => [](SigTypeOK /\ MainAt)
<1> USE NAssumption, DataNumAssumption DEF Consumers, None
<1>1. SigInit => SigTypeOK /\ MainAt
  BY DEF SigInit, SigTypeOK, MainAt, Running
<1>2. SigTypeOK /\ MainAt /\ [SigNext]_sigVars => SigTypeOK' /\ MainAt'
  <2> SUFFICES ASSUME SigTypeOK, MainAt, [SigNext]_sigVars PROVE SigTypeOK' /\ MainAt'
    OBVIOUS
  <2> USE DEF SigTypeOK, MainAt, Running, Move, consumers
  <2>1. CASE MainSetup
    BY <2>1 DEF MainSetup
  <2>2. CASE MainFork
    <3>1. j' \in Consumers /\ mpc' \in {"fork", "message"}
      <4>1. j \in 1 .. N /\ mpc = "fork" /\ EachConsumer("message")
        BY <2>2 DEF MainFork
      <4>2. QED
        BY <4>1 DEF EachConsumer
    <3>2. cpc' \in [Consumers -> {"unborn", "zombie", "reaped"} \cup Running]
      BY <2>2 DEF MainFork
    <3>3. QED
      BY <2>2, <3>1, <3>2 DEF MainFork
  <2>3. CASE MainForkFails \/ MainPrint
    BY <2>3 DEF MainForkFails, MainPrint
  <2>4. CASE MainMessage
    BY <2>4 DEF MainMessage
  <2>5. CASE MainQueue
    <3>1. i \in 0 .. DataNum - 1 /\ i' \in 0 .. DataNum /\ (mpc' = "queue" => i' < DataNum)
      BY <2>5 DEF MainQueue, EachConsumer
    <3>2. usr1' \in [Consumers -> {None} \cup 0 .. DataNum - 1]
      BY <2>5, <3>1 DEF MainQueue, Announced
    <3>3. j' \in Consumers /\ mpc' \in {"queue", "message"}
      BY SMTT(30), <2>5 DEF MainQueue, EachConsumer
    <3>4. QED
      BY <2>5, <3>1, <3>2, <3>3 DEF MainQueue
  <2>6. CASE MainKill
    <3>1. j' \in Consumers /\ mpc' \in {"kill", "wait"}
      BY SMTT(30), <2>6 DEF MainKill, EachConsumer
    <3>2. int' \in [Consumers -> BOOLEAN]
      BY <2>6 DEF MainKill
    <3>3. QED
      BY <2>6, <3>1, <3>2 DEF MainKill
  <2>7. CASE MainWait
    <3>1. j' \in Consumers /\ mpc' \in {"wait", "print"}
      BY SMTT(30), <2>7 DEF MainWait, EachConsumer
    <3>2. cpc' \in [Consumers -> {"unborn", "zombie", "reaped"} \cup Running]
      BY <2>7 DEF MainWait
    <3>3. QED
      BY <2>7, <3>1, <3>2 DEF MainWait
  <2>8. ASSUME NEW c \in Consumers, ConsumerStep(c) PROVE SigTypeOK' /\ MainAt'
    <3>1. CASE ConsumerKilled(c)
      BY <3>1 DEF ConsumerKilled
    <3>2. CASE HandlerEnter(c)
      <4>1. usr1[c] \in 0 .. DataNum - 1
        BY <3>2 DEF HandlerEnter
      <4>2. Append(got[c], usr1[c]) \in Seq(0 .. DataNum - 1)
        BY <4>1
      <4>3. got' \in [Consumers -> Seq(0 .. DataNum - 1)]
        BY <3>2, <4>2 DEF HandlerEnter
      <4>4. QED
        BY <3>2, <4>3 DEF HandlerEnter
    <3>3. CASE HandlerFails(c)
      BY <3>3 DEF HandlerFails
    <3>4. CASE HandlerLoad(c)
      BY <3>4 DEF HandlerLoad
    <3>5. CASE HandlerStore(c)
      <4>1. received' \in Nat
        BY SMTT(30), <3>5 DEF HandlerStore
      <4>3. counted' \in [Consumers -> Nat]
        <5>1. counted[c] + 1 \in Nat /\ counted' = [counted EXCEPT ![c] = counted[c] + 1]
          BY SMTT(30), <3>5 DEF HandlerStore
        <5>2. QED
          BY <5>1
      <4>2. QED
        BY <3>5, <4>1, <4>3 DEF HandlerStore
    <3>6. CASE HandlerPrint(c)
      BY <3>6 DEF HandlerPrint
    <3>7. QED
      BY <2>8, <3>1, <3>2, <3>3, <3>4, <3>5, <3>6 DEF ConsumerStep
  <2>9. CASE UNCHANGED sigVars
    BY <2>9 DEF sigVars
  <2>10. QED
    BY <2>1, <2>2, <2>3, <2>4, <2>5, <2>6, <2>7, <2>8, <2>9 DEF SigNext, MainStep
<1>3. QED
  BY <1>1, <1>2, PTL DEF SigSpec
-----------------------------------------------------------------------------
(* The data the handlers are called with. *)

\* The messages announced to c so far, and those among them that are behind the
\* pending signal, if there is one.
Announcements(c) == IF mpc = "queue" /\ c < j THEN i + 1 ELSE i
Behind(c) == IF usr1[c] = None THEN Announcements(c) ELSE usr1[c]

\* What the handler of c has had came before what is pending, which came before
\* what main will announce; the data grow, so the k-th of them is k - 1 or more.
Ordered(c) ==
  /\ usr1[c] < Announcements(c)
  /\ \A k \in 1 .. Len(got[c]) : k - 1 <= got[c][k] /\ got[c][k] < Behind(c)
  /\ \A k \in 2 .. Len(got[c]) : got[c][k - 1] < got[c][k]

\* What the types say of one consumer's numbers.
LEMMA Numbers ==
  ASSUME SigTypeOK, NEW c \in Consumers
  PROVE  /\ i \in Nat /\ j \in Int /\ c \in Int
         /\ usr1[c] \in Int /\ (usr1[c] # None => usr1[c] \in Nat)
         /\ got[c] \in Seq(Nat) /\ Len(got[c]) \in Nat
         /\ \A k \in 1 .. Len(got[c]) : got[c][k] \in Nat
         /\ Announcements(c) \in Int /\ Behind(c) \in Int
<1> USE DataNumAssumption, NAssumption DEF SigTypeOK, Consumers, None
<1>1. i \in Nat /\ j \in Int /\ c \in Int
  OBVIOUS
<1>2. usr1[c] \in {None} \cup 0 .. DataNum - 1
  OBVIOUS
<1>3. got[c] \in Seq(0 .. DataNum - 1)
  OBVIOUS
<1>4. Len(got[c]) \in Nat /\ \A k \in 1 .. Len(got[c]) : got[c][k] \in Nat
  <2>1. Len(got[c]) \in Nat /\ \A k \in 1 .. Len(got[c]) : got[c][k] \in 0 .. DataNum - 1
    BY <1>3, ElementOfSeq, LenProperties
  <2>2. QED
    BY <2>1
<1>5. got[c] \in Seq(Nat)
  BY <1>3, <1>4
<1>6. Announcements(c) \in Int /\ Behind(c) \in Int
  BY <1>1, <1>2 DEF Announcements, Behind
<1>7. QED
  BY SMTT(30), <1>1, <1>2, <1>4, <1>5, <1>6

\* The same after a step.
LEMMA NumbersAfter ==
  ASSUME SigTypeOK', NEW c \in Consumers
  PROVE  usr1'[c] \in Int /\ Announcements(c)' \in Int /\ Behind(c)' \in Int
<1> USE DataNumAssumption, NAssumption DEF SigTypeOK, Consumers, None
<1>1. i' \in Nat /\ usr1'[c] \in {None} \cup 0 .. DataNum - 1
  OBVIOUS
<1>2. usr1'[c] \in Int
  BY <1>1
<1>3. Announcements(c)' \in Int
  BY <1>1 DEF Announcements
<1>4. QED
  BY <1>2, <1>3 DEF Behind

\* A step that leaves the data of c alone and moves the bounds up, if at all.
LEMMA OrderedKept ==
  ASSUME SigTypeOK, NEW c \in Consumers, Ordered(c), got'[c] = got[c], Behind(c)' \in Int,
         usr1'[c] < Announcements(c)', Behind(c) <= Behind(c)'
  PROVE  Ordered(c)'
BY SMTT(30), Numbers DEF Ordered

\* Main only moves on: what it has announced to c stays announced.
LEMMA AnnouncementsGrow ==
  ASSUME SigTypeOK, MainAt, NEW c \in Consumers, [SigNext]_sigVars
  PROVE  Announcements(c) <= Announcements(c)'
<1>0. i \in Nat /\ j \in Int /\ c \in Int
  BY Numbers
<1> USE DEF Announcements
<1>1. CASE MainQueue
  BY <1>0, <1>1 DEF MainQueue, EachConsumer
<1>2. CASE MainMessage
  BY <1>0, <1>2 DEF MainMessage
<1>3. CASE ~MainQueue /\ ~MainMessage
  <2>1. i' = i /\ (mpc # "queue" \/ (mpc' = mpc /\ j' = j))
    <3>1. MainStep => i' = i /\ mpc # "queue"
      BY <1>3 DEF MainStep, MainSetup, MainFork, MainForkFails, MainKill, MainWait, MainPrint
    <3>2. ASSUME NEW d \in Consumers, ConsumerStep(d) PROVE i' = i /\ mpc' = mpc /\ j' = j
      BY <3>2 DEF ConsumerStep, ConsumerKilled, HandlerEnter, HandlerFails, HandlerLoad,
                  HandlerStore, HandlerPrint
    <3>3. QED
      BY <3>1, <3>2 DEF SigNext, sigVars
  <2>2. QED
    BY <1>0, <2>1
<1>4. QED
  BY <1>1, <1>2, <1>3

\* Every step keeps the data in order, for every consumer.
LEMMA OrderedInductive ==
  ASSUME SigTypeOK, SigTypeOK', MainAt, NEW c \in Consumers, Ordered(c), [SigNext]_sigVars
  PROVE  Ordered(c)'
<1>1. Announcements(c) <= Announcements(c)' /\ Announcements(c) \in Int /\ Announcements(c)' \in Int
  BY AnnouncementsGrow, Numbers, NumbersAfter
<1>b. Behind(c) \in Int /\ Behind(c)' \in Int
  BY Numbers, NumbersAfter
<1>2. CASE UNCHANGED <<got, usr1>>
  <2>1. usr1[c] \in Int /\ usr1[c] < Announcements(c)
    BY Numbers DEF Ordered
  <2>2. usr1'[c] < Announcements(c)' /\ Behind(c) <= Behind(c)'
    BY <1>1, <1>2, <2>1 DEF Behind
  <2>3. QED
    BY <1>2, <1>b, <2>2, OrderedKept
<1>3. CASE MainQueue
  <2>1. usr1[c] \in Int /\ usr1'[c] \in Int /\ i \in Nat /\ j \in Int /\ c \in 1 .. N
    BY Numbers, NumbersAfter DEF Consumers
  <2>2. mpc = "queue" /\ got' = got /\ (usr1'[c] = usr1[c] \/ (c = j /\ usr1[c] = None /\ usr1'[c] = i))
    BY <1>3 DEF MainQueue, SigTypeOK, Announced
  <2>3. Announcements(c)' = IF c <= j THEN i + 1 ELSE i
    BY SMTT(30), <1>3, <2>1, NAssumption DEF MainQueue, EachConsumer, Announcements, SigTypeOK, Consumers
  <2>4. usr1[c] < Announcements(c)
    BY DEF Ordered
  <2>5. CASE usr1'[c] = usr1[c]
    <3>1. usr1'[c] < Announcements(c)' /\ Behind(c) <= Behind(c)'
      BY <1>1, <2>1, <2>4, <2>5 DEF Behind
    <3>2. QED
      BY <1>b, <2>2, <3>1, OrderedKept
  <2>6. CASE c = j /\ usr1[c] = None /\ usr1'[c] = i
    <3>1. Announcements(c) = i /\ Announcements(c)' = i + 1 /\ i # None
      BY <2>1, <2>2, <2>3, <2>6 DEF Announcements, None
    <3>2. usr1'[c] < Announcements(c)' /\ Behind(c) <= Behind(c)'
      BY <2>1, <2>6, <3>1 DEF Behind
    <3>3. QED
      BY <1>b, <2>2, <3>2, OrderedKept
  <2>7. QED
    BY <2>2, <2>5, <2>6
<1>4. ASSUME NEW d \in Consumers, HandlerEnter(d) PROVE Ordered(c)'
  <2>0. Announcements(c)' = Announcements(c)
    BY <1>4 DEF HandlerEnter, Announcements
  <2>1. CASE d # c
    <3>1. got'[c] = got[c] /\ usr1'[c] = usr1[c]
      BY <1>4, <2>1 DEF HandlerEnter, SigTypeOK
    <3>2. Behind(c)' = Behind(c) /\ Behind(c) \in Int
      BY <1>b, <2>0, <3>1 DEF Behind
    <3>3. QED
      BY <1>b, <2>0, <3>1, <3>2, OrderedKept DEF Ordered
  <2>2. CASE d = c
    <3> DEFINE s == got[c]
               n == usr1[c]
    <3>1. n # None /\ n \in Nat /\ s \in Seq(Nat)
      BY <1>4, <2>2, Numbers DEF HandlerEnter
    <3>2. usr1'[c] = None /\ got'[c] = Append(s, n)
      BY <1>4, <2>2 DEF HandlerEnter, SigTypeOK
    <3>3. Behind(c) = n /\ Behind(c)' = Announcements(c) /\ n < Announcements(c)
      BY <2>0, <3>1, <3>2 DEF Behind, Ordered
    <3>4. /\ \A k \in 1 .. Len(s) : k - 1 <= s[k] /\ s[k] < n
          /\ \A k \in 2 .. Len(s) : s[k - 1] < s[k]
      BY <3>3 DEF Ordered
    <3> HIDE DEF s, n
    <3>5. /\ Len(Append(s, n)) = Len(s) + 1 /\ Append(s, n)[Len(s) + 1] = n /\ Len(s) \in Nat
          /\ \A k \in 1 .. Len(s) : Append(s, n)[k] = s[k] /\ s[k] \in Nat
      BY <3>1
    <3>6. \A k \in 1 .. Len(s) + 1 :
            k - 1 <= Append(s, n)[k] /\ Append(s, n)[k] < Announcements(c)
      <4>1. Len(s) <= n
        <5>1. CASE Len(s) = 0
          BY <3>1, <5>1
        <5>2. CASE Len(s) # 0
          <6>1. Len(s) \in 1 .. Len(s)
            BY <3>5, <5>2
          <6>2. s[Len(s)] \in Nat /\ Len(s) - 1 <= s[Len(s)] /\ s[Len(s)] < n
            BY <3>4, <3>5, <6>1
          <6>3. QED
            BY <3>1, <3>5, <6>2
        <5>3. QED
          BY <5>1, <5>2
      <4>2. QED
        BY <1>1, <3>1, <3>3, <3>4, <3>5, <4>1
    <3>7. \A k \in 2 .. Len(s) + 1 : Append(s, n)[k - 1] < Append(s, n)[k]
      <4> TAKE k \in 2 .. Len(s) + 1
      <4>1. CASE k = Len(s) + 1
        <5>1. k - 1 \in 1 .. Len(s) /\ k - 1 = Len(s)
          BY <3>5, <4>1
        <5>2. QED
          BY <3>4, <3>5, <4>1, <5>1
      <4>2. CASE k \in 2 .. Len(s)
        <5>1. k - 1 \in 1 .. Len(s) /\ k \in 1 .. Len(s)
          BY <3>5, <4>2
        <5>2. QED
          BY <3>4, <3>5, <4>2, <5>1
      <4>3. QED
        BY <3>5, <4>1, <4>2
    <3>8. usr1'[c] < Announcements(c)'
      BY <1>1, <2>0, <3>1, <3>2, <3>3 DEF None
    <3>9. QED
      BY <2>0, <3>2, <3>3, <3>5, <3>6, <3>7, <3>8 DEF Ordered
  <2>3. QED
    BY <2>1, <2>2
<1>5. QED
  BY <1>2, <1>3, <1>4
     DEF SigNext, MainStep, MainSetup, MainFork, MainForkFails, MainMessage, MainKill, MainWait,
         MainPrint, ConsumerStep, ConsumerKilled, HandlerFails, HandlerLoad, HandlerStore,
         HandlerPrint, sigVars, consumers

\* However signals merge, the data a handler is called with grow.
THEOREM Order == SigSpec => []InOrder
<1>1. SigInit => \A c \in Consumers : Ordered(c)
  BY DEF SigInit, Ordered, Announcements, Behind, None
<1>2. SigTypeOK /\ SigTypeOK' /\ MainAt /\ (\A c \in Consumers : Ordered(c)) /\ [SigNext]_sigVars
        => (\A c \in Consumers : Ordered(c))'
  BY OrderedInductive DEF Consumers
<1>3. (\A c \in Consumers : Ordered(c)) => InOrder
  BY DEF Ordered, InOrder
<1>4. QED
  BY <1>1, <1>2, <1>3, SigTypeCorrect, PTL DEF SigSpec
-----------------------------------------------------------------------------
(* The counter in shared memory. *)

\* A consumer has one increment for each datum, but for one that it is at or that
\* it did not come to; there are no more data than messages.
CountedOnce ==
  \A c \in Consumers :
    /\ cpc[c] \in {"load", "store"} => counted[c] < Len(got[c])
    /\ counted[c] <= Len(got[c])

\* What is in the counter, or was when a handler loaded it, is covered by
\* increments.
Covered ==
  /\ mpc # "setup" => received <= Increments
  /\ \A c \in Consumers : cpc[c] = "store" => reg[c] <= Increments

\* In order, a consumer can have no more data than there are messages.
LEMMA FewData ==
  ASSUME SigTypeOK, MainAt, NEW c \in Consumers, Ordered(c)
  PROVE  Len(got[c]) <= DataNum
<1>1. Announcements(c) <= DataNum
  BY DataNumAssumption DEF SigTypeOK, MainAt, Announcements
<1>2. usr1[c] # None => usr1[c] < Announcements(c)
  BY DEF Ordered
<1>3. Behind(c) <= DataNum
  BY <1>1, <1>2, Numbers, DataNumAssumption DEF Behind
<1>4. CASE Len(got[c]) = 0
  BY <1>4, DataNumAssumption
<1>5. CASE Len(got[c]) # 0
  <2>1. Len(got[c]) \in 1 .. Len(got[c])
    BY <1>5, Numbers
  <2>2. /\ Len(got[c]) - 1 <= got[c][Len(got[c])] /\ got[c][Len(got[c])] < Behind(c)
        /\ got[c][Len(got[c])] \in Nat
    BY <2>1, Numbers DEF Ordered
  <2>3. QED
    BY <1>3, <2>1, <2>2, Numbers, DataNumAssumption
<1>6. QED
  BY <1>4, <1>5

\* The increments are finitely many: at most one for each message and consumer.
LEMMA FewIncrements ==
  ASSUME SigTypeOK, \A c \in Consumers : counted[c] <= DataNum
  PROVE  IsFiniteSet(Made) /\ Increments \in Nat /\ Increments <= DataNum * N
<1>1. Made \subseteq Consumers \X (1 .. DataNum)
  BY DataNumAssumption DEF Made, SigTypeOK
<1>2. /\ IsFiniteSet(Consumers) /\ Cardinality(Consumers) = N
      /\ IsFiniteSet(1 .. DataNum) /\ Cardinality(1 .. DataNum) = DataNum
  BY FS_Interval, NAssumption, DataNumAssumption DEF Consumers
<1>3. /\ IsFiniteSet(Consumers \X (1 .. DataNum))
      /\ Cardinality(Consumers \X (1 .. DataNum)) = N * DataNum
  BY <1>2, FS_Product
<1>4. IsFiniteSet(Made) /\ Increments \in Nat /\ Increments <= N * DataNum
  BY <1>1, <1>3, FS_Subset, FS_CardinalityType DEF Increments
<1>5. QED
  BY <1>4, NAssumption, DataNumAssumption

\* A store makes one increment more.
LEMMA OneMore ==
  ASSUME SigTypeOK, IsFiniteSet(Made), NEW c \in Consumers, HandlerStore(c)
  PROVE  Increments' = Increments + 1
<1> DEFINE new == <<c, counted[c] + 1>>
<1>1. counted[c] \in Nat /\ counted' = [counted EXCEPT ![c] = counted[c] + 1]
  BY DEF SigTypeOK, HandlerStore
<1>2. 1 .. counted[c] + 1 = (1 .. counted[c]) \cup {counted[c] + 1}
  BY <1>1
<1>3. \A d \in Consumers : {d} \X (1 .. counted'[d]) =
                             ({d} \X (1 .. counted[d])) \cup (IF d = c THEN {new} ELSE {})
  BY <1>1, <1>2 DEF SigTypeOK
<1>4. Made' = Made \cup {new}
  BY <1>3 DEF Made, Consumers
<1>5. new \notin Made
  BY <1>1 DEF Made
<1>6. QED
  BY <1>4, <1>5, FS_AddElement DEF Increments

\* Every step keeps the count of each consumer and the counter covered.
LEMMA CoveredInductive ==
  ASSUME SigTypeOK, MainAt, IsFiniteSet(Made), Increments \in Nat, CountedOnce, Covered, [SigNext]_sigVars
  PROVE  CountedOnce' /\ Covered'
<1> USE DEF CountedOnce, Covered, SigTypeOK, Consumers
<1>0. counted' = counted => Increments' = Increments
  BY DEF Increments, Made
<1>1. CASE MainStep
  <2>1. UNCHANGED <<counted, got, reg>> /\ received' \in {0, received}
    BY <1>1 DEF MainStep, MainSetup, MainFork, MainForkFails, MainMessage, MainQueue, MainKill,
                MainWait, MainPrint, consumers
  <2>2. \A c \in Consumers : cpc'[c] \in {cpc[c], "spin", "reaped"}
    BY <1>1 DEF MainStep, MainSetup, MainFork, MainForkFails, MainMessage, MainQueue, MainKill,
                MainWait, MainPrint, consumers
  <2>3. mpc = "setup" /\ mpc' # "setup" => received' = 0
    BY <1>1 DEF MainStep, MainSetup, MainFork, MainForkFails, MainMessage, MainQueue, MainKill,
                MainWait, MainPrint
  <2>4. CountedOnce'
    BY <2>1, <2>2
  <2>5. mpc' # "setup" => received' <= Increments'
    BY <1>0, <2>1, <2>3
  <2>6. \A c \in Consumers : cpc'[c] = "store" => reg'[c] <= Increments'
    BY <1>0, <2>1, <2>2
  <2>7. QED
    BY <2>4, <2>5, <2>6
<1>2. ASSUME NEW c \in Consumers, ConsumerStep(c) PROVE CountedOnce' /\ Covered'
  <2> USE DEF Move
  <2>0. cpc[c] \in Running /\ mpc # "setup" /\ mpc' = mpc
    BY <1>2 DEF MainAt, ConsumerStep, ConsumerKilled, HandlerEnter, HandlerFails, HandlerLoad,
                HandlerStore, HandlerPrint, Running
  <2>1. CASE ConsumerKilled(c) \/ HandlerFails(c) \/ HandlerPrint(c)
    <3>1. UNCHANGED <<received, counted, got, reg>>
      BY <2>1 DEF ConsumerKilled, HandlerFails, HandlerPrint
    <3>2. \A d \in Consumers : cpc'[d] \in {cpc[d], "spin", "zombie"}
      BY <2>1 DEF ConsumerKilled, HandlerFails, HandlerPrint
    <3>3. QED
      BY <1>0, <2>0, <3>1, <3>2
  <2>2. CASE HandlerEnter(c)
    <3>1. UNCHANGED <<received, counted, reg>> /\ cpc[c] = "spin" /\ cpc' = [cpc EXCEPT ![c] = "load"]
      BY <2>2 DEF HandlerEnter
    <3>2. /\ Len(got'[c]) = Len(got[c]) + 1 /\ Len(got[c]) \in Nat
          /\ \A d \in Consumers \ {c} : got'[d] = got[d]
      BY <2>2 DEF HandlerEnter
    <3>3. CountedOnce'
      BY <3>1, <3>2
    <3>4. QED
      BY <1>0, <2>0, <3>1, <3>3
  <2>3. CASE HandlerLoad(c)
    <3>1. UNCHANGED <<received, counted, got>> /\ cpc[c] = "load"
      BY <2>3 DEF HandlerLoad
    <3>2. cpc' = [cpc EXCEPT ![c] = "store"] /\ reg' = [reg EXCEPT ![c] = received]
      BY <2>3 DEF HandlerLoad
    <3>3. QED
      BY <1>0, <2>0, <3>1, <3>2
  <2>4. CASE HandlerStore(c)
    <3>1. UNCHANGED <<reg, got>> /\ cpc[c] = "store" /\ received' = reg[c] + 1
      BY <2>4 DEF HandlerStore
    <3>2. cpc' = [cpc EXCEPT ![c] = "print"] /\ counted' = [counted EXCEPT ![c] = counted[c] + 1]
      BY <2>4 DEF HandlerStore
    <3>3. Increments' = Increments + 1
      BY <2>4, OneMore
    <3>4. CountedOnce'
      BY <3>1, <3>2
    <3>5. Covered'
      <4>1. reg[c] \in Nat /\ reg[c] <= Increments
        BY <3>1
      <4>2. received' <= Increments'
        BY <3>1, <3>3, <4>1
      <4>3. ASSUME NEW d \in Consumers, cpc'[d] = "store" PROVE reg'[d] <= Increments'
        <5>1. cpc[d] = "store" /\ reg'[d] = reg[d] /\ reg[d] \in Nat
          BY <3>1, <3>2, <4>3
        <5>2. QED
          BY <3>3, <5>1
      <4>4. QED
        BY <4>2, <4>3
    <3>6. QED
      BY <3>4, <3>5
  <2>5. QED
    BY <1>2, <2>1, <2>2, <2>3, <2>4 DEF ConsumerStep
<1>3. CASE UNCHANGED sigVars
  BY <1>0, <1>3 DEF sigVars, consumers
<1>4. QED
  BY <1>1, <1>2, <1>3 DEF SigNext

\* Whatever updates are lost, the counter never runs ahead of the increments, nor
\* these of the messages.
THEOREM NoGain == SigSpec => []NeverAhead
<1> DEFINE Sorted == \A c \in Consumers : Ordered(c)
<1>1. SigInit => Sorted /\ CountedOnce /\ Covered
  BY DEF SigInit, Ordered, Announcements, Behind, None, CountedOnce, Covered
<1>2. ASSUME SigTypeOK, MainAt, Sorted, CountedOnce
      PROVE  IsFiniteSet(Made) /\ Increments \in Nat /\ Increments <= DataNum * N
  <2>1. \A c \in Consumers : counted[c] <= DataNum
    BY SMTT(30), <1>2, FewData, Numbers, DataNumAssumption DEF CountedOnce, SigTypeOK
  <2>2. QED
    BY <1>2, <2>1, FewIncrements
<1>3. SigTypeOK /\ SigTypeOK' /\ MainAt /\ Sorted /\ CountedOnce /\ Covered /\ [SigNext]_sigVars
        => Sorted' /\ CountedOnce' /\ Covered'
  <2>1. SigTypeOK /\ SigTypeOK' /\ MainAt /\ Sorted /\ [SigNext]_sigVars => Sorted'
    BY OrderedInductive DEF Consumers
  <2>2. QED
    BY <1>2, <2>1, CoveredInductive
<1>4. SigTypeOK /\ MainAt /\ Sorted /\ CountedOnce /\ Covered => NeverAhead
  BY <1>2 DEF NeverAhead, Covered
<1>5. QED
  BY <1>1, <1>3, <1>4, SigTypeCorrect, PTL DEF SigSpec
=============================================================================
