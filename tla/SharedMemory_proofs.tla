------------------------- MODULE SharedMemory_proofs -------------------------
(***************************************************************************)
(* Proofs about SharedMemory, for any number of sessions, iterations and   *)
(* failures.                                                               *)
(***************************************************************************)
EXTENDS SharedMemory, TLAPS

Opening == {"open_ff", "open_c", "open_map"}

(* What the handles are worth at each step. *)
Ranges ==
  /\ \A n \in Session :
       mpc[n] \notin {"off", "init_ff", "init_c", "init_map", "killed"} => m[n].map \in Objects
  /\ \A n \in Session :
       spc[n] \notin Opening \cup {"off", "over", "killed"} => s[n].map \in Objects
  /\ \A n \in Session : mpc[n] = "write" => m[n].i < Iterations

(* TypeOK and Ranges hold at the start. *)
LEMMA TypeInit == Init => TypeOK /\ Ranges
BY BoundsAssumption, SMT DEF Init, TypeOK, Ranges, Session, Objects, Question, NoQuestion, MasterPC,
  SlavePC, Opening, Handles, Values, FileRecord, MasterRecord, SlaveRecord

(* What an update of a handle, of the file or of an iteration does to the  *)
(* records of the masters and of the slaves.                               *)
LEMMA SetMasterHandle ==
  ASSUME NEW f \in [Session -> MasterRecord], NEW n \in Session, NEW nm \in Name,
         NEW o \in 0 .. Sessions
  PROVE  /\ [f EXCEPT ![n].sem[nm] = o] \in [Session -> MasterRecord]
         /\ \A k \in Session :
              /\ [f EXCEPT ![n].sem[nm] = o][k].map = f[k].map
              /\ [f EXCEPT ![n].sem[nm] = o][k].i = f[k].i
              /\ \A x \in Name : [f EXCEPT ![n].sem[nm] = o][k].sem[x] =
                                   IF k = n /\ x = nm THEN o ELSE f[k].sem[x]
BY DEF MasterRecord, Handles

(* The same for the semaphores of a slave.                                 *)
LEMMA SetSlaveHandle ==
  ASSUME NEW f \in [Session -> SlaveRecord], NEW n \in Session, NEW nm \in Name,
         NEW o \in 0 .. Sessions
  PROVE  /\ [f EXCEPT ![n].sem[nm] = o] \in [Session -> SlaveRecord]
         /\ \A k \in Session :
              /\ [f EXCEPT ![n].sem[nm] = o][k].map = f[k].map
              /\ \A x \in Name : [f EXCEPT ![n].sem[nm] = o][k].sem[x] =
                                   IF k = n /\ x = nm THEN o ELSE f[k].sem[x]
BY DEF SlaveRecord, Handles

(* A master that maps the file changes its map and nothing else,           *)
LEMMA SetMasterMap ==
  ASSUME NEW f \in [Session -> MasterRecord], NEW n \in Session, NEW o \in 0 .. 2 * Sessions,
         NEW new \in BOOLEAN
  PROVE  /\ [f EXCEPT ![n].map = o, ![n].isnew = new] \in [Session -> MasterRecord]
         /\ \A k \in Session :
              /\ [f EXCEPT ![n].map = o, ![n].isnew = new][k].map = IF k = n THEN o ELSE f[k].map
              /\ [f EXCEPT ![n].map = o, ![n].isnew = new][k].i = f[k].i
              /\ [f EXCEPT ![n].map = o, ![n].isnew = new][k].sem = f[k].sem
BY DEF MasterRecord

(* and so does a slave.                                                    *)
LEMMA SetSlaveMap ==
  ASSUME NEW f \in [Session -> SlaveRecord], NEW n \in Session, NEW o \in 0 .. 2 * Sessions,
         NEW new \in BOOLEAN
  PROVE  /\ [f EXCEPT ![n].map = o, ![n].isnew = new] \in [Session -> SlaveRecord]
         /\ \A k \in Session :
              /\ [f EXCEPT ![n].map = o, ![n].isnew = new][k].map = IF k = n THEN o ELSE f[k].map
              /\ [f EXCEPT ![n].map = o, ![n].isnew = new][k].sem = f[k].sem
BY DEF SlaveRecord

(* A master that goes to the next question.                                *)
LEMMA NextIteration ==
  ASSUME NEW f \in [Session -> MasterRecord], NEW n \in Session, f[n].i < Iterations
  PROVE  /\ [f EXCEPT ![n].i = @ + 1] \in [Session -> MasterRecord]
         /\ [f EXCEPT ![n].i = @ + 1][n].i \in 0 .. Iterations
         /\ \A k \in Session :
              /\ [f EXCEPT ![n].i = @ + 1][k].map = f[k].map
              /\ [f EXCEPT ![n].i = @ + 1][k].sem = f[k].sem
              /\ k # n => [f EXCEPT ![n].i = @ + 1][k].i = f[k].i
<1>1. f[n].i \in 0 .. Iterations /\ f[n].i + 1 \in 0 .. Iterations
  BY BoundsAssumption DEF MasterRecord
<1>2. f[n] \in MasterRecord
  OBVIOUS
<1> DEFINE g == [f[n] EXCEPT !.i = @ + 1]
<1>3. g \in MasterRecord /\ g.i = f[n].i + 1 /\ g.map = f[n].map /\ g.sem = f[n].sem
  BY <1>1, <1>2 DEF MasterRecord
<1>4. [f EXCEPT ![n].i = @ + 1] = [k \in Session |-> IF k = n THEN g ELSE f[k]]
  OBVIOUS
<1> QED
  BY <1>1, <1>3, <1>4

(* What sem_post and sem_wait do to a semaphore. *)
LEMMA Posted ==
  ASSUME NEW f \in Values, NEW nm \in Name, NEW o
  PROVE  /\ [f EXCEPT ![nm][o] = @ + 1] \in Values
         /\ \A x \in Name, k \in Session :
              [f EXCEPT ![nm][o] = @ + 1][x][k] = IF x = nm /\ k = o THEN f[x][k] + 1 ELSE f[x][k]
<1>1. CASE o \in Session
  <2>1. f[nm][o] \in Nat
    BY <1>1 DEF Values
  <2> QED
    BY <2>1, <1>1 DEF Values
<1>2. CASE o \notin Session
  BY <1>2 DEF Values
<1> QED
  BY <1>1, <1>2

(* A wait that returns takes one post.                                     *)
LEMMA Waited ==
  ASSUME NEW f \in Values, NEW nm \in Name, NEW o, f[nm][o] > 0
  PROVE  /\ [f EXCEPT ![nm][o] = @ - 1] \in Values
         /\ \A x \in Name, k \in Session :
              [f EXCEPT ![nm][o] = @ - 1][x][k] = IF x = nm /\ k = o THEN f[x][k] - 1 ELSE f[x][k]
<1>1. CASE o \in Session
  <2>1. f[nm][o] \in Nat \ {0}
    BY <1>1 DEF Values
  <2> QED
    BY <2>1, <1>1 DEF Values
<1>2. CASE o \notin Session
  BY <1>2 DEF Values
<1> QED
  BY <1>1, <1>2

(* The names of the two programs.                                          *)
LEMMA Names == "ff-slave1" \in Name /\ "ff-master1" \in Name
BY DEF Name

(* Every step keeps the types. *)
LEMMA TypeStep == TypeOK /\ Ranges /\ [Next]_vars => TypeOK'
<1> SUFFICES ASSUME TypeOK, Ranges, [Next]_vars PROVE TypeOK'
  OBVIOUS
<1>1. ASSUME NEW n \in Session, StartMaster(n) PROVE TypeOK'
  <2>1. mpc' \in [Session -> MasterPC]
    BY <1>1 DEF TypeOK, StartMaster, MasterAt, MasterPC
  <2> QED
    BY <1>1, <2>1 DEF TypeOK, StartMaster, kernel
<1>2. ASSUME NEW n \in Session, InitSemaphores(n) PROVE TypeOK'
  <2>1. mpc' \in [Session -> MasterPC]
    BY <1>2 DEF TypeOK, InitSemaphores, MasterAt, MasterPC
  <2>2. name' \in Handles
    BY <1>2, Names, SMTT(30) DEF TypeOK, InitSemaphores, ffsem_init, Handles, Session
  <2>3. m' \in [Session -> MasterRecord]
    <3>1. \A nm \in Name : name'[nm] \in 0 .. Sessions
      BY <2>2 DEF Handles
    <3>2. PICK nm \in Name : m' = [m EXCEPT ![n].sem[nm] = name'[nm]]
      BY <1>2, Names DEF InitSemaphores, ffsem_init
    <3> QED
      BY <3>1, <3>2, SetMasterHandle DEF TypeOK
  <2> QED
    BY <1>2, <2>1, <2>2, <2>3 DEF TypeOK, InitSemaphores, kernel, ffsem_init
<1>3. ASSUME NEW n \in Session, InitMap(n) PROVE TypeOK'
  <2>1. mpc' \in [Session -> MasterPC]
    BY <1>3 DEF TypeOK, InitMap, MasterAt, MasterPC
  <2>2. file' \in 0 .. 2 * Sessions
    BY <1>3, BoundsAssumption DEF TypeOK, InitMap, Mapped, Session
  <2>3. m' \in [Session -> MasterRecord]
    <3>1. (file = 0) \in BOOLEAN
      OBVIOUS
    <3>2. m' = [m EXCEPT ![n].map = file', ![n].isnew = (file = 0)]
      BY <1>3 DEF InitMap
    <3> QED
      BY <3>1, <3>2, SetMasterMap, <2>2 DEF TypeOK
  <2> QED
    BY <1>3, <2>1, <2>2, <2>3 DEF TypeOK, InitMap, kernel
<1>4. ASSUME NEW n \in Session, WriteStatus(n) PROVE TypeOK'
  <2>1. mpc' \in [Session -> MasterPC]
    BY <1>4 DEF TypeOK, WriteStatus, MasterAt, MasterPC
  <2>2. shared' \in [Objects -> FileRecord]
    BY <1>4 DEF TypeOK, WriteStatus, FileRecord, Objects
  <2> QED
    BY <1>4, <2>1, <2>2 DEF TypeOK, WriteStatus, kernel
<1>5. ASSUME NEW n \in Session, Launch(n) PROVE TypeOK'
  <2>1. mpc' \in [Session -> MasterPC]
    BY <1>5 DEF TypeOK, Launch, MasterAt, MasterPC
  <2>2. spc' \in [Session -> SlavePC]
    BY <1>5 DEF TypeOK, Launch, SlaveAt, SlavePC
  <2> QED
    BY <1>5, <2>1, <2>2 DEF TypeOK, Launch, kernel
<1>6. ASSUME NEW n \in Session, MasterWait(n) PROVE TypeOK'
  <2>1. mpc' \in [Session -> MasterPC]
    BY <1>6 DEF TypeOK, MasterWait, MasterAt, MasterPC, Loop
  <2>2. value' \in Values
    BY <1>6, Waited, Names DEF TypeOK, MasterWait, ffsem_wait
  <2> QED
    BY <1>6, <2>1, <2>2 DEF TypeOK, MasterWait, kernel
<1>7. ASSUME NEW n \in Session, WriteQuestion(n) PROVE TypeOK'
  <2>1. mpc' \in [Session -> MasterPC]
    BY <1>7 DEF TypeOK, WriteQuestion, MasterAt, MasterPC
  <2>2. m' \in [Session -> MasterRecord]
    BY <1>7, NextIteration DEF TypeOK, Ranges, WriteQuestion, MasterAt
  <2>3. shared' \in [Objects -> FileRecord]
    <3>0. m'[n].i \in 0 .. Iterations
      BY <1>7, NextIteration DEF TypeOK, Ranges, WriteQuestion, MasterAt
    <3>1. <<n, m'[n].i>> \in Question
      BY <1>7, <3>0 DEF Question, Session
    <3> QED
      BY <1>7, <3>1 DEF TypeOK, WriteQuestion, FileRecord
  <2> QED
    BY <1>7, <2>1, <2>2, <2>3 DEF TypeOK, WriteQuestion, kernel
<1>8. ASSUME NEW n \in Session, MasterPost(n) PROVE TypeOK'
  <2>1. mpc' \in [Session -> MasterPC]
    BY <1>8 DEF TypeOK, MasterPost, MasterAt, MasterPC
  <2>2. value' \in Values
    BY <1>8, Posted, Names DEF TypeOK, MasterPost, ffsem_post
  <2> QED
    BY <1>8, <2>1, <2>2 DEF TypeOK, MasterPost, kernel
<1>9. ASSUME NEW n \in Session, ReadAnswer(n) PROVE TypeOK'
  <2>1. mpc' \in [Session -> MasterPC]
    BY <1>9 DEF TypeOK, ReadAnswer, MasterAt, MasterPC, Loop
  <2>2. m' \in [Session -> MasterRecord]
    BY <1>9 DEF TypeOK, Ranges, ReadAnswer, MasterAt, MasterRecord, FileRecord
  <2> QED
    BY <1>9, <2>1, <2>2 DEF TypeOK, ReadAnswer, kernel
<1>10. ASSUME NEW n \in Session, Delete(n) PROVE TypeOK'
  <2>1. mpc' \in [Session -> MasterPC]
    BY <1>10 DEF TypeOK, Delete, MasterAt, MasterPC
  <2>2. name' \in Handles
    BY <1>10, Names, BoundsAssumption DEF TypeOK, Delete, ffsem_destroy, Handles
  <2>3. file' \in 0 .. 2 * Sessions
    BY <1>10, BoundsAssumption DEF TypeOK, Delete, ffmmap_destroy
  <2> QED
    BY <1>10, <2>1, <2>2, <2>3 DEF TypeOK, Delete, kernel
<1>11. ASSUME NEW n \in Session, OpenSemaphores(n) PROVE TypeOK'
  <2>1. spc' \in [Session -> SlavePC]
    BY <1>11 DEF TypeOK, OpenSemaphores, SlaveAt, SlavePC, Open
  <2>2. s' \in [Session -> SlaveRecord]
    <3>1. \A nm \in Name : name[nm] \in 0 .. Sessions
      BY DEF TypeOK, Handles
    <3>2. s' = s \/ \E nm \in Name : s' = [s EXCEPT ![n].sem[nm] = name[nm]]
      BY <1>11, Names DEF OpenSemaphores, Open
    <3>3. CASE s' = s
      BY <3>3 DEF TypeOK
    <3>4. CASE \E nm \in Name : s' = [s EXCEPT ![n].sem[nm] = name[nm]]
      <4>1. PICK nm \in Name : s' = [s EXCEPT ![n].sem[nm] = name[nm]]
        BY <3>4
      <4> QED
        BY <3>1, <4>1, SetSlaveHandle DEF TypeOK
    <3> QED
      BY <3>2, <3>3, <3>4
  <2> QED
    BY <1>11, <2>1, <2>2 DEF TypeOK, OpenSemaphores, kernel, Open
<1>12. ASSUME NEW n \in Session, OpenMap(n) PROVE TypeOK'
  <2>1. spc' \in [Session -> SlavePC]
    BY <1>12 DEF TypeOK, OpenMap, SlaveAt, SlavePC
  <2>2. file' \in 0 .. 2 * Sessions
    BY <1>12, BoundsAssumption DEF TypeOK, OpenMap, Mapped, Session
  <2>3. s' \in [Session -> SlaveRecord]
    <3>1. s \in [Session -> SlaveRecord] /\ (file = 0) \in BOOLEAN
      BY DEF TypeOK
    <3>2. s' = [s EXCEPT ![n].map = file', ![n].isnew = (file = 0)]
      BY <1>12 DEF OpenMap
    <3>3. [s EXCEPT ![n].map = file', ![n].isnew = (file = 0)] \in [Session -> SlaveRecord]
      BY <2>2, <3>1, SetSlaveMap
    <3> QED
      BY <3>2, <3>3
  <2> QED
    BY <1>12, <2>1, <2>2, <2>3 DEF TypeOK, OpenMap, kernel
<1>13. ASSUME NEW n \in Session, SlavePost(n) PROVE TypeOK'
  <2>1. spc' \in [Session -> SlavePC]
    BY <1>13 DEF TypeOK, SlavePost, SlaveAt, SlavePC
  <2>2. value' \in Values
    BY <1>13, Posted, Names DEF TypeOK, SlavePost, ffsem_post
  <2> QED
    BY <1>13, <2>1, <2>2 DEF TypeOK, SlavePost, kernel
<1>14. ASSUME NEW n \in Session, SlaveWait(n) PROVE TypeOK'
  <2>1. spc' \in [Session -> SlavePC]
    BY <1>14 DEF TypeOK, SlaveWait, SlaveAt, SlavePC
  <2>2. value' \in Values
    BY <1>14, Waited, Names DEF TypeOK, SlaveWait, ffsem_wait
  <2> QED
    BY <1>14, <2>1, <2>2 DEF TypeOK, SlaveWait, kernel
<1>15. ASSUME NEW n \in Session, ReadQuestion(n) PROVE TypeOK'
  <2>1. spc' \in [Session -> SlavePC]
    BY <1>15 DEF TypeOK, ReadQuestion, SlaveAt, SlavePC
  <2>2. s' \in [Session -> SlaveRecord]
    BY <1>15 DEF TypeOK, Ranges, ReadQuestion, SlaveAt, Opening, SlaveRecord, FileRecord
  <2> QED
    BY <1>15, <2>1, <2>2 DEF TypeOK, ReadQuestion, kernel
<1>16. ASSUME NEW n \in Session, ReadStatus(n) PROVE TypeOK'
  <2>1. spc' \in [Session -> SlavePC]
    BY <1>16 DEF TypeOK, ReadStatus, SlaveAt, SlavePC
  <2>2. s' \in [Session -> SlaveRecord]
    BY <1>16 DEF TypeOK, Ranges, ReadStatus, SlaveAt, Opening, SlaveRecord, FileRecord
  <2> QED
    BY <1>16, <2>1, <2>2 DEF TypeOK, ReadStatus, kernel
<1>17. ASSUME NEW n \in Session, WriteAnswer(n) PROVE TypeOK'
  <2>1. spc' \in [Session -> SlavePC]
    BY <1>17 DEF TypeOK, WriteAnswer, SlaveAt, SlavePC
  <2>2. shared' \in [Objects -> FileRecord]
    BY <1>17 DEF TypeOK, WriteAnswer, FileRecord, Objects, SlaveRecord
  <2> QED
    BY <1>17, <2>1, <2>2 DEF TypeOK, WriteAnswer, kernel
<1>18. ASSUME NEW n \in Session, Close(n) PROVE TypeOK'
  <2>1. spc' \in [Session -> SlavePC]
    BY <1>18 DEF TypeOK, Close, SlaveAt, SlavePC
  <2>2. file' \in 0 .. 2 * Sessions
    BY <1>18, BoundsAssumption DEF TypeOK, Close, ffmmap_destroy
  <2> QED
    BY <1>18, <2>1, <2>2 DEF TypeOK, Close, kernel
<1>19. ASSUME NEW n \in Session, KillMaster(n) PROVE TypeOK'
  <2>1. mpc' \in [Session -> MasterPC]
    BY <1>19 DEF TypeOK, KillMaster, MasterPC
  <2> QED
    BY <1>19, <2>1 DEF TypeOK, KillMaster, kernel
<1>20. ASSUME NEW n \in Session, KillSlave(n) PROVE TypeOK'
  <2>1. spc' \in [Session -> SlavePC]
    BY <1>20 DEF TypeOK, KillSlave, SlavePC
  <2> QED
    BY <1>20, <2>1 DEF TypeOK, KillSlave, kernel
<1>21. CASE UNCHANGED vars
  BY <1>21 DEF TypeOK, vars, kernel
<1> QED
  BY <1>1, <1>2, <1>3, <1>4, <1>5, <1>6, <1>7, <1>8, <1>9, <1>10, <1>11, <1>12, <1>13, <1>14, <1>15, <1>16, <1>17, <1>18, <1>19, <1>20, <1>21 DEF Next, Master, Slave

(* Every step keeps the ranges: a map is set by the step that opens it,    *)
(* an iteration starts below the bound.                                    *)
LEMMA RangesStep == TypeOK /\ Ranges /\ [Next]_vars => Ranges'
<1> SUFFICES ASSUME TypeOK, Ranges, [Next]_vars PROVE Ranges'
  OBVIOUS
<1> USE DEF TypeOK
<1>1. ASSUME NEW n \in Session, StartMaster(n) PROVE Ranges'
  BY <1>1 DEF StartMaster, MasterAt, Ranges
<1>2. ASSUME NEW n \in Session, InitSemaphores(n) PROVE Ranges'
  <2>1. m' = [m EXCEPT ![n].sem["ff-slave1"] = name'["ff-slave1"]]
        \/ m' = [m EXCEPT ![n].sem["ff-master1"] = name'["ff-master1"]]
    BY <1>2 DEF InitSemaphores, ffsem_init
  <2>2. \A k \in Session : m'[k].map = m[k].map /\ m'[k].i = m[k].i
    BY <2>1 DEF MasterRecord
  <2> QED
    BY <1>2, <2>2 DEF InitSemaphores, MasterAt, Ranges
<1>3. ASSUME NEW n \in Session, InitMap(n) PROVE Ranges'
  <2>1. \A k \in Session : m'[k].i = m[k].i /\ m'[k].map = IF k = n THEN file' ELSE m[k].map
    BY <1>3 DEF InitMap, MasterRecord
  <2>2. file' \in Objects
    BY <1>3, BoundsAssumption DEF InitMap, Mapped, Objects, Session
  <2> QED
    BY <1>3, <2>1, <2>2 DEF InitMap, MasterAt, Ranges
<1>4. ASSUME NEW n \in Session, WriteStatus(n) PROVE Ranges'
  BY <1>4 DEF WriteStatus, MasterAt, Ranges
<1>5. ASSUME NEW n \in Session, Launch(n) PROVE Ranges'
  BY <1>5 DEF Launch, MasterAt, SlaveAt, Ranges, Opening
<1>6. ASSUME NEW n \in Session, MasterWait(n) PROVE Ranges'
  BY <1>6 DEF MasterWait, MasterAt, Loop, Ranges
<1>7. ASSUME NEW n \in Session, WriteQuestion(n) PROVE Ranges'
  <2>1. \A k \in Session : m'[k].map = m[k].map /\ (k # n => m'[k].i = m[k].i)
    BY <1>7, NextIteration DEF WriteQuestion, MasterAt, Ranges
  <2> QED
    BY <1>7, <2>1 DEF WriteQuestion, MasterAt, Ranges
<1>8. ASSUME NEW n \in Session, MasterPost(n) PROVE Ranges'
  BY <1>8 DEF MasterPost, MasterAt, Ranges
<1>9. ASSUME NEW n \in Session, ReadAnswer(n) PROVE Ranges'
  <2>1. \A k \in Session : m'[k].map = m[k].map /\ m'[k].i = m[k].i
    BY <1>9 DEF ReadAnswer, MasterRecord
  <2> QED
    BY <1>9, <2>1 DEF ReadAnswer, MasterAt, Loop, Ranges
<1>10. ASSUME NEW n \in Session, Delete(n) PROVE Ranges'
  BY <1>10 DEF Delete, MasterAt, Ranges
<1>11. ASSUME NEW n \in Session, OpenSemaphores(n) PROVE Ranges'
  <2>1. s' = s \/ s' = [s EXCEPT ![n].sem["ff-slave1"] = name["ff-slave1"]]
        \/ s' = [s EXCEPT ![n].sem["ff-master1"] = name["ff-master1"]]
    BY <1>11 DEF OpenSemaphores, Open
  <2>2. \A k \in Session : s'[k].map = s[k].map
    BY <2>1 DEF SlaveRecord
  <2> QED
    BY <1>11, <2>2 DEF OpenSemaphores, Open, SlaveAt, Ranges, Opening
<1>12. ASSUME NEW n \in Session, OpenMap(n) PROVE Ranges'
  <2>1. \A k \in Session : s'[k].map = IF k = n THEN file' ELSE s[k].map
    BY <1>12 DEF OpenMap, SlaveRecord
  <2>2. file' \in Objects
    BY <1>12, BoundsAssumption DEF OpenMap, Mapped, Objects, Session
  <2> QED
    BY <1>12, <2>1, <2>2 DEF OpenMap, SlaveAt, Ranges
<1>13. ASSUME NEW n \in Session, SlavePost(n) PROVE Ranges'
  BY <1>13 DEF SlavePost, SlaveAt, Ranges, Opening
<1>14. ASSUME NEW n \in Session, SlaveWait(n) PROVE Ranges'
  BY <1>14 DEF SlaveWait, SlaveAt, Ranges, Opening
<1>15. ASSUME NEW n \in Session, ReadQuestion(n) PROVE Ranges'
  <2>1. \A k \in Session : s'[k].map = s[k].map
    BY <1>15 DEF ReadQuestion, SlaveRecord
  <2> QED
    BY <1>15, <2>1 DEF ReadQuestion, SlaveAt, Ranges, Opening
<1>16. ASSUME NEW n \in Session, ReadStatus(n) PROVE Ranges'
  <2>1. \A k \in Session : s'[k].map = s[k].map
    BY <1>16 DEF ReadStatus, SlaveRecord
  <2> QED
    BY <1>16, <2>1 DEF ReadStatus, SlaveAt, Ranges, Opening
<1>17. ASSUME NEW n \in Session, WriteAnswer(n) PROVE Ranges'
  BY <1>17 DEF WriteAnswer, SlaveAt, Ranges, Opening
<1>18. ASSUME NEW n \in Session, Close(n) PROVE Ranges'
  BY <1>18 DEF Close, SlaveAt, Ranges
<1>19. ASSUME NEW n \in Session, KillMaster(n) PROVE Ranges'
  BY <1>19 DEF KillMaster, Ranges
<1>20. ASSUME NEW n \in Session, KillSlave(n) PROVE Ranges'
  BY <1>20 DEF KillSlave, Ranges
<1>21. CASE UNCHANGED vars
  BY <1>21 DEF Ranges, vars, kernel
<1> QED
  BY <1>1, <1>2, <1>3, <1>4, <1>5, <1>6, <1>7, <1>8, <1>9, <1>10, <1>11, <1>12, <1>13, <1>14,
     <1>15, <1>16, <1>17, <1>18, <1>19, <1>20, <1>21 DEF Next, Master, Slave

(* Every variable keeps its type in every behaviour.                       *)
THEOREM TypeCorrect == Spec => []TypeOK
<1>1. Init => TypeOK /\ Ranges
  BY TypeInit
<1>2. TypeOK /\ Ranges /\ [Next]_vars => (TypeOK /\ Ranges)'
  BY TypeStep, RangesStep
<1> QED
  BY <1>1, <1>2, PTL DEF Spec

-----------------------------------------------------------------------------
(* Turns.  The invariant that carries InTurn: a session whose master made    *)
(* both its semaphores, and whose semaphores no other slave opened, holds  *)
(* one token, in a semaphore, with its master or with its slave.           *)
Alive(n)     == mpc[n] \notin {"off", "over", "killed"}
PreLaunch    == {"off", "init_ff", "init_c", "init_map", "status", "launch"}
MasterHas    == {"write", "post", "read", "fin", "post_fin"}
SlaveHas     == {"open_ff", "open_c", "open_map", "post_init", "read_cff", "read_status",
                 "write", "post", "post_fin"}
Alone(n, nm) == \A k \in Session \ {n} : s[k].sem[nm] # n
Own(n)       == \A nm \in Name : m[n].sem[nm] = n /\ Alone(n, nm)
Tokens(n)    == value["ff-slave1"][n] + value["ff-master1"][n]
                + (IF mpc[n] \in MasterHas THEN 1 ELSE 0) + (IF spc[n] \in SlaveHas THEN 1 ELSE 0)

(* Masters run one after the other.                                        *)
Order == \A n \in Session : mpc[n] # "off" => \A k \in 1 .. n - 1 : mpc[k] \in {"over", "killed"}

(* What was not done yet: no slave before its launch, no handle before it  *)
(* is opened.                                                              *)
Fresh == \A n \in Session :
  /\ mpc[n] \in PreLaunch => spc[n] = "off"
  /\ mpc[n] = "off" => \A nm \in Name : m[n].sem[nm] = 0
  /\ spc[n] \in {"off", "open_ff"} => s[n].sem["ff-slave1"] = 0
  /\ spc[n] \in {"off", "open_ff", "open_c"} => s[n].sem["ff-master1"] = 0

(* The semaphore a living master made has its name, or no name is left.    *)
HasName == \A n \in Session, nm \in Name :
  Alive(n) /\ m[n].sem[nm] = n => name[nm] \in {0, n}

(* Before the launch, a semaphore no other slave opened was not used.      *)
Untouched == \A n \in Session, nm \in Name :
  mpc[n] \in PreLaunch /\ Alone(n, nm) => value[nm][n] = 0

(* The slave waits on the semaphore its master posts.                      *)
SlaveHandle == \A n \in Session :
  Alive(n) /\ Own(n) /\ spc[n] \notin {"off", "open_ff", "open_c", "over", "killed"} =>
    s[n].sem["ff-master1"] = n

OneToken == \A n \in Session : Alive(n) /\ Own(n) => Tokens(n) <= 1

(* A name, or a handle of a master, is on a semaphore a master made.       *)
Made == \A nm \in Name, k \in Session :
  /\ name[nm] = k => mpc[k] # "off"
  /\ \A n \in Session : m[n].sem[nm] = k => mpc[k] # "off"

TurnInv == Order /\ Fresh /\ Made /\ HasName /\ Untouched /\ SlaveHandle /\ OneToken

(* Nobody is in turn before the first session starts.                      *)
LEMMA TurnInit == Init => TurnInv
BY BoundsAssumption, SMT DEF Init, TurnInv, Order, Fresh, Made, HasName, Untouched, SlaveHandle, OneToken, Tokens,
  Alive, Alone, Own, PreLaunch, MasterHas, SlaveHas, Session, Name

(* At most one master lives.                                               *)
LEMMA OneMaster ==
  ASSUME Order, NEW n \in Session, NEW k \in Session, Alive(n), Alive(k)
  PROVE  n = k
<1>1. n \in Int /\ k \in Int /\ n >= 1 /\ k >= 1
  BY BoundsAssumption DEF Session
<1>2. CASE n < k
  <2>1. n \in 1 .. k - 1
    BY <1>1, <1>2
  <2> QED
    BY <2>1 DEF Order, Alive
<1>3. CASE k < n
  <2>1. k \in 1 .. n - 1
    BY <1>1, <1>3
  <2> QED
    BY <2>1 DEF Order, Alive
<1> QED
  BY <1>1, <1>2, <1>3

(* A master starts when those before it have stopped; a stopped one does   *)
(* not start again.                                                        *)
LEMMA OrderStep == TypeOK /\ Order /\ [Next]_vars => Order'
<1> SUFFICES ASSUME TypeOK, Order, [Next]_vars, NEW n \in Session, mpc'[n] # "off",
                    NEW k \in 1 .. n - 1
             PROVE  mpc'[k] \in {"over", "killed"}
  BY DEF Order
<1>0. k \in Session /\ mpc \in [Session -> MasterPC]
  BY BoundsAssumption DEF Session, TypeOK
<1> USE <1>0 DEF Order
<1>1. ASSUME NEW i \in Session, StartMaster(i) PROVE mpc'[k] \in {"over", "killed"}
  BY <1>1 DEF StartMaster, MasterAt
<1>2. ASSUME NEW i \in Session, InitSemaphores(i) PROVE mpc'[k] \in {"over", "killed"}
  BY <1>2 DEF InitSemaphores, MasterAt
<1>3. ASSUME NEW i \in Session, InitMap(i) PROVE mpc'[k] \in {"over", "killed"}
  BY <1>3 DEF InitMap, MasterAt
<1>4. ASSUME NEW i \in Session, WriteStatus(i) PROVE mpc'[k] \in {"over", "killed"}
  BY <1>4 DEF WriteStatus, MasterAt
<1>5. ASSUME NEW i \in Session, Launch(i) PROVE mpc'[k] \in {"over", "killed"}
  BY <1>5 DEF Launch, MasterAt, SlaveAt
<1>6. ASSUME NEW i \in Session, MasterWait(i) PROVE mpc'[k] \in {"over", "killed"}
  BY <1>6 DEF MasterWait, MasterAt, Loop
<1>7. ASSUME NEW i \in Session, WriteQuestion(i) PROVE mpc'[k] \in {"over", "killed"}
  BY <1>7 DEF WriteQuestion, MasterAt
<1>8. ASSUME NEW i \in Session, MasterPost(i) PROVE mpc'[k] \in {"over", "killed"}
  BY <1>8 DEF MasterPost, MasterAt
<1>9. ASSUME NEW i \in Session, ReadAnswer(i) PROVE mpc'[k] \in {"over", "killed"}
  BY <1>9 DEF ReadAnswer, MasterAt, Loop
<1>10. ASSUME NEW i \in Session, Delete(i) PROVE mpc'[k] \in {"over", "killed"}
  BY <1>10 DEF Delete, MasterAt
<1>11. ASSUME NEW i \in Session, OpenSemaphores(i) PROVE mpc'[k] \in {"over", "killed"}
  BY <1>11 DEF OpenSemaphores, SlaveAt, Open
<1>12. ASSUME NEW i \in Session, OpenMap(i) PROVE mpc'[k] \in {"over", "killed"}
  BY <1>12 DEF OpenMap, SlaveAt
<1>13. ASSUME NEW i \in Session, SlavePost(i) PROVE mpc'[k] \in {"over", "killed"}
  BY <1>13 DEF SlavePost, SlaveAt
<1>14. ASSUME NEW i \in Session, SlaveWait(i) PROVE mpc'[k] \in {"over", "killed"}
  BY <1>14 DEF SlaveWait, SlaveAt
<1>15. ASSUME NEW i \in Session, ReadQuestion(i) PROVE mpc'[k] \in {"over", "killed"}
  BY <1>15 DEF ReadQuestion, SlaveAt
<1>16. ASSUME NEW i \in Session, ReadStatus(i) PROVE mpc'[k] \in {"over", "killed"}
  BY <1>16 DEF ReadStatus, SlaveAt
<1>17. ASSUME NEW i \in Session, WriteAnswer(i) PROVE mpc'[k] \in {"over", "killed"}
  BY <1>17 DEF WriteAnswer, SlaveAt
<1>18. ASSUME NEW i \in Session, Close(i) PROVE mpc'[k] \in {"over", "killed"}
  BY <1>18 DEF Close, SlaveAt
<1>19. ASSUME NEW i \in Session, KillMaster(i) PROVE mpc'[k] \in {"over", "killed"}
  BY <1>19 DEF KillMaster
<1>20. ASSUME NEW i \in Session, KillSlave(i) PROVE mpc'[k] \in {"over", "killed"}
  BY <1>20 DEF KillSlave
<1>21. CASE UNCHANGED vars
  BY <1>21 DEF vars
<1> QED
  BY <1>1, <1>2, <1>3, <1>4, <1>5, <1>6, <1>7, <1>8, <1>9, <1>10, <1>11, <1>12, <1>13,
     <1>14, <1>15, <1>16, <1>17, <1>18, <1>19, <1>20, <1>21 DEF Next, Master, Slave

(* A step that touches no semaphore and no handle on one keeps the rest of *)
(* the invariant as long as the two processes of the session go forward.   *)
LEMMA QuietStep ==
  ASSUME TypeOK, TurnInv, TypeOK', NEW n \in Session,
         name' = name, value' = value,
         \A k \in Session : m'[k].sem = m[k].sem /\ s'[k].sem = s[k].sem,
         \A k \in Session \ {n} : mpc'[k] = mpc[k] /\ spc'[k] = spc[k],
         mpc'[n] = "off" => mpc[n] = "off",
         mpc'[n] \in PreLaunch => mpc[n] \in PreLaunch /\ spc'[n] = spc[n],
         Alive(n)' => mpc[n] \notin {"over", "killed"},
         spc'[n] \in {"off", "open_ff", "open_c"} => spc'[n] = spc[n],
         spc'[n] \notin {"over", "killed"} => spc[n] \notin {"over", "killed"},
         spc[n] \in {"off", "open_ff", "open_c"} /\ spc'[n] # spc[n] => spc'[n] \in {"over", "killed"},
         (mpc'[n] \in MasterHas => mpc[n] \in MasterHas) /\ (spc'[n] \in SlaveHas => spc[n] \in SlaveHas)
  PROVE  Fresh' /\ Made' /\ HasName' /\ Untouched' /\ SlaveHandle' /\ OneToken'
<1>1. \A k \in Session : /\ \A nm \in Name : Alone(k, nm)' <=> Alone(k, nm)
                         /\ Own(k)' <=> Own(k)
  BY DEF Alone, Own
<1>2. Fresh'
  BY DEF TurnInv, Fresh
<1>3. HasName'
  <2> SUFFICES ASSUME NEW k \in Session, NEW nm \in Name, Alive(k)', m'[k].sem[nm] = k
               PROVE  name[nm] \in {0, k}
    BY DEF HasName
  <2>1. m[k].sem[nm] = k /\ k # 0
    BY BoundsAssumption DEF Session
  <2>2. mpc[k] # "off"
    BY <2>1 DEF TurnInv, Fresh
  <2>3. Alive(k)
    BY <2>2 DEF Alive
  <2> QED
    BY <2>1, <2>3 DEF TurnInv, HasName
<1>4. Untouched'
  BY <1>1 DEF TurnInv, Untouched
<1>5. \A k \in Session : Alive(k)' /\ Own(k)' => Alive(k) /\ Own(k)
  <2> SUFFICES ASSUME NEW k \in Session, Alive(k)', Own(k)' PROVE Alive(k) /\ Own(k)
    OBVIOUS
  <2>1. Own(k) /\ k # 0
    BY <1>1, BoundsAssumption DEF Session
  <2>2. m[k].sem["ff-slave1"] = k
    BY <2>1, Names DEF Own
  <2>3. mpc[k] # "off"
    BY <2>1, <2>2, Names DEF TurnInv, Fresh
  <2> QED
    BY <2>1, <2>3 DEF Alive
<1>6. SlaveHandle'
  BY <1>5 DEF TurnInv, SlaveHandle
<1>7. OneToken'
  <2> SUFFICES ASSUME NEW k \in Session, Alive(k)', Own(k)' PROVE Tokens(k)' <= 1
    BY DEF OneToken
  <2>1. Tokens(k) <= 1
    BY <1>5 DEF TurnInv, OneToken
  <2>2. value["ff-slave1"][k] \in Nat /\ value["ff-master1"][k] \in Nat
    BY Names DEF TypeOK, Values
  <2>3. Tokens(k)' <= Tokens(k)
    BY <2>2 DEF Tokens
  <2>4. Tokens(k) \in Nat /\ Tokens(k)' \in Nat
    BY <2>2 DEF Tokens
  <2> QED
    BY <2>1, <2>3, <2>4
<1>8. Made'
  BY DEF TurnInv, Made
<1> QED
  BY <1>2, <1>3, <1>4, <1>6, <1>7, <1>8

-----------------------------------------------------------------------------
Rest == Fresh /\ Made /\ HasName /\ Untouched /\ SlaveHandle /\ OneToken

(* The values of the semaphores are naturals, and a session is not 0.      *)
LEMMA Numbers ==
  ASSUME TypeOK
  PROVE  /\ \A nm \in Name, k \in Session : value[nm][k] \in Nat
         /\ \A k \in Session : k # 0
BY BoundsAssumption DEF TypeOK, Values, Session

(* A post or a wait by the master of session n keeps the rest: n is the    *)
(* only master that lives, and its own semaphore carries the token.        *)
LEMMA MasterTurn ==
  ASSUME TypeOK, TypeOK', TurnInv, NEW n \in Session, MasterWait(n) \/ MasterPost(n)
  PROVE  Rest'
<1>1. /\ name' = name /\ m' = m /\ s' = s /\ spc' = spc
      /\ mpc[n] \notin PreLaunch /\ Alive(n)
      /\ mpc' = [mpc EXCEPT ![n] = mpc'[n]]
      /\ mpc'[n] \notin PreLaunch /\ Alive(n)'
  BY DEF MasterWait, MasterPost, MasterAt, Loop, PreLaunch, Alive, TypeOK
<1>2. \A k \in Session : (\A nm \in Name : Alone(k, nm)' <=> Alone(k, nm)) /\ (Own(k)' <=> Own(k))
  BY <1>1 DEF Alone, Own
<1>3. \A k \in Session : k # n => mpc'[k] = mpc[k] /\ ~Alive(k) /\ ~Alive(k)'
  BY <1>1, OneMaster DEF TurnInv, TypeOK, Alive
<1>4. Fresh'
  BY <1>1, <1>3 DEF TurnInv, Fresh, PreLaunch
<1>5. HasName'
  BY <1>1, <1>3 DEF TurnInv, HasName
<1>6. Untouched'
  <2> SUFFICES ASSUME NEW k \in Session, NEW nm \in Name, mpc'[k] \in PreLaunch, Alone(k, nm)
               PROVE  value'[nm][k] = 0
    BY <1>2 DEF Untouched
  <2>1. k # n /\ mpc[k] = "off"
    BY <1>1, <1>3 DEF Alive, PreLaunch
  <2>2. value[nm][k] = 0
    BY <2>1 DEF TurnInv, Untouched, PreLaunch
  <2>3. m[n].sem[nm] # k
    BY <2>1 DEF TurnInv, Made
  <2> QED
    BY <1>1, <2>1, <2>2, <2>3 DEF MasterWait, MasterPost, ffsem_wait, ffsem_post, TypeOK, Values
<1>7. SlaveHandle'
  BY <1>1, <1>2, <1>3 DEF TurnInv, SlaveHandle
<1>8. OneToken'
  <2> SUFFICES ASSUME Own(n) PROVE Tokens(n)' <= 1
    BY <1>2, <1>3 DEF OneToken
  <2>1. Tokens(n) <= 1
    BY <1>1 DEF TurnInv, OneToken
  <2>2. m[n].sem["ff-slave1"] = n /\ m[n].sem["ff-master1"] = n
    BY Names DEF Own
  <2>3. CASE MasterWait(n)
    <3>1. /\ value' = [value EXCEPT !["ff-slave1"][n] = @ - 1] /\ value["ff-slave1"][n] > 0
          /\ mpc[n] \notin MasterHas
      BY <2>2, <2>3 DEF MasterWait, MasterAt, ffsem_wait, MasterHas
    <3>2. value'["ff-slave1"][n] = value["ff-slave1"][n] - 1
          /\ value'["ff-master1"][n] = value["ff-master1"][n]
      BY <3>1, Names DEF TypeOK, Values
    <3> QED
      BY <1>1, <2>1, <3>1, <3>2, Numbers, Names DEF Tokens
  <2>4. CASE MasterPost(n)
    <3>1. /\ value' = [value EXCEPT !["ff-master1"][n] = @ + 1]
          /\ mpc[n] \in MasterHas /\ mpc'[n] \notin MasterHas
      BY <2>2, <2>4 DEF MasterPost, MasterAt, ffsem_post, MasterHas, TypeOK
    <3>2. value'["ff-master1"][n] = value["ff-master1"][n] + 1
          /\ value'["ff-slave1"][n] = value["ff-slave1"][n]
      BY <3>1, Names DEF TypeOK, Values
    <3> QED
      BY <1>1, <2>1, <3>1, <3>2, Numbers, Names DEF Tokens
  <2> QED
    BY <2>3, <2>4
<1>9. Made'
  BY <1>1, <1>3 DEF TurnInv, Made, PreLaunch
<1> QED
  BY <1>4, <1>5, <1>6, <1>7, <1>8, <1>9 DEF Rest

(* A post or a wait by the slave of session n: it touches no semaphore of  *)
(* a session of which it opened none.                                      *)
LEMMA SlaveTurn ==
  ASSUME TypeOK, TypeOK', TurnInv, NEW n \in Session, SlaveWait(n) \/ SlavePost(n)
  PROVE  Rest'
<1>1. /\ name' = name /\ m' = m /\ s' = s /\ mpc' = mpc
      /\ spc[n] \notin {"off", "open_ff", "open_c", "over", "killed"}
      /\ spc'[n] \notin {"off", "open_ff", "open_c", "over", "killed"}
      /\ \A k \in Session : k # n => spc'[k] = spc[k]
  BY DEF SlaveWait, SlavePost, SlaveAt, TypeOK
<1>2. \A k \in Session : (\A nm \in Name : Alone(k, nm)' <=> Alone(k, nm)) /\ (Own(k)' <=> Own(k))
                         /\ (Alive(k)' <=> Alive(k))
  BY <1>1 DEF Alone, Own, Alive
<1>3. \A nm \in Name, k \in Session : k # n /\ Alone(k, nm) => value'[nm][k] = value[nm][k]
  BY DEF SlaveWait, SlavePost, ffsem_wait, ffsem_post, Alone, TypeOK, Values
<1>4. mpc[n] \notin PreLaunch
  BY <1>1 DEF TurnInv, Fresh
<1>5. Fresh' /\ Made' /\ HasName'
  BY <1>1, <1>2, <1>4 DEF TurnInv, Fresh, Made, HasName
<1>6. Untouched'
  BY <1>1, <1>2, <1>3, <1>4 DEF TurnInv, Untouched
<1>7. SlaveHandle'
  BY <1>1, <1>2 DEF TurnInv, SlaveHandle
<1>8. OneToken'
  <2> SUFFICES ASSUME NEW k \in Session, Alive(k), Own(k) PROVE Tokens(k)' <= 1
    BY <1>2 DEF OneToken
  <2>1. Tokens(k) <= 1
    BY DEF TurnInv, OneToken
  <2>2. CASE k # n
    <3>1. \A nm \in Name : value'[nm][k] = value[nm][k]
      BY <1>3, <2>2 DEF Own
    <3> QED
      BY <1>1, <2>1, <2>2, <3>1, Names DEF Tokens
  <2>3. CASE k = n /\ SlaveWait(n)
    <3>1. s[n].sem["ff-master1"] = n
      BY <1>1, <2>3 DEF TurnInv, SlaveHandle
    <3>2. /\ value' = [value EXCEPT !["ff-master1"][n] = @ - 1] /\ value["ff-master1"][n] > 0
          /\ spc[n] \notin SlaveHas
      BY <2>3, <3>1 DEF SlaveWait, SlaveAt, ffsem_wait, SlaveHas
    <3>3. value'["ff-master1"][n] = value["ff-master1"][n] - 1
          /\ value'["ff-slave1"][n] = value["ff-slave1"][n]
      BY <3>2, Names DEF TypeOK, Values
    <3> QED
      BY <1>1, <2>1, <2>3, <3>2, <3>3, Numbers, Names DEF Tokens
  <2>4. CASE k = n /\ SlavePost(n)
    <3>1. /\ value' = [value EXCEPT !["ff-slave1"][s[n].sem["ff-slave1"]] = @ + 1]
          /\ spc[n] \in SlaveHas /\ spc'[n] \notin SlaveHas
      BY <2>4 DEF SlavePost, SlaveAt, ffsem_post, SlaveHas, TypeOK
    <3>2. /\ value'["ff-slave1"][n] \in {value["ff-slave1"][n], value["ff-slave1"][n] + 1}
          /\ value'["ff-master1"][n] = value["ff-master1"][n]
      BY <3>1, Names DEF TypeOK, Values
    <3> QED
      BY <1>1, <2>1, <2>4, <3>1, <3>2, Numbers, Names DEF Tokens
  <2> QED
    BY <2>2, <2>3, <2>4
<1> QED
  BY <1>5, <1>6, <1>7, <1>8 DEF Rest

(* The master opens or makes a semaphore: its session, which has no slave  *)
(* yet, may become its own, and then no token was made.                    *)
LEMMA InitTurn ==
  ASSUME TypeOK, TypeOK', TurnInv, NEW n \in Session, InitSemaphores(n)
  PROVE  Rest'
<1>1. PICK nm \in Name :
        /\ name' = [name EXCEPT ![nm] = IF @ = 0 THEN n ELSE @]
        /\ m' = [m EXCEPT ![n].sem[nm] = name'[nm]]
  BY Names DEF InitSemaphores, ffsem_init
<1>2. /\ value' = value /\ s' = s /\ spc' = spc
      /\ mpc[n] \in {"init_ff", "init_c"} /\ mpc'[n] \in {"init_c", "init_map"}
      /\ \A k \in Session : k # n => mpc'[k] = mpc[k]
  BY DEF InitSemaphores, ffsem_init, MasterAt, TypeOK
<1>3. /\ \A x \in Name : name'[x] = IF x = nm /\ name[x] = 0 THEN n ELSE name[x]
      /\ \A k \in Session, x \in Name :
           m'[k].sem[x] = IF k = n /\ x = nm THEN name'[nm] ELSE m[k].sem[x]
  BY <1>1 DEF TypeOK, Handles, MasterRecord
<1>4. \A k \in Session : k # n => ~Alive(k) /\ ~Alive(k)'
  BY <1>2, OneMaster DEF TurnInv, Alive
<1>5. \A k \in Session, x \in Name : Alone(k, x)' <=> Alone(k, x)
  BY <1>2 DEF Alone
<1>6. spc[n] = "off"
  BY <1>2 DEF TurnInv, Fresh, PreLaunch
<1>7. Fresh'
  BY <1>2, <1>3, <1>6 DEF TurnInv, Fresh, PreLaunch
<1>8. Made'
  BY <1>2, <1>3 DEF TurnInv, Made
<1>9. HasName'
  <2> SUFFICES ASSUME NEW x \in Name, m'[n].sem[x] = n PROVE name'[x] \in {0, n}
    BY <1>4 DEF HasName
  <2>1. Alive(n)
    BY <1>2 DEF Alive
  <2> QED
    BY <1>3, <2>1 DEF TurnInv, HasName
<1>10. Untouched'
  BY <1>2, <1>5 DEF TurnInv, Untouched, PreLaunch
<1>11. SlaveHandle'
  BY <1>2, <1>4, <1>6 DEF SlaveHandle
<1>12. OneToken'
  <2> SUFFICES ASSUME Own(n)' PROVE Tokens(n)' <= 1
    BY <1>4 DEF OneToken
  <2>1. \A x \in Name : Alone(n, x)
    BY <1>5 DEF Own
  <2>2. value["ff-slave1"][n] = 0 /\ value["ff-master1"][n] = 0
    BY <1>2, <2>1, Names DEF TurnInv, Untouched, PreLaunch
  <2>3. mpc'[n] \notin MasterHas /\ spc'[n] \notin SlaveHas
    BY <1>2, <1>6 DEF MasterHas, SlaveHas
  <2> QED
    BY <1>2, <2>2, <2>3 DEF Tokens
<1> QED
  BY <1>7, <1>8, <1>9, <1>10, <1>11, <1>12 DEF Rest

(* The launch of the slave makes the token.                                *)
LEMMA LaunchTurn ==
  ASSUME TypeOK, TypeOK', TurnInv, NEW n \in Session, Launch(n)
  PROVE  Rest'
<1>1. /\ name' = name /\ value' = value /\ m' = m /\ s' = s
      /\ mpc[n] = "launch" /\ mpc'[n] = "wait_init" /\ spc[n] = "off" /\ spc'[n] = "open_ff"
      /\ \A k \in Session : k # n => mpc'[k] = mpc[k] /\ spc'[k] = spc[k]
  BY DEF Launch, kernel, MasterAt, SlaveAt, TypeOK
<1>2. \A k \in Session : (\A nm \in Name : Alone(k, nm)' <=> Alone(k, nm)) /\ (Own(k)' <=> Own(k))
                         /\ (Alive(k)' <=> Alive(k))
  BY <1>1 DEF Alone, Own, Alive
<1>3. Fresh' /\ Made' /\ HasName'
  BY <1>1, <1>2 DEF TurnInv, Fresh, Made, HasName, PreLaunch
<1>4. Untouched' /\ SlaveHandle'
  BY <1>1, <1>2 DEF TurnInv, Untouched, SlaveHandle, PreLaunch
<1>5. OneToken'
  <2> SUFFICES ASSUME NEW k \in Session, Alive(k), Own(k) PROVE Tokens(k)' <= 1
    BY <1>2 DEF OneToken
  <2>1. CASE k = n
    <3>1. value["ff-slave1"][n] = 0 /\ value["ff-master1"][n] = 0
      BY <1>1, <2>1, Names DEF TurnInv, Untouched, PreLaunch, Own
    <3> QED
      BY <1>1, <2>1, <3>1 DEF Tokens, MasterHas
  <2>2. CASE k # n
    BY <1>1, <2>2 DEF TurnInv, OneToken, Tokens
  <2> QED
    BY <2>1, <2>2
<1> QED
  BY <1>3, <1>4, <1>5 DEF Rest

(* The master takes a name away.                                           *)
LEMMA DeleteTurn ==
  ASSUME TypeOK, TypeOK', TurnInv, NEW n \in Session, Delete(n)
  PROVE  Rest'
<1>1. /\ value' = value /\ m' = m /\ s' = s /\ spc' = spc
      /\ mpc[n] \in {"del_ff", "del_c", "del_map"} /\ mpc'[n] \in {"del_c", "del_map", "over"}
      /\ \A k \in Session : k # n => mpc'[k] = mpc[k]
  BY DEF Delete, MasterAt, TypeOK
<1>2. \A nm \in Name : name'[nm] \in {0, name[nm]}
  BY DEF Delete, ffsem_destroy, TypeOK, Handles
<1>3. \A k \in Session : (\A nm \in Name : Alone(k, nm)' <=> Alone(k, nm)) /\ (Own(k)' <=> Own(k))
                         /\ (Alive(k)' => Alive(k))
  BY <1>1 DEF Alone, Own, Alive
<1>4. Fresh'
  BY <1>1 DEF TurnInv, Fresh, PreLaunch
<1>5. Made'
  BY <1>1, <1>2, Numbers DEF TurnInv, Made
<1>6. HasName'
  BY <1>1, <1>2, <1>3 DEF TurnInv, HasName
<1>7. Untouched' /\ SlaveHandle'
  BY <1>1, <1>3 DEF TurnInv, Untouched, SlaveHandle, PreLaunch
<1>8. OneToken'
  <2> SUFFICES ASSUME NEW k \in Session, Alive(k), Own(k) PROVE Tokens(k)' <= 1
    BY <1>3 DEF OneToken
  <2>1. Tokens(k) <= 1
    BY DEF TurnInv, OneToken
  <2>2. Tokens(k)' = Tokens(k)
    BY <1>1 DEF Tokens, MasterHas
  <2> QED
    BY <2>1, <2>2
<1> QED
  BY <1>4, <1>5, <1>6, <1>7, <1>8 DEF Rest

(* A slave opens a semaphore it had not opened: a session another slave    *)
(* uses stays so, and its own semaphore is the one of its master.          *)
LEMMA OpenTurn ==
  ASSUME TypeOK, TypeOK', TurnInv, NEW n \in Session, OpenSemaphores(n)
  PROVE  Rest'
<1>1. /\ name' = name /\ value' = value /\ m' = m /\ mpc' = mpc
      /\ \A k \in Session : k # n => spc'[k] = spc[k]
      /\ \/ spc[n] \in {"open_ff", "open_c"} /\ spc'[n] = "over" /\ s' = s
         \/ /\ spc[n] = "open_ff" /\ spc'[n] = "open_c"
            /\ s' = [s EXCEPT ![n].sem["ff-slave1"] = name["ff-slave1"]]
         \/ /\ spc[n] = "open_c" /\ spc'[n] = "open_map" /\ name["ff-master1"] # 0
            /\ s' = [s EXCEPT ![n].sem["ff-master1"] = name["ff-master1"]]
  BY DEF OpenSemaphores, Open, kernel, SlaveAt, TypeOK
<1>2. \A k \in Session, nm \in Name :
        /\ k # n => s'[k].sem[nm] = s[k].sem[nm]
        /\ s[k].sem[nm] # 0 => s'[k].sem[nm] = s[k].sem[nm]
  <2>1. \A nm \in Name : name[nm] \in 0 .. Sessions
    BY DEF TypeOK, Handles
  <2>2. s \in [Session -> SlaveRecord] /\ Name = {"ff-slave1", "ff-master1"}
    BY DEF TypeOK, Name
  <2>3. CASE s' = s
    BY <2>3
  <2>4. CASE spc[n] = "open_ff" /\ s' = [s EXCEPT ![n].sem["ff-slave1"] = name["ff-slave1"]]
    BY <2>1, <2>2, <2>4, SetSlaveHandle DEF TurnInv, Fresh
  <2>5. CASE spc[n] = "open_c" /\ s' = [s EXCEPT ![n].sem["ff-master1"] = name["ff-master1"]]
    BY <2>1, <2>2, <2>5, SetSlaveHandle DEF TurnInv, Fresh
  <2> QED
    BY <1>1, <2>3, <2>4, <2>5
<1>3. \A k \in Session : (\A nm \in Name : Alone(k, nm)' => Alone(k, nm)) /\ (Own(k)' => Own(k))
                         /\ (Alive(k)' <=> Alive(k))
  BY <1>1, <1>2, Numbers DEF Alone, Own, Alive
<1>4. Fresh'
  <2>1. spc'[n] = "open_c" => s'[n].sem["ff-master1"] = s[n].sem["ff-master1"]
    <3>1. name["ff-slave1"] \in 0 .. Sessions /\ "ff-slave1" \in Name /\ "ff-master1" \in Name
      BY Names DEF TypeOK, Handles
    <3>2. spc'[n] = "open_c" => s' = [s EXCEPT ![n].sem["ff-slave1"] = name["ff-slave1"]]
      BY <1>1
    <3>3. s \in [Session -> SlaveRecord]
      BY DEF TypeOK
    <3>4. [s EXCEPT ![n].sem["ff-slave1"] = name["ff-slave1"]][n].sem["ff-master1"]
            = s[n].sem["ff-master1"]
      BY <3>1, <3>3, SetSlaveHandle
    <3> QED
      BY <3>2, <3>4
  <2>2. mpc[n] \notin PreLaunch
    BY <1>1 DEF TurnInv, Fresh
  <2> QED
    BY <1>1, <1>2, <2>1, <2>2, Names DEF TurnInv, Fresh
<1>5. Made' /\ HasName'
  BY <1>1, <1>3 DEF TurnInv, Made, HasName
<1>6. Untouched'
  BY <1>1, <1>3 DEF TurnInv, Untouched
<1>7. SlaveHandle'
  <2> SUFFICES ASSUME NEW k \in Session, Alive(k), Own(k),
                      spc'[k] \notin {"off", "open_ff", "open_c", "over", "killed"}
               PROVE  s'[k].sem["ff-master1"] = k
    BY <1>3 DEF SlaveHandle
  <2>1. CASE k # n
    BY <1>1, <1>2, <2>1, Names DEF TurnInv, SlaveHandle
  <2>2. CASE k = n
    <3>1. s'[n].sem["ff-master1"] = name["ff-master1"] /\ name["ff-master1"] # 0
      BY <1>1, <2>2 DEF TypeOK, SlaveRecord, Handles, Name
    <3>2. name["ff-master1"] \in {0, n}
      BY <2>2, Names DEF TurnInv, HasName, Own
    <3> QED
      BY <2>2, <3>1, <3>2
  <2> QED
    BY <2>1, <2>2
<1>8. OneToken'
  <2> SUFFICES ASSUME NEW k \in Session, Alive(k), Own(k) PROVE Tokens(k)' <= 1
    BY <1>3 DEF OneToken
  <2>1. Tokens(k) <= 1
    BY DEF TurnInv, OneToken
  <2>2. spc'[k] \in SlaveHas => spc[k] \in SlaveHas
    BY <1>1 DEF SlaveHas
  <2> QED
    BY <1>1, <2>1, <2>2, Numbers, Names DEF Tokens
<1> QED
  BY <1>4, <1>5, <1>6, <1>7, <1>8 DEF Rest

(* Every step keeps the rest of the invariant.                             *)
LEMMA RestStep == TypeOK /\ TypeOK' /\ TurnInv /\ [Next]_vars => Rest'
<1> SUFFICES ASSUME TypeOK, TypeOK', TurnInv, [Next]_vars PROVE Rest'
  OBVIOUS
<1>1. ASSUME NEW n \in Session, StartMaster(n) PROVE Rest'
  <2>1. /\ name' = name /\ value' = value
        /\ \A k \in Session : m'[k].sem = m[k].sem /\ s'[k].sem = s[k].sem
    BY <1>1 DEF StartMaster, kernel
  <2>2. /\ \A k \in Session \ {n} : mpc'[k] = mpc[k] /\ spc'[k] = spc[k]
        /\ mpc'[n] = "off" => mpc[n] = "off"
        /\ mpc'[n] \in PreLaunch => mpc[n] \in PreLaunch /\ spc'[n] = spc[n]
        /\ Alive(n)' => mpc[n] \notin {"over", "killed"}
        /\ spc'[n] \in {"off", "open_ff", "open_c"} => spc'[n] = spc[n]
        /\ spc'[n] \notin {"over", "killed"} => spc[n] \notin {"over", "killed"}
        /\ spc[n] \in {"off", "open_ff", "open_c"} /\ spc'[n] # spc[n] => spc'[n] \in {"over", "killed"}
        /\ (mpc'[n] \in MasterHas => mpc[n] \in MasterHas) /\ (spc'[n] \in SlaveHas => spc[n] \in SlaveHas)
    BY <1>1 DEF StartMaster, MasterAt, TypeOK, Alive, PreLaunch, MasterHas, SlaveHas, TurnInv, Fresh
  <2> QED
    BY <2>1, <2>2, QuietStep DEF Rest
<1>2. ASSUME NEW n \in Session, InitSemaphores(n) PROVE Rest'
  BY <1>2, InitTurn
<1>3. ASSUME NEW n \in Session, InitMap(n) PROVE Rest'
  <2>1. /\ name' = name /\ value' = value
        /\ \A k \in Session : m'[k].sem = m[k].sem /\ s'[k].sem = s[k].sem
    BY <1>3 DEF InitMap, kernel, TypeOK, MasterRecord
  <2>2. /\ \A k \in Session \ {n} : mpc'[k] = mpc[k] /\ spc'[k] = spc[k]
        /\ mpc'[n] = "off" => mpc[n] = "off"
        /\ mpc'[n] \in PreLaunch => mpc[n] \in PreLaunch /\ spc'[n] = spc[n]
        /\ Alive(n)' => mpc[n] \notin {"over", "killed"}
        /\ spc'[n] \in {"off", "open_ff", "open_c"} => spc'[n] = spc[n]
        /\ spc'[n] \notin {"over", "killed"} => spc[n] \notin {"over", "killed"}
        /\ spc[n] \in {"off", "open_ff", "open_c"} /\ spc'[n] # spc[n] => spc'[n] \in {"over", "killed"}
        /\ (mpc'[n] \in MasterHas => mpc[n] \in MasterHas) /\ (spc'[n] \in SlaveHas => spc[n] \in SlaveHas)
    BY <1>3 DEF InitMap, MasterAt, TypeOK, Alive, PreLaunch, MasterHas, SlaveHas, TurnInv, Fresh
  <2> QED
    BY <2>1, <2>2, QuietStep DEF Rest
<1>4. ASSUME NEW n \in Session, WriteStatus(n) PROVE Rest'
  <2>1. /\ name' = name /\ value' = value
        /\ \A k \in Session : m'[k].sem = m[k].sem /\ s'[k].sem = s[k].sem
    BY <1>4 DEF WriteStatus, kernel
  <2>2. /\ \A k \in Session \ {n} : mpc'[k] = mpc[k] /\ spc'[k] = spc[k]
        /\ mpc'[n] = "off" => mpc[n] = "off"
        /\ mpc'[n] \in PreLaunch => mpc[n] \in PreLaunch /\ spc'[n] = spc[n]
        /\ Alive(n)' => mpc[n] \notin {"over", "killed"}
        /\ spc'[n] \in {"off", "open_ff", "open_c"} => spc'[n] = spc[n]
        /\ spc'[n] \notin {"over", "killed"} => spc[n] \notin {"over", "killed"}
        /\ spc[n] \in {"off", "open_ff", "open_c"} /\ spc'[n] # spc[n] => spc'[n] \in {"over", "killed"}
        /\ (mpc'[n] \in MasterHas => mpc[n] \in MasterHas) /\ (spc'[n] \in SlaveHas => spc[n] \in SlaveHas)
    BY <1>4 DEF WriteStatus, MasterAt, TypeOK, Alive, PreLaunch, MasterHas, SlaveHas, TurnInv, Fresh
  <2> QED
    BY <2>1, <2>2, QuietStep DEF Rest
<1>5. ASSUME NEW n \in Session, Launch(n) PROVE Rest'
  BY <1>5, LaunchTurn
<1>6. ASSUME NEW n \in Session, MasterWait(n) PROVE Rest'
  BY <1>6, MasterTurn
<1>7. ASSUME NEW n \in Session, WriteQuestion(n) PROVE Rest'
  <2>1. /\ name' = name /\ value' = value
        /\ \A k \in Session : m'[k].sem = m[k].sem /\ s'[k].sem = s[k].sem
    BY <1>7 DEF WriteQuestion, kernel, TypeOK, MasterRecord
  <2>2. /\ \A k \in Session \ {n} : mpc'[k] = mpc[k] /\ spc'[k] = spc[k]
        /\ mpc'[n] = "off" => mpc[n] = "off"
        /\ mpc'[n] \in PreLaunch => mpc[n] \in PreLaunch /\ spc'[n] = spc[n]
        /\ Alive(n)' => mpc[n] \notin {"over", "killed"}
        /\ spc'[n] \in {"off", "open_ff", "open_c"} => spc'[n] = spc[n]
        /\ spc'[n] \notin {"over", "killed"} => spc[n] \notin {"over", "killed"}
        /\ spc[n] \in {"off", "open_ff", "open_c"} /\ spc'[n] # spc[n] => spc'[n] \in {"over", "killed"}
        /\ (mpc'[n] \in MasterHas => mpc[n] \in MasterHas) /\ (spc'[n] \in SlaveHas => spc[n] \in SlaveHas)
    BY <1>7 DEF WriteQuestion, MasterAt, TypeOK, Alive, PreLaunch, MasterHas, SlaveHas, TurnInv, Fresh
  <2> QED
    BY <2>1, <2>2, QuietStep DEF Rest
<1>8. ASSUME NEW n \in Session, MasterPost(n) PROVE Rest'
  BY <1>8, MasterTurn
<1>9. ASSUME NEW n \in Session, ReadAnswer(n) PROVE Rest'
  <2>1. /\ name' = name /\ value' = value
        /\ \A k \in Session : m'[k].sem = m[k].sem /\ s'[k].sem = s[k].sem
    BY <1>9 DEF ReadAnswer, kernel, TypeOK, MasterRecord
  <2>2. /\ \A k \in Session \ {n} : mpc'[k] = mpc[k] /\ spc'[k] = spc[k]
        /\ mpc'[n] = "off" => mpc[n] = "off"
        /\ mpc'[n] \in PreLaunch => mpc[n] \in PreLaunch /\ spc'[n] = spc[n]
        /\ Alive(n)' => mpc[n] \notin {"over", "killed"}
        /\ spc'[n] \in {"off", "open_ff", "open_c"} => spc'[n] = spc[n]
        /\ spc'[n] \notin {"over", "killed"} => spc[n] \notin {"over", "killed"}
        /\ spc[n] \in {"off", "open_ff", "open_c"} /\ spc'[n] # spc[n] => spc'[n] \in {"over", "killed"}
        /\ (mpc'[n] \in MasterHas => mpc[n] \in MasterHas) /\ (spc'[n] \in SlaveHas => spc[n] \in SlaveHas)
    BY <1>9 DEF ReadAnswer, MasterAt, Loop, TypeOK, Alive, PreLaunch, MasterHas, SlaveHas, TurnInv, Fresh
  <2> QED
    BY <2>1, <2>2, QuietStep DEF Rest
<1>10. ASSUME NEW n \in Session, Delete(n) PROVE Rest'
  BY <1>10, DeleteTurn
<1>11. ASSUME NEW n \in Session, OpenSemaphores(n) PROVE Rest'
  BY <1>11, OpenTurn
<1>12. ASSUME NEW n \in Session, OpenMap(n) PROVE Rest'
  <2>1. /\ name' = name /\ value' = value
        /\ \A k \in Session : m'[k].sem = m[k].sem /\ s'[k].sem = s[k].sem
    BY <1>12 DEF OpenMap, kernel, TypeOK, SlaveRecord
  <2>2. /\ \A k \in Session \ {n} : mpc'[k] = mpc[k] /\ spc'[k] = spc[k]
        /\ mpc'[n] = "off" => mpc[n] = "off"
        /\ mpc'[n] \in PreLaunch => mpc[n] \in PreLaunch /\ spc'[n] = spc[n]
        /\ Alive(n)' => mpc[n] \notin {"over", "killed"}
        /\ spc'[n] \in {"off", "open_ff", "open_c"} => spc'[n] = spc[n]
        /\ spc'[n] \notin {"over", "killed"} => spc[n] \notin {"over", "killed"}
        /\ spc[n] \in {"off", "open_ff", "open_c"} /\ spc'[n] # spc[n] => spc'[n] \in {"over", "killed"}
        /\ (mpc'[n] \in MasterHas => mpc[n] \in MasterHas) /\ (spc'[n] \in SlaveHas => spc[n] \in SlaveHas)
    BY <1>12 DEF OpenMap, SlaveAt, TypeOK, Alive, PreLaunch, MasterHas, SlaveHas, TurnInv, Fresh
  <2> QED
    BY <2>1, <2>2, QuietStep DEF Rest
<1>13. ASSUME NEW n \in Session, SlavePost(n) PROVE Rest'
  BY <1>13, SlaveTurn
<1>14. ASSUME NEW n \in Session, SlaveWait(n) PROVE Rest'
  BY <1>14, SlaveTurn
<1>15. ASSUME NEW n \in Session, ReadQuestion(n) PROVE Rest'
  <2>1. /\ name' = name /\ value' = value
        /\ \A k \in Session : m'[k].sem = m[k].sem /\ s'[k].sem = s[k].sem
    BY <1>15 DEF ReadQuestion, kernel, TypeOK, SlaveRecord
  <2>2. /\ \A k \in Session \ {n} : mpc'[k] = mpc[k] /\ spc'[k] = spc[k]
        /\ mpc'[n] = "off" => mpc[n] = "off"
        /\ mpc'[n] \in PreLaunch => mpc[n] \in PreLaunch /\ spc'[n] = spc[n]
        /\ Alive(n)' => mpc[n] \notin {"over", "killed"}
        /\ spc'[n] \in {"off", "open_ff", "open_c"} => spc'[n] = spc[n]
        /\ spc'[n] \notin {"over", "killed"} => spc[n] \notin {"over", "killed"}
        /\ spc[n] \in {"off", "open_ff", "open_c"} /\ spc'[n] # spc[n] => spc'[n] \in {"over", "killed"}
        /\ (mpc'[n] \in MasterHas => mpc[n] \in MasterHas) /\ (spc'[n] \in SlaveHas => spc[n] \in SlaveHas)
    BY <1>15 DEF ReadQuestion, SlaveAt, TypeOK, Alive, PreLaunch, MasterHas, SlaveHas, TurnInv, Fresh
  <2> QED
    BY <2>1, <2>2, QuietStep DEF Rest
<1>16. ASSUME NEW n \in Session, ReadStatus(n) PROVE Rest'
  <2>1. /\ name' = name /\ value' = value
        /\ \A k \in Session : m'[k].sem = m[k].sem /\ s'[k].sem = s[k].sem
    BY <1>16 DEF ReadStatus, kernel, TypeOK, SlaveRecord
  <2>2. /\ \A k \in Session \ {n} : mpc'[k] = mpc[k] /\ spc'[k] = spc[k]
        /\ mpc'[n] = "off" => mpc[n] = "off"
        /\ mpc'[n] \in PreLaunch => mpc[n] \in PreLaunch /\ spc'[n] = spc[n]
        /\ Alive(n)' => mpc[n] \notin {"over", "killed"}
        /\ spc'[n] \in {"off", "open_ff", "open_c"} => spc'[n] = spc[n]
        /\ spc'[n] \notin {"over", "killed"} => spc[n] \notin {"over", "killed"}
        /\ spc[n] \in {"off", "open_ff", "open_c"} /\ spc'[n] # spc[n] => spc'[n] \in {"over", "killed"}
        /\ (mpc'[n] \in MasterHas => mpc[n] \in MasterHas) /\ (spc'[n] \in SlaveHas => spc[n] \in SlaveHas)
    BY <1>16 DEF ReadStatus, SlaveAt, TypeOK, Alive, PreLaunch, MasterHas, SlaveHas, TurnInv, Fresh
  <2> QED
    BY <2>1, <2>2, QuietStep DEF Rest
<1>17. ASSUME NEW n \in Session, WriteAnswer(n) PROVE Rest'
  <2>1. /\ name' = name /\ value' = value
        /\ \A k \in Session : m'[k].sem = m[k].sem /\ s'[k].sem = s[k].sem
    BY <1>17 DEF WriteAnswer, kernel
  <2>2. /\ \A k \in Session \ {n} : mpc'[k] = mpc[k] /\ spc'[k] = spc[k]
        /\ mpc'[n] = "off" => mpc[n] = "off"
        /\ mpc'[n] \in PreLaunch => mpc[n] \in PreLaunch /\ spc'[n] = spc[n]
        /\ Alive(n)' => mpc[n] \notin {"over", "killed"}
        /\ spc'[n] \in {"off", "open_ff", "open_c"} => spc'[n] = spc[n]
        /\ spc'[n] \notin {"over", "killed"} => spc[n] \notin {"over", "killed"}
        /\ spc[n] \in {"off", "open_ff", "open_c"} /\ spc'[n] # spc[n] => spc'[n] \in {"over", "killed"}
        /\ (mpc'[n] \in MasterHas => mpc[n] \in MasterHas) /\ (spc'[n] \in SlaveHas => spc[n] \in SlaveHas)
    BY <1>17 DEF WriteAnswer, SlaveAt, TypeOK, Alive, PreLaunch, MasterHas, SlaveHas, TurnInv, Fresh
  <2> QED
    BY <2>1, <2>2, QuietStep DEF Rest
<1>18. ASSUME NEW n \in Session, Close(n) PROVE Rest'
  <2>1. /\ name' = name /\ value' = value
        /\ \A k \in Session : m'[k].sem = m[k].sem /\ s'[k].sem = s[k].sem
    BY <1>18 DEF Close, kernel
  <2>2. /\ \A k \in Session \ {n} : mpc'[k] = mpc[k] /\ spc'[k] = spc[k]
        /\ mpc'[n] = "off" => mpc[n] = "off"
        /\ mpc'[n] \in PreLaunch => mpc[n] \in PreLaunch /\ spc'[n] = spc[n]
        /\ Alive(n)' => mpc[n] \notin {"over", "killed"}
        /\ spc'[n] \in {"off", "open_ff", "open_c"} => spc'[n] = spc[n]
        /\ spc'[n] \notin {"over", "killed"} => spc[n] \notin {"over", "killed"}
        /\ spc[n] \in {"off", "open_ff", "open_c"} /\ spc'[n] # spc[n] => spc'[n] \in {"over", "killed"}
        /\ (mpc'[n] \in MasterHas => mpc[n] \in MasterHas) /\ (spc'[n] \in SlaveHas => spc[n] \in SlaveHas)
    BY <1>18 DEF Close, SlaveAt, TypeOK, Alive, PreLaunch, MasterHas, SlaveHas, TurnInv, Fresh
  <2> QED
    BY <2>1, <2>2, QuietStep DEF Rest
<1>19. ASSUME NEW n \in Session, KillMaster(n) PROVE Rest'
  <2>1. /\ name' = name /\ value' = value
        /\ \A k \in Session : m'[k].sem = m[k].sem /\ s'[k].sem = s[k].sem
    BY <1>19 DEF KillMaster, kernel
  <2>2. /\ \A k \in Session \ {n} : mpc'[k] = mpc[k] /\ spc'[k] = spc[k]
        /\ mpc'[n] = "off" => mpc[n] = "off"
        /\ mpc'[n] \in PreLaunch => mpc[n] \in PreLaunch /\ spc'[n] = spc[n]
        /\ Alive(n)' => mpc[n] \notin {"over", "killed"}
        /\ spc'[n] \in {"off", "open_ff", "open_c"} => spc'[n] = spc[n]
        /\ spc'[n] \notin {"over", "killed"} => spc[n] \notin {"over", "killed"}
        /\ spc[n] \in {"off", "open_ff", "open_c"} /\ spc'[n] # spc[n] => spc'[n] \in {"over", "killed"}
        /\ (mpc'[n] \in MasterHas => mpc[n] \in MasterHas) /\ (spc'[n] \in SlaveHas => spc[n] \in SlaveHas)
    BY <1>19 DEF KillMaster, TypeOK, Alive, PreLaunch, MasterHas, SlaveHas, TurnInv, Fresh
  <2> QED
    BY <2>1, <2>2, QuietStep DEF Rest
<1>20. ASSUME NEW n \in Session, KillSlave(n) PROVE Rest'
  <2>1. /\ name' = name /\ value' = value
        /\ \A k \in Session : m'[k].sem = m[k].sem /\ s'[k].sem = s[k].sem
    BY <1>20 DEF KillSlave, kernel
  <2>2. /\ \A k \in Session \ {n} : mpc'[k] = mpc[k] /\ spc'[k] = spc[k]
        /\ mpc'[n] = "off" => mpc[n] = "off"
        /\ mpc'[n] \in PreLaunch => mpc[n] \in PreLaunch /\ spc'[n] = spc[n]
        /\ Alive(n)' => mpc[n] \notin {"over", "killed"}
        /\ spc'[n] \in {"off", "open_ff", "open_c"} => spc'[n] = spc[n]
        /\ spc'[n] \notin {"over", "killed"} => spc[n] \notin {"over", "killed"}
        /\ spc[n] \in {"off", "open_ff", "open_c"} /\ spc'[n] # spc[n] => spc'[n] \in {"over", "killed"}
        /\ (mpc'[n] \in MasterHas => mpc[n] \in MasterHas) /\ (spc'[n] \in SlaveHas => spc[n] \in SlaveHas)
    BY <1>20 DEF KillSlave, TypeOK, Alive, PreLaunch, MasterHas, SlaveHas, TurnInv, Fresh
  <2> QED
    BY <2>1, <2>2, QuietStep DEF Rest
<1>21. CASE UNCHANGED vars
  BY <1>21 DEF vars, kernel, TurnInv, Rest, Fresh, Made, HasName, Untouched, SlaveHandle, OneToken,
    Alive, Alone, Own, Tokens
<1> QED
  BY <1>1, <1>2, <1>3, <1>4, <1>5, <1>6, <1>7, <1>8, <1>9, <1>10, <1>11, <1>12, <1>13,
     <1>14, <1>15, <1>16, <1>17, <1>18, <1>19, <1>20, <1>21 DEF Next, Master, Slave

(* The master and the slave of a session that is on its own are never both *)
(* in the part where they use the shared data.                             *)
THEOREM TurnsAreKept == Spec => []InTurn
<1>1. Init => TypeOK /\ Ranges /\ TurnInv
  BY TypeInit, TurnInit
<1>2. TypeOK /\ Ranges /\ TurnInv /\ [Next]_vars => (TypeOK /\ Ranges /\ TurnInv)'
  BY TypeStep, RangesStep, OrderStep, RestStep DEF TurnInv, Rest
<1>3. TypeOK /\ TurnInv => InTurn
  <2> SUFFICES ASSUME TypeOK, TurnInv, NEW n \in Session, OnItsOwn(n),
                      mpc[n] \in MasterHas, spc[n] \in SlaveHas
               PROVE  FALSE
    BY DEF InTurn, MasterHas, SlaveHas
  <2>1. Own(n) /\ Alive(n)
    BY DEF OnItsOwn, Own, Alone, Alive, MasterHas
  <2>2. Tokens(n) <= 1
    BY <2>1 DEF TurnInv, OneToken
  <2> QED
    BY <2>2, Numbers, Names DEF Tokens
<1> QED
  BY <1>1, <1>2, <1>3, PTL DEF Spec

-----------------------------------------------------------------------------
(* Answers.  What the two processes of a session know of each other at     *)
(* every pair of program counters, as long as the session is on its own.   *)

(* From the mapping of the file to its removal. *)
Working(n) == mpc[n] \notin {"off", "init_ff", "init_c", "init_map", "over", "killed"}

(* The last question of a master. *)
LastOf(n) == IF m[n].i = 0 THEN NoQuestion ELSE <<n, m[n].i>>

(* Nothing is asked before the slave is ready, nothing is mapped before    *)
(* it is opened.                                                           *)
Begun == \A n \in Session :
  /\ mpc[n] \in PreLaunch \cup {"wait_init"} => m[n].i = 0 /\ m[n].rff = NoQuestion
  /\ mpc[n] \in {"post", "wait", "read"} => m[n].i # 0
  /\ spc[n] \in Opening \cup {"off"} => s[n].map = 0 /\ ~s[n].isnew

(* Both work on the file that has the name. *)
OneFile(n) ==
  /\ file = m[n].map /\ ~s[n].isnew
  /\ spc[n] \notin Opening \cup {"off", "over", "killed"} => s[n].map = m[n].map

(* The status is 1 from the launch to the end of the iterations. *)
Status(n) ==
  /\ mpc[n] \in {"launch", "wait_init", "write", "post", "wait", "read", "fin"} =>
       shared[m[n].map].status = 1
  /\ mpc[n] \in {"post_fin", "wait_fin"} => shared[m[n].map].status = 0

(* Where the slave is, for each place of its master, and what is written.  *)
AtInit(n) == mpc[n] = "wait_init" =>
  /\ value["ff-master1"][n] = 0
  /\ spc[n] \in Opening \cup {"post_init", "wait", "over", "killed"}
  /\ value["ff-slave1"][n] > 0 => spc[n] \in {"wait", "killed"}
AtTurn(n) == mpc[n] \in MasterHas => spc[n] \in {"wait", "over", "killed"}
AtWait(n) == mpc[n] = "wait" =>
  /\ spc[n] \in {"wait", "read_cff", "read_status", "write", "post", "over", "killed"}
  /\ value["ff-slave1"][n] > 0 => spc[n] \in {"wait", "over", "killed"}
  /\ shared[m[n].map].cff = LastOf(n)
  /\ spc[n] \in {"read_status", "write"} => s[n].cff = LastOf(n)
  /\ spc[n] = "post" \/ value["ff-slave1"][n] > 0 => shared[m[n].map].rff = LastOf(n)
AtEnd(n) ==
  /\ mpc[n] = "wait_fin" =>
       /\ spc[n] \in {"wait", "read_cff", "read_status", "post_fin", "close", "over", "killed"}
       /\ value["ff-slave1"][n] > 0 => spc[n] \in {"close", "over", "killed"}
  /\ mpc[n] \in {"del_ff", "del_c", "del_map"} => spc[n] \in {"close", "over", "killed"}
Written(n) ==
  /\ mpc[n] = "post" => shared[m[n].map].cff = LastOf(n)
  /\ mpc[n] = "read" => shared[m[n].map].rff = LastOf(n)

Agree(n) == OneFile(n) /\ Status(n) /\ AtInit(n) /\ AtTurn(n) /\ AtWait(n) /\ AtEnd(n) /\ Written(n)

Dialogue == \A n \in Session : Working(n) /\ OnItsOwn(n) => Agree(n)

(* A step of session n. *)
Steps(n) == StartMaster(n) \/ Master(n) \/ Slave(n) \/ KillMaster(n) \/ KillSlave(n)

(* What a step changes in the records of a session, and when. *)
LEMMA RecordStep ==
  ASSUME TypeOK, Ranges, NEW n \in Session, Steps(n), NEW k \in Session
  PROVE  /\ k # n => m'[k] = m[k] /\ s'[k] = s[k] /\ mpc'[k] = mpc[k] /\ spc'[k] = spc[k]
         /\ mpc[n] \notin {"init_ff", "init_c"} => m'[k].sem = m[k].sem
         /\ mpc[n] # "init_map" => m'[k].map = m[k].map /\ m'[k].isnew = m[k].isnew
         /\ mpc[n] # "write" => m'[k].i = m[k].i
         /\ mpc[n] # "read" => m'[k].rff = m[k].rff
         /\ spc[n] # "open_map" => s'[k].map = s[k].map /\ s'[k].isnew = s[k].isnew
         /\ spc[n] # "read_cff" => s'[k].cff = s[k].cff
<1> DEFINE P ==
      /\ k # n => m'[k] = m[k] /\ s'[k] = s[k] /\ mpc'[k] = mpc[k] /\ spc'[k] = spc[k]
      /\ mpc[n] \notin {"init_ff", "init_c"} => m'[k].sem = m[k].sem
      /\ mpc[n] # "init_map" => m'[k].map = m[k].map /\ m'[k].isnew = m[k].isnew
      /\ mpc[n] # "write" => m'[k].i = m[k].i
      /\ mpc[n] # "read" => m'[k].rff = m[k].rff
      /\ spc[n] # "open_map" => s'[k].map = s[k].map /\ s'[k].isnew = s[k].isnew
      /\ spc[n] # "read_cff" => s'[k].cff = s[k].cff
<1> USE DEF TypeOK, MasterRecord, SlaveRecord, MasterAt, SlaveAt, kernel
<1>1. CASE StartMaster(n)
  BY <1>1 DEF StartMaster
<1>2. CASE InitSemaphores(n)
  BY <1>2 DEF InitSemaphores, ffsem_init
<1>3. CASE InitMap(n)
  BY <1>3 DEF InitMap
<1>4. CASE WriteStatus(n)
  BY <1>4 DEF WriteStatus
<1>5. CASE Launch(n)
  BY <1>5 DEF Launch
<1>6. CASE MasterWait(n)
  BY <1>6 DEF MasterWait
<1>7. CASE WriteQuestion(n)
  BY <1>7 DEF WriteQuestion
<1>8. CASE MasterPost(n)
  BY <1>8 DEF MasterPost
<1>9. CASE ReadAnswer(n)
  BY <1>9 DEF ReadAnswer
<1>10. CASE Delete(n)
  BY <1>10 DEF Delete
<1>11. CASE OpenSemaphores(n)
  BY <1>11 DEF OpenSemaphores, Open
<1>12. CASE OpenMap(n)
  BY <1>12 DEF OpenMap
<1>13. CASE SlavePost(n) \/ SlaveWait(n) \/ WriteAnswer(n) \/ Close(n)
  BY <1>13 DEF SlavePost, SlaveWait, WriteAnswer, Close
<1>14. CASE ReadQuestion(n) \/ ReadStatus(n)
  BY <1>14 DEF ReadQuestion, ReadStatus
<1>15. CASE KillMaster(n) \/ KillSlave(n)
  BY <1>15 DEF KillMaster, KillSlave
<1> QED BY <1>1, <1>2, <1>3, <1>4, <1>5, <1>6, <1>7, <1>8, <1>9, <1>10, <1>11, <1>12, <1>13,
          <1>14, <1>15 DEF Steps, Master, Slave

(* A handle on a semaphore is taken once. *)
LEMMA HandleStep ==
  ASSUME TypeOK, Ranges, TurnInv, NEW n \in Session, Steps(n), NEW k \in Session, NEW nm \in Name
  PROVE  /\ s[k].sem[nm] # 0 => s'[k].sem[nm] = s[k].sem[nm]
         /\ s'[k].sem[nm] \in {s[k].sem[nm], name[nm]}
<1>1. CASE OpenSemaphores(n)
  <2>1. s' = s \/ (spc[n] = "open_ff" /\ s' = [s EXCEPT ![n].sem["ff-slave1"] = name["ff-slave1"]])
        \/ (spc[n] = "open_c" /\ s' = [s EXCEPT ![n].sem["ff-master1"] = name["ff-master1"]])
    BY <1>1 DEF OpenSemaphores, Open, SlaveAt
  <2>2. /\ spc[n] = "open_ff" => s[n].sem["ff-slave1"] = 0
        /\ spc[n] = "open_c" => s[n].sem["ff-master1"] = 0
    BY DEF TurnInv, Fresh
  <2>3. s \in [Session -> SlaveRecord] /\ \A x \in Name : name[x] \in 0 .. Sessions
    BY DEF TypeOK, Handles
  <2>4. CASE s' = s
    BY <2>4
  <2>5. CASE spc[n] = "open_ff" /\ s' = [s EXCEPT ![n].sem["ff-slave1"] = name["ff-slave1"]]
    BY <2>2, <2>3, <2>5, Names, SetSlaveHandle
  <2>6. CASE spc[n] = "open_c" /\ s' = [s EXCEPT ![n].sem["ff-master1"] = name["ff-master1"]]
    BY <2>2, <2>3, <2>6, Names, SetSlaveHandle
  <2> QED BY <2>1, <2>4, <2>5, <2>6
<1>2. CASE ~OpenSemaphores(n)
  <2>1. CASE OpenMap(n)
    BY <2>1 DEF OpenMap, TypeOK, SlaveRecord
  <2>2. CASE ReadQuestion(n) \/ ReadStatus(n)
    BY <2>2 DEF ReadQuestion, ReadStatus, TypeOK, SlaveRecord
  <2>3. CASE SlavePost(n) \/ SlaveWait(n) \/ WriteAnswer(n) \/ Close(n) \/ KillSlave(n)
    BY <2>3 DEF SlavePost, SlaveWait, WriteAnswer, Close, KillSlave
  <2>4. CASE StartMaster(n) \/ Master(n) \/ KillMaster(n)
    BY <2>4 DEF Master, StartMaster, InitSemaphores, InitMap, WriteStatus, Launch, MasterWait,
      WriteQuestion, MasterPost, ReadAnswer, Delete, KillMaster
  <2> QED BY <1>2, <2>1, <2>2, <2>3, <2>4 DEF Steps, Slave
<1> QED BY <1>1, <1>2

(* A session that has its file and is on its own already was before the step. *)
LEMMA OwnBefore ==
  ASSUME TypeOK, Ranges, TurnInv, Begun, NEW n \in Session, Steps(n), NEW k \in Session,
         mpc[k] \notin {"off", "init_ff", "init_c", "init_map", "killed"}, OnItsOwn(k)'
  PROVE  OnItsOwn(k)
<1>1. m'[k].sem = m[k].sem /\ m'[k].map = m[k].map /\ m[k].map \in Objects
  BY RecordStep DEF Ranges
<1>2. ASSUME NEW j \in Session \ {k}
      PROVE  ~s[j].isnew /\ s[j].map # m[k].map /\ \A nm \in Name : s[j].sem[nm] # k
  <2>1. ~s'[j].isnew /\ s'[j].map # m[k].map /\ \A nm \in Name : s'[j].sem[nm] # k
    BY <1>1 DEF OnItsOwn
  <2>2. \A nm \in Name : s[j].sem[nm] # k
    BY <2>1, HandleStep, Numbers
  <2>3. CASE j = n /\ spc[n] = "open_map"
    BY <1>1, <2>2, <2>3, BoundsAssumption DEF Begun, Opening, Objects
  <2>4. CASE ~(j = n /\ spc[n] = "open_map")
    BY <2>1, <2>2, <2>4, RecordStep
  <2> QED BY <2>3, <2>4
<1>3. \A nm \in Name : m[k].sem[nm] = k
  BY <1>1 DEF OnItsOwn
<1> QED BY <1>2, <1>3 DEF OnItsOwn

(* Another session does nothing to one that works and is on its own. *)
LEMMA OthersStep ==
  ASSUME TypeOK, Ranges, TurnInv, Begun, NEW n \in Session, Steps(n), NEW k \in Session, k # n,
         Working(k), OnItsOwn(k), file = m[k].map
  PROVE  /\ file' = file /\ shared'[m[k].map] = shared[m[k].map]
         /\ \A nm \in Name : value'[nm][k] = value[nm][k]
<1>1. Alive(k) /\ m[k].map \in Objects /\ Own(k) /\ file # 0
  BY BoundsAssumption DEF Working, Alive, OnItsOwn, Own, Alone, Ranges, Objects
<1>2. ~Alive(n)
  BY <1>1, OneMaster DEF TurnInv
<1>3. ~s[n].isnew /\ s[n].map # m[k].map /\ \A nm \in Name : s[n].sem[nm] # k
  BY DEF OnItsOwn
<1>4. ASSUME Master(n) PROVE FALSE
  BY <1>2, <1>4 DEF Alive, Master, InitSemaphores, InitMap, WriteStatus, Launch, MasterWait,
    WriteQuestion, MasterPost, ReadAnswer, Delete, MasterAt
<1>5. CASE StartMaster(n) \/ KillMaster(n) \/ KillSlave(n)
  BY <1>5 DEF StartMaster, KillMaster, KillSlave, kernel
<1>6. CASE OpenSemaphores(n) \/ ReadQuestion(n) \/ ReadStatus(n)
  BY <1>6 DEF OpenSemaphores, Open, ReadQuestion, ReadStatus, kernel
<1>7. CASE OpenMap(n)
  BY <1>1, <1>7 DEF OpenMap, Mapped
<1>8. CASE SlavePost(n) \/ SlaveWait(n)
  <2>1. file' = file /\ shared' = shared /\ value \in Values
    BY <1>8 DEF SlavePost, SlaveWait, TypeOK
  <2>2. CASE SlavePost(n)
    BY <1>3, <2>1, <2>2, Names, Posted DEF SlavePost, ffsem_post
  <2>3. CASE SlaveWait(n)
    BY <1>3, <2>1, <2>3, Names, Waited DEF SlaveWait, ffsem_wait
  <2> QED BY <1>8, <2>2, <2>3
<1>9. CASE WriteAnswer(n)
  BY <1>3, <1>9 DEF WriteAnswer, TypeOK
<1>10. CASE Close(n)
  BY <1>3, <1>10 DEF Close, ffmmap_destroy
<1> QED BY <1>4, <1>5, <1>6, <1>7, <1>8, <1>9, <1>10 DEF Steps, Slave

(* So that what it and its slave know of each other stays true. *)
LEMMA OthersAgree ==
  ASSUME TypeOK, Ranges, TurnInv, Begun, NEW n \in Session, Steps(n), NEW k \in Session, k # n,
         Working(k), OnItsOwn(k), Agree(k)
  PROVE  Agree(k)'
<1>1. /\ m'[k] = m[k] /\ s'[k] = s[k] /\ mpc'[k] = mpc[k] /\ spc'[k] = spc[k]
  BY RecordStep
<1>2. /\ file' = file /\ shared'[m[k].map] = shared[m[k].map]
      /\ value'["ff-slave1"][k] = value["ff-slave1"][k]
      /\ value'["ff-master1"][k] = value["ff-master1"][k]
  BY OthersStep, Names DEF Agree, OneFile
<1>3. LastOf(k)' = LastOf(k)
  BY <1>1 DEF LastOf
<1>4. OneFile(k)' /\ Status(k)'
  BY <1>1, <1>2 DEF Agree, OneFile, Status
<1>5. AtInit(k)' /\ AtTurn(k)' /\ AtEnd(k)'
  BY <1>1, <1>2 DEF Agree, AtInit, AtTurn, AtEnd
<1>6. AtWait(k)' /\ Written(k)'
  BY <1>1, <1>2, <1>3 DEF Agree, AtWait, Written
<1> QED BY <1>4, <1>5, <1>6 DEF Agree

(* Nothing is asked too early. *)
LEMMA BegunStep ==
  ASSUME TypeOK, Ranges, TurnInv, Begun, NEW n \in Session, Steps(n)
  PROVE  Begun'
<1>1. ASSUME NEW k \in Session, k # n
      PROVE  /\ mpc'[k] \in PreLaunch \cup {"wait_init"} => m'[k].i = 0 /\ m'[k].rff = NoQuestion
             /\ mpc'[k] \in {"post", "wait", "read"} => m'[k].i # 0
             /\ spc'[k] \in Opening \cup {"off"} => s'[k].map = 0 /\ ~s'[k].isnew
  BY <1>1, RecordStep DEF Begun
<1> DEFINE P == /\ mpc'[n] \in PreLaunch \cup {"wait_init"} => m'[n].i = 0 /\ m'[n].rff = NoQuestion
                /\ mpc'[n] \in {"post", "wait", "read"} => m'[n].i # 0
           Q == spc'[n] \in Opening \cup {"off"} => s'[n].map = 0 /\ ~s'[n].isnew
<1>2. P
  <2> USE DEF MasterAt, PreLaunch, Begun, TypeOK
  <2>1. CASE WriteQuestion(n)
    <3>1. m'[n].i # 0 /\ mpc'[n] = "post"
      BY <2>1, NextIteration DEF WriteQuestion, Ranges, MasterRecord
    <3> QED BY <3>1
  <2>2. CASE ReadAnswer(n)
    BY <2>2 DEF ReadAnswer, Loop
  <2>3. CASE MasterWait(n)
    BY <2>3, RecordStep DEF MasterWait, Loop
  <2>4. CASE StartMaster(n) \/ InitSemaphores(n) \/ InitMap(n) \/ WriteStatus(n) \/ Launch(n)
    BY <2>4, RecordStep DEF StartMaster, InitSemaphores, InitMap, WriteStatus, Launch
  <2>5. CASE MasterPost(n) \/ Delete(n) \/ KillMaster(n)
    BY <2>5, RecordStep DEF MasterPost, Delete, KillMaster
  <2>6. CASE Slave(n) \/ KillSlave(n)
    <3>1. mpc' = mpc /\ m' = m
      BY <2>6 DEF Slave, OpenSemaphores, OpenMap, SlavePost, SlaveWait, ReadQuestion, ReadStatus,
        WriteAnswer, Close, KillSlave
    <3> QED BY <3>1
  <2> QED BY <2>1, <2>2, <2>3, <2>4, <2>5, <2>6 DEF Steps, Master
<1>3. Q
  <2>1. CASE OpenMap(n)
    BY <2>1 DEF OpenMap, SlaveAt, Opening, TypeOK
  <2>2. CASE ~OpenMap(n)
    <3>1. spc'[n] \in Opening \cup {"off"} => spc[n] \in Opening \cup {"off"}
      <4>1. CASE Launch(n) \/ OpenSemaphores(n)
        BY <4>1 DEF Launch, OpenSemaphores, Open, SlaveAt, Opening, TypeOK
      <4>2. CASE SlavePost(n) \/ SlaveWait(n) \/ ReadQuestion(n) \/ ReadStatus(n)
                 \/ WriteAnswer(n) \/ Close(n) \/ KillSlave(n)
        BY <4>2 DEF SlavePost, SlaveWait, ReadQuestion, ReadStatus, WriteAnswer, Close, KillSlave,
          SlaveAt, Opening, TypeOK
      <4>3. CASE StartMaster(n) \/ (Master(n) /\ ~Launch(n)) \/ KillMaster(n)
        BY <4>3 DEF StartMaster, Master, InitSemaphores, InitMap, WriteStatus, MasterWait,
          WriteQuestion, MasterPost, ReadAnswer, Delete, KillMaster
      <4> QED BY <2>2, <4>1, <4>2, <4>3 DEF Steps, Slave
    <3>2. s'[n].map = s[n].map /\ s'[n].isnew = s[n].isnew
      <4>1. CASE spc[n] # "open_map"
        BY <4>1, RecordStep
      <4>2. CASE spc[n] = "open_map"
        <5>1. ~Slave(n)
          BY <2>2, <4>2 DEF Slave, OpenSemaphores, Open, SlavePost, SlaveWait, ReadQuestion, ReadStatus,
            WriteAnswer, Close, SlaveAt
        <5>2. s' = s
          BY <5>1 DEF Steps, Master, StartMaster, InitSemaphores, InitMap, WriteStatus, Launch, MasterWait,
            WriteQuestion, MasterPost, ReadAnswer, Delete, KillMaster, KillSlave
        <5> QED BY <5>2
      <4> QED BY <4>1, <4>2
    <3> QED BY <3>1, <3>2 DEF Begun
  <2> QED BY <2>1, <2>2
<1> QED BY <1>1, <1>2, <1>3 DEF Begun

(* The token of a session on its own. *)
LEMMA TokenIs ==
  ASSUME TypeOK, TurnInv, NEW n \in Session, Working(n), OnItsOwn(n)
  PROVE  /\ value["ff-slave1"][n] \in Nat /\ value["ff-master1"][n] \in Nat
         /\ value["ff-slave1"][n] + value["ff-master1"][n] <= 1
         /\ mpc[n] \in MasterHas \/ spc[n] \in SlaveHas =>
              value["ff-slave1"][n] = 0 /\ value["ff-master1"][n] = 0
         /\ ~(mpc[n] \in MasterHas /\ spc[n] \in SlaveHas)
<1>1. Own(n) /\ Alive(n)
  BY DEF OnItsOwn, Own, Alone, Alive, Working
<1>2. Tokens(n) <= 1
  BY <1>1 DEF TurnInv, OneToken
<1>3. value["ff-slave1"][n] \in Nat /\ value["ff-master1"][n] \in Nat
  BY Numbers, Names
<1> QED BY <1>2, <1>3 DEF Tokens

(* The steps of the master of a session. *)
LEMMA MasterAgree ==
  ASSUME TypeOK, Ranges, TurnInv, Begun, NEW n \in Session, Master(n), ~InitMap(n),
         Working(n), OnItsOwn(n), Agree(n), Working(n)'
  PROVE  Agree(n)'
<1> DEFINE vs == value["ff-slave1"][n]
           vm == value["ff-master1"][n]
<1>1. /\ vs \in Nat /\ vm \in Nat /\ vs + vm <= 1
      /\ mpc[n] \in MasterHas \/ spc[n] \in SlaveHas => vs = 0 /\ vm = 0
      /\ ~(mpc[n] \in MasterHas /\ spc[n] \in SlaveHas)
  BY TokenIs
<1>2. /\ \A nm \in Name : m[n].sem[nm] = n
      /\ m[n].map \in Objects
  BY DEF OnItsOwn, Ranges, Working
<1>3. /\ OneFile(n) /\ Status(n) /\ AtInit(n) /\ AtTurn(n) /\ AtWait(n) /\ AtEnd(n) /\ Written(n)
  BY DEF Agree
<1>4. CASE WriteStatus(n)
  <2>1. /\ mpc[n] \in {"status", "fin"} /\ mpc'[n] = IF mpc[n] = "status" THEN "launch" ELSE "post_fin"
        /\ shared'[m[n].map].status = IF mpc[n] = "status" THEN 1 ELSE 0
        /\ file' = file /\ m' = m /\ s' = s /\ spc' = spc /\ value' = value
    BY <1>2, <1>4 DEF WriteStatus, MasterAt, TypeOK, FileRecord
  <2>2. OneFile(n)' /\ Status(n)'
    BY <1>3, <2>1 DEF OneFile, Status
  <2>3. AtInit(n)' /\ AtTurn(n)' /\ AtWait(n)' /\ AtEnd(n)' /\ Written(n)'
    BY <1>3, <2>1 DEF AtInit, AtTurn, AtWait, AtEnd, Written, MasterHas
  <2> QED BY <2>2, <2>3 DEF Agree
<1>5. CASE Launch(n)
  <2>1. /\ mpc[n] = "launch" /\ mpc'[n] = "wait_init" /\ spc[n] = "off" /\ spc'[n] = "open_ff"
        /\ file' = file /\ m' = m /\ s' = s /\ shared' = shared /\ value' = value
    BY <1>5 DEF Launch, MasterAt, SlaveAt, TypeOK, kernel
  <2>2. vs = 0 /\ vm = 0
    BY <2>1, Names DEF TurnInv, Untouched, PreLaunch, OnItsOwn, Alone
  <2>3. OneFile(n)' /\ Status(n)'
    BY <1>3, <2>1 DEF OneFile, Status, Opening
  <2>4. AtInit(n)' /\ AtTurn(n)' /\ AtWait(n)' /\ AtEnd(n)' /\ Written(n)'
    BY <1>3, <2>1, <2>2 DEF AtInit, AtTurn, AtWait, AtEnd, Written, MasterHas, Opening
  <2> QED BY <2>3, <2>4 DEF Agree
<1>6. CASE MasterWait(n)
  <2>1. /\ mpc[n] \in {"wait_init", "wait", "wait_fin"} /\ vs > 0
        /\ mpc[n] = "wait_init" => mpc'[n] \in {"write", "fin"}
        /\ mpc[n] = "wait" => mpc'[n] = "read"
        /\ mpc[n] = "wait_fin" => mpc'[n] = "del_ff"
        /\ file' = file /\ m' = m /\ s' = s /\ shared' = shared /\ spc' = spc
    BY <1>2, <1>6, Names DEF MasterWait, MasterAt, TypeOK, ffsem_wait, Loop
  <2>2. OneFile(n)' /\ Status(n)'
    BY <1>3, <2>1 DEF OneFile, Status
  <2>3. AtInit(n)' /\ AtTurn(n)' /\ AtWait(n)' /\ AtEnd(n)' /\ Written(n)'
    BY <1>3, <2>1 DEF AtInit, AtTurn, AtWait, AtEnd, Written, MasterHas, LastOf
  <2> QED BY <2>2, <2>3 DEF Agree
<1>7. CASE WriteQuestion(n)
  <2>1. /\ mpc[n] = "write" /\ mpc'[n] = "post"
        /\ m'[n].i # 0 /\ m'[n].map = m[n].map
        /\ shared'[m[n].map].cff = <<n, m'[n].i>>
        /\ shared'[m[n].map].status = shared[m[n].map].status
        /\ file' = file /\ s' = s /\ spc' = spc /\ value' = value
    <3>1. mpc[n] = "write" /\ mpc'[n] = "post"
      BY <1>7 DEF WriteQuestion, MasterAt, TypeOK
    <3>2. m[n].i \in Nat /\ m'[n].i = m[n].i + 1 /\ m'[n].map = m[n].map
      BY <1>7, BoundsAssumption DEF WriteQuestion, TypeOK, MasterRecord
    <3> QED BY <1>2, <1>7, <3>1, <3>2 DEF WriteQuestion, TypeOK, FileRecord
  <2>2. OneFile(n)' /\ Status(n)'
    BY <1>3, <2>1 DEF OneFile, Status
  <2>3. AtInit(n)' /\ AtTurn(n)' /\ AtWait(n)' /\ AtEnd(n)' /\ Written(n)'
    BY <1>3, <2>1 DEF AtInit, AtTurn, AtWait, AtEnd, Written, MasterHas, LastOf
  <2> QED BY <2>2, <2>3 DEF Agree
<1>8. CASE MasterPost(n)
  <2>1. /\ mpc[n] \in {"post", "post_fin"} /\ mpc'[n] = IF mpc[n] = "post" THEN "wait" ELSE "wait_fin"
        /\ file' = file /\ m' = m /\ s' = s /\ shared' = shared /\ spc' = spc
        /\ value'["ff-slave1"][n] = vs
    BY <1>2, <1>8, Names DEF MasterPost, MasterAt, TypeOK, ffsem_post, Values
  <2>2. OneFile(n)' /\ Status(n)'
    BY <1>3, <2>1 DEF OneFile, Status
  <2>3. vs = 0
    BY <1>1, <2>1 DEF MasterHas
  <2>4. AtInit(n)' /\ AtTurn(n)' /\ AtWait(n)' /\ AtEnd(n)' /\ Written(n)'
    BY <1>3, <2>1, <2>3 DEF AtInit, AtTurn, AtWait, AtEnd, Written, MasterHas, LastOf
  <2> QED BY <2>2, <2>4 DEF Agree
<1>9. CASE ReadAnswer(n)
  <2>1. /\ mpc[n] = "read" /\ mpc'[n] \in {"write", "fin"}
        /\ m'[n].map = m[n].map
        /\ file' = file /\ s' = s /\ spc' = spc /\ value' = value /\ shared' = shared
    BY <1>9 DEF ReadAnswer, MasterAt, Loop, TypeOK, MasterRecord, kernel
  <2>2. OneFile(n)' /\ Status(n)'
    BY <1>3, <2>1 DEF OneFile, Status
  <2>3. AtInit(n)' /\ AtTurn(n)' /\ AtWait(n)' /\ AtEnd(n)' /\ Written(n)'
    BY <1>3, <2>1 DEF AtInit, AtTurn, AtWait, AtEnd, Written, MasterHas
  <2> QED BY <2>2, <2>3 DEF Agree
<1>10. CASE Delete(n)
  <2>1. /\ mpc[n] \in {"del_ff", "del_c"} /\ mpc'[n] \in {"del_c", "del_map"}
        /\ file' = file /\ m' = m /\ s' = s /\ shared' = shared /\ spc' = spc /\ value' = value
    BY <1>10 DEF Delete, MasterAt, TypeOK, Working
  <2>2. OneFile(n)' /\ Status(n)'
    BY <1>3, <2>1 DEF OneFile, Status
  <2>3. AtInit(n)' /\ AtTurn(n)' /\ AtWait(n)' /\ AtEnd(n)' /\ Written(n)'
    BY <1>3, <2>1 DEF AtInit, AtTurn, AtWait, AtEnd, Written, MasterHas
  <2> QED BY <2>2, <2>3 DEF Agree
<1>11. ~InitSemaphores(n)
  BY DEF InitSemaphores, MasterAt, Working
<1> QED BY <1>4, <1>5, <1>6, <1>7, <1>8, <1>9, <1>10, <1>11 DEF Master

(* The steps of its slave. *)
LEMMA SlaveAgree ==
  ASSUME TypeOK, Ranges, TurnInv, Begun, NEW n \in Session, Slave(n) \/ KillSlave(n),
         Working(n), OnItsOwn(n), Agree(n)
  PROVE  Agree(n)'
<1> DEFINE vs == value["ff-slave1"][n]
           vm == value["ff-master1"][n]
<1>1. /\ vs \in Nat /\ vm \in Nat /\ vs + vm <= 1
      /\ mpc[n] \in MasterHas \/ spc[n] \in SlaveHas => vs = 0 /\ vm = 0
      /\ ~(mpc[n] \in MasterHas /\ spc[n] \in SlaveHas)
  BY TokenIs
<1>2. m[n].map \in Objects /\ file # 0
  BY BoundsAssumption DEF Ranges, Working, Agree, OneFile, Objects
<1>3. /\ OneFile(n) /\ Status(n) /\ AtInit(n) /\ AtTurn(n) /\ AtWait(n) /\ AtEnd(n) /\ Written(n)
  BY DEF Agree
<1>4. mpc' = mpc /\ m' = m /\ spc[n] # "off"
  BY DEF Slave, OpenSemaphores, Open, OpenMap, SlavePost, SlaveWait, ReadQuestion, ReadStatus,
    WriteAnswer, Close, KillSlave, SlaveAt
<1>5. mpc[n] \notin PreLaunch
  BY <1>4 DEF TurnInv, Fresh
<1>6. LastOf(n)' = LastOf(n)
  BY <1>4 DEF LastOf
<1>7. CASE OpenSemaphores(n)
  <2>1. /\ spc[n] \in Opening /\ spc'[n] \in Opening \cup {"over"} /\ spc'[n] # "open_ff"
        /\ s'[n].map = s[n].map /\ s'[n].isnew = s[n].isnew
        /\ file' = file /\ shared' = shared /\ value' = value
    <3>1. spc[n] \in {"open_ff", "open_c"}
      BY <1>7 DEF OpenSemaphores, Open, SlaveAt
    <3>2. spc'[n] \in Opening \cup {"over"} /\ spc'[n] # "open_ff"
      BY <1>7 DEF OpenSemaphores, Open, SlaveAt, TypeOK, Opening
    <3>3. s'[n].map = s[n].map /\ s'[n].isnew = s[n].isnew
      BY <3>1, RecordStep DEF Steps
    <3> QED BY <1>7, <3>1, <3>2, <3>3 DEF OpenSemaphores, kernel, Opening
  <2>2. vs = 0 /\ mpc[n] \notin MasterHas
    BY <1>1, <2>1 DEF Opening, SlaveHas
  <2>3. OneFile(n)' /\ Status(n)'
    BY <1>3, <1>4, <2>1 DEF OneFile, Status
  <2>4. AtInit(n)' /\ AtTurn(n)' /\ AtWait(n)' /\ AtEnd(n)' /\ Written(n)'
    BY <1>3, <1>4, <1>6, <2>1, <2>2 DEF AtInit, AtTurn, AtWait, AtEnd, Written, Opening
  <2> QED BY <2>3, <2>4 DEF Agree
<1>8. CASE OpenMap(n)
  <2>1. /\ spc[n] = "open_map" /\ spc'[n] = "post_init"
        /\ s'[n].map = file /\ ~s'[n].isnew
        /\ file' = file /\ shared' = shared /\ value' = value
    BY <1>2, <1>8 DEF OpenMap, Mapped, SlaveAt, TypeOK, SlaveRecord
  <2>2. vs = 0 /\ mpc[n] \notin MasterHas
    BY <1>1, <2>1 DEF SlaveHas
  <2>3. OneFile(n)' /\ Status(n)'
    BY <1>3, <1>4, <2>1 DEF OneFile, Status
  <2>4. AtInit(n)' /\ AtTurn(n)' /\ AtWait(n)' /\ AtEnd(n)' /\ Written(n)'
    BY <1>3, <1>4, <1>6, <2>1, <2>2 DEF AtInit, AtTurn, AtWait, AtEnd, Written
  <2> QED BY <2>3, <2>4 DEF Agree
<1>9. CASE SlavePost(n)
  <2>1. /\ spc[n] \in {"post_init", "post", "post_fin"}
        /\ spc'[n] = IF spc[n] = "post_fin" THEN "close" ELSE "wait"
        /\ file' = file /\ shared' = shared /\ s' = s
        /\ value'["ff-master1"][n] = vm
    BY <1>9, Names DEF SlavePost, ffsem_post, SlaveAt, TypeOK, Values
  <2>2. mpc[n] \notin MasterHas /\ vm = 0
    BY <1>1, <2>1 DEF SlaveHas
  <2>3. OneFile(n)' /\ Status(n)'
    BY <1>3, <1>4, <2>1 DEF OneFile, Status, Opening
  <2>4. AtInit(n)' /\ AtTurn(n)' /\ AtWait(n)' /\ AtEnd(n)' /\ Written(n)'
    BY <1>3, <1>4, <1>6, <2>1, <2>2 DEF AtInit, AtTurn, AtWait, AtEnd, Written, Opening
  <2> QED BY <2>3, <2>4 DEF Agree
<1>10. CASE SlaveWait(n)
  <2>0. s[n].sem["ff-master1"] = n
    BY <1>10, Names DEF SlaveWait, SlaveAt, TurnInv, SlaveHandle, Alive, Working, OnItsOwn, Own, Alone
  <2>1. /\ spc[n] = "wait" /\ spc'[n] = "read_cff" /\ vm > 0
        /\ file' = file /\ shared' = shared /\ s' = s
        /\ value'["ff-slave1"][n] = vs
    BY <2>0, <1>10, Names DEF SlaveWait, ffsem_wait, SlaveAt, TypeOK, Values
  <2>2. mpc[n] \notin MasterHas /\ vs = 0
    BY <1>1, <2>1
  <2>3. OneFile(n)' /\ Status(n)'
    BY <1>3, <1>4, <2>1 DEF OneFile, Status, Opening
  <2>4. AtInit(n)' /\ AtTurn(n)' /\ AtWait(n)' /\ AtEnd(n)' /\ Written(n)'
    BY <1>1, <1>3, <1>4, <1>6, <2>1, <2>2 DEF AtInit, AtTurn, AtWait, AtEnd, Written, Opening
  <2> QED BY <2>3, <2>4 DEF Agree
<1>11. CASE ReadQuestion(n)
  <2>1. /\ spc[n] = "read_cff" /\ spc'[n] = "read_status"
        /\ s'[n].map = s[n].map /\ s'[n].isnew = s[n].isnew /\ s'[n].cff = shared[m[n].map].cff
        /\ file' = file /\ shared' = shared /\ value' = value
    BY <1>3, <1>11 DEF ReadQuestion, SlaveAt, TypeOK, SlaveRecord, kernel, OneFile, Opening
  <2>2. mpc[n] \notin MasterHas /\ vs = 0
    BY <1>1, <2>1 DEF SlaveHas
  <2>3. OneFile(n)' /\ Status(n)'
    BY <1>3, <1>4, <2>1 DEF OneFile, Status, Opening
  <2>4. AtInit(n)' /\ AtTurn(n)' /\ AtWait(n)' /\ AtEnd(n)' /\ Written(n)'
    BY <1>3, <1>4, <1>6, <2>1, <2>2 DEF AtInit, AtTurn, AtWait, AtEnd, Written, Opening
  <2> QED BY <2>3, <2>4 DEF Agree
<1>12. CASE ReadStatus(n)
  <2>1. /\ spc[n] = "read_status" /\ s[n].map = m[n].map
        /\ shared[m[n].map].status = 1 => spc'[n] = "write"
        /\ shared[m[n].map].status = 0 => spc'[n] = "post_fin"
        /\ s'[n].map = s[n].map /\ s'[n].isnew = s[n].isnew /\ s'[n].cff = s[n].cff
        /\ file' = file /\ shared' = shared /\ value' = value
    BY <1>3, <1>12 DEF ReadStatus, SlaveAt, TypeOK, SlaveRecord, kernel, OneFile, Opening
  <2>2. mpc[n] \notin MasterHas /\ vs = 0
    BY <1>1, <2>1 DEF SlaveHas
  <2>3. mpc[n] \in {"wait", "wait_fin"}
    BY <1>3, <1>5, <2>1, <2>2 DEF AtInit, AtEnd, MasterHas, PreLaunch, Working, Opening, TypeOK, MasterPC
  <2>4. spc'[n] \in {"write", "post_fin"} /\ (mpc[n] = "wait" <=> spc'[n] = "write")
    BY <1>3, <2>1, <2>3 DEF Status
  <2>5. OneFile(n)' /\ Status(n)'
    BY <1>3, <1>4, <2>1, <2>4 DEF OneFile, Status, Opening
  <2>6. AtInit(n)' /\ AtTurn(n)' /\ AtWait(n)' /\ AtEnd(n)' /\ Written(n)'
    BY <1>3, <1>4, <1>6, <2>1, <2>2, <2>3, <2>4 DEF AtInit, AtTurn, AtWait, AtEnd, Written, Opening
  <2> QED BY <2>5, <2>6 DEF Agree
<1>13. CASE WriteAnswer(n)
  <2>1. /\ spc[n] = "write" /\ spc'[n] = "post"
        /\ shared'[m[n].map].rff = s[n].cff
        /\ shared'[m[n].map].cff = shared[m[n].map].cff
        /\ shared'[m[n].map].status = shared[m[n].map].status
        /\ file' = file /\ s' = s /\ value' = value
    BY <1>2, <1>3, <1>13 DEF WriteAnswer, SlaveAt, TypeOK, FileRecord, OneFile, Opening
  <2>2. mpc[n] \notin MasterHas /\ vs = 0
    BY <1>1, <2>1 DEF SlaveHas
  <2>3. OneFile(n)' /\ Status(n)'
    BY <1>3, <1>4, <2>1 DEF OneFile, Status, Opening
  <2>4. AtInit(n)' /\ AtTurn(n)' /\ AtWait(n)' /\ AtEnd(n)' /\ Written(n)'
    BY <1>3, <1>4, <1>6, <2>1, <2>2 DEF AtInit, AtTurn, AtWait, AtEnd, Written, MasterHas, Opening
  <2> QED BY <2>3, <2>4 DEF Agree
<1>14. CASE Close(n) \/ KillSlave(n)
  <2>1. /\ spc'[n] \in {"over", "killed"} /\ (spc'[n] = "over" => spc[n] = "close")
        /\ file' = file /\ shared' = shared /\ s' = s /\ value' = value
    BY <1>3, <1>14 DEF Close, KillSlave, ffmmap_destroy, kernel, SlaveAt, TypeOK, OneFile
  <2>2. OneFile(n)' /\ Status(n)'
    BY <1>3, <1>4, <2>1 DEF OneFile, Status
  <2>3. AtInit(n)' /\ AtTurn(n)' /\ AtWait(n)' /\ AtEnd(n)' /\ Written(n)'
    BY <1>3, <1>4, <1>6, <2>1 DEF AtInit, AtTurn, AtWait, AtEnd, Written, Opening
  <2> QED BY <2>2, <2>3 DEF Agree
<1> QED BY <1>7, <1>8, <1>9, <1>10, <1>11, <1>12, <1>13, <1>14 DEF Slave

(* The session that maps its file is in agreement with the slave it has    *)
(* not launched.                                                           *)
LEMMA MapAgree ==
  ASSUME TypeOK, Ranges, TurnInv, Begun, NEW n \in Session, InitMap(n)
  PROVE  Agree(n)'
<1>1. /\ mpc[n] = "init_map" /\ mpc'[n] = "status" /\ spc' = spc /\ s' = s /\ m'[n].map = file'
  BY DEF InitMap, MasterAt, TypeOK, MasterRecord
<1>2. spc[n] = "off"
  BY <1>1 DEF TurnInv, Fresh, PreLaunch
<1>3. OneFile(n)' /\ Status(n)'
  BY <1>1, <1>2 DEF OneFile, Status, Begun
<1>4. AtInit(n)' /\ AtTurn(n)' /\ AtWait(n)' /\ AtEnd(n)' /\ Written(n)'
  BY <1>1 DEF AtInit, AtTurn, AtWait, AtEnd, Written, MasterHas
<1> QED BY <1>3, <1>4 DEF Agree

(* Every step keeps what a session that is on its own agrees on. *)
LEMMA DialogueStep ==
  ASSUME TypeOK, Ranges, TurnInv, Begun, Dialogue, NEW n \in Session, Steps(n)
  PROVE  Dialogue'
<1> SUFFICES ASSUME NEW k \in Session, Working(k)', OnItsOwn(k)' PROVE Agree(k)'
  BY DEF Dialogue
<1>1. CASE k # n
  <2>1. Working(k)
    BY <1>1, RecordStep DEF Working
  <2>2. OnItsOwn(k) /\ Agree(k)
    BY <2>1, OwnBefore DEF Dialogue, Working
  <2> QED BY <1>1, <2>1, <2>2, OthersAgree
<1>2. CASE k = n /\ InitMap(n)
  BY <1>2, MapAgree
<1>3. CASE k = n /\ ~InitMap(n)
  <2>1. Master(n) \/ Slave(n) \/ KillSlave(n)
    BY <1>3 DEF Steps, Working, StartMaster, MasterAt, KillMaster, TypeOK
  <2>2. Working(n)
    <3>1. CASE Master(n)
      BY <1>3, <3>1 DEF Working, Master, InitSemaphores, WriteStatus, Launch, MasterWait,
        WriteQuestion, MasterPost, ReadAnswer, Delete, MasterAt, TypeOK
    <3>2. CASE Slave(n) \/ KillSlave(n)
      BY <1>3, <3>2 DEF Working, Slave, OpenSemaphores, OpenMap, SlavePost, SlaveWait, ReadQuestion,
        ReadStatus, WriteAnswer, Close, KillSlave
    <3> QED BY <2>1, <3>1, <3>2
  <2>3. OnItsOwn(n) /\ Agree(n)
    BY <1>3, <2>2, OwnBefore DEF Dialogue, Working
  <2> QED BY <1>3, <2>1, <2>2, <2>3, MasterAgree, SlaveAgree
<1> QED BY <1>1, <1>2, <1>3

(* The answer read, and the question it is compared with, change together. *)
LEMMA AnsweredStep ==
  ASSUME TypeOK, Ranges, TurnInv, Begun, Dialogue, Answered, NEW n \in Session, Steps(n)
  PROVE  Answered'
<1> SUFFICES ASSUME NEW k \in Session, OnItsOwn(k)', mpc'[k] \notin {"post", "wait", "read", "killed"}
             PROVE  m'[k].rff = LastOf(k)'
  BY DEF Answered, LastOf
<1>1. CASE mpc'[k] \in PreLaunch \cup {"wait_init"}
  BY <1>1, BegunStep DEF Begun, LastOf
<1>2. CASE mpc'[k] \notin PreLaunch \cup {"wait_init"}
  <2>1. CASE k # n \/ ~Master(n)
    <3>1. m'[k] = m[k] /\ mpc'[k] = mpc[k]
      <4>1. CASE k # n
        BY <4>1, RecordStep
      <4>2. CASE Slave(n) \/ KillSlave(n)
        BY <4>2 DEF Slave, OpenSemaphores, OpenMap, SlavePost, SlaveWait, ReadQuestion,
          ReadStatus, WriteAnswer, Close, KillSlave
      <4>3. k = n => ~StartMaster(n) /\ ~KillMaster(n)
        BY <1>2 DEF StartMaster, MasterAt, KillMaster, TypeOK, PreLaunch
      <4> QED BY <2>1, <4>1, <4>2, <4>3 DEF Steps
    <3>2. OnItsOwn(k)
      BY <3>1, <1>2, OwnBefore DEF PreLaunch
    <3> QED BY <3>1, <3>2 DEF Answered, LastOf
  <2>2. CASE k = n /\ Master(n)
    <3>1. Working(n) /\ OnItsOwn(n)
      <4>1. Working(n)
        BY <1>2, <2>2 DEF Working, PreLaunch, Master, InitSemaphores, InitMap, WriteStatus, Launch, MasterWait,
          WriteQuestion, MasterPost, ReadAnswer, Delete, MasterAt, TypeOK
      <4> QED BY <2>2, <4>1, OwnBefore DEF Working
    <3>2. Agree(n)
      BY <3>1 DEF Dialogue
    <3>3. CASE ReadAnswer(n)
      <4>1. mpc[n] = "read" /\ m'[n].rff = shared[m[n].map].rff /\ m'[n].i = m[n].i
        BY <3>3 DEF ReadAnswer, MasterAt, TypeOK, MasterRecord
      <4> QED BY <2>2, <3>2, <4>1 DEF Agree, Written, LastOf
    <3>4. CASE ~ReadAnswer(n)
      <4>1. mpc[n] \notin {"post", "wait", "read", "write", "killed"}
        BY <1>2, <2>2, <3>4 DEF Master, InitSemaphores, InitMap, WriteStatus, Launch, MasterWait,
          WriteQuestion, MasterPost, Delete, MasterAt, TypeOK, PreLaunch
      <4>2. m'[n].rff = m[n].rff /\ m'[n].i = m[n].i
        BY <4>1, RecordStep
      <4> QED BY <2>2, <3>1, <4>1, <4>2 DEF Answered, LastOf
    <3> QED BY <3>3, <3>4
  <2> QED BY <2>1, <2>2
<1> QED BY <1>1, <1>2

(* The answers of a session on its own are those of its questions.         *)
LEMMA DialogueInit == Init => Begun /\ Dialogue /\ Answered
BY DEF Init, Begun, Dialogue, Answered, Working, PreLaunch, Opening

LEMMA DialogueNext ==
  TypeOK /\ Ranges /\ TurnInv /\ Begun /\ Dialogue /\ Answered /\ [Next]_vars =>
    (Begun /\ Dialogue /\ Answered)'
<1> SUFFICES ASSUME TypeOK, Ranges, TurnInv, Begun, Dialogue, Answered, [Next]_vars
             PROVE  (Begun /\ Dialogue /\ Answered)'
  OBVIOUS
<1>1. CASE UNCHANGED vars
  BY <1>1 DEF vars, kernel, Begun, Dialogue, Answered, Working, OnItsOwn, Agree, OneFile, Status,
    AtInit, AtTurn, AtWait, AtEnd, Written, LastOf
<1>2. ASSUME NEW n \in Session, Steps(n) PROVE (Begun /\ Dialogue /\ Answered)'
  BY <1>2, BegunStep, DialogueStep, AnsweredStep
<1> QED BY <1>1, <1>2 DEF Next, Steps

(* The answer a master reads is that of its last question. *)
THEOREM AnsweredCorrect == Spec => []Answered
<1>1. Init => TypeOK /\ Ranges /\ TurnInv /\ Begun /\ Dialogue /\ Answered
  BY TypeInit, TurnInit, DialogueInit
<1>2. TypeOK /\ Ranges /\ TurnInv /\ Begun /\ Dialogue /\ Answered /\ [Next]_vars =>
        (TypeOK /\ Ranges /\ TurnInv /\ Begun /\ Dialogue /\ Answered)'
  BY TypeStep, RangesStep, OrderStep, RestStep, DialogueNext DEF TurnInv, Rest
<1> QED BY <1>1, <1>2, PTL DEF Spec

-----------------------------------------------------------------------------
(* Names.  When nothing was killed, each session makes its own semaphores  *)
(* and its own file, and takes them away.                                  *)

NamePC(nm) == IF nm = "ff-slave1" THEN {"off", "init_ff", "del_c", "del_map", "over"}
                                  ELSE {"off", "init_ff", "init_c", "del_map", "over"}

TidyNames(n) == \A nm \in Name :
  /\ m[n].sem[nm] \in {0, n} /\ s[n].sem[nm] \in {0, n}
  /\ mpc[n] \notin {"off", "init_ff", "init_c"} => m[n].sem[nm] = n
  /\ mpc[n] = "init_c" => m[n].sem["ff-slave1"] = n
  /\ name[nm] = n <=> mpc[n] \notin NamePC(nm)
TidyFile(n) ==
  /\ file = n <=> Working(n)
  /\ m[n].map \in {0, n} /\ s[n].map \in {0, n} /\ ~s[n].isnew
  /\ Working(n) => m[n].isnew
TidyPC(n) ==
  /\ mpc[n] # "killed" /\ spc[n] # "killed"
  /\ mpc[n] = "over" => spc[n] \in {"close", "over"}
  /\ spc[n] \in Opening => mpc[n] = "wait_init"

Tidy == failed = {} =>
  /\ file \in Session \cup {0}
  /\ \A n \in Session : TidyNames(n) /\ TidyFile(n) /\ TidyPC(n)

(* A master that lives is the only one that has a name or a file. *)
LEMMA NobodyElse ==
  ASSUME TypeOK, TurnInv, Tidy, failed = {}, NEW n \in Session, Alive(n)
  PROVE  /\ \A nm \in Name : name[nm] \in {0, n}
         /\ file \in {0, n}
         /\ \A k \in Session \ {n} : ~Working(k)
<1>1. \A k \in Session \ {n} : ~Alive(k) /\ mpc[k] # "killed"
  BY OneMaster DEF TurnInv, Tidy, TidyPC
<1>2. \A k \in Session \ {n} : ~Working(k)
  BY <1>1 DEF Alive, Working
<1>3. \A nm \in Name, k \in Session \ {n} : name[nm] # k
  BY <1>1 DEF Alive, Tidy, TidyNames, NamePC
<1>4. \A k \in Session \ {n} : file # k
  BY <1>2 DEF Tidy, TidyFile
<1>5. \A nm \in Name : name[nm] \in Session \cup {0}
  BY BoundsAssumption DEF TypeOK, Handles, Session
<1>6. file \in Session \cup {0}
  BY DEF Tidy
<1> QED BY <1>2, <1>3, <1>4, <1>5, <1>6

(* It works on its own file, and on its own.                               *)
LEMMA TidyAlone ==
  ASSUME TypeOK, Ranges, TurnInv, Dialogue, Tidy, failed = {}, NEW n \in Session, Working(n)
  PROVE  m[n].map = n /\ file = n /\ Agree(n)
<1>1. m[n].map = n /\ file = n
  BY BoundsAssumption DEF Tidy, TidyFile, Ranges, Working, Objects
<1>2. OnItsOwn(n)
  <2>1. \A nm \in Name : m[n].sem[nm] = n
    BY DEF Tidy, TidyNames, Working
  <2>2. \A k \in Session \ {n} : ~s[k].isnew /\ s[k].map # n /\ \A nm \in Name : s[k].sem[nm] # n
    BY BoundsAssumption DEF Tidy, TidyNames, TidyFile, Session
  <2> QED BY <1>1, <2>1, <2>2 DEF OnItsOwn
<1> QED BY <1>1, <1>2 DEF Dialogue

(* The first state is tidy. *)
LEMMA TidyInit == Init => Tidy
BY BoundsAssumption, SMT DEF Init, Tidy, TidyNames, TidyFile, TidyPC, NamePC, Working, Opening, Session

(* A step that fails nobody keeps the names and the file tidy.             *)
LEMMA TidyStep ==
  ASSUME TypeOK, TypeOK', Ranges, TurnInv, Begun, Dialogue, Tidy, NEW n \in Session, Steps(n)
  PROVE  Tidy'
<1> SUFFICES ASSUME failed' = {} PROVE Tidy'
  BY DEF Tidy
<1>1. failed = {} /\ ~KillMaster(n) /\ ~KillSlave(n)
  BY DEF Steps, StartMaster, Master, InitSemaphores, InitMap, WriteStatus, Launch, MasterWait,
    WriteQuestion, MasterPost, ReadAnswer, Delete, Slave, OpenSemaphores, OpenMap, SlavePost,
    SlaveWait, ReadQuestion, ReadStatus, WriteAnswer, Close, KillMaster, KillSlave
<1>2. TidyNames(n) /\ TidyFile(n) /\ TidyPC(n) /\ file \in Session \cup {0}
  BY <1>1 DEF Tidy
(* What is left to show: what the step does to its own session.            *)
<1>3. SUFFICES ASSUME TRUE
               PROVE  /\ \A nm \in Name : name'[nm] = name[nm] \/ {name[nm], name'[nm]} = {0, n}
                      /\ file' = file \/ {file, file'} = {0, n}
                      /\ TidyNames(n)' /\ TidyFile(n)' /\ TidyPC(n)'
  <2>1. ASSUME NEW k \in Session, k # n PROVE TidyNames(k)' /\ TidyFile(k)' /\ TidyPC(k)'
    <3>1. m'[k] = m[k] /\ s'[k] = s[k] /\ mpc'[k] = mpc[k] /\ spc'[k] = spc[k]
      BY <2>1, RecordStep
    <3>2. k # 0
      BY BoundsAssumption DEF Session
    <3>3. /\ \A nm \in Name : name'[nm] = k <=> name[nm] = k
          /\ file' = k <=> file = k
      BY <1>3, <2>1, <3>2
    <3> QED BY <1>1, <2>1, <3>1, <3>3 DEF Tidy, TidyNames, TidyFile, TidyPC, Working
  <2> QED BY <1>2, <1>3, <2>1 DEF Tidy
<1>4. n # 0
  BY BoundsAssumption DEF Session
<1> HIDE DEF Tidy
<1>5. CASE StartMaster(n)
  <2>1. mpc[n] = "off" /\ mpc'[n] = "init_ff" /\ spc' = spc /\ m' = m /\ s' = s /\ name' = name /\ file' = file
    BY <1>5 DEF StartMaster, MasterAt, TypeOK, kernel
  <2>2. TidyNames(n)' /\ TidyFile(n)' /\ TidyPC(n)'
    BY <1>2, <2>1 DEF TidyNames, TidyFile, TidyPC, NamePC, Working
  <2> QED BY <2>1, <2>2
<1>6. CASE InitSemaphores(n)
  <2>1. Alive(n)
    BY <1>6 DEF InitSemaphores, MasterAt, Alive
  <2>2. \A nm \in Name : name[nm] \in {0, n}
    BY <1>1, <2>1, NobodyElse
  <2>3. /\ spc' = spc /\ s' = s /\ file' = file /\ name \in Handles /\ m \in [Session -> MasterRecord]
    BY <1>6 DEF InitSemaphores, TypeOK
  <2>4. m'[n].map = m[n].map /\ m'[n].isnew = m[n].isnew
    BY <1>6, RecordStep DEF Steps, Master, InitSemaphores, MasterAt
  <2>5. CASE mpc[n] = "init_ff"
    <3>1. /\ mpc'[n] = "init_c" /\ ffsem_init(n, "ff-slave1")
      BY <1>6, <2>5 DEF InitSemaphores, MasterAt, TypeOK
    <3>2. name'["ff-slave1"] = n /\ name'["ff-master1"] = name["ff-master1"]
      BY <2>2, <2>3, <3>1, Names DEF ffsem_init, Handles
    <3>3. m'[n].sem["ff-slave1"] = n /\ m'[n].sem["ff-master1"] = m[n].sem["ff-master1"]
      <4>1. m' = [m EXCEPT ![n].sem["ff-slave1"] = n]
        BY <3>1, <3>2 DEF ffsem_init
      <4>2. n \in 0 .. Sessions
        BY BoundsAssumption DEF Session
      <4>3. \A x \in Name : m'[n].sem[x] = IF x = "ff-slave1" THEN n ELSE m[n].sem[x]
        BY <2>3, <4>1, <4>2, Names, SetMasterHandle
      <4> QED BY <4>3, Names
    <3>4. \A nm \in Name : name'[nm] = name[nm] \/ {name[nm], name'[nm]} = {0, n}
      BY <2>2, <3>2 DEF Name
    <3>5. TidyNames(n)'
      BY <1>2, <2>3, <2>5, <3>1, <3>2, <3>3 DEF TidyNames, NamePC, Name
    <3>6. TidyFile(n)' /\ TidyPC(n)'
      BY <1>2, <2>3, <2>4, <2>5, <3>1 DEF TidyFile, TidyPC, Working
    <3> QED BY <2>3, <3>4, <3>5, <3>6
  <2>6. CASE mpc[n] = "init_c"
    <3>1. /\ mpc'[n] = "init_map" /\ ffsem_init(n, "ff-master1")
      BY <1>6, <2>6 DEF InitSemaphores, MasterAt, TypeOK
    <3>2. name'["ff-master1"] = n /\ name'["ff-slave1"] = name["ff-slave1"]
      BY <2>2, <2>3, <3>1, Names DEF ffsem_init, Handles
    <3>3. m'[n].sem["ff-master1"] = n /\ m'[n].sem["ff-slave1"] = m[n].sem["ff-slave1"]
      <4>1. m' = [m EXCEPT ![n].sem["ff-master1"] = n]
        BY <3>1, <3>2 DEF ffsem_init
      <4>2. n \in 0 .. Sessions
        BY BoundsAssumption DEF Session
      <4>3. \A x \in Name : m'[n].sem[x] = IF x = "ff-master1" THEN n ELSE m[n].sem[x]
        BY <2>3, <4>1, <4>2, Names, SetMasterHandle
      <4> QED BY <4>3, Names
    <3>4. \A nm \in Name : name'[nm] = name[nm] \/ {name[nm], name'[nm]} = {0, n}
      BY <2>2, <3>2 DEF Name
    <3>5. TidyNames(n)'
      BY <1>2, <2>3, <2>6, <3>1, <3>2, <3>3 DEF TidyNames, NamePC, Name
    <3>6. TidyFile(n)' /\ TidyPC(n)'
      BY <1>2, <2>3, <2>4, <2>6, <3>1 DEF TidyFile, TidyPC, Working
    <3> QED BY <2>3, <3>4, <3>5, <3>6
  <2> QED BY <1>6, <2>5, <2>6 DEF InitSemaphores, MasterAt
<1>7. CASE InitMap(n)
  <2>1. mpc[n] = "init_map" /\ mpc'[n] = "status" /\ spc' = spc /\ s' = s /\ name' = name
    BY <1>7 DEF InitMap, MasterAt, TypeOK
  <2>2. file = 0
    BY <1>1, <1>2, <2>1, NobodyElse DEF Alive, TidyFile, Working
  <2>3. file' = n /\ m'[n].map = n /\ m'[n].isnew /\ m'[n].sem = m[n].sem
    BY <1>7, <2>2 DEF InitMap, Mapped, TypeOK, MasterRecord
  <2>4. TidyNames(n)' /\ TidyFile(n)' /\ TidyPC(n)'
    BY <1>2, <2>1, <2>3 DEF TidyNames, TidyFile, TidyPC, NamePC, Working
  <2> QED BY <2>1, <2>2, <2>3, <2>4
<1>8. CASE WriteStatus(n) \/ Launch(n) \/ MasterWait(n) \/ WriteQuestion(n) \/ MasterPost(n) \/ ReadAnswer(n)
  <2>1. Working(n) /\ Working(n)' /\ name' = name /\ file' = file /\ s' = s
    BY <1>8 DEF WriteStatus, Launch, MasterWait, WriteQuestion, MasterPost, ReadAnswer, MasterAt, Working,
      Loop, TypeOK, kernel
  <2>2. mpc[n] \notin {"del_ff", "del_c", "del_map"} /\ mpc'[n] \notin {"del_c", "del_map"}
    BY <1>8 DEF WriteStatus, Launch, MasterWait, WriteQuestion, MasterPost, ReadAnswer, MasterAt, Loop, TypeOK
  <2>3. m'[n].map = m[n].map /\ m'[n].isnew = m[n].isnew /\ m'[n].sem = m[n].sem
    BY <2>1, RecordStep DEF Working
  <2>4. TidyNames(n)' /\ TidyFile(n)'
    BY <1>2, <2>1, <2>2, <2>3 DEF TidyNames, TidyFile, NamePC, Working
  <2>5. TidyPC(n)'
    <3>1. CASE Launch(n)
      BY <1>2, <2>1, <3>1 DEF Launch, MasterAt, SlaveAt, TypeOK, TidyPC, Working
    <3>2. CASE ~Launch(n)
      <4>1. spc' = spc
        BY <1>8, <3>2 DEF WriteStatus, MasterWait, WriteQuestion, MasterPost, ReadAnswer
      <4>2. CASE mpc[n] = "wait_init"
        <5>1. MasterWait(n)
          BY <1>8, <3>2, <4>2 DEF WriteStatus, MasterWait, WriteQuestion, MasterPost, ReadAnswer, MasterAt
        <5>2. value["ff-slave1"][n] > 0
          BY <1>2, <2>1, <5>1, Names DEF MasterWait, ffsem_wait, TidyNames, Working
        <5>3. spc[n] \notin Opening
          BY <1>1, <2>1, <4>2, <5>2, TidyAlone DEF Agree, AtInit, Opening
        <5> QED BY <1>2, <2>1, <4>1, <5>3 DEF TidyPC, Working
      <4>3. CASE mpc[n] # "wait_init"
        BY <1>2, <2>1, <4>1, <4>3 DEF TidyPC, Working
      <4> QED BY <4>2, <4>3
    <3> QED BY <3>1, <3>2
  <2> QED BY <2>1, <2>4, <2>5
<1>9. CASE Delete(n)
  <2>1. Working(n) /\ s' = s /\ spc' = spc /\ m' = m
    BY <1>9 DEF Delete, MasterAt, Working
  <2>2. spc[n] \in {"close", "over"}
    BY <1>1, <1>2, <1>9, <2>1, TidyAlone DEF Delete, MasterAt, Agree, AtEnd, TidyPC
  <2>3. name \in Handles
    BY DEF TypeOK
  <2>4. CASE mpc[n] = "del_ff"
    <3>1. mpc'[n] = "del_c" /\ file' = file /\ name'["ff-slave1"] = 0 /\ name'["ff-master1"] = name["ff-master1"]
      BY <1>9, <2>3, <2>4, Names DEF Delete, MasterAt, ffsem_destroy, TypeOK, Handles
    <3>2. name["ff-slave1"] = n
      BY <1>2, <2>4, Names DEF TidyNames, NamePC
    <3>3. TidyNames(n)' /\ TidyFile(n)' /\ TidyPC(n)'
      BY <1>2, <1>4, <2>1, <2>2, <2>4, <3>1 DEF TidyNames, TidyFile, TidyPC, NamePC, Name, Working, Opening
    <3> QED BY <3>1, <3>2, <3>3 DEF Name
  <2>5. CASE mpc[n] = "del_c"
    <3>1. mpc'[n] = "del_map" /\ file' = file /\ name'["ff-master1"] = 0 /\ name'["ff-slave1"] = name["ff-slave1"]
      BY <1>9, <2>3, <2>5, Names DEF Delete, MasterAt, ffsem_destroy, TypeOK, Handles
    <3>2. name["ff-master1"] = n
      BY <1>2, <2>5, Names DEF TidyNames, NamePC
    <3>3. TidyNames(n)' /\ TidyFile(n)' /\ TidyPC(n)'
      BY <1>2, <1>4, <2>1, <2>2, <2>5, <3>1 DEF TidyNames, TidyFile, TidyPC, NamePC, Name, Working, Opening
    <3> QED BY <3>1, <3>2, <3>3 DEF Name
  <2>6. CASE mpc[n] = "del_map"
    <3>1. mpc'[n] = "over" /\ file' = 0 /\ name' = name
      BY <1>2, <1>9, <2>1, <2>6 DEF Delete, MasterAt, ffmmap_destroy, TypeOK, TidyFile
    <3>2. file = n
      BY <1>2, <2>1 DEF TidyFile
    <3>3. TidyNames(n)' /\ TidyFile(n)' /\ TidyPC(n)'
      BY <1>2, <1>4, <2>1, <2>2, <2>6, <3>1 DEF TidyNames, TidyFile, TidyPC, NamePC, Name, Working, Opening
    <3> QED BY <3>1, <3>2, <3>3
  <2> QED BY <1>9, <2>4, <2>5, <2>6 DEF Delete, MasterAt
<1>10. CASE OpenSemaphores(n)
  <2>1. spc[n] \in {"open_ff", "open_c"} /\ mpc' = mpc /\ m' = m /\ name' = name /\ file' = file
    BY <1>10 DEF OpenSemaphores, Open, SlaveAt, kernel
  <2>2. mpc[n] = "wait_init"
    BY <1>2, <2>1 DEF TidyPC, Opening
  <2>3. \A nm \in Name : name[nm] = n
    BY <1>2, <2>2 DEF TidyNames, NamePC
  <2>4. spc'[n] \notin {"over", "killed"}
    BY <1>4, <1>10, <2>3, Names DEF OpenSemaphores, Open, SlaveAt, TypeOK
  <2>5. \A nm \in Name : s'[n].sem[nm] \in {0, n}
    BY <1>2, <1>10, <2>3, HandleStep DEF Steps, Slave, TidyNames
  <2>6. s'[n].map = s[n].map /\ s'[n].isnew = s[n].isnew
    BY <2>1, RecordStep
  <2>7. TidyNames(n)' /\ TidyFile(n)' /\ TidyPC(n)'
    BY <1>2, <2>1, <2>2, <2>4, <2>5, <2>6 DEF TidyNames, TidyFile, TidyPC, Working
  <2> QED BY <2>1, <2>7
<1>11. CASE OpenMap(n)
  <2>1. spc[n] = "open_map" /\ spc'[n] = "post_init" /\ mpc' = mpc /\ m' = m /\ name' = name
    BY <1>11 DEF OpenMap, SlaveAt, TypeOK
  <2>2. mpc[n] = "wait_init"
    BY <1>2, <2>1 DEF TidyPC, Opening
  <2>3. file = n
    BY <1>2, <2>2 DEF TidyFile, Working
  <2>4. file' = n /\ s'[n].map = n /\ ~s'[n].isnew /\ s'[n].sem = s[n].sem
    BY <1>4, <1>11, <2>3 DEF OpenMap, Mapped, TypeOK, SlaveRecord
  <2>5. TidyNames(n)' /\ TidyFile(n)' /\ TidyPC(n)'
    BY <1>2, <2>1, <2>2, <2>3, <2>4 DEF TidyNames, TidyFile, TidyPC, Working, Opening
  <2> QED BY <2>1, <2>3, <2>4, <2>5
<1>12. CASE SlavePost(n) \/ SlaveWait(n) \/ ReadQuestion(n) \/ ReadStatus(n) \/ WriteAnswer(n) \/ Close(n)
  <2>1. /\ spc[n] \notin Opening \cup {"over"} /\ spc'[n] \notin Opening \cup {"killed"}
        /\ spc[n] = "close" => spc'[n] = "over"
    BY <1>12 DEF SlavePost, SlaveWait, ReadQuestion, ReadStatus, WriteAnswer, Close, SlaveAt, TypeOK, Opening
  <2>2. mpc' = mpc /\ m' = m /\ name' = name
    BY <1>12 DEF SlavePost, SlaveWait, ReadQuestion, ReadStatus, WriteAnswer, Close, kernel
  <2>3. file' = file
    BY <1>2, <1>12 DEF SlavePost, SlaveWait, ReadQuestion, ReadStatus, WriteAnswer, Close, kernel,
      ffmmap_destroy, TidyFile
  <2>4. s'[n].map = s[n].map /\ s'[n].isnew = s[n].isnew
    BY <2>1, RecordStep DEF Opening
  <2>5. s'[n].sem = s[n].sem
    BY <1>12 DEF SlavePost, SlaveWait, ReadQuestion, ReadStatus, WriteAnswer, Close, TypeOK, SlaveRecord
  <2>6. TidyNames(n)' /\ TidyFile(n)' /\ TidyPC(n)'
    BY <1>2, <2>1, <2>2, <2>3, <2>4, <2>5 DEF TidyNames, TidyFile, TidyPC, Working
  <2> QED BY <2>2, <2>3, <2>6
<1> QED BY <1>1, <1>5, <1>6, <1>7, <1>8, <1>9, <1>10, <1>11, <1>12 DEF Steps, Master, Slave

(* When nothing was killed, a session that is over leaves neither name nor *)
(* file, and one that works has its own.                                   *)
THEOREM NoNameLeftCorrect == Spec => []NoNameLeft
<1> DEFINE Inv == TypeOK /\ Ranges /\ TurnInv /\ Begun /\ Dialogue /\ Answered /\ Tidy
<1>1. Init => Inv
  BY TypeInit, TurnInit, DialogueInit, TidyInit
<1>2. Inv /\ [Next]_vars => Inv'
  <2> SUFFICES ASSUME TypeOK, Ranges, TurnInv, Begun, Dialogue, Answered, Tidy, [Next]_vars
               PROVE  Inv'
    OBVIOUS
  <2>1. TypeOK' /\ Ranges' /\ TurnInv' /\ Begun' /\ Dialogue' /\ Answered'
    BY TypeStep, RangesStep, OrderStep, RestStep, DialogueNext DEF TurnInv, Rest
  <2>2. ASSUME UNCHANGED vars PROVE Tidy'
    BY <2>2 DEF vars, kernel, Tidy, TidyNames, TidyFile, TidyPC, Working
  <2>3. ASSUME NEW n \in Session, Steps(n) PROVE Tidy'
    BY <2>1, <2>3, TidyStep
  <2>4. Tidy'
    BY <2>2, <2>3 DEF Next, Steps
  <2> QED BY <2>1, <2>4
<1>3. Inv => NoNameLeft
  <2> SUFFICES ASSUME Inv, failed = {}, NEW n \in Session
               PROVE  /\ mpc[n] = "over" /\ (n = Sessions \/ mpc[n + 1] = "off") =>
                           file = 0 /\ \A nm \in Name : name[nm] = 0
                      /\ mpc[n] \in {"write", "post", "wait", "read"} =>
                           file = n /\ \A nm \in Name : name[nm] = n
    BY DEF NoNameLeft
  <2>1. ASSUME mpc[n] \in {"write", "post", "wait", "read"}
        PROVE  file = n /\ \A nm \in Name : name[nm] = n
    BY <2>1 DEF Tidy, TidyNames, TidyFile, NamePC, Working
  <2>2. ASSUME mpc[n] = "over", n = Sessions \/ mpc[n + 1] = "off"
        PROVE  file = 0 /\ \A nm \in Name : name[nm] = 0
    <3>1. ASSUME NEW k \in Session PROVE mpc[k] \in {"off", "over"}
      <4>1. n \in Int /\ k \in Int /\ k >= 1 /\ n >= 1 /\ n <= Sessions /\ k <= Sessions /\ Sessions \in Int
        BY BoundsAssumption DEF Session
      <4>2. CASE k <= n
        <5>1. k = n \/ k \in 1 .. n - 1
          BY <4>1, <4>2
        <5> QED BY <2>2, <5>1 DEF TurnInv, Order, Tidy, TidyPC
      <4>3. CASE k > n
        <5>1. mpc[n + 1] = "off" /\ n + 1 \in 1 .. k
          BY <2>2, <4>1, <4>3
        <5>2. CASE k = n + 1
          BY <5>1, <5>2
        <5>3. CASE k # n + 1
          <6>1. n + 1 \in 1 .. k - 1
            BY <4>1, <5>1, <5>3
          <6> QED BY <5>1, <6>1 DEF TurnInv, Order
        <5> QED BY <5>2, <5>3
      <4> QED BY <4>1, <4>2, <4>3
    <3>2. \A k \in Session : file # k /\ \A nm \in Name : name[nm] # k
      BY <3>1 DEF Tidy, TidyNames, TidyFile, NamePC, Working
    <3>3. \A nm \in Name : name[nm] \in Session \cup {0}
      BY BoundsAssumption DEF TypeOK, Handles, Session
    <3> QED BY <3>2, <3>3 DEF Tidy
  <2> QED BY <2>1, <2>2
<1> QED BY <1>1, <1>2, <1>3, PTL DEF Spec

-----------------------------------------------------------------------------
(* Recovery.  As long as no later master has begun, the names a master took *)
(* away in Delete stay away: slaves make none.  The next master finds no    *)
(* name, whatever was killed before.                                        *)
IsLast(n) == \A k \in Session : k > n => mpc[k] = "off"
Removed(n) ==
  /\ mpc[n] \in {"del_c", "del_map", "over"} => name["ff-slave1"] = 0
  /\ mpc[n] \in {"del_map", "over"} => name["ff-master1"] = 0
MakesItsOwn(n) ==
  /\ mpc[n] = "init_ff" => name["ff-slave1"] = 0
  /\ mpc[n] \in {"init_ff", "init_c"} => name["ff-master1"] = 0
  /\ mpc[n] \notin {"off", "init_ff", "killed"} => m[n].sem["ff-slave1"] = n
  /\ mpc[n] \notin {"off", "init_ff", "init_c", "killed"} => m[n].sem["ff-master1"] = n
Cleared == \A n \in Session :
  /\ IsLast(n) => Removed(n)
  /\ n > 1 /\ mpc[n - 1] = "over" => MakesItsOwn(n)

(* A step that leaves the names and the handles of the masters, and brings  *)
(* no master to a point where Cleared asks for more, keeps Cleared.         *)
LEMMA ClearedQuiet ==
  ASSUME Cleared, name' = name, \A k \in Session : m'[k].sem = m[k].sem,
         \A k \in Session :
           \/ mpc'[k] = mpc[k] \/ mpc'[k] = "killed"
           \/ /\ mpc'[k] \notin {"off", "init_ff", "init_c", "del_c", "del_map", "over"}
              /\ mpc[k] \notin {"off", "init_ff", "init_c", "killed"}
  PROVE  Cleared'
<1> SUFFICES ASSUME NEW n \in Session
             PROVE  /\ IsLast(n)' => Removed(n)'
                    /\ n > 1 /\ mpc'[n - 1] = "over" => MakesItsOwn(n)'
  BY DEF Cleared
<1>1. IsLast(n)' => IsLast(n)
  BY DEF IsLast
<1>2. IsLast(n)' => Removed(n)'
  BY <1>1 DEF Cleared, Removed
<1>3. ASSUME n > 1, mpc'[n - 1] = "over" PROVE MakesItsOwn(n)'
  <2>1. n - 1 \in Session
    BY <1>3, BoundsAssumption DEF Session
  <2>2. MakesItsOwn(n)
    BY <1>3, <2>1 DEF Cleared
  <2> QED BY <2>2 DEF MakesItsOwn
<1> QED BY <1>2, <1>3

(* Every step keeps Cleared. *)
LEMMA ClearedStep ==
  ASSUME TypeOK, Ranges, Order, Cleared, NEW i \in Session, Steps(i)
  PROVE  Cleared'
<1>1. \A k \in Session : k # i => m'[k] = m[k] /\ mpc'[k] = mpc[k]
  BY RecordStep
<1>2. /\ mpc \in [Session -> MasterPC] /\ m \in [Session -> MasterRecord] /\ name \in Handles
      /\ i \in Int /\ \A k \in Session : k \in Int /\ k >= 1 /\ k # 0
  BY BoundsAssumption DEF TypeOK, Session
(* The others have stopped or have not begun while a master lives. *)
<1>3. ASSUME Alive(i), NEW k \in Session, k # i
      PROVE  /\ k > i => mpc[k] = "off"
             /\ k < i => mpc[k] \in {"over", "killed"}
  <2>1. k > i => i \in 1 .. k - 1
    BY <1>2
  <2>2. k < i => k \in 1 .. i - 1
    BY <1>2
  <2> QED BY <1>3, <2>1, <2>2 DEF Order, Alive
<1>4. CASE StartMaster(i)
  <2>1. mpc[i] = "off" /\ mpc'[i] = "init_ff" /\ name' = name /\ m' = m
    BY <1>2, <1>4 DEF StartMaster, MasterAt, kernel
  <2>2. SUFFICES ASSUME NEW n \in Session
                 PROVE  /\ IsLast(n)' => Removed(n)'
                        /\ n > 1 /\ mpc'[n - 1] = "over" => MakesItsOwn(n)'
    BY DEF Cleared
  <2>3. ASSUME IsLast(n)' PROVE Removed(n)'
    <3>1. CASE n = i
      BY <2>1, <3>1 DEF Removed
    <3>2. CASE n # i
      <4>1. mpc'[n] = mpc[n] /\ (IsLast(n)' => ~(i > n))
        BY <1>1, <2>1, <3>2 DEF IsLast
      <4>2. n > i
        BY <1>2, <2>3, <3>2, <4>1
      <4>3. i \in 1 .. n - 1
        BY <1>2, <4>2
      <4>4. mpc[n] = "off"
        BY <2>1, <4>3 DEF Order
      <4> QED BY <4>1, <4>4 DEF Removed
    <3> QED BY <3>1, <3>2
  <2>4. ASSUME n > 1, mpc'[n - 1] = "over" PROVE MakesItsOwn(n)'
    <3>1. n - 1 \in Session
      BY <2>4, BoundsAssumption DEF Session
    <3>2. mpc[n - 1] = "over"
      BY <1>1, <2>1, <2>4, <3>1
    <3>3. CASE n # i
      BY <1>1, <2>1, <2>4, <3>2, <3>3 DEF Cleared, MakesItsOwn
    <3>4. CASE n = i
      <4>1. IsLast(n - 1)
        <5> SUFFICES ASSUME NEW k \in Session, k > n - 1, k # i PROVE mpc[k] = "off"
          BY <2>1, <3>4 DEF IsLast
        <5>1. i \in 1 .. k - 1
          BY <1>2, <3>4
        <5> QED BY <2>1, <5>1 DEF Order
      <4>2. name["ff-slave1"] = 0 /\ name["ff-master1"] = 0
        BY <3>1, <3>2, <4>1 DEF Cleared, Removed
      <4> QED BY <2>1, <3>4, <4>2 DEF MakesItsOwn
    <3> QED BY <3>3, <3>4
  <2> QED BY <2>3, <2>4
<1>5. CASE InitSemaphores(i) \/ Delete(i)
  <2>1. Alive(i) /\ mpc'[i] # "off"
    BY <1>2, <1>5 DEF InitSemaphores, Delete, MasterAt, Alive
  <2>2. SUFFICES ASSUME NEW n \in Session
                 PROVE  /\ IsLast(n)' => Removed(n)'
                        /\ n > 1 /\ mpc'[n - 1] = "over" => MakesItsOwn(n)'
    BY DEF Cleared
  <2>3. CASE n # i
    <3>1. IsLast(n)' => ~(i > n)
      BY <2>1 DEF IsLast
    <3>2. IsLast(n)' => mpc'[n] = "off"
      BY <1>1, <1>2, <1>3, <2>1, <2>3, <3>1
    <3>3. ASSUME n > 1, mpc'[n - 1] = "over" PROVE MakesItsOwn(n)'
      <4>1. mpc'[n] \in {"off", "over", "killed"} /\ mpc'[n] = mpc[n] /\ m'[n] = m[n]
        BY <1>1, <1>2, <1>3, <2>1, <2>3
      <4>2. n - 1 \in Session
        BY <3>3, BoundsAssumption DEF Session
      <4>3. CASE mpc[n - 1] = "over"
        BY <3>3, <4>1, <4>3 DEF Cleared, MakesItsOwn
      <4>4. CASE mpc[n - 1] # "over"
        <5>1. n - 1 = i
          BY <1>1, <3>3, <4>2, <4>4
        <5>2. mpc[n] = "off"
          BY <1>2, <1>3, <2>1, <2>3, <5>1
        <5> QED BY <4>1, <5>2 DEF MakesItsOwn
      <4> QED BY <4>3, <4>4
    <3> QED BY <3>2, <3>3 DEF Removed
  <2>4. CASE n = i
    <3>1. ASSUME n > 1, mpc'[n - 1] = "over" PROVE mpc[n - 1] = "over" /\ MakesItsOwn(n)
      <4>1. n - 1 \in Session /\ n - 1 # i
        BY <2>4, <3>1, BoundsAssumption DEF Session
      <4>2. mpc[n - 1] = "over"
        BY <1>1, <3>1, <4>1
      <4> QED BY <3>1, <4>2 DEF Cleared
    <3>2. IsLast(n)
      BY <1>2, <1>3, <2>1, <2>4 DEF IsLast
    <3>3. Removed(n)
      BY <3>2 DEF Cleared
    <3>4. CASE InitSemaphores(i)
      <4>1. CASE mpc[i] = "init_ff" /\ mpc'[i] = "init_c" /\ ffsem_init(i, "ff-slave1")
        <5>1. /\ name'["ff-master1"] = name["ff-master1"]
              /\ name["ff-slave1"] = 0 => m'[i].sem["ff-slave1"] = i
          BY <1>2, <4>1, Names, SetMasterHandle DEF ffsem_init, Handles, MasterRecord
        <5> QED BY <2>4, <3>1, <4>1, <5>1 DEF MakesItsOwn, Removed
      <4>2. CASE mpc[i] = "init_c" /\ mpc'[i] = "init_map" /\ ffsem_init(i, "ff-master1")
        <5>1. /\ m'[i].sem["ff-slave1"] = m[i].sem["ff-slave1"]
              /\ name["ff-master1"] = 0 => m'[i].sem["ff-master1"] = i
          BY <1>2, <4>2, Names, SetMasterHandle DEF ffsem_init, Handles, MasterRecord
        <5> QED BY <2>4, <3>1, <4>2, <5>1 DEF MakesItsOwn, Removed
      <4> QED BY <1>2, <3>4, <4>1, <4>2 DEF InitSemaphores, MasterAt
    <3>5. CASE Delete(i)
      <4>1. m' = m
        BY <3>5 DEF Delete
      <4>2. CASE mpc[i] = "del_ff" /\ mpc'[i] = "del_c" /\ name' = [name EXCEPT !["ff-slave1"] = 0]
        BY <1>2, <2>4, <3>1, <4>1, <4>2, Names DEF Removed, MakesItsOwn, Handles
      <4>3. CASE mpc[i] = "del_c" /\ mpc'[i] = "del_map" /\ name' = [name EXCEPT !["ff-master1"] = 0]
        BY <1>2, <2>4, <3>1, <3>3, <4>1, <4>3, Names DEF Removed, MakesItsOwn, Handles
      <4>4. CASE mpc[i] = "del_map" /\ mpc'[i] = "over" /\ name' = name
        BY <2>4, <3>1, <3>3, <4>1, <4>4 DEF Removed, MakesItsOwn
      <4> QED BY <1>2, <3>5, <4>2, <4>3, <4>4 DEF Delete, MasterAt, ffsem_destroy
    <3> QED BY <1>5, <3>4, <3>5
  <2> QED BY <2>3, <2>4
<1>6. CASE InitMap(i) \/ WriteStatus(i) \/ Launch(i) \/ MasterWait(i) \/ WriteQuestion(i)
          \/ MasterPost(i) \/ ReadAnswer(i)
  <2>1. /\ mpc[i] \notin {"off", "init_ff", "init_c", "killed"} /\ name' = name
        /\ mpc'[i] \notin {"off", "init_ff", "init_c", "del_c", "del_map", "over"}
    BY <1>2, <1>6 DEF InitMap, WriteStatus, Launch, MasterWait, WriteQuestion, MasterPost, ReadAnswer,
      MasterAt, SlaveAt, Loop, kernel
  <2>2. \A k \in Session : m'[k].sem = m[k].sem
    BY <2>1, RecordStep
  <2> QED BY <1>1, <2>1, <2>2, ClearedQuiet
<1>7. CASE Slave(i) \/ KillMaster(i) \/ KillSlave(i)
  <2>1. name' = name /\ m' = m
    BY <1>7 DEF Slave, OpenSemaphores, OpenMap, SlavePost, SlaveWait, ReadQuestion, ReadStatus,
      WriteAnswer, Close, KillMaster, KillSlave, kernel
  <2>2. \A k \in Session : mpc'[k] = mpc[k] \/ mpc'[k] = "killed"
    BY <1>2, <1>7 DEF Slave, OpenSemaphores, OpenMap, SlavePost, SlaveWait, ReadQuestion, ReadStatus,
      WriteAnswer, Close, KillMaster, KillSlave
  <2> QED BY <2>1, <2>2, ClearedQuiet
<1> QED BY <1>4, <1>5, <1>6, <1>7 DEF Steps, Master

(* Whatever was killed, once a master has come to its end the next one      *)
(* works with semaphores it made itself.                                    *)
THEOREM RecoveredCorrect == Spec => []Recovered
<1> DEFINE Inv == TypeOK /\ Ranges /\ Order /\ Cleared
<1>1. Init => Inv
  <2>1. Init => Cleared
    BY BoundsAssumption DEF Init, Cleared, IsLast, Removed, MakesItsOwn, Session
  <2> QED BY <2>1, TypeInit, TurnInit DEF TurnInv
<1>2. Inv /\ [Next]_vars => Inv'
  <2> SUFFICES ASSUME TypeOK, Ranges, Order, Cleared, [Next]_vars PROVE Inv'
    OBVIOUS
  <2>1. TypeOK' /\ Ranges' /\ Order'
    BY TypeStep, RangesStep, OrderStep
  <2>2. ASSUME UNCHANGED vars PROVE Cleared'
    BY <2>2 DEF vars, kernel, Cleared, IsLast, Removed, MakesItsOwn
  <2>3. ASSUME NEW n \in Session, Steps(n) PROVE Cleared'
    BY <2>3, ClearedStep
  <2> QED BY <2>1, <2>2, <2>3 DEF Next, Steps
<1>3. Inv => Recovered
  BY BoundsAssumption DEF Cleared, MakesItsOwn, Recovered, Session, Name
<1> QED BY <1>1, <1>2, <1>3, PTL DEF Spec

(* Both together: the names of a session are given back. *)
THEOREM NamesGivenBackCorrect == Spec => []NamesGivenBack
<1>1. NoNameLeft /\ Recovered => NamesGivenBack
  BY DEF NamesGivenBack
<1> QED BY <1>1, NoNameLeftCorrect, RecoveredCorrect, PTL
==============================================================================
