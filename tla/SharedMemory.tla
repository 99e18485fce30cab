----------------------------- MODULE SharedMemory -----------------------------
(***************************************************************************)
(* A program in C and a FreeFEM script that work in turn on a file mapped  *)
(* in memory, with two named semaphores: the library                       *)
(* plugin/seq/libff-mmap-semaphore.c, the types Psemaphore and Pmmap of    *)
(* plugin/seq/ff-mmap-semaphore.cpp, the master plugin/seq/ffmaster.c and  *)
(* its slave examples/plugin/ffslave.edp, over several sessions.  A        *)
(* process may be killed, or stop on an error of the library (ffDoError),  *)
(* at any point; the master is then started again.                         *)
(*                                                                         *)
(* Each call of the library is one step.  A semaphore or a file outlives   *)
(* the processes under its name; one that has lost its name lives as long  *)
(* as a process holds it.                                                  *)
(***************************************************************************)
EXTENDS Integers, FiniteSets

CONSTANTS
  Sessions,     (* bound: times the master is started  *)
  Iterations,   (* bound: questions in a session       *)
  MaxFailures   (* bound: processes that are killed    *)

ASSUME BoundsAssumption ==
  /\ Sessions \in Nat \ {0} /\ Iterations \in Nat /\ MaxFailures \in Nat

Session == 1 .. Sessions
Name    == {"ff-slave1", "ff-master1"}
Objects == 1 .. 2 * Sessions   (* made by master n: n, by slave n: Sessions + n *)

VARIABLES
  name,     (* the semaphore a name stands for, 0 if none                   *)
  value,    (* the value of each semaphore                                  *)
  file,     (* the file called shared-data, 0 if none                       *)
  shared,   (* the contents of each file: a question, an answer, a status   *)
  mpc, m,   (* masters: next call; handles, iteration, last answer          *)
  spc, s,   (* slaves: next call; handles, question and status read         *)
  failed    (* the processes that were killed                               *)

kernel == <<name, value, file, shared>>
vars   == <<kernel, mpc, m, spc, s, failed>>

NoQuestion == <<0, 0>>

Init ==
  /\ name = [nm \in Name |-> 0] /\ value = [nm \in Name |-> [o \in Session |-> 0]]
  /\ file = 0
  /\ shared = [o \in Objects |-> [cff |-> NoQuestion, rff |-> NoQuestion, status |-> 0]]
  /\ mpc = [n \in Session |-> "off"] /\ spc = [n \in Session |-> "off"]
  /\ m = [n \in Session |-> [sem |-> [nm \in Name |-> 0], map |-> 0, isnew |-> FALSE,
                             i |-> 0, rff |-> NoQuestion]]
  /\ s = [n \in Session |-> [sem |-> [nm \in Name |-> 0], map |-> 0, isnew |-> FALSE,
                             cff |-> NoQuestion, status |-> 1]]
  /\ failed = {}

MasterAt(n, a, b) == mpc[n] = a /\ mpc' = [mpc EXCEPT ![n] = b]
SlaveAt(n, a, b)  == spc[n] = a /\ spc' = [spc EXCEPT ![n] = b]

-----------------------------------------------------------------------------
(* Mutant of ffsem_init: a new semaphore starts at 1. *)
ffsem_init_One(n, nm) ==
  /\ name' = [name EXCEPT ![nm] = IF @ = 0 THEN n ELSE @]
  /\ m' = [m EXCEPT ![n].sem[nm] = name'[nm]]
  /\ value' = [value EXCEPT ![nm][name'[nm]] = IF name[nm] = 0 THEN 1 ELSE @]

(* The library.  ffsem_init with creat: unlink removes a file of that name,*)
(* not a semaphore, and sem_open without O_EXCL takes the semaphore that   *)
(* is there, with its value.                                               *)
ffsem_init(n, nm) ==
  /\ name' = [name EXCEPT ![nm] = IF @ = 0 THEN n ELSE @]
  /\ m' = [m EXCEPT ![n].sem[nm] = name'[nm]]
  /\ UNCHANGED value

ffsem_post(nm, o) == value' = [value EXCEPT ![nm][o] = @ + 1]
ffsem_wait(nm, o) == value[nm][o] > 0 /\ value' = [value EXCEPT ![nm][o] = @ - 1]

(* ffsem_destroy, by the process that has creat: the name goes, whatever   *)
(* semaphore it stands for by now.                                         *)
ffsem_destroy(nm) == name' = [name EXCEPT ![nm] = 0]

(* Mutant of Mapped: MAP_PRIVATE, each process has a copy. *)
Mapped_Private(new) == new

(* ffmmap_init: open with O_CREAT; the file is new when its size is 0.     *)
Mapped(new) == IF file = 0 THEN new ELSE file

(* Mutant of ffmmap_destroy: isnew is not tested. *)
ffmmap_destroy_Always(isnew) == file' = 0

(* ffmmap_destroy: the file is removed by the process that found it new.   *)
ffmmap_destroy(isnew) == file' = IF isnew THEN 0 ELSE file

-----------------------------------------------------------------------------
(* The master.  It is started again once the one before has stopped.       *)
StartMaster(n) ==
  /\ \A k \in 1 .. n - 1 : mpc[k] \in {"over", "killed"}
  /\ MasterAt(n, "off", "init_ff")
  /\ UNCHANGED <<kernel, m, spc, s, failed>>
InitSemaphores(n) ==
  /\ \/ MasterAt(n, "init_ff", "init_c") /\ ffsem_init(n, "ff-slave1")
     \/ MasterAt(n, "init_c", "init_map") /\ ffsem_init(n, "ff-master1")
  /\ UNCHANGED <<file, shared, spc, s, failed>>
InitMap(n) ==
  /\ MasterAt(n, "init_map", "status")
  /\ file' = Mapped(n)
  /\ m' = [m EXCEPT ![n].map = file', ![n].isnew = (file = 0)]
  /\ UNCHANGED <<name, value, shared, spc, s, failed>>
WriteStatus(n) ==
  /\ \/ MasterAt(n, "status", "launch") /\ shared' = [shared EXCEPT ![m[n].map].status = 1]
     \/ MasterAt(n, "fin", "post_fin") /\ shared' = [shared EXCEPT ![m[n].map].status = 0]
  /\ UNCHANGED <<name, value, file, m, spc, s, failed>>
Launch(n) ==
  /\ MasterAt(n, "launch", "wait_init") /\ SlaveAt(n, "off", "open_ff")
  /\ UNCHANGED <<kernel, m, s, failed>>

(* The end of the loop on the iterations. *)
Loop(n) == IF m[n].i < Iterations THEN "write" ELSE "fin"
MasterWait(n) ==
  /\ \/ MasterAt(n, "wait_init", Loop(n)) \/ MasterAt(n, "wait", "read")
     \/ MasterAt(n, "wait_fin", "del_ff")
  /\ ffsem_wait("ff-slave1", m[n].sem["ff-slave1"])
  /\ UNCHANGED <<name, file, shared, m, spc, s, failed>>
WriteQuestion(n) ==
  /\ MasterAt(n, "write", "post")
  /\ m' = [m EXCEPT ![n].i = @ + 1]
  /\ shared' = [shared EXCEPT ![m[n].map].cff = <<n, m'[n].i>>]
  /\ UNCHANGED <<name, value, file, spc, s, failed>>
MasterPost(n) ==
  /\ MasterAt(n, "post", "wait") \/ MasterAt(n, "post_fin", "wait_fin")
  /\ ffsem_post("ff-master1", m[n].sem["ff-master1"])
  /\ UNCHANGED <<name, file, shared, m, spc, s, failed>>
ReadAnswer(n) ==
  /\ MasterAt(n, "read", Loop(n))
  /\ m' = [m EXCEPT ![n].rff = shared[m[n].map].rff]
  /\ UNCHANGED <<kernel, spc, s, failed>>

(* Mutant of Delete: like the file, a semaphore loses its name only by the *)
(* process that found it new.                                              *)
Delete_Mine(n) ==
  /\ \/ /\ MasterAt(n, "del_ff", "del_c") /\ UNCHANGED file
        /\ IF m[n].sem["ff-slave1"] = n THEN ffsem_destroy("ff-slave1") ELSE UNCHANGED name
     \/ /\ MasterAt(n, "del_c", "del_map") /\ UNCHANGED file
        /\ IF m[n].sem["ff-master1"] = n THEN ffsem_destroy("ff-master1") ELSE UNCHANGED name
     \/ MasterAt(n, "del_map", "over") /\ ffmmap_destroy(m[n].isnew) /\ UNCHANGED name
  /\ UNCHANGED <<value, shared, m, spc, s, failed>>

(* ffsem_del, twice, and ffmmap_del. *)
Delete(n) ==
  /\ \/ MasterAt(n, "del_ff", "del_c") /\ ffsem_destroy("ff-slave1") /\ UNCHANGED file
     \/ MasterAt(n, "del_c", "del_map") /\ ffsem_destroy("ff-master1") /\ UNCHANGED file
     \/ MasterAt(n, "del_map", "over") /\ ffmmap_destroy(m[n].isnew) /\ UNCHANGED name
  /\ UNCHANGED <<value, shared, m, spc, s, failed>>

Master(n) ==
  \/ InitSemaphores(n) \/ InitMap(n) \/ WriteStatus(n) \/ Launch(n) \/ MasterWait(n)
  \/ WriteQuestion(n) \/ MasterPost(n) \/ ReadAnswer(n) \/ Delete(n)

-----------------------------------------------------------------------------
(* The slave: a script.  Its semaphores are opened, not created: without   *)
(* their names the script stops on an error.                               *)
Open(n, nm, a, b) ==
  IF name[nm] # 0 THEN SlaveAt(n, a, b) /\ s' = [s EXCEPT ![n].sem[nm] = name[nm]]
                  ELSE SlaveAt(n, a, "over") /\ UNCHANGED s
OpenSemaphores(n) ==
  /\ \/ Open(n, "ff-slave1", "open_ff", "open_c")
     \/ Open(n, "ff-master1", "open_c", "open_map")
  /\ UNCHANGED <<kernel, mpc, m, failed>>
OpenMap(n) ==
  /\ SlaveAt(n, "open_map", "post_init")
  /\ file' = Mapped(Sessions + n)
  /\ s' = [s EXCEPT ![n].map = file', ![n].isnew = (file = 0)]
  /\ UNCHANGED <<name, value, shared, mpc, m, failed>>
SlavePost(n) ==
  /\ \/ SlaveAt(n, "post_init", "wait") \/ SlaveAt(n, "post", "wait")
     \/ SlaveAt(n, "post_fin", "close")
  /\ ffsem_post("ff-slave1", s[n].sem["ff-slave1"])
  /\ UNCHANGED <<name, file, shared, mpc, m, s, failed>>
SlaveWait(n) ==
  /\ SlaveAt(n, "wait", "read_cff")
  /\ ffsem_wait("ff-master1", s[n].sem["ff-master1"])
  /\ UNCHANGED <<name, file, shared, mpc, m, s, failed>>
ReadQuestion(n) ==
  /\ SlaveAt(n, "read_cff", "read_status")
  /\ s' = [s EXCEPT ![n].cff = shared[s[n].map].cff]
  /\ UNCHANGED <<kernel, mpc, m, failed>>

(* Mutant of ReadStatus: the loop stops below 0 only. *)
ReadStatus_Below(n) ==
  /\ spc[n] = "read_status"
  /\ \E status \in {shared[s[n].map].status} :
       /\ SlaveAt(n, "read_status", IF status < 0 THEN "post_fin" ELSE "write")
       /\ s' = [s EXCEPT ![n].status = status]
  /\ UNCHANGED <<kernel, mpc, m, failed>>

ReadStatus(n) ==
  /\ spc[n] = "read_status"
  /\ \E status \in {shared[s[n].map].status} :
       /\ SlaveAt(n, "read_status", IF status <= 0 THEN "post_fin" ELSE "write")
       /\ s' = [s EXCEPT ![n].status = status]
  /\ UNCHANGED <<kernel, mpc, m, failed>>

(* The problem is solved for the question read, and its answer written.    *)
WriteAnswer(n) ==
  /\ SlaveAt(n, "write", "post")
  /\ shared' = [shared EXCEPT ![s[n].map].rff = s[n].cff]
  /\ UNCHANGED <<name, value, file, mpc, m, s, failed>>
Close(n) ==
  /\ SlaveAt(n, "close", "over")
  /\ ffmmap_destroy(s[n].isnew)
  /\ UNCHANGED <<name, value, shared, mpc, m, s, failed>>

Slave(n) ==
  \/ OpenSemaphores(n) \/ OpenMap(n) \/ SlavePost(n) \/ SlaveWait(n)
  \/ ReadQuestion(n) \/ ReadStatus(n) \/ WriteAnswer(n) \/ Close(n)

(* A process is killed, or exits in ffDoError: what it holds is closed, no *)
(* name is removed.                                                        *)
KillMaster(n) ==
  /\ mpc[n] \notin {"off", "over", "killed"} /\ Cardinality(failed) < MaxFailures
  /\ mpc' = [mpc EXCEPT ![n] = "killed"] /\ failed' = failed \cup {<<"master", n>>}
  /\ UNCHANGED <<kernel, m, spc, s>>
KillSlave(n) ==
  /\ spc[n] \notin {"off", "over", "killed"} /\ Cardinality(failed) < MaxFailures
  /\ spc' = [spc EXCEPT ![n] = "killed"] /\ failed' = failed \cup {<<"slave", n>>}
  /\ UNCHANGED <<kernel, mpc, m, s>>

Next == \E n \in Session :
  StartMaster(n) \/ Master(n) \/ Slave(n) \/ KillMaster(n) \/ KillSlave(n)

Spec == Init /\ [][Next]_vars
FairSpec == Spec /\ \A n \in Session : WF_vars(Master(n)) /\ WF_vars(Slave(n))

-----------------------------------------------------------------------------
MasterPC == {"off", "init_ff", "init_c", "init_map", "status", "launch", "wait_init", "write",
             "post", "wait", "read", "fin", "post_fin", "wait_fin", "del_ff", "del_c",
             "del_map", "over", "killed"}
SlavePC  == {"off", "open_ff", "open_c", "open_map", "post_init", "wait", "read_cff",
             "read_status", "write", "post", "post_fin", "close", "over", "killed"}
Question == (0 .. Sessions) \X (0 .. Iterations)

Values       == [Name -> [Session -> Nat]]
Handles      == [Name -> 0 .. Sessions]
FileRecord   == [cff : Question, rff : Question, status : {0, 1}]
MasterRecord == [sem : Handles, map : 0 .. 2 * Sessions, isnew : BOOLEAN,
                 i : 0 .. Iterations, rff : Question]
SlaveRecord  == [sem : Handles, map : 0 .. 2 * Sessions, isnew : BOOLEAN,
                 cff : Question, status : {0, 1}]

(* Every variable has its type; a semaphore counts the posts not taken.    *)
TypeOK ==
  /\ name \in Handles /\ value \in Values
  /\ file \in 0 .. 2 * Sessions /\ shared \in [Objects -> FileRecord]
  /\ mpc \in [Session -> MasterPC] /\ m \in [Session -> MasterRecord]
  /\ spc \in [Session -> SlavePC] /\ s \in [Session -> SlaveRecord]
  /\ failed \subseteq {"master", "slave"} \X Session

(* The session is on its own: its master made both its semaphores, and no  *)
(* slave of another session opened them or the file it works on, or made a *)
(* file, which it would remove by its name.                                *)
OnItsOwn(n) ==
  /\ \A nm \in Name : m[n].sem[nm] = n
  /\ \A k \in Session \ {n} :
       ~s[k].isnew /\ s[k].map # m[n].map /\ \A nm \in Name : s[k].sem[nm] # n

(* The master and the slave of a session never touch the shared data in    *)
(* the same time.                                                          *)
InTurn ==
  \A n \in Session : OnItsOwn(n) =>
    ~(mpc[n] \in {"write", "post", "read", "fin", "post_fin"}
      /\ spc[n] \in {"read_cff", "read_status", "write", "post"})

(* The answer the master reads at an iteration is that of the question it  *)
(* has just written: neither is lost, read twice or read too early.        *)
Answered ==
  \A n \in Session : OnItsOwn(n) /\ mpc[n] \notin {"post", "wait", "read", "killed"} =>
    m[n].rff = IF m[n].i = 0 THEN NoQuestion ELSE <<n, m[n].i>>

(* "Post(smff); // un lock master fin init" (ffslave.edp:41): the master   *)
(* goes on only when the slave it launched is ready.                       *)
UnlockedByInit ==
  \A n \in Session : mpc[n] \in {"write", "post", "wait", "read"} =>
    spc[n] \notin {"open_ff", "open_c", "open_map", "post_init"}

(* When nothing was killed, a session that is over leaves no name behind,  *)
(* and its slave takes away nothing of the next one.                       *)
NoNameLeft ==
  failed = {} =>
    \A n \in Session :
      /\ mpc[n] = "over" /\ (n = Sessions \/ mpc[n + 1] = "off") =>
           file = 0 /\ \A nm \in Name : name[nm] = 0
      /\ mpc[n] \in {"write", "post", "wait", "read"} =>
           file = n /\ \A nm \in Name : name[nm] = n

(* A semaphore left by a killed session, with its value, lasts for the next*)
(* session at most: once a master has come to its end, after whatever was  *)
(* killed before, the next one works with semaphores it made itself.       *)
Recovered ==
  \A n \in Session \ {1} :
    mpc[n - 1] = "over" /\ mpc[n] \notin {"off", "init_ff", "init_c", "killed"} =>
      \A nm \in Name : m[n].sem[nm] = n

(* The names of a session are given back: by itself when nothing was       *)
(* killed, and by the next session that ends when it was killed.           *)
NamesGivenBack == NoNameLeft /\ Recovered

(* A session comes to its end on both sides as long as it is on its own    *)
(* and none of them is killed, whatever an earlier one left running.       *)
SessionEnds ==
  \A n \in Session : mpc[n] = "launch" ~>
    \/ mpc[n] = "over" /\ spc[n] = "over"
    \/ ~OnItsOwn(n)
    \/ <<"master", n>> \in failed \/ <<"slave", n>> \in failed
==============================================================================
