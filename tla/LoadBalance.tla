---------------------------- MODULE LoadBalance -----------------------------
(***************************************************************************)
(* tests/load_balance.sh: DOP workers share a list of tasks.  The number   *)
(* of the next task is in the file $TID, guarded by the lock file $LOCK,   *)
(* which lock() makes without an atomic test-and-set.  "echo x > file"     *)
(* first truncates the file and then writes it; a file removed in between  *)
(* is written for nobody.                                                  *)
(***************************************************************************)
EXTENDS Naturals, FiniteSets

CONSTANTS Workers,   \* the pids of the workers, DOP of them
          Tasks,     \* the number of lines of the task list
          None,      \* no lock file
          Empty      \* the content of a file just truncated

ASSUME TasksAssumption == Tasks \in Nat
ASSUME WorkersAssumption == IsFiniteSet(Workers) /\ Workers # {}
ASSUME FileContents == /\ None \notin Workers /\ Empty \notin Workers /\ None # Empty
                       /\ Empty \notin Nat

VARIABLES pc, lock, tid, num, ran

workerVars == <<pc, lock, tid, num, ran>>

WorkersInit == /\ pc = [w \in Workers |-> "test"]
               /\ lock = None                       \* the parent's unlock
               /\ tid = 1                           \* and its echo 1 > $TID
               /\ num = [w \in Workers |-> Empty]
               /\ ran = [t \in 1..Tasks |-> 0]      \* how often a task was run: 0, 1, 2 = more

Goto(w, from, to) == pc[w] = from /\ pc' = [pc EXCEPT ![w] = to]

\* [ -f $LOCK ] && continue
Test(w) == /\ lock = None
           /\ Goto(w, "test", "create")
           /\ UNCHANGED <<lock, tid, num, ran>>

\* echo $$ > $LOCK
Create(w) == /\ Goto(w, "create", "write")
             /\ lock' = Empty
             /\ UNCHANGED <<tid, num, ran>>

WriteLock(w) == /\ Goto(w, "write", "check")
                /\ lock' = w
                /\ UNCHANGED <<tid, num, ran>>

WriteRemoved(w) == /\ Goto(w, "writeremoved", "check")
                   /\ UNCHANGED <<lock, tid, num, ran>>

\* [ `cat $LOCK` -ne $$ ] && continue: without a number in the file the test
\* is an error, which does not continue either.
CheckLost(w) == /\ lock \in Workers \ {w}
                /\ Goto(w, "check", "test")
                /\ UNCHANGED <<lock, tid, num, ran>>

Locked(w) == /\ lock \in {w, None, Empty}
             /\ Goto(w, "check", "read")
             /\ UNCHANGED <<lock, tid, num, ran>>

\* CMD_NUM=`cat $TID`
Read(w) == /\ Goto(w, "read", "truncate")
           /\ num' = [num EXCEPT ![w] = tid]
           /\ UNCHANGED <<lock, tid, ran>>

\* echo `expr $CMD_NUM + 1` > $TID; expr + 1 is 1.
Truncate(w) == /\ Goto(w, "truncate", "store")
               /\ tid' = Empty
               /\ UNCHANGED <<lock, num, ran>>

\* Mutant: the worker takes two tasks.
StoredByTwo(n) == IF n = Empty THEN 1 ELSE n + 2
Stored(n) == IF n = Empty THEN 1 ELSE n + 1

Store(w) == /\ Goto(w, "store", "unlock")
            /\ tid' = Stored(num[w])
            /\ UNCHANGED <<lock, num, ran>>

\* Whoever is about to write the lock file writes a removed file.
\* The mutant leaves another worker's lock alone.
UnlockOwn(w) ==
  /\ pc[w] = "unlock"
  /\ pc' = [v \in Workers |-> IF v = w THEN "run" ELSE pc[v]]
  /\ lock' = IF lock = w THEN lock ELSE None
  /\ UNCHANGED <<tid, num, ran>>

Unlock(w) ==
  /\ pc[w] = "unlock"
  /\ pc' = [v \in Workers |-> CASE v = w            -> "run"
                                [] pc[v] = "write"  -> "writeremoved"
                                [] OTHER            -> pc[v]]
  /\ lock' = None
  /\ UNCHANGED <<tid, num, ran>>

\* CMD=`sed -n ${CMD_NUM}p $TASKS`, and the command is run.
Run(w) == /\ num[w] \in 1..Tasks
          /\ Goto(w, "run", "running")
          /\ ran' = [ran EXCEPT ![num[w]] = IF @ = 0 THEN 1 ELSE 2]
          /\ UNCHANGED <<lock, tid, num>>

\* Without a number, sed prints the whole list, which is no task's command.
RunWholeList(w) == /\ num[w] = Empty
                   /\ Goto(w, "run", "running")
                   /\ UNCHANGED <<lock, tid, num, ran>>

Finish(w) == /\ Goto(w, "running", "test")
             /\ UNCHANGED <<lock, tid, num, ran>>

\* [ -z "$CMD" ] && break
Break(w) == /\ num[w] # Empty /\ num[w] > Tasks
            /\ Goto(w, "run", "exit")
            /\ UNCHANGED <<lock, tid, num, ran>>

Step(w) == \/ Test(w) \/ Create(w) \/ WriteLock(w) \/ WriteRemoved(w)
           \/ CheckLost(w) \/ Locked(w)
           \/ Read(w) \/ Truncate(w) \/ Store(w) \/ Unlock(w)
           \/ Run(w) \/ RunWholeList(w) \/ Finish(w) \/ Break(w)

AllExited == \A w \in Workers : pc[w] = "exit"

WorkersEnd == AllExited /\ UNCHANGED workerVars

WorkersNext == (\E w \in Workers : Step(w)) \/ WorkersEnd

\* The workers are processes of the operating system; tasks end.
WorkersSpec == /\ WorkersInit
               /\ [][WorkersNext]_workerVars
               /\ \A w \in Workers : WF_workerVars(Step(w))

-----------------------------------------------------------------------------
Waiting == {"test", "create"}
Holding == {"read", "truncate", "store", "unlock"}

Number == {Empty} \cup (1..(Tasks + Cardinality(Workers)))

WorkersTypeOK ==
  /\ pc \in [Workers -> Waiting \cup Holding \cup
               {"write", "writeremoved", "check", "run", "running", "exit"}]
  /\ lock \in {None, Empty} \cup Workers
  /\ tid \in Number \cup {Tasks + Cardinality(Workers) + 1}
  /\ num \in [Workers -> Number]
  /\ ran \in [1..Tasks -> 0..2]

\* However the workers race, no task is lost: a number is stored only by a
\* worker that goes on to run the task before it.
NoTaskSkipped == AllExited => \A t \in 1..Tasks : ran[t] > 0

\* The lock file never outlives the workers that can remove it, so that the
\* others do not wait for ever: a file with a pid is that of a worker between
\* its write and its unlock, an empty one is about to be written.
LockIsOwned ==
  /\ lock \in Workers => pc[lock] \in {"check"} \cup Holding
  /\ lock = Empty => \E w \in Workers : pc[w] = "write"

\* The lock is always released again, so no worker waits for ever.  (That all
\* workers come to an end is not true: those that read $TID while it is
\* truncated can start the list again and again.)
LockIsFreed == []<>(lock = None)
=============================================================================
