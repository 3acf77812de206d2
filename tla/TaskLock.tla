------------------------------- MODULE TaskLock -------------------------------
(***************************************************************************)
(* src/task-lock.js: the per-task O_EXCL lock of the legacy task service,  *)
(* one process per Procs and one task.  Every file-system call of acquire  *)
(* and release is a step, because other processes run between them.  A     *)
(* lock record is its owner's incarnation: a process that dies and starts  *)
(* again has another pid.  A dead owner's heartbeat is taken to be older   *)
(* than staleMs, since a process may wait that long before it tries.       *)
(***************************************************************************)
EXTENDS Naturals

CONSTANTS Procs, MaxLife   \* model bound: incarnations of a process

VARIABLES alive, life,     \* per process: running, current incarnation
          pc,              \* per process: next file-system call
          file             \* the lock file: {} or the one record it holds
tvars == <<alive, life, pc, file>>

Mine(p, written) == [who |-> p, life |-> life[p], written |-> written]

\* isPidAlive of the recorded owner
OwnerAlive(rec) == alive[rec.who] /\ life[rec.who] = rec.life
Goto(p, l) == pc' = [pc EXCEPT ![p] = l]

\* acquire: openSync(file, 'wx')
Open(p) == /\ alive[p] /\ pc[p] = "idle"
           /\ \/ file = {} /\ file' = {Mine(p, FALSE)} /\ Goto(p, "write")
              \/ file # {} /\ Goto(p, "inspect") /\ UNCHANGED file
           /\ UNCHANGED <<alive, life>>
\* EEXIST: _read and _isStale; a live or unreadable owner throws TaskLockedError.
Inspect(p) == /\ alive[p] /\ pc[p] = "inspect"
              /\ IF \E rec \in file : rec.written /\ ~OwnerAlive(rec) THEN Goto(p, "remove")
                 ELSE Goto(p, "idle")
              /\ UNCHANGED <<alive, life, file>>
\* rmSync(file, { force: true }), whatever the file holds by now
Remove(p) == /\ alive[p] /\ pc[p] = "remove"
             /\ file' = {} /\ Goto(p, "reopen")
             /\ UNCHANGED <<alive, life>>
\* openSync(file, 'wx') again; EEXIST leaves acquire with an error.
Reopen(p) == /\ alive[p] /\ pc[p] = "reopen"
             /\ \/ file = {} /\ file' = {Mine(p, FALSE)} /\ Goto(p, "write")
                \/ file # {} /\ Goto(p, "idle") /\ UNCHANGED file
             /\ UNCHANGED <<alive, life>>
\* writeSync on the descriptor; a file removed meanwhile stays removed.
Write(p) == /\ alive[p] /\ pc[p] = "write"
            /\ Goto(p, "held")
            /\ file' = IF file = {Mine(p, FALSE)} THEN {Mine(p, TRUE)} ELSE file
            /\ UNCHANGED <<alive, life>>
\* release: rmSync(file, { force: true })
Release(p) == /\ alive[p] /\ pc[p] = "held"
              /\ file' = {} /\ Goto(p, "idle")
              /\ UNCHANGED <<alive, life>>
Crash(p) == /\ alive[p] /\ alive' = [alive EXCEPT ![p] = FALSE] /\ Goto(p, "idle")
            /\ UNCHANGED <<life, file>>
Restart(p) == /\ ~alive[p] /\ life[p] < MaxLife
              /\ alive' = [alive EXCEPT ![p] = TRUE] /\ life' = [life EXCEPT ![p] = @ + 1]
              /\ UNCHANGED <<pc, file>>

Init == /\ alive = [p \in Procs |-> TRUE] /\ life = [p \in Procs |-> 0]
        /\ pc = [p \in Procs |-> "idle"] /\ file = {}
Next == \E p \in Procs : \/ Open(p) \/ Inspect(p) \/ Remove(p) \/ Reopen(p) \/ Write(p)
                         \/ Release(p) \/ Crash(p) \/ Restart(p)
Spec == Init /\ [][Next]_tvars

----------------------------------------------------------------------------
\* "prevents two runtimes from driving the same task": two live processes never both
\* hold the lock of a task.
OneDriver == \A p, q \in Procs : pc[p] = "held" /\ pc[q] = "held" => p = q
=============================================================================
