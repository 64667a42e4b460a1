---------------------------- MODULE BoundedProcess ----------------------------
(***************************************************************************)
(* run_bounded_process (app/execution/bounded_process.py): a child process *)
(* in a session of its own, two threads that drain its output, and the     *)
(* thread that waits for it, kills its process group at the deadline and   *)
(* then joins the two readers.  The Colab service and the Docker backend   *)
(* call it.                                                                *)
(*                                                                         *)
(* The executed code may start further processes.  What matters of them is *)
(* whether they are still in the child's process group and whether they    *)
(* hold the output pipes, which they can only have inherited.  A container *)
(* is neither.  The two readers wait for the same end of output, so they   *)
(* are one here; family[c] has the kinds some live process is of.          *)
(***************************************************************************)
CONSTANTS
  Calls,         \* calls of run_bounded_process
  KillpgMayFail  \* whether os.killpg may raise OSError

ASSUME KillpgAssumption == KillpgMayFail \in BOOLEAN

VARIABLES
  stage,    \* stage[c]: where the waiting thread of call c is
  child,    \* child[c]: the child; "closed" is running with its output closed
  family,   \* family[c]: the kinds of the live processes the code has started
  readers,  \* readers[c]: the two reader threads
  timedOut  \* timedOut[c]: the flag of the same name

processVars == <<stage, child, family, readers, timedOut>>

Kinds   == [group : BOOLEAN, holds : BOOLEAN]
Running == {"running", "closed"}
Exited  == {"ok", "failed"}
Waiting == {"waiting", "expired", "reaping", "joining"}
Over    == {"returned", "raised"}

ProcessTypeOK ==
  /\ stage \in [Calls -> {"idle", "dead"} \cup Waiting \cup Over]
  /\ child \in [Calls -> {"none"} \cup Running \cup Exited]
  /\ family \in [Calls -> SUBSET Kinds]
  /\ readers \in [Calls -> {"none", "reading", "done", "failed"}]
  /\ timedOut \in [Calls -> BOOLEAN]

ProcessInit ==
  /\ stage = [c \in Calls |-> "idle"]
  /\ child = [c \in Calls |-> "none"]
  /\ family = [c \in Calls |-> {}]
  /\ readers = [c \in Calls |-> "none"]
  /\ timedOut = [c \in Calls |-> FALSE]

HeldByFamily(c) == \E k \in family[c] : k.holds
OutputIsHeld(c) == child[c] = "running" \/ HeldByFamily(c)

MoveTo(c, s) == stage' = [stage EXCEPT ![c] = s]

-------------------------------------------------------------------------------
(* The executed code.                                                      *)

\* A process of kind k, started by the child or by one it has started.
StartDescendant(c, k) ==
  /\ k \notin family[c]
  /\ \/ child[c] \in Running /\ (k.holds => child[c] = "running")
     \/ \E p \in family[c] : (k.group => p.group) /\ (k.holds => p.holds)
  /\ family' = [family EXCEPT ![c] = @ \cup {k}]
  /\ UNCHANGED <<stage, child, readers, timedOut>>

EndDescendants(c, k) ==
  /\ k \in family[c]
  /\ family' = [family EXCEPT ![c] = @ \ {k}]
  /\ UNCHANGED <<stage, child, readers, timedOut>>

CloseOutput(c) ==
  /\ child[c] = "running"
  /\ child' = [child EXCEPT ![c] = "closed"]
  /\ UNCHANGED <<stage, family, readers, timedOut>>

ChildExits(c, code) ==
  /\ child[c] \in Running
  /\ child' = [child EXCEPT ![c] = code]
  /\ UNCHANGED <<stage, family, readers, timedOut>>

-------------------------------------------------------------------------------
(* The reader threads.                                                     *)

\* Faulty: the readers stop where the child stops.
DrainWithChild(c) ==
  /\ stage[c] \in Waiting
  /\ readers[c] = "reading"
  /\ child[c] \in Exited
  /\ readers' = [readers EXCEPT ![c] = "done"]
  /\ UNCHANGED <<stage, child, family, timedOut>>

\* End of output: nobody holds the pipes any more.
DrainOutput(c) ==
  /\ stage[c] \in Waiting
  /\ readers[c] = "reading"
  /\ ~OutputIsHeld(c)
  /\ readers' = [readers EXCEPT ![c] = "done"]
  /\ UNCHANGED <<stage, child, family, timedOut>>

\* The exception is kept for the waiting thread.
DrainRaises(c) ==
  /\ stage[c] \in Waiting
  /\ readers[c] = "reading"
  /\ readers' = [readers EXCEPT ![c] = "failed"]
  /\ UNCHANGED <<stage, child, family, timedOut>>

-------------------------------------------------------------------------------
(* The waiting thread.                                                     *)

Launch(c) ==
  /\ stage[c] = "idle"
  /\ MoveTo(c, "waiting")
  /\ child' = [child EXCEPT ![c] = "running"]
  /\ readers' = [readers EXCEPT ![c] = "reading"]
  /\ UNCHANGED <<family, timedOut>>

WaitReturns(c) ==
  /\ stage[c] = "waiting"
  /\ child[c] \in Exited
  /\ MoveTo(c, "joining")
  /\ UNCHANGED <<child, family, readers, timedOut>>

\* process.wait raises TimeoutExpired.
TimeOut(c) ==
  /\ stage[c] = "waiting"
  /\ child[c] \in Running
  /\ MoveTo(c, "expired")
  /\ timedOut' = [timedOut EXCEPT ![c] = TRUE]
  /\ UNCHANGED <<child, family, readers>>

\* _terminate_process_tree finds by process.poll() that the child has just
\* exited, and returns.
TerminateNothing(c) ==
  /\ stage[c] = "expired"
  /\ child[c] \in Exited
  /\ MoveTo(c, "reaping")
  /\ UNCHANGED <<child, family, readers, timedOut>>

\* Faulty: the signal goes to the descendants and not to the child.
KillOthers(c) ==
  /\ stage[c] = "expired"
  /\ child[c] \in Running
  /\ family' = [family EXCEPT ![c] = {k \in @ : ~k.group}]
  /\ MoveTo(c, "reaping")
  /\ UNCHANGED <<child, readers, timedOut>>

\* os.killpg: the child and whatever is still in its group.
KillGroup(c) ==
  /\ stage[c] = "expired"
  /\ child[c] \in Running
  /\ child' = [child EXCEPT ![c] = "failed"]
  /\ family' = [family EXCEPT ![c] = {k \in @ : ~k.group}]
  /\ MoveTo(c, "reaping")
  /\ UNCHANGED <<readers, timedOut>>

\* os.killpg raises, and process.kill() stops the child alone.
KillChild(c) ==
  /\ KillpgMayFail
  /\ stage[c] = "expired"
  /\ child[c] \in Running
  /\ child' = [child EXCEPT ![c] = "failed"]
  /\ MoveTo(c, "reaping")
  /\ UNCHANGED <<family, readers, timedOut>>

Reap(c) ==
  /\ stage[c] = "reaping"
  /\ child[c] \in Exited
  /\ MoveTo(c, "joining")
  /\ UNCHANGED <<child, family, readers, timedOut>>

\* Both readers are joined, without a deadline, and their exceptions raised.
Join(c) ==
  /\ stage[c] = "joining"
  /\ readers[c] # "reading"
  /\ MoveTo(c, IF readers[c] = "failed" THEN "raised" ELSE "returned")
  /\ UNCHANGED <<child, family, readers, timedOut>>

WaiterStep(c) ==
  \/ WaitReturns(c) \/ TimeOut(c)
  \/ TerminateNothing(c) \/ KillGroup(c) \/ KillChild(c)
  \/ Reap(c) \/ Join(c)
===============================================================================
