---------------------------- MODULE ChainHandle ----------------------------
(***************************************************************************)
(* One BittensorChain handle (chain.py): tasks of one event loop open it,  *)
(* close it and read through it, and may be cancelled while they wait.     *)
(*                                                                         *)
(* No block under the lifecycle lock awaits anything, so the lock is never *)
(* contended and a task runs from one await to the next in one step.  A    *)
(* generation is one client: the opener task that connects it, the closer  *)
(* task that retires it, its connection.  0 stands for None.               *)
(***************************************************************************)
EXTENDS Integers, FiniteSets

CONSTANTS Callers,    \* tasks that use the handle
          MaxOpens    \* bound: generations

VARIABLES
  client, generation, retiring, openTask, closeTask,
  operations,  \* tasks with an admitted read
  opener,      \* per generation: "none", "connecting", "ok" or "failed"
  closer,      \* per generation: "none" or the step of the closer task
  awaits,      \* generations whose closer has to wait for the opener
  connection,  \* per generation: "new", "live", "closed" or "leaked"
  call,        \* per caller: [op, gen]
  cancelled    \* callers and openers that were cancelled and have not unwound

handle == <<client, generation, retiring, openTask, closeTask>>
tasks == <<opener, closer, awaits, connection>>
cvars == <<handle, operations, tasks, call, cancelled>>

Generations == 1..MaxOpens
Idle == [op |-> "idle", gen |-> 0]

ChainInit ==
  /\ client = 0 /\ generation = 0 /\ retiring = FALSE /\ openTask = 0 /\ closeTask = 0
  /\ operations = {}
  /\ opener = [g \in Generations |-> "none"]
  /\ closer = [g \in Generations |-> "none"]
  /\ awaits = {}
  /\ connection = [g \in Generations |-> "new"]
  /\ call = [u \in Callers |-> Idle]
  /\ cancelled = {}

Connected(g) == opener[g] \in {"ok", "failed"}

(***************************************************************************)
(* Opening.                                                                *)
(***************************************************************************)
\* A refused call changes nothing.
Open(u) ==
  /\ call[u] = Idle /\ generation < MaxOpens
  /\ ~retiring /\ closeTask = 0
  /\ client = 0
  /\ generation' = generation + 1
  /\ client' = generation' /\ openTask' = generation'
  /\ opener' = [opener EXCEPT ![generation'] = "connecting"]
  /\ call' = [call EXCEPT ![u] = [op |-> "open", gen |-> generation']]
  /\ UNCHANGED <<retiring, closeTask, operations, closer, awaits, connection, cancelled>>

\* client.connect() returns or raises; a transport that was closed, or an opener
\* that was cancelled, does not connect any more.  A failing opener may leave a
\* connection behind for RetireOpen.
FinishOpen(g) ==
  /\ opener[g] = "connecting"
  /\ \/ /\ connection[g] = "new" /\ g \notin cancelled
        /\ connection' = [connection EXCEPT ![g] = "live"]
        /\ opener' = [opener EXCEPT ![g] =
             IF generation = g /\ client = g /\ ~retiring THEN "ok" ELSE "failed"]
     \/ /\ connection' \in {[connection EXCEPT ![g] = s] :
                            s \in {"closed"} \union (IF connection[g] = "new" THEN {"live"} ELSE {})}
        /\ opener' = [opener EXCEPT ![g] = "failed"]
  /\ openTask' = IF openTask = g THEN 0 ELSE openTask
  /\ cancelled' = cancelled \ {g}
  /\ UNCHANGED <<client, generation, retiring, closeTask, operations, closer, awaits, call>>

\* The caller's await ends: with the opener's result, or with its cancellation,
\* which may arrive when the opener has just succeeded.
OpenReturns(u) ==
  /\ call[u].op = "open" /\ Connected(call[u].gen)
  /\ call' = [call EXCEPT ![u] = IF opener[@.gen] = "ok" /\ u \notin cancelled
                                 THEN Idle ELSE [@ EXCEPT !.op = "retire"]]
  /\ cancelled' = cancelled \ {u}
  /\ UNCHANGED <<handle, operations, tasks>>

(***************************************************************************)
(* Closing.                                                                *)
(***************************************************************************)
BeginClose(g, opening) ==
  /\ retiring' = TRUE /\ client' = 0
  /\ openTask' = IF openTask = opening THEN 0 ELSE openTask
  /\ closeTask' = g
  /\ closer' = [closer EXCEPT ![g] = "cancel"]
  /\ awaits' = IF opening = 0 THEN awaits ELSE awaits \union {g}
  /\ UNCHANGED <<generation, opener, connection>>

Join(u, g) == call' = [call EXCEPT ![u] = [op |-> "join", gen |-> g]]

\* The failed opener's own cleanup, before its failure is shown to anyone.
RetireOpen(u) ==
  LET g == call[u].gen IN
  /\ call[u].op = "retire"
  /\ IF generation = g /\ closeTask # 0
     THEN Join(u, closeTask) /\ UNCHANGED <<handle, tasks>>
     ELSE IF generation = g /\ client = g
     THEN BeginClose(g, g) /\ Join(u, g)
     ELSE /\ call' = [call EXCEPT ![u] = Idle]
          /\ openTask' = IF generation = g /\ openTask = g THEN 0 ELSE openTask
          /\ UNCHANGED <<client, generation, retiring, closeTask, tasks>>
  /\ UNCHANGED <<operations, cancelled>>

Close(u) ==
  /\ call[u] = Idle
  /\ closeTask # 0 \/ client # 0
  /\ IF closeTask # 0
     THEN Join(u, closeTask) /\ UNCHANGED <<handle, tasks>>
     ELSE BeginClose(client, openTask) /\ Join(u, client)
  /\ UNCHANGED <<operations, cancelled>>

(* Mutant: the closer waits for the opener before it closes the client. *)
FinishCloseOpenerFirst(g) ==
  /\ \/ /\ closer[g] = "cancel"
        /\ cancelled' = cancelled \union operations
        /\ closer' = [closer EXCEPT ![g] = "client"]
        /\ UNCHANGED <<retiring, connection>>
     \/ /\ closer[g] = "client" /\ (g \in awaits => Connected(g))
        /\ connection' = [connection EXCEPT ![g] = "closed"]
        /\ closer' = [closer EXCEPT ![g] = "opener"]
        /\ UNCHANGED <<retiring, cancelled>>
     \/ /\ closer[g] = "opener"
        /\ closer' = [closer EXCEPT ![g] = "drain"]
        /\ UNCHANGED <<retiring, connection, cancelled>>
     \/ /\ closer[g] = "drain" /\ operations = {}
        /\ closer' = [closer EXCEPT ![g] = "done"]
        /\ retiring' = IF generation = g THEN FALSE ELSE retiring
        /\ UNCHANGED <<connection, cancelled>>
  /\ UNCHANGED <<client, generation, openTask, closeTask, operations, opener, awaits, call>>
FinishClose(g) ==
  /\ \/ /\ closer[g] = "cancel"
        /\ cancelled' = cancelled \union operations
        /\ closer' = [closer EXCEPT ![g] = "client"]
        /\ UNCHANGED <<retiring, connection>>
     \/ /\ closer[g] = "client"
        /\ connection' \in {[connection EXCEPT ![g] = s] : s \in {"closed", "leaked"}}
        /\ closer' = [closer EXCEPT ![g] = "opener"]
        /\ UNCHANGED <<retiring, cancelled>>
     \/ /\ closer[g] = "opener" /\ (g \in awaits => Connected(g))
        /\ closer' = [closer EXCEPT ![g] = "drain"]
        /\ UNCHANGED <<retiring, connection, cancelled>>
     \/ /\ closer[g] = "drain" /\ operations = {}
        /\ closer' = [closer EXCEPT ![g] = "done"]
        /\ retiring' = IF generation = g THEN FALSE ELSE retiring
        /\ UNCHANGED <<connection, cancelled>>
  /\ UNCHANGED <<client, generation, openTask, closeTask, operations, opener, awaits, call>>

JoinClose(u) ==
  /\ call[u].op = "join" /\ closer[call[u].gen] = "done"
  /\ closeTask' = IF closeTask = call[u].gen THEN 0 ELSE closeTask
  /\ call' = [call EXCEPT ![u] = Idle]
  /\ UNCHANGED <<client, generation, retiring, openTask, operations, tasks, cancelled>>

(***************************************************************************)
(* Reads, and cancellation from outside.  A caller inside open, close or   *)
(* a read may be cancelled; drain_cleanup finishes a cleanup first.        *)
(***************************************************************************)
AdmitRead(u) ==
  /\ call[u] = Idle
  /\ ~retiring /\ closeTask = 0 /\ client # 0
  /\ operations' = operations \union {u}
  /\ call' = [call EXCEPT ![u] = [op |-> "read", gen |-> client]]
  /\ UNCHANGED <<handle, tasks, cancelled>>

ReleaseRead(u) ==
  /\ call[u].op = "read"
  /\ operations' = operations \ {u}
  /\ call' = [call EXCEPT ![u] = Idle]
  /\ cancelled' = cancelled \ {u}
  /\ UNCHANGED <<handle, tasks>>

Cancel(u) ==
  /\ call[u].op \in {"open", "read"} /\ u \notin cancelled
  /\ cancelled' = cancelled \union {u} \union
       (IF call[u].op = "open" /\ ~Connected(call[u].gen) THEN {call[u].gen} ELSE {})
  /\ UNCHANGED <<handle, operations, tasks, call>>

ChainNext ==
  \/ \E u \in Callers : \/ Open(u) \/ OpenReturns(u) \/ RetireOpen(u) \/ Close(u)
                        \/ JoinClose(u) \/ AdmitRead(u) \/ ReleaseRead(u) \/ Cancel(u)
  \/ \E g \in Generations : FinishOpen(g) \/ FinishClose(g)

\* Ready tasks run.  A connect or a read may hang until it is cancelled or its
\* transport is closed under it.
ChainFair ==
  /\ \A u \in Callers :
       /\ WF_cvars(OpenReturns(u) \/ RetireOpen(u) \/ JoinClose(u))
       /\ WF_cvars(u \in cancelled /\ ReleaseRead(u))
  /\ \A g \in Generations :
       /\ WF_cvars((g \in cancelled \/ connection[g] # "new") /\ FinishOpen(g))
       /\ WF_cvars(FinishClose(g))

ChainSpec == ChainInit /\ [][ChainNext]_cvars /\ ChainFair

-----------------------------------------------------------------------------
(***************************************************************************)
(* Generations never overlap: while a client is in use no earlier one has  *)
(* an opener still connecting, a closer at work, a read in progress or a   *)
(* connection nobody has closed ("the retirement/reopen gate" of           *)
(* _finish_close).                                                         *)
(***************************************************************************)
GenerationsApart ==
  \A g \in 1..(generation - 1) :
    /\ Connected(g) /\ closer[g] = "done" /\ connection[g] # "live"
    /\ \A u \in Callers : call[u].op = "read" => call[u].gen # g

(***************************************************************************)
(* When every call has returned the handle is either open on a live        *)
(* connection or ready to be opened again, whatever was cancelled when.    *)
(* And the opener slot never outlives its client, so that close does not   *)
(* meet "chain opening operation lost its client".                         *)
(***************************************************************************)
QuietIsSettled ==
  /\ openTask # 0 => client = openTask
  /\ (\A u \in Callers : call[u] = Idle) =>
       /\ ~retiring /\ openTask = 0 /\ closeTask = 0 /\ operations = {}
       /\ client # 0 => connection[client] = "live"

(***************************************************************************)
(* Every close, and the cleanup of every failed open, returns: the closer  *)
(* cancels the reads it will wait for and closes the transport before it   *)
(* waits for the opener.                                                   *)
(***************************************************************************)
CloseReturns ==
  \A u \in Callers : call[u].op \in {"retire", "join"} ~> call[u] = Idle

=============================================================================
