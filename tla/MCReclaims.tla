----------------------------- MODULE MCReclaims -----------------------------
(* What a miner's agent has to take back, each in a part of its own: the    *)
(* capacity of leases, the containers of endpoints that two handlers work   *)
(* on, and those of an agent that dies twice.                               *)
EXTENDS MCSandboxLease

CONSTANTS r1, r2, e1, a1, h1, h2, Main, Nobody

VARIABLES
    part,   \* "leases", "handlers" or "restarts"
    db, mem, container, dir, image, lock, th, phase, reply, launches, fails, restarts, exits

avars == <<db, mem, container, dir, image, lock, th, phase, reply, launches, fails, restarts, exits>>

Agent(Handlers, MaxRestarts) == INSTANCE EndpointLifecycle WITH
    Endpoints <- {e1}, Artifacts <- {a1}, ArtifactOf <- [e \in {e1} |-> a1],
    Requests <- {"assign", "deactivate"}, MaxFails <- 0, MaxExits <- 0

MCInit ==
    /\ Init
    /\ \/ part = "leases" /\ Agent({h1}, 0)!Init
       \/ part = "handlers" /\ Agent({h1, h2}, 0)!Init /\ inst = {}
       \/ part = "restarts" /\ Agent({h1}, 2)!Init /\ inst = {}

(* Requests come two at a time to an agent that was not stopped yet, one at *)
(* a time afterwards; idle handlers are interchangeable.                    *)
Arrivals ==
    /\ req[r1] = NoRequest /\ req[r2] = NoRequest => req'[r2] = NoRequest
    /\ stops > 0 => \A r, s \in Requests :
                       r # s /\ req[r] = NoRequest /\ req[s] # NoRequest => req'[r] = NoRequest

MCNext ==
    /\ UNCHANGED part
    /\ \/ part = "leases" /\ Next /\ Arrivals /\ UNCHANGED avars
       \/ part = "handlers" /\ Agent({h1, h2}, 0)!Next /\ UNCHANGED vars
       \/ part = "restarts" /\ Agent({h1}, 2)!Next /\ UNCHANGED vars

(* Validators may stop sending; time passes, handlers and starts end, the  *)
(* sweep timer fires, the supervisor restarts the agent, and the backend   *)
(* does not refuse the same destroy for ever.                              *)
LeaseFairness ==
    LET on == part = "leases" IN
    /\ SF_vars(on /\ Tick)
    /\ \A r \in Requests : WF_vars(on /\ Handle(r))
    /\ WF_vars(on /\ SweepBegin)
    /\ \A i \in Ids : /\ WF_vars(on /\ StartStep(i))
                     /\ WF_vars(on /\ (SweepRecord(i) \/ SweepInstance(i)))
                     /\ SF_vars(on /\ SweepRecord(i) /\ lease'[i].status \notin Live)
    /\ WF_vars(on /\ ShutdownRecover) /\ WF_vars(on /\ Exit)
    /\ SF_vars(on /\ Start /\ lane' = "serving")

(* Every operation returns and the service manager restarts a dead agent.   *)
(* Weak fairness is enough for imageLock: an endpoint launches once, so the  *)
(* lock is not taken forever.                                                *)
EndpointFairness ==
    /\ WF_avars(part = "handlers" /\ (Agent({h1, h2}, 0)!Start \/ Agent({h1, h2}, 0)!MainStep))
    /\ WF_avars(part = "restarts" /\ (Agent({h1}, 2)!Start \/ Agent({h1}, 2)!MainStep))
    /\ \A t \in {h1, h2, Main} : WF_avars(part = "handlers" /\ Agent({h1, h2}, 0)!Step(t))
    /\ \A t \in {h1, Main} : WF_avars(part = "restarts" /\ Agent({h1}, 2)!Step(t))

MCSpec ==
    /\ MCInit /\ [][MCNext]_<<part, vars, avars>>
    /\ LeaseFairness /\ EndpointFairness

(* A fenced endpoint is taken down, whatever crashes (EndpointLifecycle).   *)
Retires == Agent({h1, h2}, 2)!Retires
=============================================================================
