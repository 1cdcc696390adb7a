--------------------------- MODULE WindowDecision ---------------------------
(* The coordinator of a closed scoring window (organic_window_cli.py) beside  *)
(* the probe runs whose files it reads without their lock: the sealed epoch   *)
(* records, the manifest archive and the acceptance state.  It writes one     *)
(* decision and, for a submission, one weight plan.                           *)
EXTENDS ProbeEpoch

CONSTANTS
    Window,         \* the epochs of the window
    CloseDelay,     \* how long after its end a window may be coordinated
    Validator,      \* the validator's hotkey
    Views,          \* finalized metagraphs a reader may return
    Limits,         \* gap, attempts and scored: the thresholds of a decision
    MaxWindows      \* bound on coordinator runs

ASSUME WindowBounds ==
    /\ Window # {} /\ Window \subseteq Nat
    /\ {CloseDelay, MaxWindows} \subseteq Nat

VARIABLES
    coord,      \* the coordinator: where it is and what it has read
    decision,   \* the decision file: None, Torn or a decision
    plan,       \* the plan file: None, Torn or a plan
    windows     \* coordinator runs so far

wvars == <<coord, decision, plan, windows>>
allvars == <<now, seed, roots, archive, outputs, water, journal, procs, spent,
             coord, decision, plan, windows>>

Absent == [pc |-> "idle", at |-> 0, view |-> None, names |-> {}, records |-> {},
           state |-> None, verdict |-> None]

WindowInit ==
    /\ ProbeInit
    /\ coord = Absent /\ decision = None /\ plan = None /\ windows = 0

WindowEnd == (Max(Window) + 1) * EpochTicks

Refuse == coord' = Absent

(* The window is closed, not for too long, and has no outputs yet; the        *)
(* validator is registered and has someone to weigh.                          *)
OpenWindow(view) ==
    /\ coord.pc = "idle" /\ windows < MaxWindows
    /\ now >= WindowEnd /\ now - WindowEnd <= CloseDelay
    /\ decision = None /\ plan = None
    /\ \E n \in view.neurons : n.hotkey = Validator /\ n.active
    /\ WeightTargets(view, Validator) # {}
    /\ coord' = [Absent EXCEPT !.pc = "list", !.at = now, !.view = view]
    /\ windows' = windows + 1
    /\ UNCHANGED <<decision, plan>>

ListEpochs ==
    /\ coord.pc = "list"
    /\ coord' = [coord EXCEPT !.pc = "read",
                              !.names = {e \in Epochs : outputs["organic"][e] # None}]
    /\ UNCHANGED <<decision, plan, windows>>

(* Every listed file must parse, in the window or not; those in it are kept. *)
ReadEpoch ==
    LET e == Min(coord.names)
        file == outputs["organic"][e]
    IN  /\ coord.pc = "read" /\ coord.names # {}
        /\ IF file = Torn THEN Refuse
           ELSE coord' = [coord EXCEPT !.names = @ \ {e},
                             !.records = IF e \in Window THEN @ \cup {file} ELSE @]
        /\ UNCHANGED <<decision, plan, windows>>

Probed(records) == {o.manifest : o \in UNION {rec.obs : rec \in records}}

Whole(id) == archive["organic"][id] = "whole"

(* Mutant: the terminal manifest is verified without the accepted history. *)
BindFresh ==
    /\ coord.pc = "read" /\ coord.names = {}
    /\ IF (\A id \in Probed(coord.records) : Whole(id)) /\ roots["organic"].state # None
       THEN coord' = [coord EXCEPT !.pc = "terminal", !.state = InitialState(Policy)]
       ELSE Refuse
    /\ UNCHANGED <<decision, plan, windows>>

(* Every manifest the records name is archived; the probe state is bound to   *)
(* the policy and not empty.                                                  *)
Bind ==
    /\ coord.pc = "read" /\ coord.names = {}
    /\ IF (\A id \in Probed(coord.records) : Whole(id)) /\ roots["organic"].state # None
       THEN coord' = [coord EXCEPT !.pc = "terminal", !.state = roots["organic"].state]
       ELSE Refuse
    /\ UNCHANGED <<decision, plan, windows>>

(* What the fetch at the close amounts to. *)
Terminal(m) ==
    LET good == m.channel = "organic" /\ Verified(m, Policy, coord.state, coord.at, coord.view.height)
    IN  IF m = None THEN [status |-> "unavailable", manifest |-> None]
        ELSE [status |-> IF good THEN "verified" ELSE "rejected",
              manifest |-> IF good THEN m ELSE None]

Replays(records) ==
    \A rec \in records :
        EpochAccepted({m \in Manifests : m.id \in Probed({rec}) /\ Whole(m.id)},
                      rec.obs, rec.epoch, EpochTicks)

(* decide_weight_submission over everything read. *)
Decision(terminal) ==
    LET rows == Rows(coord.view, Validator, coord.records, Limits.attempts)
        reasons == AbstainReasons(terminal, coord.at, WindowEnd, Policy, coord.view,
                                  coord.records, rows, Limits)
    IN  [submit |-> reasons = {}, reasons |-> reasons, rows |-> rows,
         records |-> coord.records, view |-> coord.view, terminal |-> terminal]

(* Decide, and open the decision file; a submission whose plan cannot be      *)
(* built is refused before anything is written.                               *)
Decide(m) ==
    LET d == Decision(Terminal(m))
        sound == /\ WindowAccepted(coord.records) /\ Replays(coord.records)
                 /\ d.submit => PlanAccepted(coord.view, Validator, d.rows)
    IN  /\ coord.pc = "terminal"
        /\ IF sound /\ decision = None
           THEN /\ coord' = [coord EXCEPT !.pc = "decided", !.verdict = d]
                /\ decision' = Torn
           ELSE Refuse /\ UNCHANGED decision
        /\ UNCHANGED <<plan, windows>>


WriteDecision ==
    /\ coord.pc = "decided"
    /\ decision' = coord.verdict
    /\ IF coord.verdict.submit THEN coord' = [coord EXCEPT !.pc = "plan"] ELSE Refuse
    /\ UNCHANGED <<plan, windows>>

OpenPlan ==
    /\ coord.pc = "plan"
    /\ plan' = Torn
    /\ coord' = [coord EXCEPT !.pc = "planning"]
    /\ UNCHANGED <<decision, windows>>

WritePlan ==
    /\ coord.pc = "planning"
    /\ plan' = PlanOf(coord.verdict.view, coord.verdict.rows)
    /\ Refuse
    /\ UNCHANGED <<decision, windows>>

CrashWindow ==
    /\ coord.pc # "idle" /\ spent.faults < MaxFaults
    /\ spent' = [spent EXCEPT !.faults = @ + 1]
    /\ Refuse
    /\ UNCHANGED <<now, seed, roots, archive, outputs, water, journal, procs, decision,
                   plan, windows>>

WindowStep ==
    \/ \E view \in Views : OpenWindow(view)
    \/ ListEpochs
    \/ ReadEpoch
    \/ Bind
    \/ \E m \in Manifests \cup {None} : Decide(m)
    \/ WriteDecision
    \/ OpenPlan
    \/ WritePlan

WindowNext ==
    \/ ProbeNext /\ UNCHANGED wvars
    \/ WindowStep /\ UNCHANGED pvars
    \/ CrashWindow

WindowSpec == WindowInit /\ [][WindowNext]_allvars

------------------------------------------------------------------------------
Decided == decision \notin {None, Torn}

(* A submission never rests on a terminal manifest older than its evidence:   *)
(* the records are read before the probe state, the state is installed before *)
(* the first probe, and the terminal manifest must follow that state          *)
(* (execute_organic_window: collect_window_epochs, read_probe_state,          *)
(* _terminal_observation).                                                    *)
TerminalNotOlder ==
    Decided /\ decision.submit =>
        \A m \in Manifests :
            m.id \in Probed(decision.records) => m.seq <= decision.terminal.manifest.seq

(* Weight is earned: whoever has weight in the plan answered a probe of the   *)
(* window correctly and has no fraud evidence in it, and the weights of a     *)
(* plan add up to one (_derive_rows, aggregate_organic_window,                *)
(* build_weight_plan).                                                        *)
WeightsEarned ==
    plan \notin {None, Torn} =>
        /\ \A w \in plan.weights :
              /\ \E rec \in decision.records : \E o \in rec.obs :
                    o.replica.hotkey = w.hotkey /\ o.code = "none" /\ rec.epoch \in Window
              /\ \A rec \in decision.records : \A o \in rec.obs :
                    o.replica.hotkey = w.hotkey => o.code # "attestation_fraud"
        /\ LET sum == FoldSet(LAMBDA w, acc : AddFraction(w.weight, acc), <<0, 1>>,
                              plan.weights)
           IN  sum[1] = sum[2]

(* There is a plan file only beside a complete decision to submit, at every   *)
(* point a crash may fall (execute_organic_window writes the decision first). *)
PlanBacked == plan # None => Decided /\ decision.submit

(* A decision to submit stands before anything is built on it, and stands on  *)
(* the newest manifest its evidence knows.                                    *)
DecisionStands == TerminalNotOlder /\ PlanBacked

=============================================================================
