-------------------------- MODULE MCWindowDecision --------------------------
EXTENDS WindowDecision

Replica(endpoint, uid, hotkey, app, expires) ==
    [endpoint |-> endpoint, uid |-> uid, hotkey |-> hotkey, key |-> hotkey, nonce |-> endpoint,
     activated |-> 0, expires |-> expires, block |-> 9, app |-> app]

Manifest(channel, id, seq, prev, issued, expires, replicas) ==
    [channel |-> channel, id |-> id, seq |-> seq, prev |-> prev, height |-> 5, hash |-> "h5",
     fepoch |-> 1, issued |-> issued, expires |-> expires, policy |-> "p",
     replicas |-> replicas, signers |-> {"k"}]

A == Replica(1, 1, "a", "x", 9)
B == Replica(2, 2, "b", "y", 9)
S == Replica(1, 1, "a", "site", 9)

MCManifests ==
    {Manifest("organic", "m1", 1, "none", 1, 9, {A, B}),
     Manifest("organic", "m2", 2, "m1", 2, 9, {A}),
     Manifest("organic", "m2b", 2, "m1", 2, 9, {B}),
     Manifest("static", "s1", 1, "none", 1, 9, {S}),
     Manifest("static", "s2", 2, "s1", 2, 9, {S})}

MCPolicy ==
    [id |-> "p", from |-> 0, until |-> 99, lifetime |-> 20, skew |-> 0, age |-> 20,
     seqGap |-> 2, heightGap |-> 2, threshold |-> 1, roles |-> {"publisher"},
     keys |-> [k \in {"k"} |-> [from |-> 0, until |-> 99, revoked |-> 99,
                               roles |-> {"publisher"}]]]

Snapshot(seq, issued, revoked) == [seq |-> seq, issued |-> issued, revoked |-> revoked]
MCSnapshots == {Snapshot(1, 1, {}), Snapshot(2, 1, {"site"}), Snapshot(3, 2, {})}

Good == [late |-> FALSE, failure |-> "none", pinned |-> TRUE, marked |-> TRUE,
         oversized |-> FALSE, attestations |-> 1, signed |-> TRUE, bound |-> TRUE,
         matches |-> TRUE, expected |-> TRUE, found |-> TRUE]
MCAnswers == {Good, [Good EXCEPT !.late = TRUE], [Good EXCEPT !.bound = FALSE]}

Neuron(uid, hotkey) == [uid |-> uid, hotkey |-> hotkey, active |-> TRUE, permit |-> uid = 0]
View(height, neurons) ==
    [height |-> height, hash |-> "h5", fepoch |-> 1, tempo |-> 8, neurons |-> neurons]
MCViews == {View(5, {Neuron(0, "v"), Neuron(1, "a"), Neuron(2, "b")})}

(* One run looks at three lanes: a window beside one program at a time, with  *)
(* good answers in the second epoch; two programs at once on the organic root *)
(* with a forked publication; and one program at a time that has a static     *)
(* part, where the organic part meets one manifest and good answers.          *)
VARIABLE lane

Running == {s \in Slots : procs[s].kind # "none"}

Lane ==
    /\ \A s \in Running : procs[s].kind \in
          IF lane = "static" THEN {"both", "static"} ELSE {"organic", "handoff"}
    /\ lane # "window" => coord.pc = "idle"
    /\ lane # "organic" => Running \subseteq {1}
    /\ procs[1].kind = "both" => procs[1].epoch = 1
    /\ LET t == procs[1].threads["organic"]
       IN  /\ lane = "window" /\ t.head # None => t.head.id # "m2b"
           /\ lane = "static" /\ t.head # None => t.head.id = "m1"
           /\ lane = "static" \/ (lane = "window" /\ procs[1].epoch = 2)
                => \A o \in t.obs : o.code = "none"

(* Idle slots are interchangeable: a program takes the first one. *)
FirstSlot == Running = {} => procs'[2].kind = "none"

MCVars == <<now, seed, roots, archive, outputs, water, journal, procs, spent,
            coord, decision, plan, windows, lane>>
MCInit == WindowInit /\ lane \in {"window", "organic", "static"}
MCNext == UNCHANGED lane /\ WindowNext /\ Lane' /\ FirstSlot
MCSpec == MCInit /\ [][MCNext]_MCVars /\ ProbeFair

MCLimits == [gap |-> 2, attempts |-> 1, scored |-> 1]

=============================================================================
