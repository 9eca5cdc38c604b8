------------------------------- MODULE Harness -------------------------------
(***************************************************************************)
(* The process of the conformance harness: crossref/src/bin/layer2.rs with *)
(* the topology it brings up and tears down (layer2/compose.rs), the       *)
(* scenarios it runs against our server and the reference (layer2/mod.rs)  *)
(* and the clients it starts (layer2/interop.rs), and the layer-1 replay   *)
(* (tests/layer1_replay.rs); both keep baselines, evidence and statuses in *)
(* the snapshot store (snapshot.rs).  One of the two runs at a time, and   *)
(* it may be killed at any step.                                           *)
(*                                                                         *)
(* Worlds[w] gives the scenarios, the clients, the options of the command  *)
(* lines and how often things happen:                                      *)
(*   [scenarios, clients, options, replays, bounds]                        *)
(* Responses[w][name] is what may come back in a scenario, [our, cxf], the *)
(* sites a WSDL may be fetched from, or the outputs of a client.           *)
(*                                                                         *)
(* What is read out of a document is left open here; Conformance says it.  *)
(***************************************************************************)
EXTENDS Naturals, FiniteSets, SequencesExt, Verdict

CONSTANTS
    Worlds, Responses,
    Refused,       \* the response to a replayed token
    MaxPolls,      \* polls before wait_healthy gives up
    Missing,       \* no file, no response, no verdict yet
    Torn           \* a file that was not written to the end

CONSTANTS
    Looked(_, _),  \* (scenario, response): what the judge sees of a response
    Served(_, _),  \* (site, path): the answer to GET path?wsdl
    RewriteHolds(_, _), \* (scenario, body): a WSDL is valid and its addresses are ours
    EvidenceOf(_), \* (output): the forms the output of a client may be kept in
    Captured(_, _) \* (scenario, response): its snapshot, Missing if an assertion fails

(* Scenarios and clients go by names of their own.  Tokens are sent with   *)
(* requests that are not for a WSDL, and get the answer of a replay only   *)
(* if they are replayed.                                                   *)
ASSUME WorldsAssumption ==
    /\ Missing \notin {0, 1}
    /\ \A w \in DOMAIN Worlds :
          LET scenarios == Worlds[w].scenarios
              clients   == Worlds[w].clients
          IN  /\ scenarios \in Seq(ToSet(scenarios)) /\ clients \in Seq(ToSet(clients))
              /\ \A i, j \in DOMAIN scenarios : scenarios[i].name = scenarios[j].name => i = j
              /\ IsInjective(clients)
              /\ \A sc \in ToSet(scenarios) : sc.name \notin ToSet(clients)
              /\ \A sc \in ToSet(scenarios) :
                    sc.token => sc.kind # "wsdl" /\ Refused \notin Responses[w][sc.name].our
              /\ \A o \in Worlds[w].options : DOMAIN o = {"promote", "keepUp", "filter", "interop"}

VARIABLES
    world,         \* a name of Worlds
    phase,         \* "idle"; layer 2: "clearing", "starting", "waiting", "running",
                   \* "clients", "dropping"; layer 1: "replaying", "marking"
    options,       \* [promote, keepUp, filter, interop], or [regen]
    topology,      \* [up, seen, leaked]: containers, the tokens they have seen
    polls,         \* polls of wait_healthy so far
    todo,          \* scenarios, then clients, still to be run
    step,          \* of a scenario: "none", "post", "judge"; "evidence", "status", "done"
    job,           \* what it has: [responses, valid, verdict, evidence]
    rows,          \* the report's verdicts, by scenario
    unverified,    \* unverified_remaining
    report,        \* [exit, complete]: the exit code, and the claim printed
    store,         \* [snapshot, canonical, status], by scenario
    past,          \* [passed, baseline, torn]: what the store is held against
    left           \* [runs, kills] that may still happen

vars == <<world, phase, options, topology, polls, todo, step, job, rows, unverified,
          report, store, past, left>>

World == Worlds[world]
InScope == World.scenarios
Names == {InScope[i].name : i \in DOMAIN InScope} \cup ToSet(World.clients)
ScenarioOf(name) == CHOOSE sc \in ToSet(InScope) : sc.name = name

NoJob ==
    [responses |-> [side \in Sides |-> Missing], valid |-> Missing, verdict |-> Missing, evidence |-> Missing]
NoReport == [exit |-> Missing, complete |-> FALSE]

Init ==
    /\ world \in DOMAIN Worlds
    /\ phase = "idle" /\ options = Missing
    /\ topology = [up |-> FALSE, seen |-> {}, leaked |-> FALSE]
    /\ polls = 0 /\ todo = <<>> /\ step = "none" /\ job = NoJob
    /\ rows = <<>> /\ unverified = 0 /\ report = NoReport
    /\ store = [snapshot |-> [n \in Names |-> Missing], canonical |-> [n \in Names |-> Missing],
                status |-> <<>>]
    /\ past = [passed |-> [n \in Names |-> {}], baseline |-> [n \in Names |-> Missing], torn |-> {}]
    /\ left = World.bounds

-----------------------------------------------------------------------------
(* The topology.  leaked says that `down` has failed over the containers   *)
(* that are up.                                                            *)

Exit(code) ==
    /\ phase' = "idle" /\ todo' = <<>>
    /\ report' = [report EXCEPT !.exit = code]

StartLayer2 ==
    /\ phase = "idle" /\ left.runs > 0
    /\ options' \in World.options
    /\ phase' = "clearing" /\ rows' = <<>> /\ unverified' = 0 /\ report' = NoReport
    /\ left' = [left EXCEPT !.runs = @ - 1]
    /\ UNCHANGED <<world, topology, polls, todo, step, job, store, past>>

(* docker compose down -v; that it failed is ignored by both callers.      *)
Down ==
    \/ topology' = [up |-> FALSE, seen |-> {}, leaked |-> FALSE]
    \/ topology' = [topology EXCEPT !.leaked = topology.up]

(* Left-overs are not looked for.                                          *)
MutantClear == phase = "clearing" /\ phase' = "starting" /\ UNCHANGED <<world, options, topology,
    polls, todo, step, job, rows, unverified, report, store, past, left>>

Clear ==
    /\ phase = "clearing" /\ phase' = "starting"
    /\ Down
    /\ UNCHANGED <<world, options, polls, todo, step, job, rows, unverified, report, store, past, left>>

(* Containers that are still up are not created anew.  After a failure     *)
(* there is no Topology to drop: what came up stays up.                    *)
Up ==
    /\ phase = "starting"
    /\ \/ /\ topology' = [topology EXCEPT !.up = TRUE]
          /\ phase' = "waiting" /\ polls' = 0
          /\ UNCHANGED <<todo, report>>
       \/ /\ \E up \in {topology.up, TRUE} : topology' = [topology EXCEPT !.up = up]
          /\ Exit(2)
          /\ UNCHANGED polls
    /\ UNCHANGED <<world, options, step, job, rows, unverified, store, past, left>>

(* The names a filter lets through.                                        *)
Chosen(scenarios, filter) ==
    LET chosen[i \in 0 .. Len(scenarios)] ==
            IF i = 0 THEN <<>>
            ELSE IF filter = Missing \/ scenarios[i].name \in filter
            THEN Append(chosen[i - 1], scenarios[i].name) ELSE chosen[i - 1]
    IN  chosen[Len(scenarios)]

Selected == Chosen(InScope, options.filter)

(* docker may also fail to be started; there is nothing to drop then.      *)
WaitHealthy ==
    /\ phase = "waiting"
    /\ \/ /\ phase' = "running"
          /\ todo' = Selected
          /\ UNCHANGED <<polls, report>>
       \/ /\ polls < MaxPolls /\ polls' = polls + 1
          /\ UNCHANGED <<phase, todo, report>>
       \/ /\ Exit(2)
          /\ UNCHANGED polls
    /\ UNCHANGED <<world, options, topology, step, job, rows, unverified, store, past, left>>

-----------------------------------------------------------------------------
(* One scenario.                                                           *)

Doing == Head(todo)
Scenario == ScenarioOf(Doing)
AtScenario(s) == phase = "running" /\ todo # <<>> /\ step = s

Idle == UNCHANGED <<world, phase, options, polls, unverified, report, left>>

(* What the harness failed at is tried again.                              *)
MutantConclude(verdict) ==
    /\ IF verdict = "HarnessError" THEN UNCHANGED <<rows, todo>>
       ELSE rows' = Append(rows, <<Doing, verdict>>) /\ todo' = Tail(todo)
    /\ step' = "none" /\ job' = NoJob

Conclude(verdict) ==
    /\ rows' = Append(rows, <<Doing, verdict>>)
    /\ todo' = Tail(todo) /\ step' = "none" /\ job' = NoJob

HarnessError == Conclude("HarnessError") /\ Idle /\ UNCHANGED <<store, past>>

(* The scenario's files cannot be read; those of a WSDL scenario are not.  *)
LoadFails ==
    /\ AtScenario("none") /\ Scenario.kind # "wsdl" /\ ~Scenario.files
    /\ HarnessError /\ UNCHANGED topology

Seen == IF Scenario.token THEN topology.seen \cup {Doing} ELSE topology.seen

(* A server, or the oracle, does not answer; our server may have read the  *)
(* request.                                                                *)
CallFails ==
    /\ \E s \in {"none", "post", "judge"} : AtScenario(s)
    /\ Scenario.kind = "wsdl" \/ Scenario.files
    /\ \E seen \in {topology.seen, Seen} : topology' = [topology EXCEPT !.seen = seen]
    /\ HarnessError

(* A token that the running server has seen is a replay.                   *)
OurResponses ==
    IF Scenario.token /\ Doing \in topology.seen THEN {Refused} ELSE Responses[world][Doing].our

PostOur ==
    /\ AtScenario("none") /\ Scenario.kind # "wsdl" /\ Scenario.files
    /\ \E r \in OurResponses : job' = [job EXCEPT !.responses["our"] = r]
    /\ topology' = [topology EXCEPT !.seen = Seen]
    /\ step' = "post"
    /\ Idle /\ UNCHANGED <<todo, rows, store, past>>

PostCxf ==
    /\ AtScenario("post")
    /\ \E r \in Responses[world][Doing].cxf : job' = [job EXCEPT !.responses["cxf"] = r]
    /\ step' = "judge"
    /\ Idle /\ UNCHANGED <<topology, todo, rows, store, past>>

(* A WS-Security response that is not valid is not canonicalized.          *)
Skipped(look) == Scenario.kind = "wssec" /\ ~look.valid

(* A verdict is given; a Pass leads to promotion if that is asked for.     *)
Give(verdict, evidence, valid) ==
    /\ job' = [job EXCEPT !.valid = valid, !.verdict = verdict, !.evidence = evidence]
    /\ step' = IF verdict = "Pass" /\ options.promote THEN "evidence" ELSE "done"
    /\ past' = [past EXCEPT !.passed[Doing] = IF verdict = "Pass" THEN @ \cup {evidence} ELSE @]

(* Validation, masks, canonicalization, verdict.                           *)
JudgeScenario ==
    /\ AtScenario("judge") /\ Scenario.kind # "wsdl"
    /\ \E looks \in {[side \in Sides |-> Looked(Scenario, job.responses[side])]} :
          IF \E side \in Sides : ~looks[side].canonicalized /\ ~Skipped(looks[side]) THEN HarnessError
          ELSE /\ Give(Judge(Scenario, looks), looks["our"].canon, [side \in Sides |-> looks[side].valid])
               /\ Idle /\ UNCHANGED <<todo, rows, store>>
    /\ UNCHANGED topology

-----------------------------------------------------------------------------
(* A WSDL scenario.                                                        *)

FetchWsdl ==
    /\ AtScenario("none") /\ Scenario.kind = "wsdl"
    /\ \E site \in Responses[world][Doing] :
          LET r == Served(site, Scenario.path) IN
          IF r.status # 200 THEN HarnessError
          ELSE /\ job' = [job EXCEPT !.responses["our"] = [status |-> 200, body |-> r.body, site |-> site]]
               /\ step' = "judge"
               /\ Idle /\ UNCHANGED <<todo, rows, store, past>>
    /\ UNCHANGED topology

JudgeRewrite ==
    /\ AtScenario("judge") /\ Scenario.kind = "wsdl"
    /\ LET body == job.responses["our"].body IN
       Give(IF RewriteHolds(Scenario, body) THEN "Pass" ELSE "SutFail", body, Missing)
    /\ Idle /\ UNCHANGED <<topology, todo, rows, store>>

-----------------------------------------------------------------------------
(* The clients, after the scenarios: the count of what is unverified is    *)
(* taken before they run.                                                  *)

UnverifiedCount == Cardinality({n \in DOMAIN store.status : store.status[n] = "unverified"})

FinishScenarios ==
    /\ phase = "running" /\ todo = <<>>
    /\ unverified' = UnverifiedCount
    /\ phase' = "clients" /\ todo' = IF options.interop THEN World.clients ELSE <<>>
    /\ UNCHANGED <<world, options, topology, polls, step, job, rows, report, store, past, left>>

RunClient ==
    /\ phase = "clients" /\ todo # <<>> /\ step = "none"
    /\ \E output \in Responses[world][Doing] :
          CASE output.exit = 0 -> \E e \in EvidenceOf(output) : Give("Pass", e, Missing)
            [] output.exit \in {125, 126, 127} -> Give("HarnessError", Missing, Missing)
            [] output.exit \notin {0, 125, 126, 127} -> Give("SutFail", Missing, Missing)
    /\ Idle /\ UNCHANGED <<topology, todo, rows, store>>

(* Every row is a Pass or a known divergence.                              *)
MutantIsGreen(verdicts) == verdicts \cap {"SutFail", "HarnessError"} = {}

IsGreen(verdicts) == verdicts \subseteq {"Pass", "KnownDivergence"}

PrintReport ==
    /\ phase = "clients" /\ todo = <<>>
    /\ LET green == IsGreen({rows[i][2] : i \in DOMAIN rows}) IN
       report' = [exit |-> IF green THEN 0 ELSE 1, complete |-> green /\ unverified = 0]
    /\ phase' = "dropping"
    /\ UNCHANGED <<world, options, topology, polls, todo, step, job, rows, unverified, store, past, left>>

(* std::process::exit runs no destructors.                                 *)
MutantDrop ==
    /\ phase = "dropping" /\ phase' = "idle"
    /\ UNCHANGED <<world, options, topology, polls, todo, step, job, rows, unverified, report, store, past, left>>

Drop ==
    /\ phase = "dropping" /\ phase' = "idle"
    /\ IF options.keepUp THEN UNCHANGED topology ELSE Down
    /\ UNCHANGED <<world, options, polls, todo, step, job, rows, unverified, report, store, past, left>>

-----------------------------------------------------------------------------
(* The snapshot store.  Every write may fail; promotion gives up then, and *)
(* the verdict stands.  A file that is not written to the end is as it     *)
(* was, or cut short: a status.toml that does not parse counts as empty.   *)

Promoting(s) == step = s /\ phase \in {"running", "clients"}

NotWritten ==
    {store} \cup
    (CASE Promoting("evidence") -> {[store EXCEPT !.canonical[Doing] = Torn]}
       [] Promoting("status") \/ phase = "marking" -> {[store EXCEPT !.status = <<>>]}
       [] phase = "replaying" /\ todo # <<>> ->
              IF options.regen THEN {[store EXCEPT !.snapshot[Doing] = Torn]} ELSE {}
       [] OTHER -> {})

(* A capture that ends between its two writes, or within the first.        *)
CutOff ==
    IF phase = "marking" \/ store'.snapshot # store.snapshot
    THEN [past EXCEPT !.torn = @ \cup {Doing}] ELSE past
Kept == Idle /\ UNCHANGED <<topology, todo, job, rows>>

SetStatus(status) ==
    [store EXCEPT !.status = [n \in DOMAIN store.status \cup {Doing} |->
                                 IF n = Doing THEN status ELSE store.status[n]]]

(* The evidence is taken for written though it was not.                    *)
MutantWriteCanonical ==
    /\ Promoting("evidence")
    /\ \/ store' = [store EXCEPT !.canonical[Doing] = job.evidence]
       \/ UNCHANGED store
    /\ step' = "status" /\ Kept /\ UNCHANGED past

WriteCanonical ==
    /\ Promoting("evidence")
    /\ \/ store' = [store EXCEPT !.canonical[Doing] = job.evidence] /\ step' = "status"
       \/ step' = "done" /\ store' \in NotWritten
    /\ Kept /\ UNCHANGED past

WriteVerified ==
    /\ Promoting("status")
    /\ \/ /\ store' = SetStatus("verified")
          /\ past' = [past EXCEPT !.baseline[Doing] = store.snapshot[Doing], !.torn = @ \ {Doing}]
       \/ store' \in NotWritten /\ UNCHANGED past
    /\ step' = "done" /\ Kept

Record ==
    /\ Promoting("done")
    /\ Conclude(job.verdict)
    /\ Idle /\ UNCHANGED <<topology, store, past>>

-----------------------------------------------------------------------------
(* Layer 1: every scenario is replayed against a server of its own, and    *)
(* compared with the snapshot, or captured (CROSSREF_REGEN).               *)

StartReplay ==
    /\ phase = "idle" /\ left.runs > 0
    /\ \E regen \in World.replays : options' = [regen |-> regen]
    /\ phase' = "replaying" /\ todo' = [i \in DOMAIN InScope |-> InScope[i].name]
    /\ rows' = <<>> /\ unverified' = 0 /\ report' = NoReport
    /\ left' = [left EXCEPT !.runs = @ - 1]
    /\ UNCHANGED <<world, topology, polls, step, job, store, past>>

Replayed ==
    IF Scenario.kind = "wsdl" THEN Responses[world][Doing] ELSE Responses[world][Doing].our

(* An assertion that fails ends the test, and so does a scenario without   *)
(* files: when the loop comes to it, although a scenario file that cannot  *)
(* be read ends it before anything is replayed (load_scenarios).           *)
ReplayScenario ==
    /\ phase = "replaying" /\ todo # <<>>
    /\ \E r \in Replayed :
          LET captured == Captured(Scenario, r)
              frozen   == store.snapshot[Doing]
          IN  IF ~Scenario.files \/ captured = Missing \/ (frozen # captured /\ ~options.regen)
              THEN Exit(1) /\ UNCHANGED <<store, past>>
              ELSE IF frozen = captured
              THEN todo' = Tail(todo) /\ UNCHANGED <<phase, report, store, past>>
              ELSE \/ /\ store' = [store EXCEPT !.snapshot[Doing] = captured]
                      /\ phase' = "marking" /\ UNCHANGED <<todo, report, past>>
                   \/ Exit(1) /\ store' \in NotWritten /\ past' = CutOff
    /\ UNCHANGED <<world, options, topology, polls, step, job, rows, unverified, left>>

(* A changed snapshot keeps the status it has.                             *)
MutantMark ==
    /\ phase = "marking" /\ phase' = "replaying" /\ todo' = Tail(todo)
    /\ UNCHANGED <<world, options, topology, polls, step, job, rows, unverified, report, store, past, left>>

Mark ==
    /\ phase = "marking"
    /\ \/ /\ store' = SetStatus("unverified")
          /\ phase' = "replaying" /\ todo' = Tail(todo)
          /\ UNCHANGED <<report, past>>
       \/ Exit(1) /\ store' \in NotWritten /\ past' = CutOff
    /\ UNCHANGED <<world, options, topology, polls, step, job, rows, unverified, left>>

FinishReplay ==
    /\ phase = "replaying" /\ todo = <<>>
    /\ Exit(0)
    /\ UNCHANGED <<world, options, topology, polls, step, job, rows, unverified, store, past, left>>

-----------------------------------------------------------------------------
(* The process is killed.  The containers stay.                            *)
Kill ==
    /\ phase # "idle" /\ left.kills > 0
    /\ store' \in NotWritten
    /\ past' = CutOff
    /\ phase' = "idle" /\ todo' = <<>> /\ step' = "none" /\ job' = NoJob
    /\ report' = [report EXCEPT !.exit = Missing]
    /\ left' = [left EXCEPT !.kills = @ - 1]
    /\ UNCHANGED <<world, options, topology, polls, rows, unverified>>

(* What the process does by itself.                                        *)
Step ==
    \/ Clear \/ Up \/ WaitHealthy
    \/ LoadFails \/ CallFails \/ PostOur \/ PostCxf \/ JudgeScenario
    \/ FetchWsdl \/ JudgeRewrite
    \/ WriteCanonical \/ WriteVerified \/ Record
    \/ FinishScenarios \/ RunClient \/ PrintReport \/ Drop
    \/ ReplayScenario \/ Mark \/ FinishReplay

Next == StartLayer2 \/ StartReplay \/ Step \/ Kill

(* Every call of docker and every request ends, the latter by the timeout  *)
(* of the HTTP client; so the process always goes on.                      *)
Spec == Init /\ [][Next]_vars /\ WF_vars(Step)

-----------------------------------------------------------------------------
(* A status says "verified" only over the evidence of a scenario that      *)
(* passed, or over a file that was cut short and shows it: in whatever     *)
(* order writes fail and processes die, and whoever ran before             *)
(* (promote.rs, snapshot.rs).                                              *)
EvidenceSound ==
    \A n \in DOMAIN store.status :
        store.status[n] = "verified" => store.canonical[n] \in past.passed[n] \cup {Torn}

(* A snapshot that was captured anew is not mistaken for conformance       *)
(* evidence: between runs a "verified" scenario has the snapshot it had    *)
(* when it was promoted, unless the capture was cut off between its two    *)
(* writes (snapshot.rs write_unverified, report.rs).                       *)
BaselineMarked ==
    phase = "idle" =>
        \A n \in DOMAIN store.status :
            store.status[n] = "verified" => store.snapshot[n] = past.baseline[n] \/ n \in past.torn

(* Exit code 0 of layer2 means that every scenario and client asked for    *)
(* was run and passed; 1 that one was not (report.rs is_green, layer2.rs). *)
ExitHonest ==
    phase \in {"idle", "dropping"} /\ options # Missing /\ "promote" \in DOMAIN options =>
        LET asked == ToSet(Selected)
                         \cup (IF options.interop THEN ToSet(World.clients) ELSE {})
            passed == {rows[i][1] : i \in {j \in DOMAIN rows : rows[j][2] = "Pass"}}
        IN  /\ report.exit = 0 => asked \subseteq passed
            /\ report.exit = 1 => ~(asked \subseteq passed)

(* The tokens of the fixtures are the same in every run: none is refused   *)
(* as a replay unless containers outlived a `docker compose down` that     *)
(* failed (compose.rs Topology::up).                                       *)
TokensFresh ==
    step # "none" /\ phase = "running" /\ Scenario.token /\ job.responses["our"] # Missing
      /\ job.responses["our"] = Refused => topology.leaked

(* Containers outlive a run that came to its verdicts only if asked to, or *)
(* if docker failed to remove them (layer2.rs, Drop of Topology).          *)
TornDown ==
    phase = "idle" /\ options # Missing /\ report.exit \in {0, 1} /\ "keepUp" \in DOMAIN options =>
        (topology.up => options.keepUp \/ topology.leaked)

(* A run comes to its end, healthy topology or not.                        *)
RunEnds == phase # "idle" ~> phase = "idle"

(* Self-captured baselines are never mistaken for conformance evidence     *)
(* (report.rs:1-3): the summary says that all scenarios are verified only  *)
(* if the status of every snapshot there is says so.                       *)
CompletionClaim ==
    report.complete /\ phase = "dropping" =>
        \A n \in Names : store.snapshot[n] # Missing => n \in DOMAIN store.status /\ store.status[n] = "verified"

=============================================================================
