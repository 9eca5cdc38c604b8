---------------------------- MODULE HarnessProofs ----------------------------
(***************************************************************************)
(* Proofs of the safety properties of Harness, for every set of scenarios  *)
(* and clients, every filter and all options, any number of runs and       *)
(* kills, and whatever the documents are found to say.                     *)
(***************************************************************************)
EXTENDS Harness, SequenceTheorems, WellFoundedInduction, TLAPS

-----------------------------------------------------------------------------
(* Sequences.                                                              *)

(* A set of numbers has a least one.                                       *)
LEMMA Least ==
    ASSUME NEW T \in SUBSET Nat, T # {}
    PROVE  \E x \in T : \A y \in T : x <= y
  <1>1. PICK x \in T : \A y \in T : ~(<<y, x>> \in OpToRel(<, Nat))
    BY WFMin, NatLessThanWellFounded
  <1>2. ASSUME NEW y \in T, y < x PROVE FALSE
    BY <1>1, <1>2 DEF OpToRel
  <1> QED BY <1>2

(* A set that has 0, and with a number the next up to n, has them all.     *)
LEMMA UpTo ==
    ASSUME NEW n \in Nat, NEW T, 0 \in T, \A k \in 0 .. n - 1 : k \in T => k + 1 \in T
    PROVE  \A k \in 0 .. n : k \in T
  <1> DEFINE M == {k \in 0 .. n : k \notin T}
  <1>1. SUFFICES ASSUME M # {} PROVE FALSE
    OBVIOUS
  <1>2. M \in SUBSET Nat
    OBVIOUS
  <1>3. PICK x \in M : \A y \in M : x <= y
    <2> HIDE DEF M
    <2> QED BY <1>1, <1>2, Least
  <1>4. x # 0 /\ x - 1 \in 0 .. n - 1 /\ x - 1 \notin M
    BY <1>3
  <1> QED BY <1>3, <1>4

(* The domain of a sequence, and what is in it.                            *)
LEMMA OfSequence ==
    ASSUME NEW S, NEW s \in Seq(S)
    PROVE  /\ DOMAIN s = 1 .. Len(s) /\ Len(s) \in Nat
           /\ ToSet(s) \subseteq S
           /\ \A i \in DOMAIN s : s[i] \in ToSet(s)
           /\ s = <<>> <=> ToSet(s) = {}
  <1>1. PICK n \in Nat : n = Len(s)
    OBVIOUS
  <1>2. DOMAIN s = 1 .. n /\ (n = 0 <=> s = <<>>) /\ \A i \in 1 .. n : s[i] \in S
    BY <1>1
  <1>3. n # 0 => s[1] \in ToSet(s)
    BY <1>2 DEF ToSet
  <1>4. n = 0 => DOMAIN s = {}
    BY <1>2
  <1>5. n = 0 => ToSet(s) = {}
    BY <1>4 DEF ToSet
  <1>6. ToSet(s) \subseteq S /\ \A i \in DOMAIN s : s[i] \in ToSet(s)
    BY <1>2 DEF ToSet
  <1> QED BY <1>1, <1>2, <1>3, <1>5, <1>6

(* A sequence is a sequence of its elements.                               *)
LEMMA OfElements ==
    ASSUME NEW S, NEW s \in Seq(S), NEW T, ToSet(s) \subseteq T
    PROVE  s \in Seq(T)
  <1>1. PICK n \in Nat : n = Len(s)
    OBVIOUS
  <1>2. DOMAIN s = 1 .. n /\ s = [i \in 1 .. n |-> s[i]]
    BY <1>1
  <1>3. \A i \in 1 .. n : s[i] \in T
    BY <1>2 DEF ToSet
  <1>4. s \in [1 .. n -> T]
    BY <1>2, <1>3
  <1> QED BY <1>4, SeqDef

(* The head of a sequence without repetitions is not in its tail.          *)
LEMMA HeadAndTail ==
    ASSUME NEW S, NEW s \in Seq(S), s # <<>>, IsInjective(s)
    PROVE  /\ Head(s) \in ToSet(s) /\ Head(s) \in S /\ Tail(s) \in Seq(S) /\ IsInjective(Tail(s))
           /\ Head(s) \notin ToSet(Tail(s))
           /\ \A x : x \in ToSet(s) <=> x = Head(s) \/ x \in ToSet(Tail(s))
  <1>1. PICK n \in Nat : n = Len(s)
    OBVIOUS
  <1>2. PICK t : t = Tail(s)
    OBVIOUS
  <1>3. /\ DOMAIN s = 1 .. n /\ n > 0 /\ Head(s) = s[1]
        /\ t \in Seq(S) /\ DOMAIN t = 1 .. n - 1 /\ \A i \in 1 .. n - 1 : t[i] = s[i + 1]
    BY <1>1, <1>2
  <1>4. 1 \in DOMAIN s /\ Head(s) \in ToSet(s) /\ Head(s) \in S
    BY <1>1, <1>3 DEF ToSet
  <1>5. ASSUME NEW i \in DOMAIN t
        PROVE  i + 1 \in DOMAIN s /\ i + 1 # 1 /\ i \in Int /\ t[i] = s[i + 1] /\ t[i] \in ToSet(s)
    <2>1. i + 1 \in DOMAIN s /\ i + 1 # 1 /\ i \in Int /\ t[i] = s[i + 1]
      BY <1>3
    <2> QED BY <2>1 DEF ToSet
  <1>6. ASSUME NEW i \in DOMAIN s, i # 1 PROVE s[i] \in ToSet(t)
    <2>1. i \in 1 .. n
      BY <1>3
    <2>2. i - 1 \in 1 .. n - 1 /\ i - 1 + 1 = i
      BY <1>6, <2>1
    <2>3. i - 1 \in DOMAIN t /\ t[i - 1] = s[i]
      BY <1>3, <2>2
    <2> QED BY <2>3 DEF ToSet
  <1>7. \A x : x \in ToSet(s) <=> x = Head(s) \/ x \in ToSet(t)
    BY <1>3, <1>4, <1>5, <1>6 DEF ToSet
  <1>8. IsInjective(t)
    <2> SUFFICES ASSUME NEW i \in DOMAIN t, NEW j \in DOMAIN t, t[i] = t[j] PROVE i = j
      BY DEF IsInjective
    <2>1. i + 1 = j + 1
      BY <1>5 DEF IsInjective
    <2> QED BY <2>1, <1>5
  <1>9. Head(s) \notin ToSet(t)
    <2> SUFFICES ASSUME NEW i \in DOMAIN t, t[i] = s[1] PROVE FALSE
      BY <1>3 DEF ToSet
    <2> QED BY <1>4, <1>5 DEF IsInjective
  <1> QED BY <1>2, <1>3, <1>4, <1>7, <1>8, <1>9

(* What appending adds to a sequence.                                      *)
LEMMA Appended ==
    ASSUME NEW S, NEW s \in Seq(S), NEW x \in S
    PROVE  /\ Append(s, x) \in Seq(S)
           /\ \E n \in Nat : /\ DOMAIN s = 1 .. n /\ DOMAIN Append(s, x) = 1 .. n + 1
                             /\ Append(s, x)[n + 1] = x /\ \A i \in 1 .. n : Append(s, x)[i] = s[i]
  <1>1. PICK n \in Nat : n = Len(s)
    OBVIOUS
  <1>2. PICK t : t = Append(s, x)
    OBVIOUS
  <1>3. /\ t \in Seq(S) /\ DOMAIN s = 1 .. n /\ DOMAIN t = 1 .. n + 1
        /\ t[n + 1] = x /\ \A i \in 1 .. n : t[i] = s[i]
    BY <1>1, <1>2
  <1> QED BY <1>2, <1>3

-----------------------------------------------------------------------------
(* What a filter lets through.                                             *)

(* Chosen is defined by recursion on the number of scenarios.              *)
ChosenUpTo(scenarios, filter, f, k) ==
    f = [i \in 0 .. k |->
            IF i = 0 THEN <<>>
            ELSE IF filter = Missing \/ scenarios[i].name \in filter
            THEN Append(f[i - 1], scenarios[i].name) ELSE f[i - 1]]

(* A function with these equations exists.                                 *)
LEMMA ChosenExists ==
    ASSUME NEW scenarios, NEW filter, NEW n \in Nat
    PROVE  \E f : ChosenUpTo(scenarios, filter, f, n)
  <1> DEFINE T == {k \in 0 .. n : \E f : ChosenUpTo(scenarios, filter, f, k)}
             Next1(before, i) == IF filter = Missing \/ scenarios[i].name \in filter
                                 THEN Append(before, scenarios[i].name) ELSE before
  <1>1. 0 \in T
    <2> DEFINE f == [i \in 0 .. 0 |-> <<>>]
    <2>1. ChosenUpTo(scenarios, filter, f, 0)
      BY DEF ChosenUpTo
    <2> QED BY <2>1
  <1>2. ASSUME NEW k \in 0 .. n - 1, k \in T PROVE k + 1 \in T
    <2>1. PICK f : ChosenUpTo(scenarios, filter, f, k)
      BY <1>2
    <2> DEFINE g == [i \in 0 .. k + 1 |-> IF i = k + 1 THEN Next1(f[k], k + 1) ELSE f[i]]
    <2>2. \A i \in 0 .. k : g[i] = f[i]
      OBVIOUS
    <2>3. \A i \in 0 .. k : f[i] = IF i = 0 THEN <<>> ELSE Next1(f[i - 1], i)
      BY <2>1 DEF ChosenUpTo
    <2>4. g[k + 1] = Next1(f[k], k + 1)
      OBVIOUS
    <2> HIDE DEF Next1
    <2>5. ASSUME NEW i \in 0 .. k + 1
          PROVE  g[i] = IF i = 0 THEN <<>> ELSE Next1(g[i - 1], i)
      <3>1. CASE i = k + 1
        <4>1. i - 1 = k /\ i # 0 /\ g[i - 1] = f[k]
          BY <3>1, <2>2
        <4> HIDE DEF g
        <4> QED BY <3>1, <4>1, <2>4
      <3>2. CASE i # k + 1
        <4>1. i \in 0 .. k /\ (i # 0 => i - 1 \in 0 .. k)
          BY <3>2
        <4> HIDE DEF g
        <4>2. g[i] = f[i] /\ (i # 0 => g[i - 1] = f[i - 1])
          BY <4>1, <2>2
        <4> QED BY <4>1, <4>2, <2>3
      <3> QED BY <3>1, <3>2
    <2>6. g = [i \in 0 .. k + 1 |-> IF i = 0 THEN <<>> ELSE Next1(g[i - 1], i)]
      <3>1. g = [i \in 0 .. k + 1 |-> g[i]]
        OBVIOUS
      <3> HIDE DEF g
      <3> QED BY <3>1, <2>5
    <2>7. ChosenUpTo(scenarios, filter, g, k + 1)
      <3> HIDE DEF g
      <3> QED BY <2>6 DEF ChosenUpTo, Next1
    <2> HIDE DEF g
    <2> QED BY <1>2, <2>7
  <1>3. n \in 0 .. n
    OBVIOUS
  <1>4. n \in T
    <2> HIDE DEF T
    <2> QED BY <1>1, <1>2, <1>3, UpTo
  <1> QED BY <1>4

(* Names that are distinct are let through once each.                      *)
LEMMA ChosenOnce ==
    ASSUME NEW S, NEW scenarios \in Seq(S), NEW filter,
           \A i, j \in DOMAIN scenarios : scenarios[i].name = scenarios[j].name => i = j
    PROVE  /\ Chosen(scenarios, filter) \in Seq({scenarios[i].name : i \in DOMAIN scenarios})
           /\ IsInjective(Chosen(scenarios, filter))
  <1>1. PICK n \in Nat : n = Len(scenarios)
    OBVIOUS
  <1>2. DOMAIN scenarios = 1 .. n
    BY <1>1
  <1> DEFINE Of(k) == {scenarios[i].name : i \in 1 .. k}
             f == CHOOSE f : ChosenUpTo(scenarios, filter, f, n)
             T == {k \in 0 .. n : f[k] \in Seq(Of(k)) /\ IsInjective(f[k])}
  <1>3. ChosenUpTo(scenarios, filter, f, n)
    BY ChosenExists
  <1>4. Chosen(scenarios, filter) = f[n]
    BY <1>1 DEF Chosen, ChosenUpTo
  <1> HIDE DEF f
  <1>5. f[0] = <<>> /\ \A i \in 1 .. n :
            f[i] = IF filter = Missing \/ scenarios[i].name \in filter
                   THEN Append(f[i - 1], scenarios[i].name) ELSE f[i - 1]
    <2>1. \A i \in 0 .. n :
            f[i] = IF i = 0 THEN <<>>
                   ELSE IF filter = Missing \/ scenarios[i].name \in filter
                   THEN Append(f[i - 1], scenarios[i].name) ELSE f[i - 1]
      BY <1>3 DEF ChosenUpTo
    <2>2. 0 \in 0 .. n /\ \A i \in 1 .. n : i \in 0 .. n /\ i # 0
      OBVIOUS
    <2> QED BY <2>1, <2>2
  <1>6. 0 \in T
    <2>1. IsInjective(<<>>)
      <3>1. DOMAIN <<>> = {}
        OBVIOUS
      <3> QED BY <3>1, Zenon DEF IsInjective
    <2>2. <<>> \in Seq(Of(0)) /\ 0 \in 0 .. n
      <3> HIDE DEF Of
      <3> QED OBVIOUS
    <2> HIDE DEF Of
    <2>3. f[0] \in Seq(Of(0)) /\ IsInjective(f[0])
      BY <1>5, <2>1, <2>2
    <2> QED BY <2>2, <2>3
  <1>7. ASSUME NEW k \in 0 .. n - 1, k \in T PROVE k + 1 \in T
    <2>1. k + 1 \in 1 .. n /\ k + 1 - 1 = k /\ k \in Nat
      OBVIOUS
    <2>2. PICK s : s = f[k]
      OBVIOUS
    <2>3. PICK x : x = scenarios[k + 1].name
      OBVIOUS
    <2>4. Of(k) \subseteq Of(k + 1) /\ x \in Of(k + 1)
      BY <2>1, <2>3
    <2>5. x \notin Of(k)
      <3> SUFFICES ASSUME NEW i \in 1 .. k, scenarios[i].name = scenarios[k + 1].name PROVE FALSE
        BY <2>3
      <3>1. i \in 1 .. n /\ i # k + 1
        BY <2>1
      <3> QED BY <3>1, <2>1, <1>2
    <2>6. s \in Seq(Of(k)) /\ IsInjective(s)
      BY <1>7, <2>2
    <2>7. s \in Seq(Of(k + 1))
      <3> HIDE DEF Of
      <3>1. ToSet(s) \subseteq Of(k + 1)
        BY <2>4, <2>6, OfSequence
      <3> QED BY <2>6, <3>1, OfElements
    <2>8. f[k + 1] = s \/ f[k + 1] = Append(s, x)
      <3> HIDE DEF Of, T
      <3>1. f[k + 1] = IF filter = Missing \/ scenarios[k + 1].name \in filter
                       THEN Append(f[k + 1 - 1], scenarios[k + 1].name) ELSE f[k + 1 - 1]
        BY <1>5, <2>1
      <3> QED BY <3>1, <2>1, <2>2, <2>3
    <2> HIDE DEF Of
    <2>9. Append(s, x) \in Seq(Of(k + 1)) /\ IsInjective(Append(s, x))
      <3>1. PICK m \in Nat : /\ DOMAIN s = 1 .. m /\ DOMAIN Append(s, x) = 1 .. m + 1
                             /\ Append(s, x)[m + 1] = x /\ \A i \in 1 .. m : Append(s, x)[i] = s[i]
        BY <2>4, <2>7, Appended
      <3>2. PICK t : t = Append(s, x)
        OBVIOUS
      <3>3. \A i \in 1 .. m : t[i] \in Of(k) /\ t[i] = s[i]
        BY <2>6, <3>1, <3>2, OfSequence
      <3>4. \A i \in 1 .. m + 1 : i = m + 1 \/ i \in 1 .. m
        OBVIOUS
      <3>5. t[m + 1] = x /\ DOMAIN t = 1 .. m + 1
        BY <3>1, <3>2
      <3>6. ASSUME NEW i \in DOMAIN t, NEW j \in DOMAIN t, t[i] = t[j] PROVE i = j
        <4>1. CASE i = m + 1 \/ j = m + 1
          BY <4>1, <3>3, <3>4, <3>5, <3>6, <2>5
        <4>2. CASE i \in 1 .. m /\ j \in 1 .. m
          BY <4>2, <3>3, <3>1, <3>6, <2>6 DEF IsInjective
        <4> QED BY <4>1, <4>2, <3>4, <3>5
      <3>7. IsInjective(t)
        BY <3>6 DEF IsInjective
      <3>8. Append(s, x) \in Seq(Of(k + 1))
        BY <2>4, <2>7, Appended
      <3> QED BY <3>2, <3>7, <3>8
    <2>10. f[k + 1] \in Seq(Of(k + 1)) /\ IsInjective(f[k + 1])
      BY <2>6, <2>7, <2>8, <2>9
    <2>11. k + 1 \in 0 .. n
      BY <2>1
    <2> QED BY <2>10, <2>11
  <1>8. n \in 0 .. n
    OBVIOUS
  <1>9. n \in T
    <2> HIDE DEF T
    <2> QED BY <1>6, <1>7, <1>8, UpTo
  <1> QED BY <1>2, <1>4, <1>9

-----------------------------------------------------------------------------
(* The invariant.                                                          *)

(* The verdicts that are given.                                            *)
Given == Verdicts \ {"KnownDivergence"}

Bringing == {"clearing", "starting", "waiting"}
Layer2 == Bringing \cup {"running", "clients", "dropping"}
Layer1 == {"replaying", "marking"}

(* A function on S.                                                        *)
OnSet(f, S) == f = [x \in S |-> f[x]]

Typing ==
    /\ world \in DOMAIN Worlds
    /\ phase \in {"idle"} \cup Layer2 \cup Layer1
    /\ step \in {"none", "post", "judge", "evidence", "status", "done"}
    /\ topology \in [up : BOOLEAN, seen : SUBSET Names, leaked : BOOLEAN]
    /\ todo \in Seq(Names) /\ rows \in Seq(Names \X Given)
    /\ OnSet(job, {"responses", "valid", "verdict", "evidence"}) /\ OnSet(job.responses, Sides)
    /\ OnSet(report, {"exit", "complete"})
    /\ OnSet(store, {"snapshot", "canonical", "status"})
    /\ OnSet(store.snapshot, Names) /\ OnSet(store.canonical, Names)
    /\ DOMAIN store.status \subseteq Names /\ OnSet(store.status, DOMAIN store.status)
    /\ OnSet(past, {"passed", "baseline", "torn"})
    /\ OnSet(past.passed, Names) /\ OnSet(past.baseline, Names)

(* Which options a phase has, and where something is being done.           *)
Stages ==
    /\ \/ phase = "idle" /\ options = Missing
       \/ phase \in {"idle"} \cup Layer2 /\ options \in World.options
       \/ phase \in {"idle"} \cup Layer1 /\ DOMAIN options = {"regen"}
    /\ phase \in {"idle", "dropping"} \cup Bringing => todo = <<>>
    /\ phase = "marking" => todo # <<>>
    /\ step # "none" => phase \in {"running", "clients"} /\ todo # <<>>

Ran == {rows[i][1] : i \in DOMAIN rows}
Clients == IF options.interop THEN World.clients ELSE <<>>

(* Everything that is asked for is run once.                               *)
Agenda ==
    /\ IsInjective(todo)
    /\ \A i, j \in DOMAIN rows : rows[i][1] = rows[j][1] => i = j
    /\ \A n \in ToSet(todo) : n \notin Ran
    /\ phase \in Bringing => rows = <<>>
    /\ phase = "running" => Ran \cup ToSet(todo) = ToSet(Selected)
    /\ phase = "clients" => Ran \cup ToSet(todo) = ToSet(Selected) \cup ToSet(Clients)
    /\ phase = "dropping" => Ran = ToSet(Selected) \cup ToSet(Clients)

(* What is being promoted has passed, and the status comes after it.       *)
Promotion ==
    /\ step \in {"evidence", "status", "done"} => job.verdict \in Given
    /\ step \in {"evidence", "status"} => job.evidence \in past.passed[Doing]
    /\ step = "status" => store.canonical[Doing] = job.evidence

(* A snapshot and its status are written one after the other.              *)
Baselines ==
    \A n \in DOMAIN store.status :
        store.status[n] = "verified" =>
            \/ store.snapshot[n] = past.baseline[n] \/ n \in past.torn
            \/ phase = "marking" /\ n = Doing

(* No container that is not left over has seen what is still to be sent.   *)
Containers ==
    /\ ~topology.up => topology.seen = {}
    /\ phase \in {"starting", "waiting"} => topology.leaked \/ topology.seen = {}
    /\ phase \in {"waiting", "running", "clients", "dropping"} => topology.up
    /\ phase = "running" =>
          \/ topology.leaked
          \/ \A n \in ToSet(todo) : n \in topology.seen => step # "none" /\ n = Doing

IInv ==
    /\ Typing /\ Stages /\ Agenda /\ Promotion /\ EvidenceSound /\ Baselines
    /\ Containers /\ TokensFresh /\ ExitHonest /\ TornDown

-----------------------------------------------------------------------------
(* What WorldsAssumption says of the world at hand.                        *)

ScenarioNames == {InScope[i].name : i \in DOMAIN InScope}

(* Scenarios and clients have names of their own.                          *)
LEMMA WorldFacts ==
    ASSUME world \in DOMAIN Worlds
    PROVE  /\ InScope \in Seq(ToSet(InScope)) /\ World.clients \in Seq(ToSet(World.clients))
           /\ \A i, j \in DOMAIN InScope : InScope[i].name = InScope[j].name => i = j
           /\ IsInjective(World.clients)
           /\ Names = ScenarioNames \cup ToSet(World.clients)
           /\ \A n \in ScenarioNames : n \notin ToSet(World.clients)
           /\ \A o \in World.options : DOMAIN o = {"promote", "keepUp", "filter", "interop"}
  <1>1. \A i \in DOMAIN InScope : InScope[i] \in ToSet(InScope)
    BY DEF ToSet
  <1>2. \A sc \in ToSet(InScope) : sc.name \notin ToSet(World.clients)
    BY WorldsAssumption DEF World, InScope
  <1>3. \A n \in ScenarioNames : n \notin ToSet(World.clients)
    BY <1>1, <1>2 DEF ScenarioNames
  <1>4. Names = ScenarioNames \cup ToSet(World.clients)
    BY DEF Names, ScenarioNames
  <1>5. /\ InScope \in Seq(ToSet(InScope)) /\ World.clients \in Seq(ToSet(World.clients))
        /\ \A i, j \in DOMAIN InScope : InScope[i].name = InScope[j].name => i = j
        /\ IsInjective(World.clients)
        /\ \A o \in World.options : DOMAIN o = {"promote", "keepUp", "filter", "interop"}
    BY WorldsAssumption DEF World, InScope
  <1> QED BY <1>3, <1>4, <1>5

(* A scenario is found by its name; the answer of a replay is not expected *)
(* of one that sends a fresh token.                                        *)
LEMMA ScenarioFacts ==
    ASSUME world \in DOMAIN Worlds, NEW n \in ScenarioNames
    PROVE  ScenarioOf(n).token =>
               ScenarioOf(n).kind # "wsdl" /\ Refused \notin Responses[world][n].our
  <1>1. PICK i \in DOMAIN InScope : InScope[i].name = n
    BY DEF ScenarioNames
  <1>2. \E sc \in ToSet(InScope) : sc.name = n
    BY <1>1 DEF ToSet
  <1>3. ScenarioOf(n) \in ToSet(InScope) /\ ScenarioOf(n).name = n
    BY <1>2 DEF ScenarioOf
  <1>4. \A sc \in ToSet(InScope) :
            sc.token => sc.kind # "wsdl" /\ Refused \notin Responses[world][sc.name].our
    BY WorldsAssumption DEF World, InScope
  <1> QED BY <1>3, <1>4

(* What a filter selects.                                                  *)
LEMMA SelectedFacts ==
    ASSUME world \in DOMAIN Worlds
    PROVE  /\ Selected \in Seq(ScenarioNames) /\ IsInjective(Selected)
           /\ ToSet(Selected) \subseteq ScenarioNames
           /\ ToSet(Clients) \subseteq ToSet(World.clients)
           /\ Clients \in Seq(ToSet(World.clients)) /\ IsInjective(Clients)
  <1>1. Selected \in Seq(ScenarioNames) /\ IsInjective(Selected)
    <2>1. /\ InScope \in Seq(ToSet(InScope))
          /\ \A i, j \in DOMAIN InScope : InScope[i].name = InScope[j].name => i = j
      BY WorldFacts
    <2> QED BY <2>1, ChosenOnce DEF Selected, ScenarioNames
  <1>2. ToSet(Selected) \subseteq ScenarioNames
    BY <1>1, OfSequence
  <1>3. DOMAIN <<>> = {}
    OBVIOUS
  <1>4. IsInjective(<<>>)
    BY <1>3, Zenon DEF IsInjective
  <1>5. Clients \in Seq(ToSet(World.clients)) /\ IsInjective(Clients)
    <2>1. <<>> \in Seq(ToSet(World.clients))
      OBVIOUS
    <2>2. World.clients \in Seq(ToSet(World.clients)) /\ IsInjective(World.clients)
      BY WorldFacts
    <2>3. Clients = <<>> \/ Clients = World.clients
      BY DEF Clients
    <2> QED BY <1>4, <2>1, <2>2, <2>3
  <1>6. ToSet(Clients) \subseteq ToSet(World.clients)
    BY <1>5, OfSequence
  <1> QED BY <1>1, <1>2, <1>5, <1>6

(* What is derived from a variable stays while it does.                    *)
LEMMA Frame ==
    /\ world' = world =>
           World' = World /\ InScope' = InScope /\ Names' = Names /\ ScenarioNames' = ScenarioNames
    /\ todo' = todo => Doing' = Doing
    /\ world' = world /\ todo' = todo => Scenario' = Scenario
    /\ world' = world /\ options' = options => Selected' = Selected /\ Clients' = Clients
    /\ rows' = rows => Ran' = Ran
  BY DEF World, InScope, Names, ScenarioNames, Doing, Scenario, ScenarioOf, Selected, Clients, Ran

(* What is being done, and what is left to do.                             *)
LEMMA DoingFacts ==
    ASSUME Typing, IsInjective(todo), todo # <<>>
    PROVE  /\ Doing \in Names /\ Doing \in ToSet(todo)
           /\ Tail(todo) \in Seq(Names) /\ IsInjective(Tail(todo))
           /\ Doing \notin ToSet(Tail(todo))
           /\ \A x : x \in ToSet(todo) <=> x = Doing \/ x \in ToSet(Tail(todo))
  BY HeadAndTail DEF Typing, Doing

(* A row is added for what is done.                                        *)
LEMMA RowAdded ==
    ASSUME Typing, Agenda, todo # <<>>, NEW verdict \in Given,
           rows' = Append(rows, <<Doing, verdict>>), todo' = Tail(todo)
    PROVE  /\ rows' \in Seq(Names \X Given) /\ todo' \in Seq(Names)
           /\ IsInjective(todo')
           /\ \A i, j \in DOMAIN rows' : rows'[i][1] = rows'[j][1] => i = j
           /\ \A n \in ToSet(todo') : n \notin Ran'
           /\ Ran' \cup ToSet(todo') = Ran \cup ToSet(todo)
           /\ ToSet(todo') \subseteq ToSet(todo) /\ Doing \notin ToSet(todo')
  <1>1. /\ Doing \in Names /\ Doing \in ToSet(todo)
        /\ todo' \in Seq(Names) /\ IsInjective(todo')
        /\ Doing \notin ToSet(todo')
        /\ \A x : x \in ToSet(todo) <=> x = Doing \/ x \in ToSet(todo')
    BY DoingFacts DEF Agenda
  <1>2. <<Doing, verdict>> \in Names \X Given /\ rows \in Seq(Names \X Given)
    BY <1>1 DEF Typing
  <1>3. PICK n \in Nat : /\ DOMAIN rows = 1 .. n /\ DOMAIN rows' = 1 .. n + 1
                         /\ rows'[n + 1] = <<Doing, verdict>> /\ \A i \in 1 .. n : rows'[i] = rows[i]
    <2>1. PICK S, row : S = Names \X Given /\ row = <<Doing, verdict>>
      OBVIOUS
    <2>2. row \in S /\ rows \in Seq(S) /\ rows' = Append(rows, row)
      BY <1>2, <2>1
    <2>3. \E n \in Nat : /\ DOMAIN rows = 1 .. n /\ DOMAIN Append(rows, row) = 1 .. n + 1
                         /\ Append(rows, row)[n + 1] = row /\ \A i \in 1 .. n : Append(rows, row)[i] = rows[i]
      BY <2>2, Appended
    <2> QED BY <2>1, <2>2, <2>3
  <1>4. rows' \in Seq(Names \X Given)
    BY <1>2, Appended
  <1>5. Ran' = Ran \cup {Doing}
    <2>1. \A i \in 1 .. n + 1 : i = n + 1 \/ i \in 1 .. n
      OBVIOUS
    <2>2. rows'[n + 1][1] = Doing /\ n + 1 \in 1 .. n + 1 /\ \A i \in 1 .. n : i \in 1 .. n + 1
      BY <1>3
    <2>3. Ran' = {rows'[i][1] : i \in 1 .. n + 1} /\ Ran = {rows[i][1] : i \in 1 .. n}
      BY <1>3 DEF Ran
    <2>4. \A x : x \in Ran' <=> x \in Ran \/ x = Doing
      BY <1>3, <2>1, <2>2, <2>3
    <2> QED BY <2>4
  <1>6. Doing \notin Ran
    BY <1>1 DEF Agenda
  <1>7. ASSUME NEW i \in DOMAIN rows', NEW j \in DOMAIN rows', rows'[i][1] = rows'[j][1] PROVE i = j
    <2>1. (i = n + 1 \/ i \in 1 .. n) /\ (j = n + 1 \/ j \in 1 .. n)
      BY <1>3
    <2>2. \A k \in 1 .. n : rows'[k][1] \in Ran /\ rows'[k][1] = rows[k][1]
      BY <1>3 DEF Ran
    <2>3. rows'[n + 1][1] = Doing
      BY <1>3
    <2>4. CASE i = n + 1 \/ j = n + 1
      BY <2>1, <2>2, <2>3, <2>4, <1>6, <1>7
    <2>5. CASE i \in 1 .. n /\ j \in 1 .. n
      BY <2>5, <2>2, <1>3, <1>7 DEF Agenda
    <2> QED BY <2>1, <2>4, <2>5
  <1>8. \A m \in ToSet(todo') : m \notin Ran'
    BY <1>1, <1>5 DEF Agenda
  <1> QED BY <1>1, <1>4, <1>5, <1>7, <1>8

-----------------------------------------------------------------------------
(* The invariant holds at first.                                           *)
LEMMA Initially == Init => IInv
  <1> SUFFICES ASSUME Init PROVE IInv
    OBVIOUS
  <1>0. DOMAIN <<>> = {}
    OBVIOUS
  <1>1. Typing
    <2>1. world \in DOMAIN Worlds /\ phase = "idle" /\ step = "none"
      BY DEF Init
    <2>2. topology \in [up : BOOLEAN, seen : SUBSET Names, leaked : BOOLEAN]
      BY DEF Init
    <2>3. todo \in Seq(Names) /\ rows \in Seq(Names \X Given)
      BY DEF Init
    <2>4. /\ OnSet(job, {"responses", "valid", "verdict", "evidence"}) /\ OnSet(job.responses, Sides)
          /\ OnSet(report, {"exit", "complete"})
      BY DEF Init, NoJob, NoReport, OnSet
    <2>5. /\ OnSet(store, {"snapshot", "canonical", "status"})
          /\ OnSet(store.snapshot, Names) /\ OnSet(store.canonical, Names)
      BY DEF Init, OnSet
    <2>6. DOMAIN store.status \subseteq Names /\ OnSet(store.status, DOMAIN store.status)
      <3>1. store.status = <<>>
        BY DEF Init
      <3>2. <<>> = [x \in {} |-> <<>>[x]]
        OBVIOUS
      <3> QED BY <1>0, <3>1, <3>2 DEF OnSet
    <2>7. /\ OnSet(past, {"passed", "baseline", "torn"})
          /\ OnSet(past.passed, Names) /\ OnSet(past.baseline, Names)
      BY DEF Init, OnSet
    <2> QED BY <2>1, <2>2, <2>3, <2>4, <2>5, <2>6, <2>7 DEF Typing
  <1>2. Stages
    BY DEF Init, Stages, Bringing
  <1>3. Agenda
    <2>1. todo = <<>> /\ rows = <<>> /\ ToSet(todo) = {}
      BY <1>0 DEF Init, ToSet
    <2>2. IsInjective(<<>>)
      BY <1>0, Zenon DEF IsInjective
    <2>3. phase = "idle"
      BY DEF Init
    <2> QED BY <1>0, <2>1, <2>2, <2>3 DEF Agenda, Bringing
  <1>4. Promotion
    BY DEF Init, Promotion
  <1>5. EvidenceSound /\ Baselines
    <2>1. DOMAIN store.status = {}
      BY <1>0 DEF Init
    <2> QED BY <2>1 DEF EvidenceSound, Baselines
  <1>6. Containers
    BY DEF Init, Containers
  <1>7. TokensFresh /\ ExitHonest /\ TornDown
    BY DEF Init, TokensFresh, ExitHonest, TornDown
  <1> QED BY <1>1, <1>2, <1>3, <1>4, <1>5, <1>6, <1>7 DEF IInv

(* Containers are removed, or left over.                                   *)
LEMMA DownFacts ==
    ASSUME topology \in [up : BOOLEAN, seen : SUBSET Names, leaked : BOOLEAN], Down
    PROVE  /\ topology' \in [up : BOOLEAN, seen : SUBSET Names, leaked : BOOLEAN]
           /\ \/ ~topology'.up /\ topology'.seen = {}
              \/ /\ topology'.up = topology.up /\ topology'.seen = topology.seen
                 /\ topology'.leaked = topology.up
  <1>1. CASE topology' = [up |-> FALSE, seen |-> {}, leaked |-> FALSE]
    BY <1>1
  <1>2. CASE topology' = [topology EXCEPT !.leaked = topology.up]
    <2>1. topology' \in [up : BOOLEAN, seen : SUBSET Names, leaked : BOOLEAN]
      BY <1>2
    <2>2. topology'.up = topology.up /\ topology'.seen = topology.seen /\ topology'.leaked = topology.up
      BY <1>2
    <2> QED BY <2>1, <2>2
  <1> QED BY <1>1, <1>2 DEF Down

(* The topology that is left is taken down.                                *)
LEMMA ClearKeeps == ASSUME IInv, Clear PROVE IInv'
  <1>0. /\ IInv /\ phase = "clearing" /\ phase' = "starting" /\ Down
        /\ UNCHANGED <<world, options, todo, step, job, rows, report, store, past>>
    BY DEF Clear
  <1>1. Typing'
    <2>1. topology \in [up : BOOLEAN, seen : SUBSET Names, leaked : BOOLEAN] /\ Names' = Names
      BY <1>0, Frame DEF IInv, Typing
    <2>2. topology' \in [up : BOOLEAN, seen : SUBSET Names, leaked : BOOLEAN]
      BY <1>0, <2>1, DownFacts
    <2> QED BY <1>0, <2>1, <2>2 DEF IInv, Typing, Layer2, Layer1, Bringing
  <1>2. Stages'
    BY <1>0, Frame DEF IInv, Stages, Layer2, Layer1, Bringing
  <1>3. Agenda'
    BY <1>0, Frame DEF IInv, Agenda, Bringing
  <1>4. Promotion' /\ EvidenceSound'
    BY <1>0, Frame DEF IInv, Promotion, EvidenceSound
  <1>5. Baselines'
    BY <1>0, Frame DEF IInv, Baselines
  <1>6. Containers'
    BY <1>0, DownFacts DEF IInv, Containers, Typing
  <1>7. TokensFresh' /\ ExitHonest' /\ TornDown'
    BY <1>0 DEF TokensFresh, ExitHonest, TornDown
  <1> QED BY <1>1, <1>2, <1>3, <1>4, <1>5, <1>6, <1>7 DEF IInv

(* A step that changes only what nothing here depends on.                  *)
LEMMA Unchanged ==
    ASSUME IInv,
           UNCHANGED <<world, phase, options, topology, todo, step, job, rows, report, store, past>>
    PROVE  IInv'
  <1>1. Typing'
    BY Frame DEF IInv, Typing
  <1>2. Stages'
    BY Frame DEF IInv, Stages
  <1>3. Agenda'
    BY Frame DEF IInv, Agenda
  <1>4. Promotion' /\ EvidenceSound'
    BY Frame DEF IInv, Promotion, EvidenceSound
  <1>5. Baselines'
    BY Frame DEF IInv, Baselines
  <1>6. Containers'
    BY Frame DEF IInv, Containers
  <1>7. TokensFresh'
    BY Frame DEF IInv, TokensFresh
  <1>8. ExitHonest' /\ TornDown'
    BY Frame DEF IInv, ExitHonest, TornDown, World
  <1> QED BY <1>1, <1>2, <1>3, <1>4, <1>5, <1>6, <1>7, <1>8 DEF IInv

(* The ways the process ends.                                              *)
LEMMA ExitFacts ==
    ASSUME Typing, NEW code, Exit(code)
    PROVE  /\ phase' = "idle" /\ todo' = <<>> /\ todo' \in Seq(Names)
           /\ report'.exit = code /\ OnSet(report', {"exit", "complete"})
  <1>1. /\ phase' = "idle" /\ todo' = <<>> /\ report' = [report EXCEPT !.exit = code]
        /\ OnSet(report, {"exit", "complete"})
    BY DEF Exit, Typing
  <1>2. report'.exit = code /\ OnSet(report', {"exit", "complete"})
    BY <1>1 DEF OnSet
  <1> QED BY <1>1, <1>2

(* Nothing is being done where nothing is left to do.                      *)
LEMMA AtRest ==
    ASSUME Stages, todo = <<>>
    PROVE  step = "none"
  BY DEF Stages

(* Nothing is left to do, and nothing more was done.                       *)
LEMMA NothingToDo ==
    ASSUME Agenda, todo' = <<>>, rows' = rows \/ rows' = <<>>
    PROVE  /\ IsInjective(todo')
           /\ \A i, j \in DOMAIN rows' : rows'[i][1] = rows'[j][1] => i = j
           /\ \A n \in ToSet(todo') : n \notin Ran'
           /\ ToSet(todo') = {}
  <1>1. DOMAIN <<>> = {}
    OBVIOUS
  <1>2. IsInjective(<<>>) /\ ToSet(<<>>) = {}
    BY <1>1, Zenon DEF IsInjective, ToSet
  <1> QED BY <1>1, <1>2 DEF Agenda

(* A run starts with nothing done.                                         *)
LEMMA StartLayer2Keeps == ASSUME IInv, StartLayer2 PROVE IInv'
  <1>0. /\ IInv /\ phase = "idle" /\ phase' = "clearing" /\ options' \in World.options
        /\ rows' = <<>> /\ report' = NoReport
        /\ UNCHANGED <<world, topology, todo, step, job, store, past>>
    BY DEF StartLayer2
  <1>1. Typing'
    <2>1. rows' \in Seq(Names \X Given)
      BY <1>0
    <2>2. OnSet(report', {"exit", "complete"})
      BY <1>0 DEF NoReport, OnSet
    <2> QED BY <1>0, <2>1, <2>2, Frame DEF IInv, Typing, Layer2, Layer1, Bringing
  <1>2. Stages'
    BY <1>0, Frame DEF IInv, Stages, Layer2, Layer1, Bringing
  <1>3. Agenda'
    <2>1. todo' = <<>>
      BY <1>0 DEF IInv, Stages
    <2> QED BY <1>0, <2>1, NothingToDo DEF IInv, Agenda, Bringing
  <1>4. Promotion' /\ EvidenceSound'
    BY <1>0, Frame DEF IInv, Promotion, EvidenceSound
  <1>5. Baselines'
    BY <1>0, Frame DEF IInv, Baselines
  <1>6. Containers'
    BY <1>0 DEF IInv, Containers
  <1>7. TokensFresh' /\ ExitHonest' /\ TornDown'
    BY <1>0 DEF TokensFresh, ExitHonest, TornDown
  <1> QED BY <1>1, <1>2, <1>3, <1>4, <1>5, <1>6, <1>7 DEF IInv

(* The containers come up, or some of them do.                             *)
LEMMA UpKeeps == ASSUME IInv, Up PROVE IInv'
  <1>0. /\ IInv /\ phase = "starting" /\ UNCHANGED <<world, options, step, job, rows, store, past>>
        /\ \/ topology' = [topology EXCEPT !.up = TRUE] /\ phase' = "waiting" /\ UNCHANGED <<todo, report>>
           \/ (\E up \in {topology.up, TRUE} : topology' = [topology EXCEPT !.up = up]) /\ Exit(2)
    BY DEF Up
  <1>1. PICK up \in BOOLEAN : topology' = [topology EXCEPT !.up = up] /\ (topology.up => up)
                              /\ (phase' = "waiting" => up)
    BY <1>0 DEF IInv, Typing, Exit
  <1>2. /\ topology' \in [up : BOOLEAN, seen : SUBSET Names, leaked : BOOLEAN]
        /\ topology'.up = up /\ topology'.seen = topology.seen /\ topology'.leaked = topology.leaked
    BY <1>0, <1>1 DEF IInv, Typing
  <1>3. /\ phase' = "waiting" \/ phase' = "idle"
        /\ todo' = <<>> /\ todo' \in Seq(Names) /\ OnSet(report', {"exit", "complete"})
        /\ phase' = "idle" => report'.exit = 2
    BY <1>0, ExitFacts DEF IInv, Typing, Stages, Bringing
  <1>4. Typing'
    BY <1>0, <1>2, <1>3, Frame DEF IInv, Typing, Layer2, Layer1, Bringing
  <1>5. Stages'
    <2>1. step = "none"
      BY <1>0, AtRest DEF IInv, Stages, Bringing
    <2> QED BY <1>0, <1>3, <2>1, Frame DEF IInv, Stages, Layer2, Layer1, Bringing
  <1>6. Agenda'
    BY <1>0, <1>3, NothingToDo, Frame DEF IInv, Agenda, Bringing
  <1>7. Promotion' /\ EvidenceSound' /\ TokensFresh'
    <2>1. step' = "none"
      BY <1>0, AtRest DEF IInv, Stages, Bringing
    <2> QED BY <1>0, <2>1, Frame DEF IInv, Promotion, EvidenceSound, TokensFresh
  <1>8. Baselines'
    BY <1>0, <1>3 DEF IInv, Baselines
  <1>9. Containers'
    BY <1>0, <1>1, <1>2, <1>3 DEF IInv, Containers
  <1>10. ExitHonest' /\ TornDown'
    BY <1>3 DEF ExitHonest, TornDown
  <1> QED BY <1>4, <1>5, <1>6, <1>7, <1>8, <1>9, <1>10 DEF IInv

(* The scenarios are begun, or given up.                                   *)
LEMMA WaitHealthyKeeps == ASSUME IInv, WaitHealthy PROVE IInv'
  <1>0. /\ IInv /\ phase = "waiting"
        /\ UNCHANGED <<world, options, topology, step, job, rows, store, past>>
        /\ \/ phase' = "running" /\ todo' = Selected /\ UNCHANGED report
           \/ UNCHANGED <<phase, todo, report>>
           \/ Exit(2)
    BY DEF WaitHealthy
  <1>1. CASE UNCHANGED <<phase, todo, report>>
    <2>1. UNCHANGED <<world, phase, options, topology, todo, step, job, rows, report, store, past>>
      BY <1>0, <1>1
    <2> QED BY <1>0, <2>1, Unchanged
  <1>2. CASE phase' = "running" /\ todo' = Selected /\ UNCHANGED report
    <2>1. /\ Selected \in Seq(ScenarioNames) /\ IsInjective(Selected)
          /\ ScenarioNames \subseteq Names /\ ToSet(Selected) \subseteq Names
      BY <1>0, SelectedFacts, WorldFacts DEF IInv, Typing
    <2>2. step = "none" /\ step' = "none" /\ rows = <<>>
      BY <1>0, AtRest DEF IInv, Stages, Agenda, Bringing
    <2>3. Selected \in Seq(Names)
      BY <2>1, OfElements
    <2>4. Typing'
      BY <1>0, <1>2, <2>3, Frame DEF IInv, Typing, Layer2, Layer1, Bringing
    <2>5. Stages'
      BY <1>0, <1>2, <2>2, Frame DEF IInv, Stages, Layer2, Layer1, Bringing
    <2>6. Agenda'
      <3>1. DOMAIN <<>> = {}
        OBVIOUS
      <3>2. Ran' = {}
        BY <1>0, <2>2, <3>1 DEF Ran
      <3> QED BY <1>0, <1>2, <2>1, <2>2, <3>1, <3>2, Frame DEF IInv, Agenda, Bringing
    <2>7. Promotion' /\ EvidenceSound' /\ TokensFresh'
      BY <1>0, <2>2, Frame DEF IInv, Promotion, EvidenceSound, TokensFresh
    <2>8. Baselines'
      BY <1>0, <1>2 DEF IInv, Baselines
    <2>9. Containers'
      BY <1>0, <1>2 DEF IInv, Containers
    <2>10. ExitHonest' /\ TornDown'
      BY <1>2 DEF ExitHonest, TornDown
    <2> QED BY <2>4, <2>5, <2>6, <2>7, <2>8, <2>9, <2>10 DEF IInv
  <1>3. CASE Exit(2)
    <2>1. /\ phase' = "idle" /\ todo' = <<>> /\ todo' \in Seq(Names)
          /\ report'.exit = 2 /\ OnSet(report', {"exit", "complete"})
      BY <1>0, <1>3, ExitFacts DEF IInv
    <2>2. step = "none" /\ step' = "none"
      BY <1>0, AtRest DEF IInv, Stages, Bringing
    <2>3. Typing'
      BY <1>0, <2>1, Frame DEF IInv, Typing, Layer2, Layer1, Bringing
    <2>4. Stages'
      BY <1>0, <2>1, <2>2, Frame DEF IInv, Stages, Layer2, Layer1, Bringing
    <2>5. Agenda'
      BY <1>0, <2>1, NothingToDo DEF IInv, Agenda, Bringing
    <2>6. Promotion' /\ EvidenceSound' /\ TokensFresh'
      BY <1>0, <2>2, Frame DEF IInv, Promotion, EvidenceSound, TokensFresh
    <2>7. Baselines'
      BY <1>0, <2>1 DEF IInv, Baselines
    <2>8. Containers'
      BY <1>0, <2>1 DEF IInv, Containers
    <2>9. ExitHonest' /\ TornDown'
      BY <2>1 DEF ExitHonest, TornDown
    <2> QED BY <2>3, <2>4, <2>5, <2>6, <2>7, <2>8, <2>9 DEF IInv
  <1> QED BY <1>0, <1>1, <1>2, <1>3

(* A job goes on: our server's response stays the same, nothing is kept.   *)
LEMMA JobKeeps ==
    ASSUME IInv, phase = "running", todo # <<>>, step # "none", step' = "judge",
           UNCHANGED <<world, phase, options, topology, todo, rows, report, store, past>>,
           OnSet(job', {"responses", "valid", "verdict", "evidence"}), OnSet(job'.responses, Sides),
           job'.responses["our"] = job.responses["our"]
    PROVE  IInv'
  <1>1. Typing'
    BY Frame DEF IInv, Typing
  <1>2. Stages'
    BY Frame DEF IInv, Stages, Layer2, Layer1, Bringing
  <1>3. Agenda'
    BY Frame DEF IInv, Agenda
  <1>4. Promotion' /\ EvidenceSound'
    BY DEF IInv, Promotion, EvidenceSound
  <1>5. Baselines'
    BY DEF IInv, Baselines
  <1>6. Containers'
    BY Frame DEF IInv, Containers
  <1>7. TokensFresh'
    BY Frame DEF IInv, TokensFresh
  <1>8. ExitHonest' /\ TornDown'
    BY DEF ExitHonest, TornDown
  <1> QED BY <1>1, <1>2, <1>3, <1>4, <1>5, <1>6, <1>7, <1>8 DEF IInv

-----------------------------------------------------------------------------
(* One scenario, or one client.                                            *)

Working == phase \in {"running", "clients"} /\ todo # <<>>

(* While scenarios run, what is being done is one of them.                 *)
LEMMA DoingScenario ==
    ASSUME IInv, phase = "running", todo # <<>>
    PROVE  Doing \in ScenarioNames
  <1>1. Doing \in ToSet(todo)
    BY DoingFacts DEF IInv, Agenda
  <1>2. ToSet(todo) \subseteq ToSet(Selected) /\ ToSet(Selected) \subseteq ScenarioNames
    BY SelectedFacts DEF IInv, Agenda, Typing
  <1> QED BY <1>1, <1>2

(* What is done is recorded, whether a server saw its token or not.        *)
LEMMA ConcludeKeeps ==
    ASSUME IInv, Working, NEW verdict \in Given, Conclude(verdict), Idle,
           UNCHANGED <<store, past>>, NEW seen \in SUBSET Names,
           topology.seen \subseteq seen, seen \subseteq topology.seen \cup {Doing},
           phase = "running" \/ seen = topology.seen,
           topology' = [topology EXCEPT !.seen = seen]
    PROVE  IInv'
  <1>0. /\ phase \in {"running", "clients"} /\ todo # <<>>
        /\ UNCHANGED <<world, phase, options, report, store, past>>
        /\ rows' = Append(rows, <<Doing, verdict>>) /\ todo' = Tail(todo)
        /\ step' = "none" /\ job' = NoJob
    BY DEF Working, Idle, Conclude
  <1>1. /\ topology' \in [up : BOOLEAN, seen : SUBSET Names, leaked : BOOLEAN]
        /\ topology'.up = topology.up /\ topology'.seen = seen /\ topology'.leaked = topology.leaked
    BY DEF IInv, Typing
  <1>2. /\ rows' \in Seq(Names \X Given) /\ todo' \in Seq(Names)
        /\ IsInjective(todo')
        /\ \A i, j \in DOMAIN rows' : rows'[i][1] = rows'[j][1] => i = j
        /\ \A n \in ToSet(todo') : n \notin Ran'
        /\ Ran' \cup ToSet(todo') = Ran \cup ToSet(todo)
        /\ ToSet(todo') \subseteq ToSet(todo) /\ Doing \notin ToSet(todo')
    BY <1>0, RowAdded DEF IInv
  <1>3. Typing'
    <2>1. OnSet(job', {"responses", "valid", "verdict", "evidence"}) /\ OnSet(job'.responses, Sides)
      BY <1>0 DEF NoJob, OnSet
    <2> QED BY <1>0, <1>1, <1>2, <2>1, Frame DEF IInv, Typing
  <1>4. Stages'
    BY <1>0, Frame DEF IInv, Stages, Layer2, Layer1, Bringing
  <1>5. Agenda'
    BY <1>0, <1>2, Frame DEF IInv, Agenda, Bringing
  <1>6. Promotion' /\ EvidenceSound' /\ TokensFresh'
    BY <1>0, Frame DEF IInv, Promotion, EvidenceSound, TokensFresh
  <1>7. Baselines'
    BY <1>0 DEF IInv, Baselines
  <1>8. Containers'
    <2>1. topology.up /\ topology'.up
      BY <1>0, <1>1 DEF IInv, Containers
    <2>2. CASE phase = "running"
      <3>1. \/ topology'.leaked
            \/ \A n \in ToSet(todo') : n \notin topology'.seen
        BY <2>2, <1>1, <1>2 DEF IInv, Containers
      <3> QED BY <1>0, <2>1, <2>2, <3>1 DEF Containers
    <2>3. CASE phase # "running"
      BY <1>0, <2>1, <2>3 DEF Containers
    <2> QED BY <2>2, <2>3
  <1>9. ExitHonest' /\ TornDown'
    BY <1>0 DEF ExitHonest, TornDown
  <1> QED BY <1>3, <1>4, <1>5, <1>6, <1>7, <1>8, <1>9 DEF IInv

(* The same where the containers have nothing to do with it.               *)
LEMMA ConcludeOnly ==
    ASSUME IInv, Working, NEW verdict \in Given, Conclude(verdict), Idle, UNCHANGED <<topology, store, past>>
    PROVE  IInv'
  <1>1. topology.seen \in SUBSET Names /\ topology' = [topology EXCEPT !.seen = topology.seen]
    BY DEF IInv, Typing
  <1> QED BY <1>1, ConcludeKeeps

(* The files of a scenario cannot be read.                                 *)
LEMMA LoadFailsKeeps == ASSUME IInv, LoadFails PROVE IInv'
  <1>1. Working /\ Conclude("HarnessError") /\ Idle /\ UNCHANGED <<topology, store, past>>
    BY DEF LoadFails, AtScenario, HarnessError, Working
  <1>2. "HarnessError" \in Given
    BY DEF Given, Verdicts
  <1> QED BY <1>1, <1>2, ConcludeOnly

(* A server does not answer, though ours may have seen the token.          *)
LEMMA CallFailsKeeps == ASSUME IInv, CallFails PROVE IInv'
  <1>1. /\ phase = "running" /\ todo # <<>> /\ Conclude("HarnessError") /\ Idle
        /\ UNCHANGED <<store, past>>
        /\ \E seen \in {topology.seen, Seen} : topology' = [topology EXCEPT !.seen = seen]
    BY DEF CallFails, AtScenario, HarnessError
  <1>2. "HarnessError" \in Given
    BY DEF Given, Verdicts
  <1>3. PICK seen \in {topology.seen, Seen} : topology' = [topology EXCEPT !.seen = seen]
    BY <1>1
  <1>4. topology.seen \in SUBSET Names /\ Doing \in Names
    BY <1>1, DoingFacts DEF IInv, Agenda, Typing
  <1>5. /\ seen \in SUBSET Names /\ topology.seen \subseteq seen
        /\ seen \subseteq topology.seen \cup {Doing}
    BY <1>3, <1>4 DEF Seen
  <1>6. Working
    BY <1>1 DEF Working
  <1> QED BY <1>1, <1>2, <1>3, <1>5, <1>6, ConcludeKeeps

(* A verdict is recorded once it is promoted, or not.                      *)
LEMMA RecordKeeps == ASSUME IInv, Record PROVE IInv'
  <1>1. step = "done" /\ Conclude(job.verdict) /\ Idle /\ UNCHANGED <<topology, store, past>>
    BY DEF Record, Promoting
  <1>2. Working /\ job.verdict \in Given
    BY <1>1 DEF IInv, Stages, Promotion, Working
  <1> QED BY <1>1, <1>2, ConcludeOnly

(* A response of our server to a request, or the WSDL it serves.           *)
LEMMA AnsweredKeeps ==
    ASSUME IInv, phase = "running", todo # <<>>, step = "none", NEW r,
           job' = [job EXCEPT !.responses["our"] = r], step' \in {"post", "judge"},
           Idle, UNCHANGED <<todo, rows, store, past>>,
           NEW seen \in SUBSET Names, topology.seen \subseteq seen,
           seen \subseteq topology.seen \cup {Doing}, topology' = [topology EXCEPT !.seen = seen],
           Scenario.token /\ r = Refused => topology.leaked
    PROVE  IInv'
  <1>0. UNCHANGED <<world, phase, options, todo, rows, report, store, past>>
    BY DEF Idle
  <1>1. /\ topology' \in [up : BOOLEAN, seen : SUBSET Names, leaked : BOOLEAN]
        /\ topology'.up = topology.up /\ topology'.seen = seen /\ topology'.leaked = topology.leaked
    BY DEF IInv, Typing
  <1>2. /\ OnSet(job', {"responses", "valid", "verdict", "evidence"}) /\ OnSet(job'.responses, Sides)
        /\ job'.responses["our"] = r
    BY DEF IInv, Typing, OnSet, Sides
  <1>3. Typing'
    BY <1>0, <1>1, <1>2, Frame DEF IInv, Typing
  <1>4. Stages'
    BY <1>0, Frame DEF IInv, Stages, Layer2, Layer1, Bringing
  <1>5. Agenda'
    BY <1>0, Frame DEF IInv, Agenda
  <1>6. Promotion' /\ EvidenceSound'
    BY <1>0 DEF IInv, Promotion, EvidenceSound
  <1>7. Baselines'
    BY <1>0 DEF IInv, Baselines
  <1>8. Containers'
    <2>1. topology'.leaked \/ \A n \in ToSet(todo) : n \in seen => n = Doing
      BY <1>1 DEF IInv, Containers
    <2> QED BY <1>0, <1>1, <2>1, Frame DEF IInv, Containers
  <1>9. TokensFresh'
    BY <1>0, <1>1, <1>2, Frame DEF TokensFresh
  <1>10. ExitHonest' /\ TornDown'
    BY <1>0 DEF ExitHonest, TornDown
  <1> QED BY <1>3, <1>4, <1>5, <1>6, <1>7, <1>8, <1>9, <1>10 DEF IInv

(* Our server answers a request.                                           *)
LEMMA PostOurKeeps == ASSUME IInv, PostOur PROVE IInv'
  <1>1. /\ phase = "running" /\ todo # <<>> /\ step = "none" /\ step' = "post"
        /\ topology' = [topology EXCEPT !.seen = Seen] /\ Idle /\ UNCHANGED <<todo, rows, store, past>>
        /\ \E r \in OurResponses : job' = [job EXCEPT !.responses["our"] = r]
    BY DEF PostOur, AtScenario
  <1>2. PICK r \in OurResponses : job' = [job EXCEPT !.responses["our"] = r]
    BY <1>1
  <1>3. topology.seen \in SUBSET Names /\ Doing \in Names /\ Doing \in ToSet(todo)
    BY <1>1, DoingFacts DEF IInv, Agenda, Typing
  <1>4. /\ Seen \in SUBSET Names /\ topology.seen \subseteq Seen
        /\ Seen \subseteq topology.seen \cup {Doing}
    BY <1>3 DEF Seen
  <1>5. ASSUME Scenario.token, r = Refused PROVE topology.leaked
    <2>1. CASE Doing \in topology.seen
      BY <1>1, <1>3, <2>1 DEF IInv, Containers
    <2>2. CASE Doing \notin topology.seen
      <3>1. Refused \in Responses[world][Doing].our
        BY <1>2, <1>5, <2>2 DEF OurResponses
      <3>2. Refused \notin Responses[world][Doing].our
        BY <1>1, <1>5, DoingScenario, ScenarioFacts DEF IInv, Typing, Scenario
      <3> QED BY <3>1, <3>2
    <2> QED BY <2>1, <2>2
  <1> QED BY <1>1, <1>2, <1>4, <1>5, AnsweredKeeps

(* The reference answers.                                                  *)
LEMMA PostCxfKeeps == ASSUME IInv, PostCxf PROVE IInv'
  <1>1. /\ phase = "running" /\ todo # <<>> /\ step = "post" /\ step' = "judge"
        /\ Idle /\ UNCHANGED <<topology, todo, rows, store, past>>
        /\ \E r \in Responses[world][Doing].cxf : job' = [job EXCEPT !.responses["cxf"] = r]
    BY DEF PostCxf, AtScenario
  <1>2. PICK r : job' = [job EXCEPT !.responses["cxf"] = r]
    BY <1>1
  <1>3. /\ OnSet(job', {"responses", "valid", "verdict", "evidence"}) /\ OnSet(job'.responses, Sides)
        /\ job'.responses["our"] = job.responses["our"]
    BY <1>2 DEF IInv, Typing, OnSet, Sides
  <1> QED BY <1>1, <1>3, JobKeeps DEF Idle

(* A verdict is given; what passed is the evidence of a Pass.              *)
LEMMA GiveKeeps ==
    ASSUME IInv, Working, phase = "running" => step # "none", NEW verdict \in Given, NEW evidence, NEW valid,
           Give(verdict, evidence, valid), Idle, UNCHANGED <<topology, todo, rows, store>>
    PROVE  IInv'
  <1>0. /\ phase \in {"running", "clients"} /\ todo # <<>>
        /\ UNCHANGED <<world, phase, options, topology, todo, rows, report, store>>
        /\ step' = IF verdict = "Pass" /\ options.promote THEN "evidence" ELSE "done"
    BY DEF Working, Idle, Give
  <1>1. Doing \in Names
    BY <1>0, DoingFacts DEF IInv, Agenda
  <1>2. /\ OnSet(job', {"responses", "valid", "verdict", "evidence"})
        /\ job'.responses = job.responses /\ job'.verdict = verdict /\ job'.evidence = evidence
    BY DEF Give, IInv, Typing, OnSet
  <1>3. /\ OnSet(past', {"passed", "baseline", "torn"})
        /\ past'.baseline = past.baseline /\ past'.torn = past.torn
        /\ OnSet(past'.passed, Names)
        /\ \A n \in Names : past.passed[n] \subseteq past'.passed[n]
        /\ verdict = "Pass" => evidence \in past'.passed[Doing]
    <2>1. past' = [past EXCEPT !.passed[Doing] = IF verdict = "Pass" THEN @ \cup {evidence} ELSE @]
      BY DEF Give
    <2>2. PICK passed : passed = [past.passed EXCEPT ![Doing] = IF verdict = "Pass" THEN @ \cup {evidence} ELSE @]
      OBVIOUS
    <2>3. past' = [past EXCEPT !.passed = passed]
      BY <2>1, <2>2
    <2>4. OnSet(past, {"passed", "baseline", "torn"}) /\ OnSet(past.passed, Names)
      BY DEF IInv, Typing
    <2>5. /\ OnSet(past', {"passed", "baseline", "torn"}) /\ past'.passed = passed
          /\ past'.baseline = past.baseline /\ past'.torn = past.torn
      BY <2>3, <2>4 DEF OnSet
    <2>6. /\ OnSet(passed, Names) /\ \A n \in Names : past.passed[n] \subseteq passed[n]
          /\ verdict = "Pass" => evidence \in passed[Doing]
      BY <2>2, <2>4, <1>1 DEF OnSet
    <2> QED BY <2>5, <2>6
  <1>4. Typing'
    BY <1>0, <1>2, <1>3, Frame DEF IInv, Typing
  <1>5. Stages'
    BY <1>0, Frame DEF IInv, Stages, Layer2, Layer1, Bringing
  <1>6. Agenda'
    BY <1>0, Frame DEF IInv, Agenda
  <1>7. Promotion'
    BY <1>0, <1>2, <1>3, Frame DEF Promotion
  <1>8. EvidenceSound'
    <2>1. \A n \in DOMAIN store.status : n \in Names
      BY DEF IInv, Typing
    <2> QED BY <1>0, <1>3, <2>1 DEF IInv, EvidenceSound
  <1>9. Baselines'
    BY <1>0, <1>3, Frame DEF IInv, Baselines
  <1>10. Containers'
    BY <1>0, Frame DEF IInv, Containers
  <1>11. TokensFresh'
    BY <1>0, <1>2, Frame DEF IInv, TokensFresh
  <1>12. ExitHonest' /\ TornDown'
    BY <1>0 DEF ExitHonest, TornDown
  <1> QED BY <1>4, <1>5, <1>6, <1>7, <1>8, <1>9, <1>10, <1>11, <1>12 DEF IInv

(* The verdicts of verdict.rs.                                             *)
LEMMA JudgeGives == ASSUME NEW sc, NEW looks PROVE Judge(sc, looks) \in Given
  <1>1. Evaluate(looks) \in Given
    BY DEF Evaluate, Given, Verdicts
  <1>2. ASSUME NEW success PROVE EvaluateOutcomeEquivalence(success, looks) \in Given
    BY DEF EvaluateOutcomeEquivalence, Given, Verdicts
  <1>3. "SutFail" \in Given
    BY DEF Given, Verdicts
  <1> QED BY <1>1, <1>2, <1>3 DEF Judge

(* The responses of both sides are judged.                                 *)
LEMMA JudgeScenarioKeeps == ASSUME IInv, JudgeScenario PROVE IInv'
  <1>1. /\ phase = "running" /\ todo # <<>> /\ step = "judge" /\ UNCHANGED topology
        /\ \E looks :
              \/ Conclude("HarnessError") /\ Idle /\ UNCHANGED <<store, past>>
              \/ /\ Give(Judge(Scenario, looks), looks["our"].canon, [side \in Sides |-> looks[side].valid])
                 /\ Idle /\ UNCHANGED <<todo, rows, store>>
    BY DEF JudgeScenario, AtScenario, HarnessError
  <1>2. Working /\ "HarnessError" \in Given
    BY <1>1 DEF Working, Given, Verdicts
  <1>3. CASE Conclude("HarnessError") /\ Idle /\ UNCHANGED <<store, past>>
    BY <1>1, <1>2, <1>3, ConcludeOnly
  <1>4. ASSUME NEW looks,
               Give(Judge(Scenario, looks), looks["our"].canon, [side \in Sides |-> looks[side].valid]),
               Idle, UNCHANGED <<todo, rows, store>>
        PROVE  IInv'
    BY <1>1, <1>2, <1>4, JudgeGives, GiveKeeps
  <1> QED BY <1>1, <1>3, <1>4

(* A WSDL is fetched.                                                      *)
LEMMA FetchWsdlKeeps == ASSUME IInv, FetchWsdl PROVE IInv'
  <1>1. /\ phase = "running" /\ todo # <<>> /\ step = "none" /\ Scenario.kind = "wsdl"
        /\ UNCHANGED topology
        /\ \E r : \/ Conclude("HarnessError") /\ Idle /\ UNCHANGED <<store, past>>
                  \/ /\ job' = [job EXCEPT !.responses["our"] = r] /\ step' = "judge"
                     /\ Idle /\ UNCHANGED <<todo, rows, store, past>>
    BY DEF FetchWsdl, AtScenario, HarnessError
  <1>2. Working /\ "HarnessError" \in Given
    BY <1>1 DEF Working, Given, Verdicts
  <1>3. CASE Conclude("HarnessError") /\ Idle /\ UNCHANGED <<store, past>>
    BY <1>1, <1>2, <1>3, ConcludeOnly
  <1>4. ~Scenario.token
    BY <1>1, DoingScenario, ScenarioFacts DEF IInv, Typing, Scenario
  <1>5. topology.seen \in SUBSET Names /\ topology' = [topology EXCEPT !.seen = topology.seen]
    BY <1>1 DEF IInv, Typing
  <1>6. ASSUME NEW r, job' = [job EXCEPT !.responses["our"] = r], step' = "judge",
               Idle, UNCHANGED <<todo, rows, store, past>>
        PROVE  IInv'
    BY <1>1, <1>4, <1>5, <1>6, AnsweredKeeps
  <1> QED BY <1>1, <1>3, <1>6

(* A WSDL is judged.                                                       *)
LEMMA JudgeRewriteKeeps == ASSUME IInv, JudgeRewrite PROVE IInv'
  <1>1. /\ phase = "running" /\ todo # <<>> /\ step = "judge"
        /\ Idle /\ UNCHANGED <<topology, todo, rows, store>>
        /\ Give(IF RewriteHolds(Scenario, job.responses["our"].body) THEN "Pass" ELSE "SutFail",
                job.responses["our"].body, Missing)
    BY DEF JudgeRewrite, AtScenario
  <1>2. (IF RewriteHolds(Scenario, job.responses["our"].body) THEN "Pass" ELSE "SutFail") \in Given
    BY DEF Given, Verdicts
  <1>3. Working
    BY <1>1 DEF Working
  <1> QED BY <1>1, <1>2, <1>3, GiveKeeps

(* A client is run.                                                        *)
LEMMA RunClientKeeps == ASSUME IInv, RunClient PROVE IInv'
  <1>1. /\ phase = "clients" /\ todo # <<>> /\ Idle /\ UNCHANGED <<topology, todo, rows, store>>
        /\ \E output \in Responses[world][Doing] :
              CASE output.exit = 0 -> \E e \in EvidenceOf(output) : Give("Pass", e, Missing)
                [] output.exit \in {125, 126, 127} -> Give("HarnessError", Missing, Missing)
                [] output.exit \notin {0, 125, 126, 127} -> Give("SutFail", Missing, Missing)
    BY DEF RunClient
  <1>2. PICK output \in Responses[world][Doing] :
              CASE output.exit = 0 -> \E e \in EvidenceOf(output) : Give("Pass", e, Missing)
                [] output.exit \in {125, 126, 127} -> Give("HarnessError", Missing, Missing)
                [] output.exit \notin {0, 125, 126, 127} -> Give("SutFail", Missing, Missing)
    BY <1>1
  <1>3. \E v \in {"Pass", "HarnessError", "SutFail"} : \E e : Give(v, e, Missing)
    <2>1. CASE output.exit = 0
      BY <1>2, <2>1
    <2>2. CASE output.exit \in {125, 126, 127}
      BY <1>2, <2>2
    <2>3. CASE output.exit \notin {0, 125, 126, 127}
      BY <1>2, <2>3
    <2> QED BY <2>1, <2>2, <2>3
  <1>4. PICK v \in {"Pass", "HarnessError", "SutFail"} : \E e : Give(v, e, Missing)
    BY <1>3
  <1>5. PICK e : Give(v, e, Missing)
    BY <1>4
  <1>6. v \in Given /\ Working
    BY <1>1, <1>4 DEF Given, Verdicts, Working
  <1> QED BY <1>1, <1>5, <1>6, GiveKeeps

-----------------------------------------------------------------------------
(* The end of a run.                                                       *)

(* The clients are up next.                                                *)
LEMMA FinishScenariosKeeps == ASSUME IInv, FinishScenarios PROVE IInv'
  <1>0. /\ IInv /\ phase = "running" /\ todo = <<>> /\ phase' = "clients" /\ todo' = Clients
        /\ UNCHANGED <<world, options, topology, step, job, rows, report, store, past>>
    BY DEF FinishScenarios, Clients
  <1>1. step = "none" /\ step' = "none"
    BY <1>0, AtRest DEF IInv
  <1>2. /\ Clients \in Seq(ToSet(World.clients)) /\ IsInjective(Clients)
        /\ ToSet(Clients) \subseteq ToSet(World.clients)
        /\ ToSet(Selected) \subseteq ScenarioNames
        /\ \A n \in ScenarioNames : n \notin ToSet(World.clients)
        /\ ToSet(World.clients) \subseteq Names
    BY <1>0, SelectedFacts, WorldFacts DEF IInv, Typing
  <1>3. Clients \in Seq(Names)
    <2>1. ToSet(Clients) \subseteq Names
      BY <1>2
    <2> QED BY <1>2, <2>1, OfElements
  <1>4. Typing'
    BY <1>0, <1>3, Frame DEF IInv, Typing, Layer2
  <1>5. Stages'
    BY <1>0, <1>1, Frame DEF IInv, Stages, Layer2, Layer1, Bringing
  <1>6. Agenda'
    <2>1. ToSet(todo) = {}
      BY <1>0, OfSequence DEF IInv, Typing
    <2>2. Ran = ToSet(Selected)
      BY <1>0, <2>1 DEF IInv, Agenda
    <2> QED BY <1>0, <1>2, <2>2, Frame DEF IInv, Agenda, Bringing
  <1>7. Promotion' /\ EvidenceSound' /\ TokensFresh'
    BY <1>0, <1>1, Frame DEF IInv, Promotion, EvidenceSound, TokensFresh
  <1>8. Baselines'
    BY <1>0 DEF IInv, Baselines
  <1>9. Containers'
    BY <1>0 DEF IInv, Containers
  <1>10. ExitHonest' /\ TornDown'
    BY <1>0 DEF ExitHonest, TornDown
  <1> QED BY <1>4, <1>5, <1>6, <1>7, <1>8, <1>9, <1>10 DEF IInv

(* Everything was run once, so one row that is not a Pass is one name that *)
(* did not pass.                                                           *)
LEMMA PrintReportKeeps == ASSUME IInv, PrintReport PROVE IInv'
  <1> DEFINE green == IsGreen({rows[i][2] : i \in DOMAIN rows})
             passed == {rows[i][1] : i \in {j \in DOMAIN rows : rows[j][2] = "Pass"}}
  <1>0. /\ IInv /\ phase = "clients" /\ todo = <<>> /\ phase' = "dropping"
        /\ report' = [exit |-> IF green THEN 0 ELSE 1, complete |-> green /\ unverified = 0]
        /\ UNCHANGED <<world, options, topology, todo, step, job, rows, store, past>>
    BY DEF PrintReport
  <1>1. step = "none" /\ step' = "none"
    BY <1>0, AtRest DEF IInv
  <1>2. report'.exit = (IF green THEN 0 ELSE 1) /\ OnSet(report', {"exit", "complete"})
    BY <1>0 DEF OnSet
  <1>3. Ran = ToSet(Selected) \cup ToSet(Clients)
    <2>1. ToSet(todo) = {}
      BY <1>0, OfSequence DEF IInv, Typing
    <2> QED BY <1>0, <2>1 DEF IInv, Agenda
  <1>4. \A i \in DOMAIN rows : rows[i][2] \in Given
    BY <1>0 DEF IInv, Typing
  <1>5. green => Ran \subseteq passed
    <2>1. green => \A i \in DOMAIN rows : rows[i][2] = "Pass"
      BY <1>4 DEF IsGreen, Given, Verdicts
    <2> QED BY <2>1 DEF Ran
  <1>6. ~green => ~(Ran \subseteq passed)
    <2> SUFFICES ASSUME ~green PROVE \E n \in Ran : n \notin passed
      OBVIOUS
    <2>1. PICK j \in DOMAIN rows : rows[j][2] # "Pass"
      BY DEF IsGreen
    <2>2. rows[j][1] \in Ran
      BY DEF Ran
    <2>3. rows[j][1] \notin passed
      BY <1>0, <2>1 DEF IInv, Agenda
    <2> QED BY <2>2, <2>3
  <1> HIDE DEF green, passed
  <1>7. Typing'
    BY <1>0, <1>2, Frame DEF IInv, Typing, Layer2
  <1>8. Stages'
    BY <1>0, <1>1, Frame DEF IInv, Stages, Layer2, Layer1, Bringing
  <1>9. Agenda'
    BY <1>0, <1>3, Frame DEF IInv, Agenda, Bringing
  <1>10. Promotion' /\ EvidenceSound' /\ TokensFresh' /\ TornDown'
    BY <1>0, <1>1, Frame DEF IInv, Promotion, EvidenceSound, TokensFresh, TornDown
  <1>11. Baselines'
    BY <1>0 DEF IInv, Baselines
  <1>12. Containers'
    BY <1>0 DEF IInv, Containers
  <1>13. ExitHonest'
    <2>1. ToSet(Selected) \cup (IF options.interop THEN ToSet(World.clients) ELSE {}) = Ran
      <3>1. DOMAIN <<>> = {}
        OBVIOUS
      <3>2. ToSet(<<>>) = {}
        BY <3>1, Zenon DEF ToSet
      <3> QED BY <1>3, <3>2 DEF Clients
    <2>2. /\ (ToSet(Selected) \cup (IF options.interop THEN ToSet(World.clients) ELSE {}))'
             = ToSet(Selected) \cup (IF options.interop THEN ToSet(World.clients) ELSE {})
          /\ {rows'[i][1] : i \in {j \in DOMAIN rows' : rows'[j][2] = "Pass"}} = passed
      BY <1>0, Frame DEF passed
    <2> QED BY <1>2, <1>5, <1>6, <2>1, <2>2 DEF ExitHonest
  <1> QED BY <1>7, <1>8, <1>9, <1>10, <1>11, <1>12, <1>13 DEF IInv

(* The topology is dropped, unless it is kept.                             *)
LEMMA DropKeeps == ASSUME IInv, Drop PROVE IInv'
  <1>0. /\ IInv /\ phase = "dropping" /\ phase' = "idle"
        /\ IF options.keepUp THEN UNCHANGED topology ELSE Down
        /\ UNCHANGED <<world, options, todo, step, job, rows, report, store, past>>
    BY DEF Drop
  <1>1. /\ topology' \in [up : BOOLEAN, seen : SUBSET Names, leaked : BOOLEAN]
        /\ \/ ~topology'.up /\ topology'.seen = {}
           \/ options.keepUp /\ topology' = topology
           \/ /\ topology'.up = topology.up /\ topology'.seen = topology.seen
              /\ topology'.leaked = topology.up
    BY <1>0, DownFacts DEF IInv, Typing
  <1>2. Typing'
    BY <1>0, <1>1, Frame DEF IInv, Typing
  <1>3. Stages'
    BY <1>0, Frame DEF IInv, Stages, Layer2, Layer1, Bringing
  <1>4. Agenda'
    BY <1>0, Frame DEF IInv, Agenda, Bringing
  <1>5. Promotion' /\ EvidenceSound'
    BY <1>0, Frame DEF IInv, Promotion, EvidenceSound
  <1>6. Baselines'
    BY <1>0 DEF IInv, Baselines
  <1>7. Containers'
    BY <1>0, <1>1 DEF IInv, Containers
  <1>8. TokensFresh'
    BY <1>0 DEF TokensFresh
  <1>9. ExitHonest'
    BY <1>0, Frame DEF IInv, ExitHonest
  <1>10. TornDown'
    BY <1>0, <1>1 DEF TornDown
  <1> QED BY <1>2, <1>3, <1>4, <1>5, <1>6, <1>7, <1>8, <1>9, <1>10 DEF IInv

-----------------------------------------------------------------------------
(* The store.                                                              *)

(* A write that does not succeed leaves the file as it was, or cut short.  *)
LEMMA NotWrittenFacts ==
    ASSUME IInv, store' \in NotWritten
    PROVE  /\ \/ store' = store
              \/ Promoting("evidence") /\ store' = [store EXCEPT !.canonical[Doing] = Torn]
              \/ (Promoting("status") \/ phase = "marking") /\ store' = [store EXCEPT !.status = <<>>]
              \/ /\ phase = "replaying" /\ todo # <<>>
                 /\ store' = [store EXCEPT !.snapshot[Doing] = Torn]
  BY DEF NotWritten

(* Whatever is left of a file: no status says more than it did.            *)
LEMMA CutShort ==
    ASSUME IInv, store' \in NotWritten, UNCHANGED world
    PROVE  /\ OnSet(store', {"snapshot", "canonical", "status"})
           /\ OnSet(store'.snapshot, Names) /\ OnSet(store'.canonical, Names)
           /\ DOMAIN store'.status \subseteq Names /\ OnSet(store'.status, DOMAIN store'.status)
           /\ \A n \in DOMAIN store'.status : n \in DOMAIN store.status /\ store'.status[n] = store.status[n]
           /\ \A n \in Names : store'.canonical[n] = store.canonical[n] \/ store'.canonical[n] = Torn
           /\ \A n \in Names : store'.snapshot[n] = store.snapshot[n]
                               \/ (phase = "replaying" /\ todo # <<>> /\ n = Doing)
  <1>0. /\ OnSet(store, {"snapshot", "canonical", "status"})
        /\ OnSet(store.snapshot, Names) /\ OnSet(store.canonical, Names)
        /\ DOMAIN store.status \subseteq Names /\ OnSet(store.status, DOMAIN store.status)
    BY DEF IInv, Typing
  <1>1. CASE store' = store
    BY <1>0, <1>1
  <1>2. CASE store' = [store EXCEPT !.canonical[Doing] = Torn]
    <2>1. /\ store'.snapshot = store.snapshot /\ store'.status = store.status
          /\ store'.canonical = [store.canonical EXCEPT ![Doing] = Torn]
          /\ OnSet(store', {"snapshot", "canonical", "status"})
      BY <1>0, <1>2 DEF OnSet
    <2>2. /\ OnSet(store'.canonical, Names)
          /\ \A n \in Names : store'.canonical[n] = store.canonical[n] \/ store'.canonical[n] = Torn
      BY <1>0, <2>1 DEF OnSet
    <2> QED BY <1>0, <2>1, <2>2
  <1>3. CASE store' = [store EXCEPT !.status = <<>>]
    <2>1. /\ store'.snapshot = store.snapshot /\ store'.canonical = store.canonical
          /\ store'.status = <<>> /\ OnSet(store', {"snapshot", "canonical", "status"})
      BY <1>0, <1>3 DEF OnSet
    <2>2. DOMAIN <<>> = {} /\ <<>> = [x \in {} |-> <<>>[x]]
      OBVIOUS
    <2>3. DOMAIN store'.status = {} /\ OnSet(store'.status, DOMAIN store'.status)
      BY <2>1, <2>2 DEF OnSet
    <2> QED BY <1>0, <2>1, <2>3
  <1>4. CASE phase = "replaying" /\ todo # <<>> /\ store' = [store EXCEPT !.snapshot[Doing] = Torn]
    <2>1. /\ store'.canonical = store.canonical /\ store'.status = store.status
          /\ store'.snapshot = [store.snapshot EXCEPT ![Doing] = Torn]
          /\ OnSet(store', {"snapshot", "canonical", "status"})
      BY <1>0, <1>4 DEF OnSet
    <2>2. /\ OnSet(store'.snapshot, Names)
          /\ \A n \in Names : store'.snapshot[n] = store.snapshot[n] \/ n = Doing
      BY <1>0, <2>1 DEF OnSet
    <2> QED BY <1>0, <1>4, <2>1, <2>2
  <1> QED BY <1>1, <1>2, <1>3, <1>4, NotWrittenFacts

(* A capture that is cut off is known.                                     *)
LEMMA CutOffFacts ==
    ASSUME IInv, UNCHANGED world, store' \in NotWritten, past' = CutOff
    PROVE  /\ OnSet(past', {"passed", "baseline", "torn"})
           /\ past'.passed = past.passed /\ past'.baseline = past.baseline
           /\ EvidenceSound'
           /\ \A n \in DOMAIN store'.status :
                 store'.status[n] = "verified" =>
                     store'.snapshot[n] = past'.baseline[n] \/ n \in past'.torn
  <1>0. /\ DOMAIN store'.status \subseteq Names
        /\ \A n \in DOMAIN store'.status : n \in DOMAIN store.status /\ store'.status[n] = store.status[n]
        /\ \A n \in Names : store'.canonical[n] = store.canonical[n] \/ store'.canonical[n] = Torn
        /\ \A n \in Names : store'.snapshot[n] = store.snapshot[n]
                            \/ (phase = "replaying" /\ todo # <<>> /\ n = Doing)
    BY CutShort
  <1>1. OnSet(past, {"passed", "baseline", "torn"})
    BY DEF IInv, Typing
  <1>2. /\ OnSet(past', {"passed", "baseline", "torn"})
        /\ past'.passed = past.passed /\ past'.baseline = past.baseline
        /\ past.torn \subseteq past'.torn
        /\ phase = "marking" \/ store'.snapshot # store.snapshot => Doing \in past'.torn
    BY <1>1 DEF CutOff, OnSet
  <1>3. EvidenceSound'
    BY <1>0, <1>2 DEF IInv, EvidenceSound
  <1>4. ASSUME NEW n \in DOMAIN store'.status, store'.status[n] = "verified",
               store'.snapshot[n] # past'.baseline[n]
        PROVE  n \in past'.torn
    <2>1. CASE store'.snapshot = store.snapshot
      BY <1>0, <1>2, <1>4, <2>1 DEF IInv, Baselines
    <2>2. CASE store'.snapshot # store.snapshot
      BY <1>0, <1>2, <1>4, <2>2 DEF IInv, Baselines
    <2> QED BY <2>1, <2>2
  <1> QED BY <1>2, <1>3, <1>4

(* What setting a status does.                                             *)
LEMMA StatusSet ==
    ASSUME IInv, Doing \in Names, NEW status, store' = SetStatus(status)
    PROVE  /\ OnSet(store', {"snapshot", "canonical", "status"})
           /\ store'.snapshot = store.snapshot /\ store'.canonical = store.canonical
           /\ DOMAIN store'.status \subseteq Names /\ OnSet(store'.status, DOMAIN store'.status)
           /\ \A n \in DOMAIN store'.status :
                 \/ n = Doing /\ store'.status[n] = status
                 \/ n # Doing /\ n \in DOMAIN store.status /\ store'.status[n] = store.status[n]
  <1>0. /\ OnSet(store, {"snapshot", "canonical", "status"})
        /\ DOMAIN store.status \subseteq Names
    BY DEF IInv, Typing
  <1>1. PICK f : f = [n \in DOMAIN store.status \cup {Doing} |->
                         IF n = Doing THEN status ELSE store.status[n]]
    OBVIOUS
  <1>2. store' = [store EXCEPT !.status = f]
    BY <1>1 DEF SetStatus
  <1>3. /\ OnSet(store', {"snapshot", "canonical", "status"}) /\ store'.status = f
        /\ store'.snapshot = store.snapshot /\ store'.canonical = store.canonical
    BY <1>0, <1>2 DEF OnSet
  <1>4. DOMAIN f = {Doing} \cup DOMAIN store.status /\ OnSet(f, DOMAIN f)
    BY <1>1 DEF OnSet
  <1> QED BY <1>0, <1>1, <1>3, <1>4

(* Evidence is written before the status that speaks of it.                *)
LEMMA WriteCanonicalKeeps == ASSUME IInv, WriteCanonical PROVE IInv'
  <1>0. /\ IInv /\ step = "evidence" /\ phase \in {"running", "clients"} /\ todo # <<>> /\ Doing \in Names
        /\ UNCHANGED <<world, phase, options, topology, todo, job, rows, report, past>>
        /\ \/ store' = [store EXCEPT !.canonical[Doing] = job.evidence] /\ step' = "status"
           \/ step' = "done" /\ store' \in NotWritten
    BY DoingFacts DEF WriteCanonical, Promoting, Kept, Idle, IInv, Stages, Agenda
  <1>1. /\ OnSet(store', {"snapshot", "canonical", "status"})
        /\ OnSet(store'.snapshot, Names) /\ OnSet(store'.canonical, Names)
        /\ DOMAIN store'.status \subseteq Names /\ OnSet(store'.status, DOMAIN store'.status)
        /\ \A n \in DOMAIN store'.status : n \in DOMAIN store.status /\ store'.status[n] = store.status[n]
        /\ \A n \in Names : \/ store'.canonical[n] = store.canonical[n] \/ store'.canonical[n] = Torn
                            \/ n = Doing /\ store'.canonical[n] = job.evidence
        /\ \A n \in Names : store'.snapshot[n] = store.snapshot[n]
        /\ step' = "status" => store'.canonical[Doing] = job.evidence
    <2>1. CASE step' = "done" /\ store' \in NotWritten
      BY <1>0, <2>1, CutShort
    <2>2. CASE store' = [store EXCEPT !.canonical[Doing] = job.evidence] /\ step' = "status"
      <3>1. /\ OnSet(store, {"snapshot", "canonical", "status"})
            /\ OnSet(store.snapshot, Names) /\ OnSet(store.canonical, Names)
            /\ DOMAIN store.status \subseteq Names /\ OnSet(store.status, DOMAIN store.status)
        BY <1>0 DEF IInv, Typing
      <3>2. /\ store'.snapshot = store.snapshot /\ store'.status = store.status
            /\ store'.canonical = [store.canonical EXCEPT ![Doing] = job.evidence]
            /\ OnSet(store', {"snapshot", "canonical", "status"})
        BY <3>1, <2>2 DEF OnSet
      <3>3. /\ OnSet(store'.canonical, Names) /\ store'.canonical[Doing] = job.evidence
            /\ \A n \in Names : n # Doing => store'.canonical[n] = store.canonical[n]
        BY <1>0, <3>1, <3>2 DEF OnSet
      <3> QED BY <2>2, <3>1, <3>2, <3>3
    <2> QED BY <1>0, <2>1, <2>2
  <1>2. step' \in {"status", "done"}
    BY <1>0
  <1>3. Typing'
    BY <1>0, <1>1, <1>2, Frame DEF IInv, Typing
  <1>4. Stages'
    BY <1>0, <1>2, Frame DEF IInv, Stages, Layer2, Layer1, Bringing
  <1>5. Agenda'
    BY <1>0, Frame DEF IInv, Agenda
  <1>6. Promotion'
    BY <1>0, <1>1, <1>2, Frame DEF IInv, Promotion
  <1>7. EvidenceSound'
    <2>1. job.evidence \in past.passed[Doing]
      BY <1>0 DEF IInv, Promotion
    <2> QED BY <1>0, <1>1, <2>1 DEF IInv, EvidenceSound
  <1>8. Baselines'
    BY <1>0, <1>1, Frame DEF IInv, Baselines
  <1>9. Containers'
    BY <1>0, <1>2, Frame DEF IInv, Containers
  <1>10. TokensFresh'
    BY <1>0, Frame DEF IInv, TokensFresh
  <1>11. ExitHonest' /\ TornDown'
    BY <1>0 DEF ExitHonest, TornDown
  <1> QED BY <1>3, <1>4, <1>5, <1>6, <1>7, <1>8, <1>9, <1>10, <1>11 DEF IInv

(* A status says verified of the snapshot that is there.                   *)
LEMMA WriteVerifiedKeeps == ASSUME IInv, WriteVerified PROVE IInv'
  <1>0. /\ IInv /\ step = "status" /\ step' = "done" /\ phase \in {"running", "clients"} /\ todo # <<>>
        /\ Doing \in Names
        /\ UNCHANGED <<world, phase, options, topology, todo, job, rows, report>>
        /\ \/ /\ store' = SetStatus("verified")
              /\ past' = [past EXCEPT !.baseline[Doing] = store.snapshot[Doing], !.torn = @ \ {Doing}]
           \/ store' \in NotWritten /\ UNCHANGED past
    BY DoingFacts DEF WriteVerified, Promoting, Kept, Idle, IInv, Stages, Agenda
  <1>1. /\ OnSet(past, {"passed", "baseline", "torn"}) /\ OnSet(past.passed, Names)
        /\ OnSet(past.baseline, Names)
    BY <1>0 DEF IInv, Typing
  <1>2. /\ OnSet(store', {"snapshot", "canonical", "status"})
        /\ OnSet(store'.snapshot, Names) /\ OnSet(store'.canonical, Names)
        /\ DOMAIN store'.status \subseteq Names /\ OnSet(store'.status, DOMAIN store'.status)
        /\ OnSet(past', {"passed", "baseline", "torn"}) /\ OnSet(past'.passed, Names)
        /\ OnSet(past'.baseline, Names)
        /\ EvidenceSound'
        /\ \A n \in DOMAIN store'.status :
              store'.status[n] = "verified" => store'.snapshot[n] = past'.baseline[n] \/ n \in past'.torn
    <2>1. CASE store' \in NotWritten /\ UNCHANGED past
      <3>1. /\ OnSet(store', {"snapshot", "canonical", "status"})
            /\ OnSet(store'.snapshot, Names) /\ OnSet(store'.canonical, Names)
            /\ DOMAIN store'.status \subseteq Names /\ OnSet(store'.status, DOMAIN store'.status)
            /\ \A n \in DOMAIN store'.status : n \in DOMAIN store.status /\ store'.status[n] = store.status[n]
            /\ \A n \in Names : store'.canonical[n] = store.canonical[n] \/ store'.canonical[n] = Torn
            /\ \A n \in Names : store'.snapshot[n] = store.snapshot[n]
        BY <1>0, <2>1, CutShort
      <3>2. EvidenceSound'
        BY <2>1, <3>1, <1>0 DEF IInv, EvidenceSound
      <3>3. \A n \in DOMAIN store'.status :
              store'.status[n] = "verified" => store'.snapshot[n] = past'.baseline[n] \/ n \in past'.torn
        BY <2>1, <3>1, <1>0 DEF IInv, Baselines
      <3> QED BY <1>1, <2>1, <3>1, <3>2, <3>3
    <2>2. CASE /\ store' = SetStatus("verified")
               /\ past' = [past EXCEPT !.baseline[Doing] = store.snapshot[Doing], !.torn = @ \ {Doing}]
      <3>1. /\ OnSet(store', {"snapshot", "canonical", "status"})
            /\ store'.snapshot = store.snapshot /\ store'.canonical = store.canonical
            /\ DOMAIN store'.status \subseteq Names /\ OnSet(store'.status, DOMAIN store'.status)
            /\ \A n \in DOMAIN store'.status :
                 \/ n = Doing /\ store'.status[n] = "verified"
                 \/ n # Doing /\ n \in DOMAIN store.status /\ store'.status[n] = store.status[n]
        BY <1>0, <2>2, StatusSet
      <3>2. /\ past'.passed = past.passed /\ past'.torn = past.torn \ {Doing}
            /\ past'.baseline = [past.baseline EXCEPT ![Doing] = store.snapshot[Doing]]
            /\ OnSet(past', {"passed", "baseline", "torn"})
        BY <1>1, <2>2 DEF OnSet
      <3>3. /\ OnSet(past'.baseline, Names) /\ past'.baseline[Doing] = store.snapshot[Doing]
            /\ \A n \in Names : n # Doing => past'.baseline[n] = past.baseline[n]
        BY <1>0, <1>1, <3>2 DEF OnSet
      <3>4. store.canonical[Doing] \in past.passed[Doing]
        BY <1>0 DEF IInv, Promotion
      <3>5. EvidenceSound'
        BY <1>0, <3>1, <3>2, <3>4 DEF IInv, EvidenceSound
      <3>6. \A n \in DOMAIN store'.status :
              store'.status[n] = "verified" => store'.snapshot[n] = past'.baseline[n] \/ n \in past'.torn
        BY <1>0, <3>1, <3>2, <3>3 DEF IInv, Baselines
      <3>7. OnSet(store.snapshot, Names) /\ OnSet(store.canonical, Names)
        BY <1>0 DEF IInv, Typing
      <3> QED BY <1>1, <3>1, <3>2, <3>3, <3>5, <3>6, <3>7
    <2> QED BY <1>0, <2>1, <2>2
  <1>3. Typing'
    BY <1>0, <1>2, Frame DEF IInv, Typing
  <1>4. Stages'
    BY <1>0, Frame DEF IInv, Stages, Layer2, Layer1, Bringing
  <1>5. Agenda'
    BY <1>0, Frame DEF IInv, Agenda
  <1>6. Promotion'
    BY <1>0 DEF IInv, Promotion
  <1>7. Baselines'
    BY <1>2 DEF Baselines
  <1>8. Containers'
    BY <1>0, Frame DEF IInv, Containers
  <1>9. TokensFresh'
    BY <1>0, Frame DEF IInv, TokensFresh
  <1>10. ExitHonest' /\ TornDown'
    BY <1>0 DEF ExitHonest, TornDown
  <1> QED BY <1>2, <1>3, <1>4, <1>5, <1>6, <1>7, <1>8, <1>9, <1>10 DEF IInv

-----------------------------------------------------------------------------
(* Layer 1.                                                                *)

(* A replay starts with all scenarios.                                     *)
LEMMA StartReplayKeeps == ASSUME IInv, StartReplay PROVE IInv'
  <1>0. /\ IInv /\ phase = "idle" /\ phase' = "replaying" /\ DOMAIN options' = {"regen"}
        /\ todo' = [i \in DOMAIN InScope |-> InScope[i].name] /\ rows' = <<>> /\ report' = NoReport
        /\ UNCHANGED <<world, topology, step, job, store, past>>
    BY DEF StartReplay
  <1>1. step = "none" /\ step' = "none"
    BY <1>0, AtRest DEF IInv, Stages
  <1>2. todo' \in Seq(Names) /\ IsInjective(todo')
    <2>1. /\ InScope \in Seq(ToSet(InScope))
          /\ \A i, j \in DOMAIN InScope : InScope[i].name = InScope[j].name => i = j
          /\ ScenarioNames \subseteq Names
      BY <1>0, WorldFacts DEF IInv, Typing
    <2>2. PICK n \in Nat : n = Len(InScope)
      BY <2>1
    <2>3. DOMAIN InScope = 1 .. n
      BY <2>1, <2>2
    <2>4. \A i \in 1 .. n : InScope[i].name \in Names
      BY <2>1, <2>3 DEF ScenarioNames
    <2>5. todo' \in [1 .. n -> Names]
      BY <1>0, <2>3, <2>4
    <2>6. todo' \in Seq(Names)
      BY <2>5, SeqDef
    <2>7. IsInjective(todo')
      BY <1>0, <2>1 DEF IsInjective
    <2> QED BY <2>6, <2>7
  <1>3. Typing'
    <2>1. rows' \in Seq(Names \X Given)
      BY <1>0
    <2>2. OnSet(report', {"exit", "complete"})
      BY <1>0 DEF NoReport, OnSet
    <2> QED BY <1>0, <1>2, <2>1, <2>2, Frame DEF IInv, Typing, Layer1
  <1>4. Stages'
    BY <1>0, <1>1, Frame DEF Stages, Layer1, Bringing
  <1>5. Agenda'
    <2>1. DOMAIN <<>> = {}
      OBVIOUS
    <2>2. Ran' = {}
      BY <1>0, <2>1 DEF Ran
    <2> QED BY <1>0, <1>2, <2>1, <2>2 DEF Agenda, Bringing
  <1>6. Promotion' /\ EvidenceSound' /\ TokensFresh'
    BY <1>0, <1>1, Frame DEF IInv, Promotion, EvidenceSound, TokensFresh
  <1>7. Baselines'
    BY <1>0 DEF IInv, Baselines
  <1>8. Containers'
    BY <1>0 DEF IInv, Containers
  <1>9. ExitHonest' /\ TornDown'
    BY <1>0 DEF ExitHonest, TornDown
  <1> QED BY <1>3, <1>4, <1>5, <1>6, <1>7, <1>8, <1>9 DEF IInv

(* A replay, or a capture, ends with a failure.                            *)
LEMMA ReplayEnds ==
    ASSUME IInv, phase \in Layer1, NEW code, Exit(code),
           UNCHANGED <<world, options, topology, step, job, rows>>,
           \/ UNCHANGED <<store, past>> /\ phase = "replaying"
           \/ store' \in NotWritten /\ past' = CutOff
    PROVE  IInv'
  <1>1. /\ phase' = "idle" /\ todo' = <<>> /\ todo' \in Seq(Names)
        /\ OnSet(report', {"exit", "complete"})
    BY ExitFacts DEF IInv
  <1>2. /\ step = "none" /\ step' = "none" /\ DOMAIN options = {"regen"}
    BY DEF IInv, Stages, Layer2, Layer1, Bringing
  <1>3. /\ OnSet(store', {"snapshot", "canonical", "status"})
        /\ OnSet(store'.snapshot, Names) /\ OnSet(store'.canonical, Names)
        /\ DOMAIN store'.status \subseteq Names /\ OnSet(store'.status, DOMAIN store'.status)
        /\ OnSet(past', {"passed", "baseline", "torn"}) /\ OnSet(past'.passed, Names)
        /\ OnSet(past'.baseline, Names)
        /\ EvidenceSound'
        /\ \A n \in DOMAIN store'.status :
              store'.status[n] = "verified" => store'.snapshot[n] = past'.baseline[n] \/ n \in past'.torn
    <2>1. OnSet(past.passed, Names) /\ OnSet(past.baseline, Names)
      BY DEF IInv, Typing
    <2>2. CASE UNCHANGED <<store, past>> /\ phase = "replaying"
      BY <2>2 DEF IInv, Typing, EvidenceSound, Baselines
    <2>3. CASE store' \in NotWritten /\ past' = CutOff
      BY <2>1, <2>3, CutShort, CutOffFacts
    <2> QED BY <2>2, <2>3
  <1>4. Typing'
    BY <1>1, <1>3, Frame DEF IInv, Typing
  <1>5. Stages'
    BY <1>1, <1>2, Frame DEF Stages, Layer1, Bringing
  <1>6. Agenda'
    BY <1>1, NothingToDo DEF IInv, Agenda, Bringing
  <1>7. Promotion' /\ TokensFresh'
    BY <1>2 DEF Promotion, TokensFresh
  <1>8. Baselines'
    BY <1>3 DEF Baselines
  <1>9. Containers'
    BY <1>1 DEF IInv, Containers
  <1>10. ExitHonest' /\ TornDown'
    BY <1>2 DEF ExitHonest, TornDown
  <1> QED BY <1>3, <1>4, <1>5, <1>6, <1>7, <1>8, <1>9, <1>10 DEF IInv

(* The next scenario is replayed.                                          *)
LEMMA ReplayGoesOn ==
    ASSUME IInv, phase \in Layer1, todo # <<>>, phase' = "replaying", todo' = Tail(todo),
           UNCHANGED <<world, options, topology, step, job, rows, report, past>>,
           \/ UNCHANGED store /\ phase = "replaying"
           \/ store' = SetStatus("unverified")
    PROVE  IInv'
  <1>1. /\ Doing \in Names /\ todo' \in Seq(Names) /\ IsInjective(todo')
        /\ \A x : x \in ToSet(todo') => x \in ToSet(todo)
    BY DoingFacts DEF IInv, Agenda
  <1>2. step = "none" /\ step' = "none" /\ DOMAIN options = {"regen"}
    BY DEF IInv, Stages, Layer2, Layer1, Bringing
  <1>3. /\ OnSet(store', {"snapshot", "canonical", "status"})
        /\ store'.snapshot = store.snapshot /\ store'.canonical = store.canonical
        /\ DOMAIN store'.status \subseteq Names /\ OnSet(store'.status, DOMAIN store'.status)
        /\ \A n \in DOMAIN store'.status :
              store'.status[n] = "verified" =>
                  /\ n \in DOMAIN store.status /\ store.status[n] = "verified"
                  /\ phase = "replaying" \/ n # Doing
    <2>1. CASE UNCHANGED store /\ phase = "replaying"
      BY <2>1 DEF IInv, Typing
    <2>2. CASE store' = SetStatus("unverified")
      BY <1>1, <2>2, StatusSet
    <2> QED BY <2>1, <2>2
  <1>4. Typing'
    BY <1>1, <1>3, Frame DEF IInv, Typing, Layer1
  <1>5. Stages'
    BY <1>2, Frame DEF Stages, Layer1, Bringing
  <1>6. Agenda'
    BY <1>1, Frame DEF IInv, Agenda, Bringing
  <1>7. Promotion' /\ TokensFresh'
    BY <1>2 DEF Promotion, TokensFresh
  <1>8. EvidenceSound'
    BY <1>3 DEF IInv, EvidenceSound
  <1>9. Baselines'
    BY <1>3 DEF IInv, Baselines, Layer1
  <1>10. Containers'
    BY DEF IInv, Containers
  <1>11. ExitHonest' /\ TornDown'
    BY DEF ExitHonest, TornDown
  <1> QED BY <1>4, <1>5, <1>6, <1>7, <1>8, <1>9, <1>10, <1>11 DEF IInv

(* A snapshot is captured; its status still speaks of the old one.         *)
LEMMA CaptureKeeps ==
    ASSUME IInv, phase = "replaying", todo # <<>>, NEW captured,
           store' = [store EXCEPT !.snapshot[Doing] = captured], phase' = "marking",
           UNCHANGED <<world, options, topology, todo, step, job, rows, report, past>>
    PROVE  IInv'
  <1>1. /\ OnSet(store, {"snapshot", "canonical", "status"}) /\ OnSet(store.snapshot, Names)
        /\ DOMAIN store.status \subseteq Names
    BY DEF IInv, Typing
  <1>2. /\ store'.canonical = store.canonical /\ store'.status = store.status
        /\ store'.snapshot = [store.snapshot EXCEPT ![Doing] = captured]
        /\ OnSet(store', {"snapshot", "canonical", "status"})
    BY <1>1 DEF OnSet
  <1>3. /\ OnSet(store'.snapshot, Names)
        /\ \A n \in Names : n # Doing => store'.snapshot[n] = store.snapshot[n]
    BY <1>1, <1>2 DEF OnSet
  <1>4. step = "none" /\ step' = "none"
    BY DEF IInv, Stages
  <1>5. Typing'
    BY <1>2, <1>3, Frame DEF IInv, Typing, Layer1
  <1>6. Stages'
    BY <1>4, Frame DEF IInv, Stages, Layer2, Layer1, Bringing
  <1>7. Agenda'
    BY Frame DEF IInv, Agenda, Bringing
  <1>8. Promotion' /\ TokensFresh'
    BY <1>4 DEF Promotion, TokensFresh
  <1>9. EvidenceSound'
    BY <1>2 DEF IInv, EvidenceSound
  <1>10. Baselines'
    BY <1>1, <1>2, <1>3, Frame DEF IInv, Baselines
  <1>11. Containers'
    BY DEF IInv, Containers
  <1>12. ExitHonest' /\ TornDown'
    BY DEF ExitHonest, TornDown
  <1> QED BY <1>5, <1>6, <1>7, <1>8, <1>9, <1>10, <1>11, <1>12 DEF IInv

(* A scenario is replayed.                                                 *)
LEMMA ReplayScenarioKeeps == ASSUME IInv, ReplayScenario PROVE IInv'
  <1>1. /\ phase = "replaying" /\ phase \in Layer1 /\ todo # <<>>
        /\ UNCHANGED <<world, options, topology, step, job, rows>>
        /\ \E captured :
              \/ Exit(1) /\ UNCHANGED <<store, past>>
              \/ todo' = Tail(todo) /\ UNCHANGED <<phase, report, store, past>>
              \/ /\ store' = [store EXCEPT !.snapshot[Doing] = captured]
                 /\ phase' = "marking" /\ UNCHANGED <<todo, report, past>>
              \/ Exit(1) /\ store' \in NotWritten /\ past' = CutOff
    BY DEF ReplayScenario, Layer1
  <1>2. CASE Exit(1) /\ (UNCHANGED <<store, past>> \/ (store' \in NotWritten /\ past' = CutOff))
    BY <1>1, <1>2, ReplayEnds
  <1>3. CASE todo' = Tail(todo) /\ UNCHANGED <<phase, report, store, past>>
    BY <1>1, <1>3, ReplayGoesOn
  <1>4. ASSUME NEW captured, store' = [store EXCEPT !.snapshot[Doing] = captured],
               phase' = "marking", UNCHANGED <<todo, report, past>>
        PROVE  IInv'
    BY <1>1, <1>4, CaptureKeeps
  <1> QED BY <1>1, <1>2, <1>3, <1>4

(* A captured snapshot is marked.                                          *)
LEMMA MarkKeeps == ASSUME IInv, Mark PROVE IInv'
  <1>1. /\ phase = "marking" /\ phase \in Layer1
        /\ UNCHANGED <<world, options, topology, step, job, rows>>
        /\ \/ /\ store' = SetStatus("unverified") /\ phase' = "replaying" /\ todo' = Tail(todo)
              /\ UNCHANGED <<report, past>>
           \/ Exit(1) /\ store' \in NotWritten /\ past' = CutOff
    BY DEF Mark, Layer1
  <1>2. todo # <<>>
    BY <1>1 DEF IInv, Stages
  <1> QED BY <1>1, <1>2, ReplayEnds, ReplayGoesOn

(* A replay ends well.                                                     *)
LEMMA FinishReplayKeeps == ASSUME IInv, FinishReplay PROVE IInv'
  <1>1. /\ phase = "replaying" /\ phase \in Layer1 /\ Exit(0)
        /\ UNCHANGED <<world, options, topology, step, job, rows, store, past>>
    BY DEF FinishReplay, Layer1
  <1> QED BY <1>1, ReplayEnds

(* The process is killed.                                                  *)
LEMMA KillKeeps == ASSUME IInv, Kill PROVE IInv'
  <1>0. /\ IInv /\ phase # "idle" /\ store' \in NotWritten /\ past' = CutOff
        /\ phase' = "idle" /\ todo' = <<>> /\ step' = "none" /\ job' = NoJob
        /\ report' = [report EXCEPT !.exit = Missing]
        /\ UNCHANGED <<world, options, topology, rows>>
    BY DEF Kill
  <1>1. Typing'
    <2>1. OnSet(job', {"responses", "valid", "verdict", "evidence"}) /\ OnSet(job'.responses, Sides)
      BY <1>0 DEF NoJob, OnSet
    <2>2. OnSet(report', {"exit", "complete"})
      BY <1>0 DEF IInv, Typing, OnSet
    <2>3. /\ OnSet(store', {"snapshot", "canonical", "status"})
          /\ OnSet(store'.snapshot, Names) /\ OnSet(store'.canonical, Names)
          /\ DOMAIN store'.status \subseteq Names /\ OnSet(store'.status, DOMAIN store'.status)
      BY <1>0, CutShort
    <2>4. /\ OnSet(past', {"passed", "baseline", "torn"})
          /\ OnSet(past'.passed, Names) /\ OnSet(past'.baseline, Names)
      BY <1>0, CutOffFacts DEF IInv, Typing
    <2>5. todo' \in Seq(Names)
      BY <1>0
    <2> QED BY <1>0, <2>1, <2>2, <2>3, <2>4, <2>5, Frame DEF IInv, Typing
  <1>2. Stages'
    BY <1>0, Frame DEF IInv, Stages, Layer2, Layer1, Bringing
  <1>3. Agenda'
    BY <1>0, NothingToDo DEF IInv, Agenda, Bringing
  <1>4. Promotion' /\ TokensFresh'
    BY <1>0 DEF Promotion, TokensFresh
  <1>5. EvidenceSound' /\ Baselines'
    BY <1>0, CutOffFacts DEF Baselines
  <1>6. Containers'
    BY <1>0 DEF IInv, Containers
  <1>7. ExitHonest' /\ TornDown'
    <2>1. report'.exit = Missing
      BY <1>0 DEF IInv, Typing, OnSet
    <2> QED BY <2>1, WorldsAssumption DEF ExitHonest, TornDown
  <1> QED BY <1>1, <1>2, <1>3, <1>4, <1>5, <1>6, <1>7 DEF IInv

-----------------------------------------------------------------------------
(* The theorems.                                                           *)

(* In whatever order writes fail, processes die and containers stay, the   *)
(* invariant holds (bin/layer2.rs, layer1_replay.rs, snapshot.rs).         *)
THEOREM Invariant == Spec => []IInv
  <1>1. Init => IInv
    BY Initially
  <1>2. IInv /\ [Next]_vars => IInv'
    <2> SUFFICES ASSUME IInv, [Next]_vars PROVE IInv'
      OBVIOUS
    <2>1. ASSUME Step PROVE IInv'
      BY <2>1, ClearKeeps, UpKeeps, WaitHealthyKeeps, LoadFailsKeeps, CallFailsKeeps, PostOurKeeps,
         PostCxfKeeps, JudgeScenarioKeeps, FetchWsdlKeeps, JudgeRewriteKeeps, WriteCanonicalKeeps,
         WriteVerifiedKeeps, RecordKeeps, FinishScenariosKeeps, RunClientKeeps, PrintReportKeeps,
         DropKeeps, ReplayScenarioKeeps, MarkKeeps, FinishReplayKeeps DEF Step
    <2>2. CASE UNCHANGED vars
      BY <2>2, Unchanged DEF vars
    <2> QED BY <2>1, <2>2, StartLayer2Keeps, StartReplayKeeps, KillKeeps DEF Next
  <1> QED BY <1>1, <1>2, PTL DEF Spec

(* "verified" is over evidence of a run that passed, or over a file that   *)
(* was cut short (promote.rs, snapshot.rs).                                *)
THEOREM EvidenceHolds == Spec => []EvidenceSound
  <1>1. IInv => EvidenceSound
    BY DEF IInv
  <1> QED BY <1>1, Invariant, PTL

(* Between runs a "verified" snapshot is the one that was verified, unless *)
(* a capture was cut off (snapshot.rs write_unverified).                   *)
THEOREM BaselinesHold == Spec => []BaselineMarked
  <1>1. IInv => BaselineMarked
    BY DEF IInv, Baselines, BaselineMarked
  <1> QED BY <1>1, Invariant, PTL

(* The exit code of layer2 says whether all that was asked for passed      *)
(* (report.rs is_green).                                                   *)
THEOREM ExitCodesHonest == Spec => []ExitHonest
  <1>1. IInv => ExitHonest
    BY DEF IInv
  <1> QED BY <1>1, Invariant, PTL

(* A token is refused as a replay only by containers that a failed `down`  *)
(* left over (compose.rs Topology::up).                                    *)
THEOREM TokensStayFresh == Spec => []TokensFresh
  <1>1. IInv => TokensFresh
    BY DEF IInv
  <1> QED BY <1>1, Invariant, PTL

(* Containers outlive a run that came to its verdicts only if asked to, or *)
(* if docker failed (compose.rs Drop of Topology).                         *)
THEOREM ContainersTornDown == Spec => []TornDown
  <1>1. IInv => TornDown
    BY DEF IInv
  <1> QED BY <1>1, Invariant, PTL

=============================================================================
