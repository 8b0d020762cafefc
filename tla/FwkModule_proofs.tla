--------------------------- MODULE FwkModule_proofs ---------------------------
(***************************************************************************)
(* Proofs about FwkModule, for every module table: the callbacks are       *)
(* called in the order the stages promise, the state of an entity says     *)
(* what has been called for it, and no request reaches an entity that is   *)
(* not initialised.                                                        *)
(*                                                                         *)
(* The loops of fwk_module.c visit the callbacks in the order of a rank:   *)
(* the part of the start-up, the round, the module, and the place among    *)
(* the callbacks of the module.  What CallbackOrder requires of a callback *)
(* are those of a lower rank, and each loop goes on to the next rank.      *)
(***************************************************************************)
EXTENDS FwkModule, TLAPS

(* The callbacks that some table calls, ...                                *)
Proper ==
  {c \in Callback :
     /\ c.step \in {"init", "post_init"} => c.for[2] = 0
     /\ c.step = "element_init" => c.for[2] > 0
     /\ c.step # "bind" => c.round = 0
     /\ c.step = "bind" => c.for[1] \in HasBind \/ c.for[2] = 0}

(* ... and their ranks.                                                    *)
Part(c) == IF c.step \in InitSteps THEN 0 ELSE IF c.step = "bind" THEN 1 ELSE 2
Place(c) == IF c.step = "post_init" THEN ElementCount[c.for[1]] + 1
                                    ELSE c.for[2]
Earlier(c, d) ==
  \/ Part(c) < Part(d)
  \/ /\ Part(c) = Part(d)
     /\ \/ c.round < d.round
        \/ /\ c.round = d.round
           /\ \/ c.for[1] < d.for[1]
              \/ c.for[1] = d.for[1] /\ Place(c) < Place(d)

(* The callback that initialises an entity.                                *)
Initializer(x) ==
  Cb(IF x[2] = 0 THEN "post_init" ELSE "element_init", x[1], x[2], 0)

FirstCallback(x) ==
  Cb(IF x[2] = 0 THEN "init" ELSE "element_init", x[1], x[2], 0)

(* The states, in terms of the callbacks that have returned.               *)
StateInv ==
  \A x \in Entities :
    /\ state[x] # "uninitialized" <=> Initializer(x) \in done
    /\ state[x] # "uninitialized" => FirstCallback(x) \in done
    /\ state[x] = "started" => \A r \in Rounds : BindsOf(x, r) \subseteq done

(* What is started, while modules start and then.                          *)
StartedInv ==
  \A x \in Entities :
    \/ now \in Callback /\ now.step = "start" /\ x \in Preceding(now.for)
    \/ now = Running
    => state[x] = "started"

BindIdInv ==
  /\ now \in Callback /\ IsDefined(now)
  /\ now.step \in {"init", "element_init", "bind"}
  => bindId = now.for

ModuleInv ==
  /\ ModuleTypeOK /\ now \in Proper \cup {Running, Failed}
  /\ CallbackOrder /\ StateInv /\ StartedInv /\ BindIdInv

(***************************************************************************)
(* Entities, callbacks and ranks                                           *)
(***************************************************************************)

LEMMA EntityParts ==
  /\ ModuleCount \in Nat \ {0}
  /\ \A m \in Modules : m \in Nat /\ 1 <= m /\ m <= ModuleCount
                          /\ ElementCount[m] \in Nat
  /\ \A x \in Entities : /\ x = <<x[1], x[2]>> /\ x[1] \in Modules
                         /\ x[2] \in 0..ElementCount[x[1]]
  /\ \A m \in Modules, e \in Nat :
       e <= ElementCount[m] => <<m, e>> \in Entities
<1>1. /\ ModuleCount \in Nat \ {0}
      /\ \A m \in Modules : m \in Nat /\ 1 <= m /\ m <= ModuleCount
                              /\ ElementCount[m] \in Nat
  BY ModuleAssumption DEF Modules
<1>2. \A x \in Entities : /\ x = <<x[1], x[2]>> /\ x[1] \in Modules
                          /\ x[2] \in 0..ElementCount[x[1]]
  <2> SUFFICES ASSUME NEW m \in Modules,
                      NEW x \in {m} \X (0..ElementCount[m])
               PROVE  /\ x = <<x[1], x[2]>> /\ x[1] \in Modules
                      /\ x[2] \in 0..ElementCount[x[1]]
    BY DEF Entities
  <2> QED OBVIOUS
<1>3. ASSUME NEW m \in Modules, NEW e \in Nat, e <= ElementCount[m]
      PROVE  <<m, e>> \in Entities
  <2>1. <<m, e>> \in {m} \X (0..ElementCount[m])
    BY <1>1, <1>3
  <2> QED BY <2>1 DEF Entities
<1> QED BY <1>1, <1>2, <1>3

(* A callback is known by its step, entity and round.                      *)
LEMMA CallbackParts ==
  ASSUME NEW c \in Callback
  PROVE  /\ c.step \in Steps /\ c.for \in Entities /\ c.round \in {0, 1}
         /\ c.for = <<c.for[1], c.for[2]>> /\ c.for[1] \in Modules
         /\ c.for[1] \in Nat /\ c.for[2] \in Nat
         /\ c.for[2] <= ElementCount[c.for[1]]
         /\ ElementCount[c.for[1]] \in Nat
         /\ \A step, m, e, round :
              c = Cb(step, m, e, round) <=> /\ c.step = step /\ c.for[1] = m
                                            /\ c.for[2] = e /\ c.round = round
<1>1. c = [step |-> c.step, for |-> c.for, round |-> c.round]
      /\ c.step \in Steps /\ c.for \in Entities /\ c.round \in {0, 1}
  BY DEF Callback, Rounds, BIND_ROUND_MAX
<1>2. /\ c.for = <<c.for[1], c.for[2]>> /\ c.for[1] \in Modules
      /\ c.for[1] \in Nat /\ c.for[2] \in Nat
      /\ c.for[2] <= ElementCount[c.for[1]] /\ ElementCount[c.for[1]] \in Nat
  BY <1>1, EntityParts
<1>3. ASSUME NEW step, NEW m, NEW e, NEW round
      PROVE  c = Cb(step, m, e, round) <=> /\ c.step = step /\ c.for[1] = m
                                           /\ c.for[2] = e /\ c.round = round
  <2>1. c = Cb(step, m, e, round) =>
          c.step = step /\ c.for[1] = m /\ c.for[2] = e /\ c.round = round
    BY DEF Cb
  <2>2. c.step = step /\ c.for[1] = m /\ c.for[2] = e /\ c.round = round
          => c = Cb(step, m, e, round)
    BY <1>1, <1>2 DEF Cb
  <2> QED BY <2>1, <2>2
<1> QED BY <1>1, <1>2, <1>3

LEMMA CallbackEqual ==
  ASSUME NEW c \in Callback, NEW d \in Callback,
         c.step = d.step, c.for[1] = d.for[1], c.for[2] = d.for[2],
         c.round = d.round
  PROVE  c = d
<1>1. c = Cb(d.step, d.for[1], d.for[2], d.round)
  BY CallbackParts
<1>2. d = Cb(d.step, d.for[1], d.for[2], d.round)
  BY CallbackParts
<1> QED BY <1>1, <1>2

LEMMA CallbackMade ==
  ASSUME NEW step \in Steps, NEW m \in Modules, NEW e \in Nat,
         e <= ElementCount[m], NEW round \in Rounds
  PROVE  /\ Cb(step, m, e, round) \in Callback
         /\ Cb(step, m, e, round).step = step
         /\ Cb(step, m, e, round).for = <<m, e>>
         /\ Cb(step, m, e, round).for[1] = m
         /\ Cb(step, m, e, round).for[2] = e
         /\ Cb(step, m, e, round).round = round
BY EntityParts DEF Callback, Cb

(* Two callbacks of one rank are the same.                                 *)
LEMMA RanksDiffer ==
  ASSUME NEW c \in Proper, NEW d \in Proper, ~Earlier(c, d), ~Earlier(d, c)
  PROVE  c = d
<1>1. /\ c \in Callback /\ d \in Callback
      /\ c.step \in Steps /\ d.step \in Steps
      /\ c.round \in {0, 1} /\ d.round \in {0, 1}
      /\ c.for[1] \in Nat /\ d.for[1] \in Nat
      /\ c.for[2] \in Nat /\ d.for[2] \in Nat
      /\ c.for[2] <= ElementCount[c.for[1]]
      /\ d.for[2] <= ElementCount[d.for[1]]
      /\ ElementCount[c.for[1]] \in Nat /\ ElementCount[d.for[1]] \in Nat
  BY CallbackParts DEF Proper
<1>2. /\ Part(c) = Part(d) /\ c.round = d.round /\ c.for[1] = d.for[1]
      /\ Place(c) = Place(d)
  BY <1>1 DEF Earlier, Part, Place
<1>3. c.step = d.step /\ c.for[2] = d.for[2]
  BY <1>1, <1>2 DEF Proper, Part, Place, Steps, InitSteps
<1> QED BY <1>1, <1>2, <1>3, CallbackEqual

(***************************************************************************)
(* What is required                                                        *)
(***************************************************************************)

LEMMA InInits ==
  ASSUME NEW ms \in SUBSET Modules, NEW c
  PROVE  c \in InitsOf(ms) <=>
           c \in Proper /\ c.step \in InitSteps /\ c.for[1] \in ms
<1>1. ASSUME NEW m \in ms
      PROVE  /\ Cb("init", m, 0, 0) \in Proper
             /\ Cb("post_init", m, 0, 0) \in Proper
             /\ Cb("init", m, 0, 0).step \in InitSteps
             /\ Cb("post_init", m, 0, 0).step \in InitSteps
             /\ Cb("init", m, 0, 0).for[1] = m
             /\ Cb("post_init", m, 0, 0).for[1] = m
  BY EntityParts, CallbackMade
     DEF Proper, Steps, InitSteps, Rounds, BIND_ROUND_MAX
<1>2. ASSUME c \in InitsOf(ms)
      PROVE  c \in Proper /\ c.step \in InitSteps /\ c.for[1] \in ms
  BY <1>1, <1>2 DEF InitsOf, Proper, InitSteps
<1>3. ASSUME c \in Proper, c.step \in InitSteps, c.for[1] \in ms
      PROVE  c \in InitsOf(ms)
  <2>1. c \in Callback /\ c.round = 0 /\ c.for[2] \in Nat
    BY <1>3, CallbackParts DEF Proper, InitSteps
  <2>2. CASE c.step = "element_init"
    BY <1>3, <2>1, <2>2 DEF InitsOf, Proper
  <2>3. CASE c.step \in {"init", "post_init"}
    <3>1. c = Cb(c.step, c.for[1], 0, 0)
      BY <1>3, <2>1, <2>3, CallbackParts DEF Proper
    <3> QED BY <1>3, <2>3, <3>1 DEF InitsOf
  <2> QED BY <1>3, <2>2, <2>3 DEF InitSteps
<1> QED BY <1>2, <1>3

LEMMA InBinds ==
  ASSUME NEW x \in Entities, NEW r \in Rounds, NEW c
  PROVE  c \in BindsOf(x, r) <=>
           c \in Proper /\ c.step = "bind" /\ c.for = x /\ c.round = r
<1>1. x = <<x[1], x[2]>> /\ x[1] \in Modules /\ x[2] \in Nat
      /\ x[2] <= ElementCount[x[1]]
  BY EntityParts
<1> DEFINE d == Cb("bind", x[1], x[2], r)
<1>2. d \in Callback /\ d.step = "bind" /\ d.for = x /\ d.round = r
  BY <1>1, CallbackMade DEF Steps
<1>3. ASSUME c \in Callback, c.step = "bind", c.for = x, c.round = r
      PROVE  c = d
  BY <1>3, CallbackParts
<1> HIDE DEF d
<1>4. c \in BindsOf(x, r) <=> c = d /\ (x[1] \in HasBind \/ x[2] = 0)
  BY DEF BindsOf, d
<1> QED BY <1>2, <1>3, <1>4 DEF Proper

LEMMA InStarts ==
  ASSUME NEW S \in SUBSET Entities, NEW c
  PROVE  c \in StartsIn(S) <=>
           c \in Proper /\ c.step = "start" /\ c.for \in S
<1>1. ASSUME NEW x \in S
      PROVE  /\ Cb("start", x[1], x[2], 0) \in Proper
             /\ Cb("start", x[1], x[2], 0).step = "start"
             /\ Cb("start", x[1], x[2], 0).for = x
  <2>1. x = <<x[1], x[2]>> /\ x[1] \in Modules /\ x[2] \in Nat
        /\ x[2] <= ElementCount[x[1]]
    BY EntityParts
  <2> QED BY <2>1, CallbackMade
          DEF Proper, Steps, Rounds, BIND_ROUND_MAX
<1>2. ASSUME c \in Proper, c.step = "start", c.for \in S
      PROVE  c = Cb("start", c.for[1], c.for[2], 0)
  BY <1>2, CallbackParts DEF Proper
<1> QED BY <1>1, <1>2 DEF StartsIn

(* Required before a callback are those of a lower rank.                   *)
LEMMA RequiredIsEarlier ==
  ASSUME NEW d \in Proper
  PROVE  Required(d) = {c \in Proper : Earlier(c, d)}
<1> SUFFICES ASSUME NEW c
             PROVE  c \in Required(d) <=> c \in Proper /\ Earlier(c, d)
  OBVIOUS
<1> DEFINE m == d.for[1]
           e == d.for[2]
<1>1. /\ d \in Callback /\ d.step \in Steps /\ m \in Modules /\ m \in Nat
      /\ e \in Nat /\ e <= ElementCount[m] /\ ElementCount[m] \in Nat
      /\ d.round \in {0, 1} /\ m <= ModuleCount /\ ModuleCount \in Nat
  BY CallbackParts, EntityParts DEF Proper
<1>2. c \in Proper =>
        /\ c.step \in Steps /\ c.for[1] \in Modules /\ c.for[1] \in Nat
        /\ c.for[2] \in Nat /\ c.for[2] <= ElementCount[c.for[1]]
        /\ ElementCount[c.for[1]] \in Nat /\ c.round \in {0, 1}
        /\ c.for \in Entities
  BY CallbackParts DEF Proper
<1>3. CASE d.step = "init"
  <2>1. Required(d) = InitsOf(1..(m - 1)) /\ 1..(m - 1) \subseteq Modules
    BY <1>1, <1>3 DEF Required, Modules
  <2>2. c \in InitsOf(1..(m - 1)) <=>
          c \in Proper /\ c.step \in InitSteps /\ c.for[1] \in 1..(m - 1)
    BY <2>1, InInits
  <2>3. c \in Proper =>
          (Earlier(c, d) <=> c.step \in InitSteps /\ c.for[1] \in 1..(m - 1))
    BY <1>1, <1>2, <1>3
       DEF Earlier, Part, Place, InitSteps, Steps, Proper, Modules
  <2> QED BY <2>1, <2>2, <2>3
<1>4. CASE d.step = "element_init"
  <2> DEFINE E == {Cb("element_init", m, k, 0) : k \in 1..(e - 1)}
  <2>1. Required(d) = InitsOf(1..(m - 1)) \cup {Cb("init", m, 0, 0)} \cup E
        /\ 1..(m - 1) \subseteq Modules
    BY <1>1, <1>4 DEF Required, Modules
  <2>2. c \in E <=> /\ c \in Proper /\ c.step = "element_init"
                    /\ c.for[1] = m /\ c.for[2] \in 1..(e - 1)
    <3>1. ASSUME NEW k \in 1..(e - 1)
          PROVE  /\ Cb("element_init", m, k, 0) \in Proper
                 /\ Cb("element_init", m, k, 0).step = "element_init"
                 /\ Cb("element_init", m, k, 0).for[1] = m
                 /\ Cb("element_init", m, k, 0).for[2] = k
      BY <1>1, CallbackMade
         DEF Proper, Steps, InitSteps, Rounds, BIND_ROUND_MAX
    <3>2. c \in Proper /\ c.step = "element_init" /\ c.for[1] = m
            => c = Cb("element_init", m, c.for[2], 0)
      BY <1>1, CallbackParts DEF Proper
    <3> QED BY <3>1, <3>2
  <2>3. c = Cb("init", m, 0, 0) <=>
          c \in Proper /\ c.step = "init" /\ c.for[1] = m
    <3>1. /\ Cb("init", m, 0, 0) \in Proper
          /\ Cb("init", m, 0, 0).step = "init"
          /\ Cb("init", m, 0, 0).for[1] = m
      BY <1>1, CallbackMade
         DEF Proper, Steps, InitSteps, Rounds, BIND_ROUND_MAX
    <3>2. c \in Proper /\ c.step = "init" /\ c.for[1] = m
            => c = Cb("init", m, 0, 0)
      BY <1>1, CallbackParts DEF Proper
    <3> QED BY <3>1, <3>2
  <2>4. c \in InitsOf(1..(m - 1)) <=>
          c \in Proper /\ c.step \in InitSteps /\ c.for[1] \in 1..(m - 1)
    BY <2>1, InInits
  <2> HIDE DEF E
  <2>5. c \in Required(d) <=>
          /\ c \in Proper
          /\ \/ c.step \in InitSteps /\ c.for[1] \in 1..(m - 1)
             \/ c.step = "init" /\ c.for[1] = m
             \/ /\ c.step = "element_init" /\ c.for[1] = m
                /\ c.for[2] \in 1..(e - 1)
    BY <2>1, <2>2, <2>3, <2>4
  <2>6. e > 0 /\ d.round = 0
    BY <1>4 DEF Proper
  <2>7. c \in Proper =>
          (Earlier(c, d) <=>
             \/ c.step \in InitSteps /\ c.for[1] \in 1..(m - 1)
             \/ c.step = "init" /\ c.for[1] = m
             \/ /\ c.step = "element_init" /\ c.for[1] = m
                /\ c.for[2] \in 1..(e - 1))
    BY <1>1, <1>2, <1>4, <2>6
       DEF Earlier, Part, Place, InitSteps, Steps, Proper, Modules
  <2> QED BY <2>5, <2>7
<1>5. CASE d.step = "post_init"
  <2>1. Required(d) = InitsOf(1..m) \ {d} /\ 1..m \subseteq Modules
    BY <1>1, <1>5 DEF Required, Modules
  <2>2. c \in Required(d) <=>
          c \in Proper /\ c.step \in InitSteps /\ c.for[1] \in 1..m /\ c # d
    BY <2>1, InInits
  <2>3. d.round = 0 /\ e = 0
    BY <1>5 DEF Proper
  <2>4. c \in Proper /\ c.step = "post_init" /\ c.for[1] = m => c = d
    BY <1>1, <1>2, <1>5, <2>3, CallbackEqual DEF Proper
  <2>5. c \in Proper =>
          (Earlier(c, d) <=> /\ c.step \in InitSteps /\ c.for[1] \in 1..m
                             /\ c.step = "post_init" => c.for[1] # m)
    BY <1>1, <1>2, <1>5, <2>3
       DEF Earlier, Part, Place, InitSteps, Steps, Proper, Modules
  <2> QED BY <1>5, <2>2, <2>4, <2>5
<1>6. CASE d.step = "bind"
  <2> DEFINE B == BindsIn(0..(d.round - 1))
             C == BindsBefore(d.for, d.round)
  <2>1. Required(d) = InitsOf(Modules) \cup B \cup C
    BY <1>6 DEF Required
  <2>2. c \in InitsOf(Modules) <=> c \in Proper /\ c.step \in InitSteps
    BY <1>2, InInits
  <2>3. c \in B <=> /\ c \in Proper /\ c.step = "bind" /\ c.round < d.round
    <3>1. c \in B <=> \E x \in Entities, r \in 0..(d.round - 1) :
                         c \in BindsOf(x, r)
      BY DEF BindsIn
    <3>2. 0..(d.round - 1) \subseteq Rounds
      BY <1>1 DEF Rounds, BIND_ROUND_MAX
    <3>3. \A x \in Entities, r \in 0..(d.round - 1) :
            c \in BindsOf(x, r) <=>
              c \in Proper /\ c.step = "bind" /\ c.for = x /\ c.round = r
      BY <3>2, InBinds
    <3> HIDE DEF B
    <3> QED BY <1>1, <1>2, <3>1, <3>3
  <2>4. c \in C <=> /\ c \in Proper /\ c.step = "bind" /\ c.round = d.round
                    /\ c.for \in Preceding(d.for)
    <3>1. /\ c \in C <=> \E x \in Preceding(d.for) : c \in BindsOf(x, d.round)
          /\ Preceding(d.for) \subseteq Entities
      BY DEF BindsBefore, Preceding
    <3>2. \A x \in Entities :
            c \in BindsOf(x, d.round) <=>
              c \in Proper /\ c.step = "bind" /\ c.for = x /\ c.round = d.round
      BY <1>1, InBinds DEF Rounds, BIND_ROUND_MAX
    <3> HIDE DEF C
    <3> QED BY <1>2, <3>1, <3>2
  <2> HIDE DEF B, C
  <2>5. c \in Proper =>
          (Earlier(c, d) <=>
             \/ c.step \in InitSteps
             \/ c.step = "bind" /\ c.round < d.round
             \/ /\ c.step = "bind" /\ c.round = d.round
                /\ c.for \in Preceding(d.for))
    BY <1>1, <1>2, <1>6
       DEF Earlier, Part, Place, InitSteps, Steps, Proper, Preceding
  <2> QED BY <2>1, <2>2, <2>3, <2>4, <2>5
<1>7. CASE d.step = "start"
  <2> DEFINE B == BindsIn(Rounds)
             C == StartsIn(Preceding(d.for))
  <2>1. Required(d) = InitsOf(Modules) \cup B \cup C
    BY <1>7 DEF Required
  <2>2. c \in InitsOf(Modules) <=> c \in Proper /\ c.step \in InitSteps
    BY <1>2, InInits
  <2>3. c \in B <=> c \in Proper /\ c.step = "bind"
    <3>1. c \in B <=> \E x \in Entities, r \in Rounds : c \in BindsOf(x, r)
      BY DEF BindsIn
    <3> HIDE DEF B
    <3> QED BY <1>2, <3>1, InBinds DEF Rounds, BIND_ROUND_MAX
  <2>4. c \in C <=> /\ c \in Proper /\ c.step = "start"
                    /\ c.for \in Preceding(d.for)
    <3>1. Preceding(d.for) \in SUBSET Entities
      BY DEF Preceding
    <3> QED BY <1>2, <3>1, InStarts
  <2> HIDE DEF B, C
  <2>5. c \in Proper =>
          (Earlier(c, d) <=>
             \/ c.step \in InitSteps
             \/ c.step = "bind"
             \/ c.step = "start" /\ c.for \in Preceding(d.for))
    BY <1>1, <1>2, <1>7
       DEF Earlier, Part, Place, InitSteps, Steps, Proper, Preceding
  <2> QED BY <2>1, <2>2, <2>3, <2>4, <2>5
<1> QED BY <1>1, <1>3, <1>4, <1>5, <1>6, <1>7 DEF Steps, InitSteps

(* The next rank: what is required of its callback is one more.            *)
LEMMA NextRank ==
  ASSUME NEW d \in Proper, NEW n \in Proper, Earlier(d, n),
         \A c \in Proper : ~(Earlier(d, c) /\ Earlier(c, n))
  PROVE  Required(n) = Required(d) \cup {d}
<1>1. \A c \in Proper : Earlier(c, d) => Earlier(c, n)
  <2> TAKE c \in Proper
  <2>1. \A a \in {c, d, n} :
          /\ a.for[1] \in Nat /\ a.for[2] \in Nat /\ a.round \in {0, 1}
          /\ ElementCount[a.for[1]] \in Nat
    BY CallbackParts DEF Proper
  <2>2. \A a \in {c, d, n} : Part(a) \in Nat /\ Place(a) \in Nat
    BY <2>1 DEF Part, Place
  <2> QED BY <2>1, <2>2 DEF Earlier
<1>2. \A c \in Proper : Earlier(c, n) <=> Earlier(c, d) \/ c = d
  BY <1>1, RanksDiffer
<1> QED BY <1>2, RequiredIsEarlier

(* All callbacks have returned when the run loop is entered.               *)
LEMMA AllCallbacks ==
  InitsOf(Modules) \cup BindsIn(Rounds) \cup StartsIn(Entities) = Proper
<1> SUFFICES ASSUME NEW c
             PROVE  \/ c \in InitsOf(Modules)
                    \/ c \in BindsIn(Rounds)
                    \/ c \in StartsIn(Entities)
                    <=> c \in Proper
  OBVIOUS
<1>1. c \in Proper =>
        /\ c.step \in InitSteps \cup {"bind", "start"}
        /\ c.for[1] \in Modules /\ c.for \in Entities /\ c.round \in Rounds
  BY CallbackParts DEF Proper, Steps, Rounds, BIND_ROUND_MAX
<1>2. c \in InitsOf(Modules) <=> c \in Proper /\ c.step \in InitSteps
  BY <1>1, InInits
<1>3. c \in BindsIn(Rounds) <=> c \in Proper /\ c.step = "bind"
  <2>1. c \in BindsIn(Rounds) <=>
          \E x \in Entities, r \in Rounds : c \in BindsOf(x, r)
    BY DEF BindsIn
  <2> QED BY <1>1, <2>1, InBinds
<1>4. c \in StartsIn(Entities) <=> c \in Proper /\ c.step = "start"
  BY <1>1, InStarts
<1> QED BY <1>1, <1>2, <1>3, <1>4

(***************************************************************************)
(* The loops of fwk_module.c go on to the next rank                        *)
(***************************************************************************)

Follows(d, n) ==
  \/ n = Running /\ Proper = Required(d) \cup {d}
  \/ n \in Proper /\ Required(n) = Required(d) \cup {d}

Outer(d) == IF d.step \in InitSteps THEN "init" ELSE d.step

LEMMA ModuleFollows ==
  ASSUME NEW d \in Proper, d.step \in {"post_init", "bind", "start"},
         \A c \in Proper :
           (Part(c) = Part(d) /\ c.round = d.round /\ c.for[1] = d.for[1])
             => Place(c) <= Place(d)
  PROVE  Follows(d, AfterModule(Outer(d), d.for[1], d.round))
<1> DEFINE m == d.for[1]
           n == AfterModule(Outer(d), m, d.round)
<1>1. /\ d \in Callback /\ d.step \in Steps /\ m \in Modules /\ m \in Nat
      /\ d.for[2] \in Nat /\ d.for[2] <= ElementCount[m]
      /\ ElementCount[m] \in Nat /\ d.round \in {0, 1}
      /\ m <= ModuleCount /\ ModuleCount \in Nat \ {0}
      /\ Place(d) \in Nat
  BY CallbackParts, EntityParts DEF Proper, Place
<1>2. \A c \in Proper :
        /\ c.step \in Steps /\ c.for[1] \in Nat /\ c.for[1] >= 1
        /\ c.for[1] <= ModuleCount /\ c.round \in {0, 1}
        /\ Place(c) \in Nat /\ Part(c) \in {0, 1, 2}
        /\ Part(c) # 1 => c.round = 0
  BY CallbackParts, EntityParts DEF Proper, Place, Part, InitSteps, Steps
<1>3. ASSUME NEW step \in {"init", "bind", "start"}, NEW k \in Modules,
             NEW round \in {0, 1}, step # "bind" => round = 0
      PROVE  /\ Cb(step, k, 0, round) \in Proper
             /\ Cb(step, k, 0, round).step = step
             /\ Cb(step, k, 0, round).for[1] = k
             /\ Cb(step, k, 0, round).round = round
             /\ Place(Cb(step, k, 0, round)) = 0
             /\ Part(Cb(step, k, 0, round)) =
                  IF step = "init" THEN 0 ELSE IF step = "bind" THEN 1 ELSE 2
  <2> DEFINE b == Cb(step, k, 0, round)
  <2>1. /\ b \in Callback /\ b.step = step /\ b.for[1] = k /\ b.for[2] = 0
        /\ b.round = round
    BY <1>3, EntityParts, CallbackMade
       DEF Steps, InitSteps, Rounds, BIND_ROUND_MAX
  <2> HIDE DEF b
  <2>2. /\ b \in Proper /\ b.step = step /\ b.for[1] = k /\ b.round = round
        /\ Place(b) = 0
        /\ Part(b) =
             IF step = "init" THEN 0 ELSE IF step = "bind" THEN 1 ELSE 2
    BY <1>3, <2>1 DEF Proper, Place, Part, InitSteps
  <2> QED BY <2>2 DEF b
<1>4. 1 \in Modules /\ (m < ModuleCount => m + 1 \in Modules)
  BY <1>1 DEF Modules
<1>5. ASSUME NEW b \in Proper, Earlier(d, b),
             \A c \in Proper : ~(Earlier(d, c) /\ Earlier(c, b))
      PROVE  Follows(d, b)
  BY <1>5, NextRank DEF Follows
<1>6. CASE m < ModuleCount
  <2> DEFINE b == Cb(Outer(d), m + 1, 0, d.round)
  <2>1. n = b
    BY <1>6 DEF AfterModule
  <2>2. /\ b \in Proper /\ b.for[1] = m + 1 /\ b.round = d.round
        /\ Place(b) = 0 /\ Part(b) = Part(d)
    BY <1>1, <1>3, <1>4, <1>6 DEF Outer, Part, InitSteps, Proper
  <2> HIDE DEF b
  <2>3. Earlier(d, b)
    BY <1>1, <2>2 DEF Earlier
  <2>4. \A c \in Proper : ~(Earlier(d, c) /\ Earlier(c, b))
    BY <1>1, <1>2, <2>2 DEF Earlier
  <2>5. Follows(d, b)
    BY <1>5, <2>2, <2>3, <2>4
  <2> QED BY <2>1, <2>5
<1>7. CASE m = ModuleCount
  <2>1. CASE d.step = "start"
    <3>1. n = Running
      BY <1>1, <1>7, <2>1 DEF AfterModule, Outer, InitSteps
    <3>2. Part(d) = 2 /\ d.round = 0
      BY <2>1 DEF Part, InitSteps, Proper
    <3>3. \A c \in Proper : ~Earlier(d, c)
      BY <1>1, <1>2, <1>7, <3>2 DEF Earlier
    <3>4. Proper = Required(d) \cup {d}
      BY <3>3, RanksDiffer, RequiredIsEarlier
    <3> QED BY <3>1, <3>4 DEF Follows
  <2>2. CASE d.step # "start"
    <3> DEFINE b == IF d.step = "post_init" THEN Cb("bind", 1, 0, 0)
                    ELSE IF d.round = 0 THEN Cb("bind", 1, 0, 1)
                    ELSE Cb("start", 1, 0, 0)
    <3>1. n = b
      BY <1>1, <1>7, <2>2
         DEF AfterModule, Outer, InitSteps, BIND_ROUND_MAX
    <3>2. /\ b \in Proper /\ b.for[1] = 1 /\ Place(b) = 0
          /\ d.step = "post_init" =>
               Part(d) = 0 /\ d.round = 0 /\ Part(b) = 1 /\ b.round = 0
          /\ d.step = "bind" /\ d.round = 0 =>
               Part(d) = 1 /\ Part(b) = 1 /\ b.round = 1
          /\ d.step = "bind" /\ d.round = 1 =>
               Part(d) = 1 /\ Part(b) = 2 /\ b.round = 0
      BY <1>1, <1>3, <1>4, <2>2 DEF Part, InitSteps, Proper
    <3> HIDE DEF b
    <3>3. d.step = "post_init" \/ (d.step = "bind" /\ d.round = 0)
            \/ (d.step = "bind" /\ d.round = 1)
      BY <1>1, <2>2
    <3>4. Earlier(d, b)
      BY <3>2, <3>3 DEF Earlier
    <3>5. \A c \in Proper : ~(Earlier(d, c) /\ Earlier(c, b))
      BY <1>1, <1>2, <1>7, <3>2, <3>3 DEF Earlier
    <3>6. Follows(d, b)
      BY <1>5, <3>2, <3>4, <3>5
    <3> QED BY <3>1, <3>6
  <2> QED BY <2>1, <2>2
<1> QED BY <1>1, <1>6, <1>7

(* Within a module: the callbacks of the same step, element by element.    *)
LEMMA EntityFollows ==
  ASSUME NEW d \in Proper, NEW n \in Proper, Part(n) = Part(d),
         n.round = d.round, n.for[1] = d.for[1], Place(n) = Place(d) + 1
  PROVE  Follows(d, n)
<1>1. \A c \in Proper : c.for[1] \in Nat /\ c.round \in {0, 1}
                        /\ Place(c) \in Nat /\ Part(c) \in {0, 1, 2}
  BY CallbackParts, EntityParts DEF Proper, Place, Part
<1>2. Earlier(d, n) /\ \A c \in Proper : ~(Earlier(d, c) /\ Earlier(c, n))
  BY <1>1 DEF Earlier
<1> QED BY <1>2, NextRank DEF Follows

(* init_module: the elements after the module, and post_init after them.   *)
LEMMA InitFollows ==
  ASSUME NEW d \in Proper, d.step \in {"init", "element_init"}
  PROVE  Follows(d, AfterInit(d.for[1], d.for[2]))
<1> DEFINE m == d.for[1]
           e == d.for[2]
           n == AfterInit(m, e)
<1>1. /\ m \in Modules /\ e \in Nat /\ e <= ElementCount[m]
      /\ ElementCount[m] \in Nat /\ d.round = 0
      /\ Part(d) = 0 /\ Place(d) = e
  BY CallbackParts DEF Proper, Part, Place, InitSteps
<1>2. /\ n \in Proper /\ Part(n) = 0 /\ n.round = 0 /\ n.for[1] = m
      /\ Place(n) = e + 1
  <2>1. CASE e < ElementCount[m]
    <3>1. /\ n \in Callback /\ n.step = "element_init" /\ n.for[1] = m
          /\ n.for[2] = e + 1 /\ n.round = 0
      BY <1>1, <2>1, CallbackMade
         DEF AfterInit, Steps, InitSteps, Rounds, BIND_ROUND_MAX
    <3> HIDE DEF n
    <3> QED BY <1>1, <3>1 DEF Proper, Part, Place, InitSteps
  <2>2. CASE e = ElementCount[m]
    <3>1. /\ n \in Callback /\ n.step = "post_init" /\ n.for[1] = m
          /\ n.for[2] = 0 /\ n.round = 0
      BY <1>1, <2>2, CallbackMade
         DEF AfterInit, Steps, InitSteps, Rounds, BIND_ROUND_MAX
    <3> HIDE DEF n
    <3> QED BY <1>1, <2>2, <3>1 DEF Proper, Part, Place, InitSteps
  <2> QED BY <1>1, <2>1, <2>2
<1> HIDE DEF n
<1>3. Follows(d, n)
  BY <1>1, <1>2, EntityFollows
<1> QED BY <1>3 DEF n

(* bind and start: the elements after the module, then the next module.    *)
LEMMA ElementsFollow ==
  ASSUME NEW d \in Proper, d.step \in {"bind", "start"},
         d.step = "bind" => d.for[1] \in HasBind
  PROVE  Follows(d, AfterEntity(d.step, d.for[1], d.for[2], d.round))
<1> DEFINE m == d.for[1]
           e == d.for[2]
           n == AfterEntity(d.step, m, e, d.round)
<1>1. /\ m \in Modules /\ e \in Nat /\ e <= ElementCount[m]
      /\ ElementCount[m] \in Nat /\ d.round \in {0, 1}
      /\ Place(d) = e /\ Outer(d) = d.step
  BY CallbackParts DEF Proper, Place, Outer, InitSteps
<1>2. CASE e < ElementCount[m]
  <2>1. /\ n \in Callback /\ n.step = d.step /\ n.for[1] = m
        /\ n.for[2] = e + 1 /\ n.round = d.round
    BY <1>1, <1>2, CallbackMade
       DEF AfterEntity, Steps, InitSteps, Rounds, BIND_ROUND_MAX
  <2> HIDE DEF n
  <2>2. /\ n \in Proper /\ Part(n) = Part(d) /\ n.round = d.round
        /\ n.for[1] = m /\ Place(n) = Place(d) + 1
    BY <1>1, <2>1 DEF Proper, Part, Place, InitSteps
  <2>3. Follows(d, n)
    BY <2>2, EntityFollows
  <2> QED BY <2>3 DEF n
<1>3. CASE e = ElementCount[m]
  <2>1. \A c \in Proper :
          (Part(c) = Part(d) /\ c.round = d.round /\ c.for[1] = d.for[1])
            => Place(c) <= Place(d)
    BY <1>1, <1>3, CallbackParts DEF Proper, Part, Place, InitSteps
  <2>2. n = AfterModule(Outer(d), m, d.round)
    BY <1>1, <1>3 DEF AfterEntity
  <2>3. Follows(d, AfterModule(Outer(d), m, d.round))
    BY <2>1, ModuleFollows
  <2> QED BY <2>2, <2>3
<1> QED BY <1>1, <1>2, <1>3

(***************************************************************************)
(* The invariant                                                           *)
(***************************************************************************)

LEMMA Started ==
  /\ Running \notin Callback /\ Failed \notin Callback /\ Running # Failed
  /\ \A x \in Entities :
       /\ Initializer(x) \in Proper /\ Initializer(x).for = x
       /\ Initializer(x).step =
            IF x[2] = 0 THEN "post_init" ELSE "element_init"
       /\ FirstCallback(x) \in Proper /\ FirstCallback(x).for = x
       /\ FirstCallback(x).step = IF x[2] = 0 THEN "init" ELSE "element_init"
<1>1. Running \notin Callback /\ Failed \notin Callback /\ Running # Failed
  BY DEF Running, Failed, Callback, Steps, InitSteps
<1>2. ASSUME NEW x \in Entities,
             NEW step \in {"init", "post_init", "element_init"},
             step = "element_init" <=> x[2] # 0
      PROVE  /\ Cb(step, x[1], x[2], 0) \in Proper
             /\ Cb(step, x[1], x[2], 0).for = x
             /\ Cb(step, x[1], x[2], 0).step = step
  <2>1. x = <<x[1], x[2]>> /\ x[1] \in Modules /\ x[2] \in Nat
        /\ x[2] <= ElementCount[x[1]]
    BY EntityParts
  <2> QED BY <1>2, <2>1, CallbackMade
          DEF Proper, Steps, InitSteps, Rounds, BIND_ROUND_MAX
<1> QED BY <1>1, <1>2 DEF Initializer, FirstCallback

(* A callback that returns is followed by the next.                        *)
LEMMA Advances ==
  ASSUME ModuleInv, Advance, ~Fail
  PROVE  /\ now \in Proper /\ Follows(now, now') /\ done' = done \cup {now}
         /\ bound' = bound
         /\ bindId' = IF /\ now'.step \in {"init", "element_init", "bind"}
                         /\ IsDefined(now')
                      THEN now'.for ELSE bindId
         /\ \/ now.step = "init" /\ state' = state
            \/ /\ now.step \in {"element_init", "post_init"}
               /\ state' = [state EXCEPT ![now.for] = "initialized"]
            \/ /\ now.step = "bind"
               /\ state' \in {state, [state EXCEPT ![now.for] = "bound"]}
            \/ /\ now.step = "start"
               /\ state' = [state EXCEPT ![now.for] = "started"]
<1> DEFINE Moved ==
      \/ now.step = "init" /\ state' = state
      \/ /\ now.step \in {"element_init", "post_init"}
         /\ state' = [state EXCEPT ![now.for] = "initialized"]
      \/ /\ now.step = "bind"
         /\ state' \in {state, [state EXCEPT ![now.for] = "bound"]}
      \/ /\ now.step = "start"
         /\ state' = [state EXCEPT ![now.for] = "started"]
<1>1. now \in Proper \cup {Running, Failed}
  BY DEF ModuleInv
<1>2. ASSUME NEW step \in Steps, NEW m, NEW e, NEW round,
             now = Cb(step, m, e, round)
      PROVE  /\ now \in Proper /\ now.step = step /\ now.for = <<m, e>>
             /\ now.for[1] = m /\ now.for[2] = e /\ now.round = round
  <2>1. now.step = step /\ now.for = <<m, e>> /\ now.round = round
    BY <1>2 DEF Cb
  <2>2. now # Running /\ now # Failed
    BY <2>1 DEF Running, Failed, Steps, InitSteps
  <2> QED BY <1>1, <2>1, <2>2
<1>3. \E n : Follows(now, n) /\ Enter(n) /\ Moved /\ now \in Proper
  <2>1. ASSUME NEW x \in Entities, InitReturns(x[1], x[2])
        PROVE  \E n : Follows(now, n) /\ Enter(n) /\ Moved /\ now \in Proper
    <3>1. /\ now \in Proper /\ now.step = "init"
          /\ now.for[1] = x[1] /\ now.for[2] = x[2]
      BY <1>2, <2>1 DEF InitReturns, Steps, InitSteps
    <3>2. Follows(now, AfterInit(x[1], x[2]))
      BY <3>1, InitFollows
    <3> QED BY <2>1, <3>1, <3>2 DEF InitReturns
  <2>2. ASSUME NEW x \in Entities, ElementInitReturns(x[1], x[2])
        PROVE  \E n : Follows(now, n) /\ Enter(n) /\ Moved /\ now \in Proper
    <3>1. /\ now \in Proper /\ now.step = "element_init"
          /\ now.for = <<x[1], x[2]>>
          /\ now.for[1] = x[1] /\ now.for[2] = x[2]
      BY <1>2, <2>2 DEF ElementInitReturns, Steps, InitSteps
    <3>2. Follows(now, AfterInit(x[1], x[2]))
      BY <3>1, InitFollows
    <3> QED BY <2>2, <3>1, <3>2 DEF ElementInitReturns, Becomes
  <2>3. ASSUME NEW x \in Entities, PostInitReturns(x[1], x[2])
        PROVE  \E n : Follows(now, n) /\ Enter(n) /\ Moved /\ now \in Proper
    <3>1. /\ now \in Proper /\ now.step = "post_init" /\ now.for = <<x[1], x[2]>>
          /\ now.for[1] = x[1] /\ now.for[2] = x[2] /\ now.round = 0
      BY <1>2, <2>3 DEF PostInitReturns, Steps, InitSteps
    <3>2. Outer(now) = "init" /\ Place(now) = ElementCount[x[1]] + 1
      BY <3>1 DEF Outer, InitSteps, Place
    <3>3. \A c \in Proper : c.for[1] = x[1] => Place(c) <= Place(now)
      BY <3>2, CallbackParts DEF Proper, Place
    <3>4. Follows(now, AfterModule("init", x[1], 0))
      BY <3>1, <3>2, <3>3, ModuleFollows
    <3> QED BY <2>3, <3>1, <3>4 DEF PostInitReturns, Becomes
  <2>4. ASSUME NEW x \in Entities, NEW round \in Rounds,
               BindReturns(x[1], x[2], round)
        PROVE  \E n : Follows(now, n) /\ Enter(n) /\ Moved /\ now \in Proper
    <3>1. /\ now \in Proper /\ now.step = "bind" /\ now.for = <<x[1], x[2]>>
          /\ now.for[1] = x[1] /\ now.for[2] = x[2] /\ now.round = round
      BY <1>2, <2>4 DEF BindReturns, Steps
    <3>2. Follows(now, AfterEntity("bind", x[1], x[2], round))
      BY <2>4, <3>1, ElementsFollow DEF BindReturns
    <3> QED BY <2>4, <3>1, <3>2 DEF BindReturns, Becomes
  <2>5. ASSUME NEW x \in Entities, StartReturns(x[1], x[2])
        PROVE  \E n : Follows(now, n) /\ Enter(n) /\ Moved /\ now \in Proper
    <3>1. /\ now \in Proper /\ now.step = "start" /\ now.for = <<x[1], x[2]>>
          /\ now.for[1] = x[1] /\ now.for[2] = x[2] /\ now.round = 0
      BY <1>2, <2>5 DEF StartReturns, Steps
    <3>2. Follows(now, AfterEntity("start", x[1], x[2], 0))
      BY <3>1, ElementsFollow
    <3> QED BY <2>5, <3>1, <3>2 DEF StartReturns, Becomes
  <2>6. ASSUME NEW m \in Modules, NEW round \in Rounds, SkipBind(m, round)
        PROVE  \E n : Follows(now, n) /\ Enter(n) /\ Moved /\ now \in Proper
    <3>1. /\ now \in Proper /\ now.step = "bind" /\ now.for = <<m, 0>>
          /\ now.for[1] = m /\ now.for[2] = 0 /\ now.round = round
      BY <1>2, <2>6 DEF SkipBind, Steps
    <3>2. Outer(now) = "bind" /\ Part(now) = 1 /\ Place(now) = 0
      BY <3>1 DEF Outer, InitSteps, Part, Place
    <3>3. \A c \in Proper : Part(c) = 1 /\ c.for[1] = m => Place(c) = 0
      BY <2>6 DEF SkipBind, Proper, Part, Place, InitSteps
    <3>4. Follows(now, AfterModule("bind", m, round))
      BY <3>1, <3>2, <3>3, ModuleFollows
    <3> QED BY <2>6, <3>1, <3>4 DEF SkipBind, Becomes
  <2> QED BY <2>1, <2>2, <2>3, <2>4, <2>5, <2>6 DEF Advance
<1> HIDE DEF Moved
<1>4. /\ now \in Proper /\ Follows(now, now') /\ done' = done \cup {now} /\ Moved
      /\ bound' = bound
      /\ bindId' = IF /\ now'.step \in {"init", "element_init", "bind"}
                      /\ IsDefined(now')
                   THEN now'.for ELSE bindId
  BY <1>3 DEF Enter
<1> QED BY <1>4 DEF Moved

LEMMA AdvanceKeeps ==
  ASSUME ModuleInv, Advance, ~Fail
  PROVE  ModuleInv'
<1>1. /\ now \in Proper /\ Follows(now, now') /\ done' = done \cup {now}
      /\ bound' = bound
      /\ bindId' = IF /\ now'.step \in {"init", "element_init", "bind"}
                      /\ IsDefined(now')
                   THEN now'.for ELSE bindId
      /\ \/ now.step = "init" /\ state' = state
         \/ /\ now.step \in {"element_init", "post_init"}
            /\ state' = [state EXCEPT ![now.for] = "initialized"]
         \/ /\ now.step = "bind"
            /\ state' \in {state, [state EXCEPT ![now.for] = "bound"]}
         \/ /\ now.step = "start"
            /\ state' = [state EXCEPT ![now.for] = "started"]
  BY Advances
<1>2. /\ now \in Callback /\ now.for \in Entities /\ now.step \in Steps
      /\ done = Required(now) /\ done' = Required(now) \cup {now}
      /\ state \in [Entities -> States]
  BY <1>1, CallbackParts DEF ModuleInv, CallbackOrder, Proper, ModuleTypeOK
<1>3. \A c : c \in Required(now) <=> c \in Proper /\ Earlier(c, now)
  BY <1>1, RequiredIsEarlier
<1>4. /\ state' \in [Entities -> States]
      /\ \A x \in Entities : x # now.for => state'[x] = state[x]
      /\ now.step \in {"element_init", "post_init"} =>
           state'[now.for] = "initialized"
      /\ now.step = "init" => state'[now.for] = state[now.for]
      /\ now.step = "bind" => state'[now.for] \in {state[now.for], "bound"}
      /\ now.step = "start" => state'[now.for] = "started"
  BY <1>1, <1>2 DEF States
<1>5. now' \in Proper \cup {Running} /\ now' \in Callback \cup {Running}
      /\ (now' \in Callback => now' \in Proper)
  BY <1>1, Started DEF Follows, Proper
<1>6. ModuleTypeOK'
  <2>1. bindId' \in Entities
    <3>1. now'.step \in Steps => now' \in Callback
      BY <1>5 DEF Running, Steps, InitSteps
    <3>2. now' \in Callback => now'.for \in Entities
      BY CallbackParts
    <3> QED BY <1>1, <3>1, <3>2 DEF ModuleInv, ModuleTypeOK, Steps, InitSteps
  <2> QED BY <1>1, <1>2, <1>4, <1>5, <2>1 DEF ModuleInv, ModuleTypeOK
<1>7. CallbackOrder'
  <2>1. now' \in Callback => done' = Required(now')
    BY <1>1, <1>2, <1>5, Started DEF Follows
  <2>2. now' = Running => done' = Proper
    BY <1>1, <1>2, Started DEF Follows, Proper
  <2> QED BY <2>1, <2>2, AllCallbacks DEF CallbackOrder
<1>8. StateInv'
  <2> SUFFICES ASSUME NEW x \in Entities
        PROVE  /\ state'[x] # "uninitialized" <=> Initializer(x) \in done'
               /\ state'[x] # "uninitialized" => FirstCallback(x) \in done'
               /\ state'[x] = "started" =>
                    \A r \in Rounds : BindsOf(x, r) \subseteq done'
    BY DEF StateInv
  <2>1. /\ state[x] # "uninitialized" <=> Initializer(x) \in done
        /\ state[x] # "uninitialized" => FirstCallback(x) \in done
        /\ state[x] = "started" =>
             \A r \in Rounds : BindsOf(x, r) \subseteq done
    BY DEF ModuleInv, StateInv
  <2>2. CASE now.for # x
    <3>1. Initializer(x) # now
      BY <2>2, Started
    <3> QED BY <1>1, <1>4, <2>1, <2>2, <3>1
  <2>3. CASE now.for = x /\ now.step = "init"
    <3>1. Initializer(x) # now
      BY <2>3, Started
    <3> QED BY <1>1, <1>4, <2>1, <2>3, <3>1
  <2>4. CASE now.for = x /\ now.step = "element_init"
    <3>1. x[2] # 0
      BY <1>1, <2>4 DEF Proper
    <3>2. Initializer(x) = FirstCallback(x)
      BY <3>1 DEF Initializer, FirstCallback
    <3>3. Initializer(x) = now
      BY <1>1, <1>2, <2>4, <3>1, Started, CallbackEqual DEF Proper
    <3> QED BY <1>1, <1>4, <2>4, <3>2, <3>3
  <2>5. CASE now.for = x /\ now.step = "post_init"
    <3>1. x[2] = 0
      BY <1>1, <2>5 DEF Proper
    <3>2. Initializer(x) = now
      BY <1>1, <1>2, <2>5, <3>1, Started, CallbackEqual DEF Proper
    <3>3. FirstCallback(x) \in Proper /\ FirstCallback(x).step = "init"
          /\ FirstCallback(x).for = x
      BY <3>1, Started
    <3>4. Earlier(FirstCallback(x), now)
      <4>1. /\ ElementCount[x[1]] \in Nat /\ FirstCallback(x).round = 0
            /\ now.round = 0
        BY <1>1, <2>5, <3>3, EntityParts DEF Proper
      <4> QED BY <2>5, <3>1, <3>3, <4>1 DEF Earlier, Part, Place, InitSteps
    <3> QED BY <1>2, <1>3, <1>4, <2>5, <3>2, <3>3, <3>4
  <2>6. CASE now.for = x /\ now.step \in {"bind", "start"}
    <3>1. /\ Earlier(Initializer(x), now) /\ Earlier(FirstCallback(x), now)
          /\ Initializer(x) \in Proper /\ FirstCallback(x) \in Proper
      BY <2>6, Started DEF Earlier, Part, InitSteps
    <3>2. Initializer(x) \in done' /\ FirstCallback(x) \in done'
          /\ Initializer(x) \in done
      BY <1>2, <1>3, <3>1
    <3>3. CASE now.step = "bind"
      <4>1. state'[x] = "started" => state[x] = "started"
        BY <1>4, <2>6, <3>3
      <4>2. state[x] # "uninitialized"
        BY <2>1, <3>2
      <4> QED BY <1>1, <1>4, <2>1, <2>6, <3>2, <3>3, <4>1, <4>2
    <3>4. CASE now.step = "start"
      <4>1. ASSUME NEW r \in Rounds, NEW c \in BindsOf(x, r) PROVE c \in done'
        <5>1. c \in Proper /\ c.step = "bind"
          BY InBinds
        <5>2. Earlier(c, now)
          BY <3>4, <5>1 DEF Earlier, Part, InitSteps
        <5> QED BY <1>2, <1>3, <5>1, <5>2
      <4> QED BY <1>4, <2>6, <3>2, <3>4, <4>1
    <3> QED BY <2>6, <3>3, <3>4
  <2> QED BY <1>2, <2>2, <2>3, <2>4, <2>5, <2>6 DEF Steps, InitSteps
<1>9. StartedInv'
  <2> SUFFICES ASSUME NEW x \in Entities,
                      \/ /\ now' \in Callback /\ now'.step = "start"
                         /\ x \in Preceding(now'.for)
                      \/ now' = Running
               PROVE  state'[x] = "started"
    BY DEF StartedInv
  <2>1. PICK c \in Proper : c.step = "start" /\ c.for = x
    <3> DEFINE c == Cb("start", x[1], x[2], 0)
    <3>1. c \in StartsIn({x})
      BY DEF StartsIn
    <3>2. c \in Proper /\ c.step = "start" /\ c.for \in {x}
      BY <3>1, InStarts
    <3> QED BY <3>2
  <2>2. c \in Required(now) \cup {now}
    <3>1. CASE now' = Running
      BY <1>1, <3>1, Started DEF Follows, Proper
    <3>2. CASE /\ now' \in Callback /\ now'.step = "start"
               /\ x \in Preceding(now'.for)
      <4>1. now' \in Proper /\ Required(now') = Required(now) \cup {now}
        BY <1>1, <3>2, Started DEF Follows
      <4>2. c.round = 0 /\ now'.round = 0
        BY <2>1, <3>2, <4>1 DEF Proper
      <4>3. Earlier(c, now')
        BY <2>1, <3>2, <4>2 DEF Earlier, Preceding, Part, Place, InitSteps
      <4>4. c \in Required(now')
        BY <2>1, <4>1, <4>3, RequiredIsEarlier
      <4> QED BY <4>1, <4>4
    <3> QED BY <3>1, <3>2
  <2>3. CASE c = now
    BY <1>4, <2>1, <2>3
  <2>4. CASE Earlier(c, now)
    <3>1. now.step = "start" /\ now.round = 0 /\ c.round = 0
      BY <1>1, <1>2, <2>1, <2>4
         DEF Earlier, Part, InitSteps, Steps, Proper
    <3>2. x \in Preceding(now.for)
      BY <2>1, <2>4, <3>1 DEF Earlier, Preceding, Part, Place, InitSteps
    <3>3. state[x] = "started"
      BY <1>2, <3>1, <3>2 DEF ModuleInv, StartedInv
    <3> QED BY <1>4, <3>1, <3>3
  <2> QED BY <1>3, <2>2, <2>3, <2>4
<1>10. BindIdInv'
  BY <1>1 DEF BindIdInv
<1> QED BY <1>5, <1>6, <1>7, <1>8, <1>9, <1>10 DEF ModuleInv

LEMMA ModuleInvariant == ModuleSpec => []ModuleInv
<1>1. ModuleInit => ModuleInv
  <2> SUFFICES ASSUME ModuleInit PROVE ModuleInv
    OBVIOUS
  <2>1. /\ now \in Callback /\ now.step = "init" /\ now.for = <<1, 0>>
        /\ now.for[1] = 1 /\ now.for[2] = 0 /\ now.round = 0
        /\ <<1, 0>> \in Entities
    BY EntityParts, CallbackMade
       DEF ModuleInit, Steps, InitSteps, Rounds, BIND_ROUND_MAX, Modules
  <2>2. now \in Proper /\ now # Running
    BY <2>1 DEF Proper, Running
  <2>3. ModuleTypeOK
    BY <2>1 DEF ModuleInit, ModuleTypeOK, States
  <2>4. CallbackOrder
    <3>1. \A c \in Proper : c.for[1] >= 1 /\ c.for[1] \in Nat
                            /\ c.round \in {0, 1} /\ Place(c) \in Nat
      BY CallbackParts, EntityParts DEF Proper, Place
    <3>2. \A c \in Proper : ~Earlier(c, now)
      BY <2>1, <3>1 DEF Earlier, Part, Place, InitSteps
    <3>3. Required(now) = {}
      BY <2>2, <3>2, RequiredIsEarlier
    <3> QED BY <2>2, <3>3 DEF ModuleInit, CallbackOrder
  <2>5. StateInv /\ StartedInv /\ BindIdInv
    BY <2>1, <2>2 DEF ModuleInit, StateInv, StartedInv, BindIdInv
  <2> QED BY <2>2, <2>3, <2>4, <2>5 DEF ModuleInv
<1>2. ModuleInv /\ [ModuleNext]_moduleVars => ModuleInv'
  <2> SUFFICES ASSUME ModuleInv, [ModuleNext]_moduleVars PROVE ModuleInv'
    OBVIOUS
  <2>1. CASE Advance /\ ~Fail
    BY <2>1, AdvanceKeeps
  <2>2. CASE Fail
    <3>1. now' = Failed /\ UNCHANGED <<state, bindId, done, bound>>
      BY <2>2 DEF Fail
    <3>2. Failed \notin Callback /\ Failed # Running
      BY Started
    <3> QED BY <3>1, <3>2 DEF ModuleInv, ModuleTypeOK, CallbackOrder, StateInv,
                              StartedInv, BindIdInv
  <2>3. ASSUME NEW by \in Entities, NEW x \in Entities, Bind(by, x)
        PROVE  ModuleInv'
    <3>1. UNCHANGED <<state, now, bindId, done>>
      BY <2>3 DEF Bind
    <3>2. now = Running \/ now \in Callback
      BY <2>3 DEF Bind, Requesters
    <3>3. now.step \in Steps \cup {"run"}
      BY <3>2, CallbackParts DEF Running
    <3>4. bound' \in Grant
      BY <2>3, <3>3 DEF Bind, Grant, ModuleInv, ModuleTypeOK
    <3> QED BY <3>1, <3>4 DEF ModuleInv, ModuleTypeOK, CallbackOrder, StateInv,
                              StartedInv, BindIdInv
  <2>4. CASE UNCHANGED moduleVars
    BY <2>4 DEF moduleVars, ModuleInv, ModuleTypeOK, CallbackOrder, StateInv, StartedInv,
                BindIdInv
  <2> QED BY <2>1, <2>2, <2>3, <2>4 DEF ModuleNext
<1> QED BY <1>1, <1>2, PTL DEF ModuleSpec

(* Whatever the module table, a callback is called when exactly those that *)
(* must precede it have returned, and modules run when all have.           *)
THEOREM StagesInOrder == ModuleSpec => []CallbackOrder
BY ModuleInvariant, PTL DEF ModuleInv

(* Whatever the module table, the state by which calls are let through     *)
(* says what has been called for the entity, and every entity is started   *)
(* when modules run.                                                       *)
THEOREM StatesMean == ModuleSpec => []StateMeans
<1>1. ModuleInv => StateMeans
  <2> SUFFICES ASSUME ModuleInv PROVE StateMeans
    OBVIOUS
  <2>1. ASSUME NEW x \in Entities, CheckCall(x)
        PROVE  FirstCallback(x) \in done
    <3>1. state[x] # "uninitialized"
      BY <2>1 DEF CheckCall, GetState
    <3> QED BY <3>1 DEF ModuleInv, StateInv
  <2>2. ASSUME NEW x \in Entities, state[x] = "started"
        PROVE  \A r \in Rounds : BindsOf(x, r) \subseteq done
    BY <2>2 DEF ModuleInv, StateInv
  <2>3. ASSUME now = Running, NEW x \in Entities
        PROVE  CheckCall(x) /\ state[x] = "started"
    <3>1. state[x] = "started"
      BY <2>3 DEF ModuleInv, StartedInv
    <3>2. Stage = "start"
      BY <2>3 DEF Stage, Running, InitSteps
    <3>3. IsValidEntity(x)
      BY <3>2, EntityParts
         DEF IsValidEntity, IsValidModule, IsValidElement, Counted
    <3> QED BY <3>1, <3>3, ModuleAssumption DEF CheckCall, GetState
  <2>4. ModuleTypeOK
    BY DEF ModuleInv
  <2> QED BY <2>1, <2>2, <2>3, <2>4 DEF StateMeans, FirstCallback
<1> QED BY <1>1, ModuleInvariant, PTL

(* An accepted request names an entity that was initialised then, although *)
(* fwk_module_bind looks at the state of its module only, and only while   *)
(* modules are initialised; and it told the module who asked.              *)
THEOREM TargetsReady == ModuleSpec => []TargetReady
<1>1. ModuleInit => TargetReady
  BY DEF ModuleInit, TargetReady
<1>2. ASSUME ModuleInv, TargetReady, [ModuleNext]_moduleVars PROVE TargetReady'
  <2>1. ASSUME NEW by \in Entities, NEW x \in Entities, Bind(by, x)
        PROVE  TargetReady'
    <3>1. /\ bound'.by = by /\ bound'.source = bindId /\ bound'.step = now.step
          /\ bound'.targetState = state[x]
      BY <2>1 DEF Bind
    <3>2. \/ now = Running
          \/ now \in Callback /\ now \in Proper /\ IsDefined(now) /\ by = now.for
      BY <1>2, <2>1, Started DEF Bind, Requesters, ModuleInv
    <3>3. now.step \in {"init", "element_init", "bind"} => bindId = by
      BY <1>2, <3>2 DEF ModuleInv, BindIdInv, Running
    <3>4. Initializer(x) \in done
      <4>1. Initializer(x) \in Proper
        BY Started
      <4>2. CASE now = Running
        BY <1>2, <4>1, <4>2, AllCallbacks DEF ModuleInv, CallbackOrder
      <4>3. CASE now \in Proper
        <5>1. now \in Callback /\ done = Required(now)
          BY <1>2, <4>3 DEF ModuleInv, CallbackOrder, Proper
        <5>2. CASE now.step \notin InitSteps
          <6>1. Earlier(Initializer(x), now)
            BY <5>1, <5>2, Started DEF Earlier, Part, InitSteps
          <6> QED BY <4>1, <4>3, <5>1, <6>1, RequiredIsEarlier
        <5>3. CASE now.step \in InitSteps
          <6> DEFINE m == <<x[1], 0>>
          <6>1. m \in Entities /\ m[1] = x[1] /\ m[2] = 0
            BY EntityParts
          <6>2. state[m] = "initialized"
            <7>1. Stage = "initialize"
              BY <5>3 DEF Stage, InitSteps
            <7> QED BY <2>1, <7>1 DEF Bind, BindAllowed
          <6>3. Initializer(m) \in done
            BY <1>2, <6>1, <6>2 DEF ModuleInv, StateInv
          <6>4. Initializer(m) \in Proper /\ Earlier(Initializer(m), now)
            BY <4>3, <5>1, <6>3, RequiredIsEarlier
          <6>5. /\ Initializer(m).step = "post_init" /\ Initializer(m).for = m
                /\ Initializer(x).for = x
                /\ Initializer(x).step \in {"post_init", "element_init"}
            BY <6>1, Started
          <6> HIDE DEF m
          <6>6. /\ x[1] \in Nat /\ x[2] \in Nat /\ x[2] <= ElementCount[x[1]]
                /\ ElementCount[x[1]] \in Nat
                /\ now.for[1] \in Nat /\ now.for[2] \in Nat
                /\ now.for[2] <= ElementCount[now.for[1]]
                /\ ElementCount[now.for[1]] \in Nat
                /\ now.round = 0
                /\ Initializer(m).round = 0 /\ Initializer(x).round = 0
            BY <4>1, <4>3, <5>1, <5>3, <6>4, <6>5, EntityParts, CallbackParts
               DEF Proper, InitSteps
          <6>7. \/ x[1] < now.for[1]
                \/ x[1] = now.for[1] /\ ElementCount[x[1]] + 1 < Place(now)
            BY <5>3, <6>1, <6>4, <6>5, <6>6 DEF Earlier, Part, Place, InitSteps
          <6>8. x[1] < now.for[1]
            BY <6>6, <6>7 DEF Place
          <6>9. Earlier(Initializer(x), now)
            BY <5>3, <6>5, <6>6, <6>8 DEF Earlier, Part, InitSteps
          <6> QED BY <4>1, <4>3, <5>1, <6>9, RequiredIsEarlier
        <5> QED BY <5>2, <5>3
      <4> QED BY <3>2, <4>2, <4>3
    <3>5. state[x] # "uninitialized"
      BY <1>2, <3>4 DEF ModuleInv, StateInv
    <3> QED BY <3>1, <3>3, <3>5 DEF TargetReady
  <2>2. CASE Advance
    <3>1. bound' = bound
      BY <1>2, <2>2, Advances DEF Fail
    <3> QED BY <1>2, <3>1 DEF TargetReady
  <2>3. CASE UNCHANGED moduleVars
    BY <1>2, <2>3 DEF moduleVars, TargetReady
  <2> QED BY <1>2, <2>1, <2>2, <2>3 DEF ModuleNext
<1> QED BY <1>1, <1>2, ModuleInvariant, PTL DEF ModuleSpec
=============================================================================
