--------------------------- MODULE Watching_proofs ----------------------------
(*****************************************************************************)
(* Proofs about the watching of positions in quantsys-v2: the trading plan   *)
(* and its rules, for any versions, terms and rules, any faults and any      *)
(* writes of the rules by others, and the todos that rules raise, for any    *)
(* finite set of todos, any requests and faults.                             *)
(*                                                                           *)
(* Of the plan: an active one is watched, one that is off is not, and a      *)
(* compilation leaves no role unwatched on its way, but for rules that       *)
(* somebody else has taken since they were compiled.  What a request is      *)
(* going to do must be known for that: SpecSecured says that each role of    *)
(* the spec has a rule that will do and will stay, or is about to get one.   *)
(*                                                                           *)
(* Of the todos: nobody is called twice but for a fault, nothing expires     *)
(* that was not called out, and a closed todo stays closed.  A card is       *)
(* counted by its receipt, or by the buffer of the pass, or by a fault       *)
(* (CardsSound); that a pass has each todo once, and no call twice, is       *)
(* GroupSound and QueueSound.                                                *)
(*****************************************************************************)
EXTENDS TradingPlan, WatchTodo, FiniteSetTheorems, SequenceTheorems, TLAPS

-------------------------------------------------------------------------------
(* The plan.                                                               *)

\* A spec says of every role what its rule is to be, 0 for no rule.
LEMMA SpecsAreMaps == \A spec \in Specs : DOMAIN spec = Roles /\ \A r \in Roles : spec[r] \in Nat
<1> SUFFICES ASSUME NEW entry \in Entries, NEW exit \in Exits
             PROVE  /\ DOMAIN Over(entry, exit) = Roles
                    /\ \A r \in Roles : Over(entry, exit)[r] \in Nat
  BY DEF Specs
<1> QED BY DEF Entries, Exits, Roles, Over

\* A patch of an entry or of an exit makes a spec of a spec.
LEMMA SpecsMerge == \A spec \in Specs, patch \in Patches : Over(patch, spec) \in Specs
<1> SUFFICES ASSUME NEW entry \in Entries, NEW exit \in Exits, NEW patch \in Patches
             PROVE  Over(patch, Over(entry, exit)) \in Specs
  BY DEF Specs
<1>1. CASE patch \in Entries
  <2>1. Over(patch, Over(entry, exit)) = Over(patch, exit)
    BY <1>1 DEF Entries, Exits, Over
  <2> QED BY <1>1, <2>1 DEF Specs
<1>2. CASE patch \in Exits
  <2>1. Over(patch, Over(entry, exit)) = Over(entry, patch)
    BY <1>2 DEF Entries, Exits, Over
  <2> QED BY <1>2, <2>1 DEF Specs
<1> QED BY <1>1, <1>2 DEF Patches

-------------------------------------------------------------------------------
\* A rule that was deleted is not enabled.
RuleRows == {row \in [role : Roles, terms : Nat, live : BOOLEAN] : row.terms = 0 => ~row.live}
CompileOps == {"apply", "activate", "refuse", "realign", "resume"}
Requests == [op : CompileOps \cup {"none", "pause", "close"}, linking : Roles \cup {"none"},
             before : Seq(RuleRows), lost : BOOLEAN, create : SUBSET Roles,
             update : SUBSET Nat, retire : SUBSET Nat, undo : SUBSET Nat]

\* Every variable keeps its type; the mapping names rules of the right role that
\* were not deleted, and the rule to be linked is the one that was created last.
PlanTyped ==
  /\ plan \in [status : DOMAIN Legal, version : Nat, spec : Specs, draft : Specs \cup {NoSpec}]
  /\ rules \in Seq(RuleRows)
  /\ mapping \in [Roles -> Nat]
  /\ \A r \in Roles : mapping[r] # 0 =>
       mapping[r] \in 1..Len(rules) /\ rules[mapping[r]].role = r /\ rules[mapping[r]].terms # 0
  /\ req \in Requests
  /\ req.update \cup req.retire \cup taken \subseteq 1..Len(rules)
  /\ req.linking # "none" => Len(rules) > 0 /\ rules[Len(rules)].role = req.linking
  /\ breaks \in Nat /\ writes \in Nat /\ torn \in BOOLEAN

\* A plan that is off is not compiled; a pause or a closing only retires, and has
\* every live rule on its list, but those that others switched on since.
OpSound ==
  /\ Rest => req = NoReq
  /\ Compiling => plan.status \notin {"paused", "closed", "archived"}
  /\ req.op \in {"activate", "refuse", "realign"} => plan.status = "draft"
  /\ req.op \in {"pause", "close"} =>
       /\ plan.status \in {"paused", "closing", "closed"}
       /\ req.create = {} /\ req.linking = "none" /\ req.update = {}
       /\ ~req.lost => LiveRules \subseteq req.retire \cup taken

\* A role is to have a rule yet, or has one with the terms of the spec, or one
\* that is to be given them, or one that another writer has taken; and that rule
\* is not to be retired.
Secured(r) ==
  \/ r \in req.create
  \/ \E i \in 1..Len(rules) :
       /\ rules[i].role = r /\ i \notin req.retire
       /\ i \in req.update \/ i \in taken \/ (rules[i].live /\ rules[i].terms = plan.spec[r])

\* Of the roles that the spec wants, those to be created and those to be updated
\* are different ones, and a rule that is to be updated and is gone was taken.
SpecSecured ==
  /\ req.update \cap req.retire = {}
  /\ req.create \subseteq Wanted(plan.spec)
  /\ \A i \in req.update : /\ rules[i].role \in Wanted(plan.spec) \ req.create
                           /\ rules[i].terms = 0 => i \in taken
  /\ Compiling /\ ~req.lost => \A r \in Wanted(plan.spec) : Secured(r)

\* What was deleted stays so; and until it retires rules, a compilation has taken
\* nothing away.
BeforeKept ==
  Compiling =>
    /\ \A i \in 1..Len(req.before) :
         /\ i \in 1..Len(rules) /\ rules[i].role = req.before[i].role
         /\ rules[i].terms # 0 => req.before[i].terms # 0
    /\ ~MayRetire => \A r \in Roles :
         LiveIn(req.before, r) => LiveIn(rules, r) \/ TakenOf(r) # {}

PlanIInv == /\ PlanTyped
            /\ OpSound
            /\ SpecSecured
            /\ BeforeKept
            /\ ActiveIsWatched
            /\ OffIsUnwatched

-------------------------------------------------------------------------------
LEMMA PlanInitIInv == PlanInit => PlanIInv
<1> SUFFICES ASSUME PlanInit PROVE PlanIInv
  OBVIOUS
<1> USE DEF PlanInit, NoReq
<1>1. PlanTyped
  <2>1. plan \in [status : DOMAIN Legal, version : Nat, spec : Specs, draft : Specs \cup {NoSpec}]
    BY DEF Legal
  <2>2. rules \in Seq(RuleRows) /\ Len(rules) = 0 /\ mapping \in [Roles -> Nat]
    OBVIOUS
  <2>3. req \in Requests
    BY DEF Requests
  <2> QED BY <2>1, <2>2, <2>3 DEF PlanTyped
<1>2. OpSound /\ SpecSecured /\ BeforeKept
  BY DEF OpSound, SpecSecured, BeforeKept, Rest, Compiling
<1>3. ActiveIsWatched /\ OffIsUnwatched
  BY DEF ActiveIsWatched, OffIsUnwatched
<1> QED BY <1>1, <1>2, <1>3 DEF PlanIInv

\* What writing a row does: the row gets the terms and the flag, unless it is gone,
\* and keeps its role; the other rows stay.
LEMMA RowWritten ==
  ASSUME rules \in Seq(RuleRows), NEW i \in 1..Len(rules), NEW terms \in Nat,
         NEW live \in BOOLEAN, terms = 0 => ~live
  PROVE  /\ Written(i, terms, live) \in Seq(RuleRows)
         /\ Len(Written(i, terms, live)) = Len(rules)
         /\ \A k \in 1..Len(rules) : /\ Written(i, terms, live)[k].role = rules[k].role
                                     /\ k # i => Written(i, terms, live)[k] = rules[k]
         /\ rules[i].terms # 0 => /\ Written(i, terms, live)[i].terms = terms
                                  /\ live => Written(i, terms, live)[i].live
                                  /\ ~live => ~Written(i, terms, live)[i].live
         /\ rules[i].terms = 0 => Written(i, terms, live) = rules
<1>1. rules[i] \in RuleRows /\ Len(rules) \in Nat /\ DOMAIN rules = 1..Len(rules)
  OBVIOUS
<1>2. CASE rules[i].terms = 0
  BY <1>1, <1>2 DEF Written, Existing
<1>3. CASE rules[i].terms # 0
  <2> DEFINE fresh == [rules[i] EXCEPT !.terms = terms, !.live = live]
  <2>1. fresh \in RuleRows /\ fresh.role = rules[i].role /\ fresh.terms = terms /\ fresh.live = live
    BY <1>1 DEF RuleRows
  <2>2. Written(i, terms, live) = [rules EXCEPT ![i] = fresh]
    BY <1>1, <1>3 DEF Written, Existing
  <2> HIDE DEF fresh
  <2>3. /\ [rules EXCEPT ![i] = fresh] \in Seq(RuleRows)
        /\ Len([rules EXCEPT ![i] = fresh]) = Len(rules)
        /\ [rules EXCEPT ![i] = fresh][i] = fresh
        /\ \A k \in 1..Len(rules) : k # i => [rules EXCEPT ![i] = fresh][k] = rules[k]
    BY <1>1, <2>1
  <2> QED BY <1>3, <2>1, <2>2, <2>3
<1> QED BY <1>2, <1>3

\* The role to be created next is one of those to be created.
LEMMA NextRoleIsOne == ASSUME req.create \subseteq Roles, req.create # {}
                       PROVE  NextRole \in req.create
<1>1. \E r \in req.create : \A q \in req.create : RoleRank[r] <= RoleRank[q]
  BY DEF Roles, RoleRank
<1> QED BY <1>1 DEF NextRole

\* The diff secures each role that the spec wants, and starts from what there is.
LEMMA CompileStarts ==
  ASSUME PlanTyped, NEW op \in CompileOps, NEW spec \in Specs, Compile(op, spec),
         rules' = rules, mapping' = mapping, taken' = taken, plan'.spec = spec
  PROVE  /\ req' \in Requests /\ req'.op = op /\ req'.linking = "none" /\ ~req'.lost
         /\ req'.update \cup req'.retire \subseteq 1..Len(rules)
         /\ SpecSecured' /\ BeforeKept'
<1>1. PICK orphan \in Seen : req' = Diff(op, spec, orphan)
  BY DEF Compile
<1>2. orphan \subseteq 1..Len(rules) /\ \A r \in Roles : mapping[r] \notin orphan
  BY DEF Seen, Unmapped, Existing, PlanTyped
<1>3. /\ Wanted(spec) \subseteq Roles
      /\ \A r \in Roles : mapping[r] \in Nat
      /\ \A r, q \in Roles : mapping[r] # 0 /\ mapping[r] = mapping[q] => r = q
  BY DEF Wanted, PlanTyped
<1>4. /\ req'.create = {r \in Wanted(spec) : ~Found(r)}
      /\ req'.update = {mapping[r] : r \in {x \in Wanted(spec) : Found(x) /\ Changed(spec, x)}}
      /\ req'.retire = {mapping[r] : r \in {x \in Roles : mapping[x] # 0
                                      /\ ~(x \in Wanted(spec) /\ Found(x))}} \cup orphan
      /\ req'.op = op /\ req'.linking = "none" /\ req'.before = rules /\ req'.lost = FALSE
      /\ req'.undo = {}
  BY <1>1 DEF Diff
<1>5. req'.update \subseteq 1..Len(rules) /\ req'.retire \subseteq 1..Len(rules)
  <2>1. \A r \in Roles : mapping[r] # 0 => mapping[r] \in 1..Len(rules)
    BY DEF PlanTyped
  <2>2. \A r \in Wanted(spec) : Found(r) => mapping[r] # 0
    BY DEF Found
  <2>3. \A i \in req'.update : \E r \in Wanted(spec) : Found(r) /\ i = mapping[r]
    BY <1>4
  <2>4. \A i \in req'.retire : i \in orphan \/ \E r \in Roles : mapping[r] # 0 /\ i = mapping[r]
    BY <1>4
  <2>5. \A i \in req'.update : i \in 1..Len(rules)
    BY <1>3, <2>1, <2>2, <2>3
  <2>6. \A i \in req'.retire : i \in 1..Len(rules)
    BY <1>2, <2>1, <2>4
  <2> QED BY <2>5, <2>6
<1>6. req' \in Requests
  <2> DEFINE create == {r \in Wanted(spec) : ~Found(r)}
             update == {mapping[r] : r \in {x \in Wanted(spec) : Found(x) /\ Changed(spec, x)}}
             retire == {mapping[r] : r \in {x \in Roles : mapping[x] # 0
                                         /\ ~(x \in Wanted(spec) /\ Found(x))}} \cup orphan
  <2>1. /\ rules \in Seq(RuleRows) /\ create \subseteq Roles
        /\ update \subseteq Nat /\ retire \subseteq Nat
    BY <1>3, <1>4, <1>5 DEF PlanTyped
  <2>2. req' = [op |-> op, linking |-> "none", before |-> rules, lost |-> FALSE,
                create |-> create, update |-> update, retire |-> retire, undo |-> {}]
    BY <1>1 DEF Diff
  <2> HIDE DEF create, update, retire
  <2> QED BY <2>1, <2>2 DEF Requests
<1>7. req'.update \cap req'.retire = {}
  BY <1>2, <1>3, <1>4 DEF Found
<1>8. ASSUME NEW r \in Wanted(spec) PROVE Secured(r)'
  <2>1. CASE ~Found(r)
    BY <2>1, <1>4 DEF Secured
  <2>2. CASE Found(r)
    <3>1. mapping[r] \in 1..Len(rules) /\ rules[mapping[r]].role = r
      BY <2>2, <1>3 DEF PlanTyped, Found
    <3>2. mapping[r] \notin req'.retire
      BY <2>2, <1>2, <1>3, <1>4 DEF Found
    <3>3. mapping[r] \in req'.update \/ ~Changed(spec, r)
      BY <2>2, <1>4
    <3> QED BY <3>1, <3>2, <3>3 DEF Secured, Changed
  <2> QED BY <2>1, <2>2
<1>9. SpecSecured'
  <2>1. req'.create \subseteq Wanted(spec)
    BY <1>4
  <2>2. ASSUME NEW i \in req'.update
        PROVE  rules[i].role \in Wanted(spec) \ req'.create /\ rules[i].terms # 0
    <3>1. PICK r \in Wanted(spec) : Found(r) /\ i = mapping[r]
      BY <1>4
    <3>2. rules[i].role = r /\ rules[i].terms # 0
      BY <3>1, <1>3 DEF PlanTyped, Found
    <3> QED BY <3>1, <3>2, <1>4
  <2> QED BY <1>7, <1>8, <2>1, <2>2 DEF SpecSecured
<1>10. BeforeKept'
  <2>1. DOMAIN rules = 1..Len(rules)
    BY DEF PlanTyped
  <2> QED BY <1>4, <2>1 DEF BeforeKept, LiveIn
<1> QED BY <1>4, <1>5, <1>6, <1>9, <1>10

-------------------------------------------------------------------------------
(* The steps of a request.                                                 *)

LEMMA CreatePreserves == PlanIInv /\ CreateRule => PlanIInv'
<1> SUFFICES ASSUME PlanIInv, CreateRule PROVE PlanIInv'
  OBVIOUS
<1> USE DEF PlanIInv
<1>1. /\ NextRole \in req.create /\ NextRole \in Roles /\ req.linking = "none"
      /\ plan.spec \in Specs /\ plan.spec[NextRole] \in Nat
  BY NextRoleIsOne, SpecsAreMaps DEF CreateRule, PlanTyped, Requests
<1> DEFINE fresh == [role |-> NextRole, terms |-> plan.spec[NextRole], live |-> TRUE]
<1>2. /\ rules' = Append(rules, fresh) /\ fresh \in RuleRows /\ rules \in Seq(RuleRows)
      /\ req' = [req EXCEPT !.create = @ \ {NextRole}, !.linking = NextRole]
      /\ req \in Requests
      /\ taken' = {i \in taken : rules[i].role # NextRole}
      /\ UNCHANGED <<plan, mapping, breaks, writes, torn>>
  <2>1. plan.spec[NextRole] # 0
    BY <1>1 DEF SpecSecured, Wanted
  <2> QED BY <1>1, <2>1 DEF CreateRule, PlanTyped, RuleRows
<1>3. /\ rules' \in Seq(RuleRows) /\ Len(rules') = Len(rules) + 1 /\ Len(rules) \in Nat
      /\ \A i \in 1..Len(rules) : rules'[i] = rules[i]
      /\ rules'[Len(rules')] = fresh
  BY <1>2
<1>4. /\ req' \in Requests /\ req'.op = req.op /\ req'.lost = req.lost
      /\ req'.create = req.create \ {NextRole} /\ req'.linking = NextRole
      /\ req'.update = req.update /\ req'.retire = req.retire /\ req'.before = req.before
  <2>1. req.create \ {NextRole} \subseteq Roles
    BY <1>2 DEF Requests
  <2> QED BY <1>1, <1>2, <2>1 DEF Requests
<1>5. Compiling /\ ~Rest /\ req.op \notin {"pause", "close"}
  BY <1>1, <1>2 DEF OpSound, Rest, Compiling, NoReq, Requests, CompileOps
<1>6. PlanTyped'
  <2>1. taken' \subseteq taken /\ \A i \in taken : i \in 1..Len(rules)
    BY <1>2 DEF PlanTyped
  <2> QED BY <1>1, <1>2, <1>3, <1>4, <2>1 DEF PlanTyped
<1>7. OpSound'
  BY <1>2, <1>4, <1>5 DEF OpSound, Rest, Compiling
<1>8. SpecSecured'
  <2>1. req'.update \cap req'.retire = {}
    BY <1>4 DEF SpecSecured
  <2>2. ASSUME NEW r \in Wanted(plan.spec), ~req.lost PROVE Secured(r)'
    <3>1. CASE r = NextRole
      <4>1. Len(rules') \notin req'.retire
        BY <1>3, <1>4 DEF PlanTyped
      <4> QED BY <3>1, <4>1, <1>2, <1>3 DEF Secured
    <3>2. CASE r # NextRole
      <4>1. Secured(r)
        BY <2>2, <1>5 DEF SpecSecured
      <4>2. CASE r \in req.create
        BY <3>2, <4>2, <1>4 DEF Secured
      <4>3. CASE r \notin req.create
        <5>1. PICK i \in 1..Len(rules) :
                 /\ rules[i].role = r /\ i \notin req.retire
                 /\ i \in req.update \/ i \in taken \/ (rules[i].live /\ rules[i].terms = plan.spec[r])
          BY <4>1, <4>3 DEF Secured
        <5>2. i \in 1..Len(rules') /\ rules'[i] = rules[i] /\ (i \in taken => i \in taken')
          BY <3>2, <5>1, <1>2, <1>3
        <5> QED BY <5>1, <5>2, <1>2, <1>4 DEF Secured
      <4> QED BY <4>2, <4>3
    <3> QED BY <3>1, <3>2
  <2>3. ASSUME NEW i \in req'.update
        PROVE  /\ rules'[i].role \in Wanted(plan.spec) \ req'.create
               /\ rules'[i].terms = 0 => i \in taken'
    <3>1. /\ i \in 1..Len(rules) /\ rules[i].role \in Wanted(plan.spec) \ req.create
          /\ rules[i].terms = 0 => i \in taken
      BY <2>3, <1>4 DEF SpecSecured, PlanTyped
    <3>2. rules'[i] = rules[i] /\ rules[i].role # NextRole
      BY <3>1, <1>1, <1>3
    <3> QED BY <3>1, <3>2, <1>2, <1>4
  <2>4. req'.create \subseteq Wanted(plan.spec)
    BY <1>4 DEF SpecSecured
  <2> QED BY <2>1, <2>2, <2>3, <2>4, <1>2, <1>4 DEF SpecSecured
<1>9. BeforeKept'
  <2>1. ~MayRetire
    BY <1>1 DEF MayRetire, AllCreated
  <2>2. ASSUME NEW i \in 1..Len(req.before)
        PROVE  /\ i \in 1..Len(rules') /\ rules'[i].role = req.before[i].role
               /\ rules'[i].terms # 0 => req.before[i].terms # 0
    BY <1>3, <1>5 DEF BeforeKept
  <2>3. ASSUME NEW r \in Roles, LiveIn(req.before, r)
        PROVE  LiveIn(rules', r) \/ TakenOf(r)' # {}
    <3>1. DOMAIN rules = 1..Len(rules) /\ DOMAIN rules' = 1..Len(rules')
      BY <1>2, <1>3
    <3>2. CASE r = NextRole
      BY <3>1, <3>2, <1>3 DEF LiveIn
    <3>3. CASE r # NextRole
      <4>1. LiveIn(rules, r) \/ TakenOf(r) # {}
        BY <2>1, <2>3, <1>5 DEF BeforeKept
      <4>2. LiveIn(rules, r) => LiveIn(rules', r)
        BY <3>1, <1>3 DEF LiveIn
      <4>3. ASSUME NEW i \in TakenOf(r) PROVE i \in TakenOf(r)'
        <5>1. i \in taken /\ rules[i].role = r /\ i \in 1..Len(rules)
          BY <4>3 DEF TakenOf, PlanTyped
        <5> QED BY <5>1, <3>3, <1>2, <1>3 DEF TakenOf
      <4> QED BY <4>1, <4>2, <4>3
    <3> QED BY <3>2, <3>3
  <2> QED BY <2>2, <2>3, <1>4 DEF BeforeKept
<1>10. ActiveIsWatched' /\ OffIsUnwatched'
  BY <1>4, <1>5 DEF ActiveIsWatched, OffIsUnwatched, Rest
<1> QED BY <1>6, <1>7, <1>8, <1>9, <1>10

LEMMA LinkPreserves == PlanIInv /\ LinkRule => PlanIInv'
<1> SUFFICES ASSUME PlanIInv, LinkRule PROVE PlanIInv'
  OBVIOUS
<1> USE DEF PlanIInv
<1>1. /\ req \in Requests /\ req.linking \in Roles
      /\ req' = [req EXCEPT !.linking = "none"]
      /\ UNCHANGED <<plan, rules, breaks, writes, torn, taken>>
  BY DEF LinkRule, PlanTyped, Requests
<1>2. /\ req' \in Requests /\ req'.op = req.op /\ req'.lost = req.lost
      /\ req'.create = req.create /\ req'.linking = "none"
      /\ req'.update = req.update /\ req'.retire = req.retire /\ req'.before = req.before
  BY <1>1 DEF Requests
<1>3. Compiling /\ ~Rest /\ req.op \notin {"pause", "close"}
  BY <1>1 DEF OpSound, Rest, Compiling, NoReq, Requests, CompileOps, Roles
<1>4. /\ mapping' \in [Roles -> Nat]
      /\ \A r \in Roles : mapping'[r] # 0 =>
           /\ mapping'[r] \in 1..Len(rules) /\ rules[mapping'[r]].role = r
           /\ rules[mapping'[r]].terms # 0
  <2>1. /\ Len(rules) \in 1..Len(rules) /\ rules[Len(rules)].terms # 0
        /\ rules[Len(rules)].role = req.linking
    BY <1>1 DEF LinkRule, Linkable, Existing, PlanTyped, Roles
  <2>2. \/ mapping' = [mapping EXCEPT ![req.linking] = Len(rules)]
        \/ mapping' = mapping
    BY DEF LinkRule
  <2> QED BY <1>1, <2>1, <2>2 DEF PlanTyped
<1>5. PlanTyped'
  BY <1>1, <1>2, <1>4 DEF PlanTyped
<1>6. OpSound'
  BY <1>1, <1>2, <1>3 DEF OpSound, Rest, Compiling
<1>7. SpecSecured'
  <2>1. \A r : Secured(r) => Secured(r)'
    BY <1>1, <1>2 DEF Secured
  <2> QED BY <2>1, <1>1, <1>2, <1>3 DEF SpecSecured, Compiling
<1>8. BeforeKept'
  <2>1. ~MayRetire
    BY <1>1 DEF MayRetire, AllCreated, Roles
  <2>2. \A r : /\ LiveIn(req'.before, r) = LiveIn(req.before, r)
              /\ LiveIn(rules', r) = LiveIn(rules, r) /\ TakenOf(r)' = TakenOf(r)
    BY <1>1, <1>2 DEF LiveIn, TakenOf
  <2> QED BY <2>1, <2>2, <1>1, <1>2, <1>3 DEF BeforeKept, Compiling
<1>9. ActiveIsWatched' /\ OffIsUnwatched'
  BY <1>2, <1>3 DEF ActiveIsWatched, OffIsUnwatched, Rest
<1> QED BY <1>5, <1>6, <1>7, <1>8, <1>9

\* What seeing to a rule does to a request.
LEMMA SeenToRule ==
  ASSUME req \in Requests, NEW i \in Nat
  PROVE  /\ SeenTo(i) \in Requests /\ SeenTo(i).op = req.op /\ SeenTo(i).lost = req.lost
         /\ SeenTo(i).create = req.create /\ SeenTo(i).linking = req.linking
         /\ SeenTo(i).before = req.before
         /\ SeenTo(i).update = req.update \ {i} /\ SeenTo(i).retire = req.retire \ {i}
<1> DEFINE update == req.update \ {i}
           retire == req.retire \ {i}
           undo == req.undo \cup {i}
<1>1. update \subseteq Nat /\ retire \subseteq Nat /\ undo \subseteq Nat
  BY DEF Requests
<1>2. SeenTo(i) = [req EXCEPT !.update = update, !.retire = retire, !.undo = undo]
  BY DEF SeenTo
<1> HIDE DEF update, retire, undo
<1>3. /\ SeenTo(i) \in Requests /\ SeenTo(i).op = req.op /\ SeenTo(i).lost = req.lost
      /\ SeenTo(i).create = req.create /\ SeenTo(i).linking = req.linking
      /\ SeenTo(i).before = req.before
      /\ SeenTo(i).update = update /\ SeenTo(i).retire = retire
  BY <1>1, <1>2 DEF Requests
<1> QED BY <1>3 DEF update, retire

LEMMA UpdatePreserves == PlanIInv /\ UpdateRule => PlanIInv'
<1> SUFFICES ASSUME PlanIInv, UpdateRule PROVE PlanIInv'
  OBVIOUS
<1> USE DEF PlanIInv
<1>1. PICK i \in req.update :
        /\ rules' = Written(i, plan.spec[rules[i].role], TRUE)
        /\ req' = SeenTo(i)
        /\ taken' = IF i \in Existing THEN taken \ {i} ELSE taken
  BY DEF UpdateRule
<1>2. /\ req \in Requests /\ rules \in Seq(RuleRows) /\ i \in 1..Len(rules) /\ i \in Nat
      /\ req.create = {} /\ req.linking = "none"
      /\ UNCHANGED <<plan, mapping, breaks, writes, torn>>
  BY DEF UpdateRule, AllCreated, PlanTyped
<1>3. /\ req' \in Requests /\ req'.op = req.op /\ req'.lost = req.lost
      /\ req'.create = req.create /\ req'.linking = req.linking /\ req'.before = req.before
      /\ req'.update = req.update \ {i} /\ req'.retire = req.retire
  <2>1. i \notin req.retire
    BY <1>1 DEF SpecSecured
  <2>2. req.retire \ {i} = req.retire
    BY <2>1
  <2>3. /\ req' \in Requests /\ req'.op = req.op /\ req'.lost = req.lost
        /\ req'.create = req.create /\ req'.linking = req.linking /\ req'.before = req.before
        /\ req'.update = req.update \ {i} /\ req'.retire = req.retire \ {i}
    BY <1>1, <1>2, SeenToRule
  <2> QED BY <2>2, <2>3
<1>4. /\ rules[i].role \in Roles /\ plan.spec[rules[i].role] \in Nat
      /\ plan.spec[rules[i].role] # 0
      /\ rules[i].terms = 0 => i \in taken
  <2>1. rules[i].role \in Wanted(plan.spec) /\ plan.spec \in Specs
        /\ (rules[i].terms = 0 => i \in taken)
    BY <1>2 DEF SpecSecured, PlanTyped
  <2> QED BY <2>1, SpecsAreMaps DEF Wanted
<1>5. /\ rules' \in Seq(RuleRows) /\ Len(rules') = Len(rules) /\ Len(rules) \in Nat
      /\ \A k \in 1..Len(rules) : rules'[k].role = rules[k].role
      /\ \A k \in 1..Len(rules) : k # i => rules'[k] = rules[k]
      /\ rules[i].terms # 0 => rules'[i].terms = plan.spec[rules[i].role] /\ rules'[i].live
      /\ rules[i].terms = 0 => rules' = rules
  <2> DEFINE terms == plan.spec[rules[i].role]
             on == TRUE
  <2>1. terms \in Nat /\ terms # 0 /\ on \in BOOLEAN /\ on
    BY <1>4
  <2>2. rules' = Written(i, terms, on)
    BY <1>1
  <2> HIDE DEF terms, on
  <2>3. /\ Written(i, terms, on) \in Seq(RuleRows)
        /\ Len(Written(i, terms, on)) = Len(rules)
        /\ \A k \in 1..Len(rules) :
             /\ Written(i, terms, on)[k].role = rules[k].role
             /\ k # i => Written(i, terms, on)[k] = rules[k]
        /\ rules[i].terms # 0 => /\ Written(i, terms, on)[i].terms = terms
                                 /\ on => Written(i, terms, on)[i].live
        /\ rules[i].terms = 0 => Written(i, terms, on) = rules
    <3>1. rules \in Seq(RuleRows) /\ i \in 1..Len(rules) /\ terms \in Nat /\ on \in BOOLEAN
      BY <1>2, <2>1
    <3>2. terms = 0 => ~on
      BY <2>1
    <3> QED BY <3>1, <3>2, RowWritten
  <2>4. /\ rules' \in Seq(RuleRows) /\ Len(rules') = Len(rules)
        /\ \A k \in 1..Len(rules) : rules'[k].role = rules[k].role
        /\ \A k \in 1..Len(rules) : k # i => rules'[k] = rules[k]
        /\ rules[i].terms # 0 => rules'[i].terms = terms
        /\ rules[i].terms = 0 => rules' = rules
    BY <2>2, <2>3
  <2>5. rules[i].terms # 0 => rules'[i].live
    BY <2>1, <2>2, <2>3
  <2> QED BY <1>2, <2>4, <2>5 DEF terms
<1>6. /\ DOMAIN rules = 1..Len(rules) /\ DOMAIN rules' = 1..Len(rules)
      /\ i \in Existing <=> rules[i].terms # 0
  BY <1>2, <1>5 DEF Existing
<1>7. Compiling /\ ~Rest /\ req.op \notin {"pause", "close"}
  BY <1>1, <1>2 DEF OpSound, Rest, Compiling, NoReq, Requests, CompileOps
<1>8. PlanTyped'
  <2>1. taken' \subseteq taken
    BY <1>1
  <2>2. \A r \in Roles : mapping[r] # 0 => rules'[mapping[r]].terms # 0
    BY <1>4, <1>5 DEF PlanTyped
  <2> QED BY <2>1, <2>2, <1>2, <1>3, <1>5 DEF PlanTyped
<1>9. OpSound'
  BY <1>2, <1>3, <1>7 DEF OpSound, Rest, Compiling
<1>10. SpecSecured'
  <2>1. req'.update \cap req'.retire = {} /\ i \notin req.retire
        /\ req'.create \subseteq Wanted(plan.spec)
    BY <1>1, <1>3 DEF SpecSecured
  <2>2. ASSUME NEW r \in Wanted(plan.spec), ~req.lost PROVE Secured(r)'
    <3>1. PICK k \in 1..Len(rules) :
             /\ rules[k].role = r /\ k \notin req.retire
             /\ k \in req.update \/ k \in taken \/ (rules[k].live /\ rules[k].terms = plan.spec[r])
      BY <2>2, <1>2, <1>7 DEF SpecSecured, Secured
    <3>2. CASE k = i /\ i \in Existing
      BY <3>1, <3>2, <1>2, <1>3, <1>5, <1>6 DEF Secured
    <3>3. CASE k = i /\ i \notin Existing
      BY <3>1, <3>3, <1>1, <1>3, <1>4, <1>5, <1>6 DEF Secured
    <3>4. CASE k # i
      <4>1. k \in taken => k \in taken'
        BY <3>4, <1>1
      <4> QED BY <3>1, <3>4, <4>1, <1>2, <1>3, <1>5 DEF Secured
    <3> QED BY <3>2, <3>3, <3>4
  <2>3. ASSUME NEW k \in req'.update
        PROVE  /\ rules'[k].role \in Wanted(plan.spec) \ req'.create
               /\ rules'[k].terms = 0 => k \in taken'
    <3>1. /\ k \in req.update /\ k # i /\ k \in 1..Len(rules)
      BY <2>3, <1>3 DEF PlanTyped
    <3> QED BY <3>1, <1>1, <1>3, <1>5 DEF SpecSecured
  <2> QED BY <2>1, <2>2, <2>3, <1>2, <1>3 DEF SpecSecured
<1>11. BeforeKept'
  <2>1. ~MayRetire
    BY <1>1 DEF MayRetire
  <2>2. ASSUME NEW k \in 1..Len(req.before)
        PROVE  /\ k \in 1..Len(rules') /\ rules'[k].role = req.before[k].role
               /\ rules'[k].terms # 0 => req.before[k].terms # 0
    BY <1>4, <1>5, <1>7 DEF BeforeKept
  <2>3. ASSUME NEW r \in Roles, LiveIn(req.before, r)
        PROVE  LiveIn(rules', r) \/ TakenOf(r)' # {}
    <3>1. LiveIn(rules, r) \/ TakenOf(r) # {}
      BY <2>1, <2>3, <1>7 DEF BeforeKept
    <3>2. LiveIn(rules, r) => LiveIn(rules', r)
      BY <1>5, <1>6 DEF LiveIn
    <3>3. ASSUME NEW k \in TakenOf(r) PROVE LiveIn(rules', r) \/ k \in TakenOf(r)'
      <4>1. k \in taken /\ rules[k].role = r /\ k \in 1..Len(rules)
        BY <3>3 DEF TakenOf, PlanTyped
      <4>2. CASE k = i /\ i \in Existing
        BY <4>1, <4>2, <1>5, <1>6 DEF LiveIn
      <4>3. CASE ~(k = i /\ i \in Existing)
        BY <4>1, <4>3, <1>1, <1>5 DEF TakenOf
      <4> QED BY <4>2, <4>3
    <3> QED BY <3>1, <3>2, <3>3
  <2> QED BY <2>2, <2>3, <1>3 DEF BeforeKept
<1>12. ActiveIsWatched' /\ OffIsUnwatched'
  BY <1>3, <1>7 DEF ActiveIsWatched, OffIsUnwatched, Rest
<1> QED BY <1>8, <1>9, <1>10, <1>11, <1>12

LEMMA RetirePreserves == PlanIInv /\ RetireRule => PlanIInv'
<1> SUFFICES ASSUME PlanIInv, RetireRule PROVE PlanIInv'
  OBVIOUS
<1> USE DEF PlanIInv
<1>1. PICK i \in req.retire : /\ rules' = Written(i, rules[i].terms, FALSE)
                              /\ req' = SeenTo(i)
                              /\ taken' = taken \ {i}
  BY DEF RetireRule
<1>2. /\ req \in Requests /\ rules \in Seq(RuleRows) /\ i \in 1..Len(rules) /\ i \in Nat
      /\ req.create = {} /\ req.linking = "none" /\ req.update = {}
      /\ UNCHANGED <<plan, mapping, breaks, writes, torn>>
  BY DEF RetireRule, MayRetire, AllCreated, PlanTyped
<1>3. /\ req' \in Requests /\ req'.op = req.op /\ req'.lost = req.lost
      /\ req'.create = {} /\ req'.linking = "none" /\ req'.before = req.before
      /\ req'.update = {} /\ req'.retire = req.retire \ {i}
  BY <1>1, <1>2, SeenToRule
<1>4. rules[i].terms \in Nat /\ (rules[i].terms = 0 => ~rules[i].live)
  BY <1>2 DEF RuleRows
<1>5. /\ rules' \in Seq(RuleRows) /\ Len(rules') = Len(rules) /\ Len(rules) \in Nat
      /\ \A k \in 1..Len(rules) : rules'[k].role = rules[k].role
      /\ \A k \in 1..Len(rules) : k # i => rules'[k] = rules[k]
      /\ rules'[i].terms = rules[i].terms /\ ~rules'[i].live
  <2> DEFINE terms == rules[i].terms
             off == FALSE
  <2>1. terms \in Nat /\ off \in BOOLEAN /\ ~off
    BY <1>4
  <2>2. rules' = Written(i, terms, off)
    BY <1>1
  <2> HIDE DEF terms, off
  <2>3. /\ Written(i, terms, off) \in Seq(RuleRows)
        /\ Len(Written(i, terms, off)) = Len(rules)
        /\ \A k \in 1..Len(rules) :
             /\ Written(i, terms, off)[k].role = rules[k].role
             /\ k # i => Written(i, terms, off)[k] = rules[k]
        /\ rules[i].terms # 0 => /\ Written(i, terms, off)[i].terms = terms
                                 /\ ~Written(i, terms, off)[i].live
        /\ rules[i].terms = 0 => Written(i, terms, off) = rules
    BY <1>2, <2>1, RowWritten
  <2> QED BY <1>2, <1>4, <2>2, <2>3 DEF terms
<1>6. ~Rest
  BY <1>1 DEF OpSound, NoReq
<1>7. PlanTyped'
  <2>1. taken' \subseteq taken
    BY <1>1
  <2>2. \A r \in Roles : mapping[r] # 0 => rules'[mapping[r]].terms # 0
    BY <1>5 DEF PlanTyped
  <2> QED BY <2>1, <2>2, <1>2, <1>3, <1>5 DEF PlanTyped
<1>8. OpSound'
  <2>1. LiveRules \subseteq req.retire \cup taken => LiveRules' \subseteq req'.retire \cup taken'
    <3>1. DOMAIN rules = 1..Len(rules) /\ DOMAIN rules' = 1..Len(rules)
      BY <1>2, <1>5
    <3>2. \A k \in LiveRules' : k \in LiveRules /\ k # i
      BY <3>1, <1>5 DEF LiveRules
    <3> QED BY <3>2, <1>1, <1>3
  <2> QED BY <2>1, <1>2, <1>3, <1>6 DEF OpSound, Rest, Compiling
<1>9. SpecSecured'
  <2>1. ASSUME NEW r \in Wanted(plan.spec), Compiling, ~req.lost PROVE Secured(r)'
    <3>1. PICK k \in 1..Len(rules) :
             /\ rules[k].role = r /\ k \notin req.retire
             /\ k \in taken \/ (rules[k].live /\ rules[k].terms = plan.spec[r])
      BY <2>1, <1>2 DEF SpecSecured, Secured
    <3>2. k # i
      BY <3>1
    <3> QED BY <3>1, <3>2, <1>1, <1>2, <1>3, <1>5 DEF Secured
  <2> QED BY <2>1, <1>2, <1>3 DEF SpecSecured, Compiling
<1>10. BeforeKept'
  <2>1. MayRetire'
    BY <1>3 DEF MayRetire, AllCreated
  <2> QED BY <2>1, <1>3, <1>4, <1>5 DEF BeforeKept, Compiling
<1>11. ActiveIsWatched' /\ OffIsUnwatched'
  BY <1>3, <1>6 DEF ActiveIsWatched, OffIsUnwatched, Rest
<1> QED BY <1>7, <1>8, <1>9, <1>10, <1>11

LEMMA LosePreserves == PlanIInv /\ LoseWrite => PlanIInv'
<1> SUFFICES ASSUME PlanIInv, LoseWrite PROVE PlanIInv'
  OBVIOUS
<1> USE DEF PlanIInv
<1>1. req \in Requests /\ breaks' \in Nat /\ UNCHANGED <<plan, rules, mapping, writes, torn, taken>>
  <2>1. breaks' = breaks + 1 /\ UNCHANGED <<plan, rules, mapping, writes, torn, taken>>
    BY DEF LoseWrite
  <2> QED BY <2>1 DEF PlanTyped
<1>2. /\ req' \in Requests /\ req'.op = req.op /\ req'.lost
      /\ req'.create = req.create /\ req'.linking = req.linking /\ req'.before = req.before
      /\ req'.update \subseteq req.update /\ req'.retire \subseteq req.retire
      /\ req.update \cup req.retire # {}
  <2>1. PICK i \in req.update \cup req.retire : req' = [SeenTo(i) EXCEPT !.lost = TRUE]
    BY DEF LoseWrite
  <2>2. i \in Nat
    BY <1>1 DEF Requests
  <2>3. /\ SeenTo(i) \in Requests /\ SeenTo(i).op = req.op
        /\ SeenTo(i).create = req.create /\ SeenTo(i).linking = req.linking
        /\ SeenTo(i).before = req.before
        /\ SeenTo(i).update = req.update \ {i} /\ SeenTo(i).retire = req.retire \ {i}
    BY <1>1, <2>2, SeenToRule
  <2>4. /\ req' \in Requests /\ req'.op = SeenTo(i).op /\ req'.lost
        /\ req'.create = SeenTo(i).create /\ req'.linking = SeenTo(i).linking
        /\ req'.before = SeenTo(i).before
        /\ req'.update = SeenTo(i).update /\ req'.retire = SeenTo(i).retire
    BY <2>1, <2>3 DEF Requests
  <2> QED BY <2>1, <2>3, <2>4
<1>3. ~Rest
  BY <1>2 DEF OpSound, NoReq
<1>4. PlanTyped'
  BY <1>1, <1>2 DEF PlanTyped
<1>5. OpSound'
  BY <1>1, <1>2, <1>3 DEF OpSound, Rest, Compiling
<1>6. SpecSecured'
  BY <1>1, <1>2 DEF SpecSecured
<1>7. BeforeKept'
  <2>1. MayRetire => MayRetire'
    BY <1>2 DEF MayRetire, AllCreated
  <2>2. \A r : /\ LiveIn(req'.before, r) = LiveIn(req.before, r)
              /\ LiveIn(rules', r) = LiveIn(rules, r) /\ TakenOf(r)' = TakenOf(r)
    BY <1>1, <1>2 DEF LiveIn, TakenOf
  <2> QED BY <2>1, <2>2, <1>1, <1>2 DEF BeforeKept, Compiling
<1>8. ActiveIsWatched' /\ OffIsUnwatched'
  BY <1>2, <1>3 DEF ActiveIsWatched, OffIsUnwatched, Rest
<1> QED BY <1>4, <1>5, <1>6, <1>7, <1>8

LEMMA FailPreserves == PlanIInv /\ (CompileFails \/ BreakOff) => PlanIInv'
<1> SUFFICES ASSUME PlanIInv, CompileFails \/ BreakOff PROVE PlanIInv'
  OBVIOUS
<1> USE DEF PlanIInv
<1>1. /\ req' = NoReq /\ torn' = TRUE /\ breaks' \in Nat
      /\ UNCHANGED <<plan, mapping, writes, taken>>
  BY DEF CompileFails, BreakOff, PlanTyped
<1>2. /\ rules' \in Seq(RuleRows) /\ Len(rules') = Len(rules)
      /\ \A i \in 1..Len(rules) : /\ rules'[i].role = rules[i].role
                                  /\ rules[i].terms # 0 => rules'[i].terms # 0
  <2>1. /\ rules \in Seq(RuleRows) /\ req.before \in Seq(RuleRows)
        /\ DOMAIN rules = 1..Len(rules) /\ DOMAIN req.before = 1..Len(req.before)
    BY DEF PlanTyped, Requests
  <2>2. CASE CompileFails
    <3>1. rules' = Undone /\ DOMAIN Undone = 1..Len(rules)
      BY <2>1, <2>2 DEF CompileFails, Undone
    <3>2. ASSUME NEW i \in 1..Len(rules)
          PROVE  /\ Undone[i] \in RuleRows /\ Undone[i].role = rules[i].role
                 /\ rules[i].terms # 0 => Undone[i].terms # 0
      <4>1. rules[i] \in RuleRows /\ (i \in Existing <=> rules[i].terms # 0)
        BY <2>1 DEF Existing
      <4>2. Undone[i] = IF i \notin Existing THEN rules[i]
                        ELSE IF i \notin 1..Len(req.before) THEN [rules[i] EXCEPT !.live = FALSE]
                        ELSE IF i \in req.undo THEN req.before[i] ELSE rules[i]
        BY <2>1 DEF Undone
      <4>3. CASE Undone[i] = rules[i]
        BY <4>1, <4>3
      <4>4. CASE Undone[i] = [rules[i] EXCEPT !.live = FALSE]
        BY <4>1, <4>4 DEF RuleRows
      <4>5. CASE i \in Existing /\ i \in 1..Len(req.before) /\ Undone[i] = req.before[i]
        <5>1. /\ rules[i].role = req.before[i].role
              /\ rules[i].terms # 0 => req.before[i].terms # 0
          BY <2>2, <4>5 DEF CompileFails, BeforeKept
        <5>2. req.before[i] \in RuleRows
          BY <2>1, <4>5
        <5> QED BY <4>5, <5>1, <5>2
      <4> QED BY <4>2, <4>3, <4>4, <4>5
    <3>3. Undone = [i \in 1..Len(rules) |-> Undone[i]] /\ Len(rules) \in Nat
      BY <2>1, <3>1 DEF Undone
    <3> HIDE DEF Undone
    <3>4. Undone \in Seq(RuleRows) /\ Len(Undone) = Len(rules)
      BY <3>1, <3>2, <3>3
    <3> QED BY <3>1, <3>2, <3>4
  <2>3. CASE BreakOff
    BY <2>1, <2>3 DEF BreakOff
  <2> QED BY <2>2, <2>3
<1>3. NoReq \in Requests
  BY DEF NoReq, Requests
<1>4. PlanTyped'
  BY <1>1, <1>2, <1>3 DEF PlanTyped, NoReq
<1>5. OpSound' /\ SpecSecured' /\ BeforeKept'
  BY <1>1 DEF OpSound, SpecSecured, BeforeKept, NoReq, Rest, Compiling
<1>6. ActiveIsWatched' /\ OffIsUnwatched'
  BY <1>1 DEF ActiveIsWatched, OffIsUnwatched
<1> QED BY <1>4, <1>5, <1>6

LEMMA AnswerPreserves == PlanIInv /\ Answer => PlanIInv'
<1> SUFFICES ASSUME PlanIInv, Answer PROVE PlanIInv'
  OBVIOUS
<1> USE DEF PlanIInv
<1>1. /\ UNCHANGED <<rules, mapping, breaks, writes, taken>> /\ plan.spec \in Specs
      /\ req.create = {} /\ req.update = {} /\ req.retire = {}
  BY DEF Answer, Finished, AllCreated, PlanTyped
<1>2. CASE req.op = "refuse"
  <2>1. Compile("realign", plan.spec) /\ UNCHANGED <<plan, torn>> /\ plan.status = "draft"
    BY <1>2 DEF Answer, OpSound
  <2>2. /\ req' \in Requests /\ req'.op = "realign" /\ req'.linking = "none" /\ ~req'.lost
        /\ req'.update \cup req'.retire \subseteq 1..Len(rules)
        /\ SpecSecured' /\ BeforeKept'
    BY <1>1, <2>1, CompileStarts DEF CompileOps
  <2>3. PlanTyped'
    BY <1>1, <2>1, <2>2 DEF PlanTyped
  <2>4. OpSound' /\ ActiveIsWatched' /\ OffIsUnwatched'
    BY <2>1, <2>2 DEF OpSound, ActiveIsWatched, OffIsUnwatched, Rest, Compiling
  <2> QED BY <2>2, <2>3, <2>4
<1>3. CASE req.op # "refuse"
  <2>1. /\ req' = NoReq /\ torn' = req.lost
        /\ plan' = IF req.op = "activate" THEN [plan EXCEPT !.status = "active"] ELSE plan
    BY <1>3 DEF Answer
  <2>2. /\ plan' \in [status : DOMAIN Legal, version : Nat, spec : Specs,
                      draft : Specs \cup {NoSpec}]
        /\ plan'.spec = plan.spec
        /\ plan'.status = IF req.op = "activate" THEN "active" ELSE plan.status
    BY <2>1 DEF PlanTyped, Legal
  <2>3. PlanTyped'
    <3>1. NoReq \in Requests
      BY DEF NoReq, Requests
    <3>2. torn' \in BOOLEAN
      BY <2>1 DEF PlanTyped, Requests
    <3> QED BY <3>1, <3>2, <1>1, <2>1, <2>2 DEF PlanTyped, NoReq
  <2>4. OpSound' /\ SpecSecured' /\ BeforeKept'
    BY <2>1 DEF OpSound, SpecSecured, BeforeKept, NoReq, Rest, Compiling
  <2>5. ActiveIsWatched'
    <3>1. ASSUME ~req.lost, plan'.status = "active", NEW r \in Wanted(plan.spec)
          PROVE  \E i \in DOMAIN rules :
                   /\ rules[i].role = r
                   /\ (rules[i].live /\ rules[i].terms = plan.spec[r]) \/ i \in taken
      <4>1. Compiling
        BY <3>1, <2>2, <1>3 DEF OpSound, Answer, Rest, Compiling, PlanTyped, Requests, CompileOps
      <4>2. PICK i \in 1..Len(rules) :
               /\ rules[i].role = r
               /\ i \in taken \/ (rules[i].live /\ rules[i].terms = plan.spec[r])
        BY <3>1, <4>1, <1>1 DEF SpecSecured, Secured
      <4> QED BY <4>2 DEF PlanTyped
    <3> QED BY <3>1, <1>1, <2>1, <2>2 DEF ActiveIsWatched
  <2>6. OffIsUnwatched'
    <3>1. ASSUME ~req.lost, plan'.status \in {"paused", "closed", "archived"}
          PROVE  LiveRules \subseteq taken
      <4>1. req.op \in {"pause", "close"}
        BY <3>1, <2>2 DEF OpSound, Answer, Rest, Compiling, PlanTyped, Requests, CompileOps
      <4> QED BY <3>1, <4>1, <1>1 DEF OpSound
    <3> QED BY <3>1, <1>1, <2>1 DEF OffIsUnwatched, LiveRules
  <2> QED BY <2>3, <2>4, <2>5, <2>6
<1> QED BY <1>2, <1>3

-------------------------------------------------------------------------------
(* The other writers.                                                      *)

\* Whatever another writer does to a row, it is on record.
LEMMA OthersPreserve ==
  ASSUME PlanIInv, NEW i \in 1..Len(rules), NEW terms \in Nat, NEW live \in BOOLEAN,
         terms = 0 => ~live, rules[i].terms # 0,
         rules' = Written(i, terms, live), taken' = taken \cup {i}, writes' \in Nat,
         mapping' \in [Roles -> Nat],
         \A r \in Roles : mapping'[r] # 0 => /\ mapping'[r] = mapping[r]
                                             /\ mapping[r] = i => terms # 0,
         UNCHANGED <<plan, req, breaks, torn>>
  PROVE  PlanIInv'
<1>1. rules \in Seq(RuleRows)
  BY DEF PlanIInv, PlanTyped
<1>2. /\ rules' \in Seq(RuleRows) /\ Len(rules') = Len(rules) /\ Len(rules) \in Nat
      /\ \A k \in 1..Len(rules) : rules'[k].role = rules[k].role
      /\ \A k \in 1..Len(rules) : k # i => rules'[k] = rules[k]
      /\ rules'[i].terms = terms
  <2>1. /\ Written(i, terms, live) \in Seq(RuleRows)
        /\ Len(Written(i, terms, live)) = Len(rules)
        /\ \A k \in 1..Len(rules) :
             /\ Written(i, terms, live)[k].role = rules[k].role
             /\ k # i => Written(i, terms, live)[k] = rules[k]
        /\ Written(i, terms, live)[i].terms = terms
    BY <1>1, RowWritten
  <2> QED BY <1>1, <2>1
<1> USE DEF PlanIInv
<1>3. DOMAIN rules = 1..Len(rules) /\ DOMAIN rules' = 1..Len(rules)
  BY <1>1, <1>2
<1>4. PlanTyped'
  <2>1. ASSUME NEW r \in Roles, mapping'[r] # 0
        PROVE  /\ mapping'[r] \in 1..Len(rules') /\ rules'[mapping'[r]].role = r
               /\ rules'[mapping'[r]].terms # 0
    BY <2>1, <1>2 DEF PlanTyped
  <2>2. req.update \cup req.retire \cup taken' \subseteq 1..Len(rules')
    BY <1>2 DEF PlanTyped
  <2>3. req.linking # "none" => Len(rules') > 0 /\ rules'[Len(rules')].role = req.linking
    BY <1>2 DEF PlanTyped
  <2> QED BY <2>1, <2>2, <2>3, <1>2 DEF PlanTyped
<1>5. OpSound'
  <2>1. LiveRules \subseteq req.retire \cup taken => LiveRules' \subseteq req.retire \cup taken'
    <3>1. \A k \in LiveRules' : k = i \/ k \in LiveRules
      BY <1>2, <1>3 DEF LiveRules
    <3> QED BY <3>1
  <2> QED BY <2>1 DEF OpSound, Rest, Compiling
<1>6. SpecSecured'
  <2>1. ASSUME NEW r, Secured(r) PROVE Secured(r)'
    <3>1. CASE r \in req.create
      BY <3>1 DEF Secured
    <3>2. CASE r \notin req.create
      <4>1. PICK k \in 1..Len(rules) :
               /\ rules[k].role = r /\ k \notin req.retire
               /\ k \in req.update \/ k \in taken \/ (rules[k].live /\ rules[k].terms = plan.spec[r])
        BY <2>1, <3>2 DEF Secured
      <4>2. k \in taken' \/ k \in req.update \/ (rules'[k].live /\ rules'[k].terms = plan.spec[r])
        BY <4>1, <1>2
      <4> QED BY <4>1, <4>2, <1>2 DEF Secured
    <3> QED BY <3>1, <3>2
  <2>2. ASSUME NEW k \in req.update
        PROVE  /\ rules'[k].role \in Wanted(plan.spec) \ req.create
               /\ rules'[k].terms = 0 => k \in taken'
    BY <1>2 DEF SpecSecured, PlanTyped
  <2> QED BY <2>1, <2>2 DEF SpecSecured, Compiling
<1>7. BeforeKept'
  <2>1. ASSUME Compiling, NEW k \in 1..Len(req.before)
        PROVE  /\ k \in 1..Len(rules') /\ rules'[k].role = req.before[k].role
               /\ rules'[k].terms # 0 => req.before[k].terms # 0
    BY <2>1, <1>2 DEF BeforeKept
  <2>2. ASSUME NEW r \in Roles, LiveIn(rules, r) \/ TakenOf(r) # {}
        PROVE  LiveIn(rules', r) \/ TakenOf(r)' # {}
    <3>1. CASE rules[i].role = r
      BY <3>1, <1>2 DEF TakenOf
    <3>2. CASE rules[i].role # r
      <4>1. LiveIn(rules, r) => LiveIn(rules', r)
        BY <3>2, <1>2, <1>3 DEF LiveIn
      <4>2. \A k \in TakenOf(r) : k \in TakenOf(r)'
        BY <1>2 DEF TakenOf, PlanTyped
      <4> QED BY <2>2, <4>1, <4>2
    <3> QED BY <3>1, <3>2
  <2> QED BY <2>1, <2>2 DEF BeforeKept, Compiling, MayRetire, AllCreated
<1>8. ActiveIsWatched'
  <2>1. ASSUME Rest, ~torn, plan.status = "active", NEW r \in Wanted(plan.spec)
        PROVE  \E k \in DOMAIN rules' :
                 /\ rules'[k].role = r
                 /\ (rules'[k].live /\ rules'[k].terms = plan.spec[r]) \/ k \in taken'
    <3>1. PICK k \in DOMAIN rules :
             /\ rules[k].role = r
             /\ (rules[k].live /\ rules[k].terms = plan.spec[r]) \/ k \in taken
      BY <2>1 DEF ActiveIsWatched
    <3> QED BY <3>1, <1>2, <1>3
  <2> QED BY <2>1 DEF ActiveIsWatched, Rest
<1>9. OffIsUnwatched'
  <2>1. \A k \in LiveRules' : k = i \/ k \in LiveRules
    BY <1>2, <1>3 DEF LiveRules
  <2> QED BY <2>1 DEF OffIsUnwatched, Rest
<1> QED BY <1>4, <1>5, <1>6, <1>7, <1>8, <1>9

LEMMA TakeAwayPreserves ==
  \A i \in DOMAIN rules : PlanIInv /\ (RetireExit(i) \/ DeleteRule(i)) => PlanIInv'
<1> SUFFICES ASSUME NEW i \in DOMAIN rules, PlanIInv, RetireExit(i) \/ DeleteRule(i)
             PROVE  PlanIInv'
  OBVIOUS
<1> DEFINE off == FALSE
<1>1. off \in BOOLEAN /\ ~off
  OBVIOUS
<1>2. i \in 1..Len(rules) /\ rules[i] \in RuleRows /\ mapping \in [Roles -> Nat]
  BY DEF PlanIInv, PlanTyped
<1>3. /\ taken' = taken \cup {i} /\ writes' \in Nat /\ UNCHANGED <<plan, req, breaks, torn>>
  <2>1. /\ taken' = taken \cup {i} /\ OthersWrite /\ UNCHANGED <<plan, req, breaks, torn>>
    BY DEF RetireExit, DeleteRule
  <2> QED BY <2>1 DEF OthersWrite, PlanIInv, PlanTyped
<1>4. CASE RetireExit(i)
  <2>1. /\ rules' = Written(i, rules[i].terms, off) /\ UNCHANGED mapping
        /\ rules[i].terms \in Nat /\ rules[i].terms # 0
    BY <1>2, <1>4 DEF RetireExit, RuleRows
  <2> HIDE DEF off
  <2> QED BY <1>1, <1>2, <1>3, <2>1, OthersPreserve
<1>5. CASE DeleteRule(i)
  <2>1. /\ rules' = Written(i, 0, off) /\ rules[i].terms # 0
        /\ mapping' = [r \in Roles |-> IF mapping[r] = i THEN 0 ELSE mapping[r]]
    BY <1>5 DEF DeleteRule, Existing
  <2>2. /\ mapping' \in [Roles -> Nat]
        /\ \A r \in Roles : mapping'[r] # 0 => mapping'[r] = mapping[r] /\ mapping[r] # i
    BY <1>2, <2>1
  <2> HIDE DEF off
  <2> QED BY <1>1, <1>2, <1>3, <2>1, <2>2, OthersPreserve
<1> QED BY <1>4, <1>5

LEMMA PatchRulePreserves ==
  \A i \in DOMAIN rules, terms \in 1..(MaxEntry + MaxExit), live \in BOOLEAN :
    PlanIInv /\ PatchRule(i, terms, live) => PlanIInv'
<1> SUFFICES ASSUME NEW i \in DOMAIN rules, NEW terms \in 1..(MaxEntry + MaxExit),
                    NEW live \in BOOLEAN, PlanIInv, PatchRule(i, terms, live)
             PROVE  PlanIInv'
  OBVIOUS
<1>1. i \in 1..Len(rules) /\ terms \in Nat /\ terms # 0
  <2>1. MaxEntry \in Nat /\ MaxExit \in Nat
    BY BoundsAssumption
  <2> QED BY <2>1 DEF PlanIInv, PlanTyped
<1>2. /\ taken' = taken \cup {i} /\ writes' \in Nat /\ UNCHANGED <<plan, req, breaks, torn>>
      /\ mapping' = mapping /\ mapping \in [Roles -> Nat]
  BY DEF PatchRule, OthersWrite, PlanIInv, PlanTyped
<1>3. rules' = Written(i, terms, live) /\ rules[i].terms # 0
  BY DEF PatchRule, Existing
<1> QED BY <1>1, <1>2, <1>3, OthersPreserve

-------------------------------------------------------------------------------
(* The routes.                                                             *)

\* A route that starts a compilation of a plan that is on, or is to be.
LEMMA RouteCompiles ==
  ASSUME PlanIInv, NEW op \in CompileOps, Compile(op, plan'.spec),
         plan' \in [status : DOMAIN Legal, version : Nat, spec : Specs,
                    draft : Specs \cup {NoSpec}],
         plan'.status \notin {"paused", "closed", "archived"},
         op \in {"activate", "refuse", "realign"} => plan'.status = "draft",
         UNCHANGED <<rules, mapping, breaks, writes, torn, taken>>
  PROVE  PlanIInv'
<1>1. PlanTyped /\ plan'.spec \in Specs
  BY DEF PlanIInv
<1>2. /\ req' \in Requests /\ req'.op = op /\ req'.linking = "none" /\ ~req'.lost
      /\ req'.update \cup req'.retire \subseteq 1..Len(rules)
      /\ SpecSecured' /\ BeforeKept'
  BY <1>1, CompileStarts
<1>3. PlanTyped'
  BY <1>1, <1>2 DEF PlanTyped
<1>4. OpSound' /\ ActiveIsWatched' /\ OffIsUnwatched'
  BY <1>2 DEF OpSound, ActiveIsWatched, OffIsUnwatched, Rest, Compiling, CompileOps
<1> QED BY <1>2, <1>3, <1>4 DEF PlanIInv

\* A route that only writes the plan's row, and leaves its status or archives it.
LEMMA RouteWrites ==
  ASSUME PlanIInv, Rest, UNCHANGED <<rules, mapping, req, breaks, writes, torn, taken>>,
         plan' \in [status : DOMAIN Legal, version : Nat, spec : Specs,
                    draft : Specs \cup {NoSpec}],
         \/ plan'.status = plan.status /\ (plan.status = "active" => plan'.spec = plan.spec)
         \/ plan.status = "closed" /\ plan'.status = "archived"
  PROVE  PlanIInv'
<1> USE DEF PlanIInv
<1>1. PlanTyped'
  BY DEF PlanTyped
<1>2. OpSound' /\ SpecSecured' /\ BeforeKept'
  BY DEF OpSound, SpecSecured, BeforeKept, Rest, Compiling, NoReq
<1>3. ActiveIsWatched' /\ OffIsUnwatched'
  BY DEF ActiveIsWatched, OffIsUnwatched, LiveRules, Rest
<1> QED BY <1>1, <1>2, <1>3

\* A route that retires every live rule.
LEMMA RouteRetires ==
  ASSUME PlanIInv, Rest, UNCHANGED <<rules, mapping, breaks, writes, torn, taken>>, NEW op \in {"pause", "close"},
         NEW status \in {"paused", "closing", "closed"},
         plan' = [plan EXCEPT !.status = status],
         req' = [op |-> op, create |-> {}, linking |-> "none", update |-> {},
                 retire |-> LiveRules, before |-> <<>>, undo |-> {}, lost |-> FALSE]
  PROVE  PlanIInv'
<1> USE DEF PlanIInv
<1>1. /\ plan' \in [status : DOMAIN Legal, version : Nat, spec : Specs, draft : Specs \cup {NoSpec}]
      /\ plan'.status = status
  BY DEF PlanTyped, Legal
<1>2. LiveRules \subseteq 1..Len(rules) /\ LiveRules \subseteq Nat
  BY DEF LiveRules, PlanTyped
<1>3. /\ req'.op = op /\ req'.create = {} /\ req'.linking = "none" /\ req'.update = {}
      /\ req'.retire = LiveRules /\ req' \in Requests
  BY <1>2 DEF Requests
<1>4. PlanTyped'
  BY <1>1, <1>2, <1>3 DEF PlanTyped
<1>5. OpSound' /\ SpecSecured' /\ BeforeKept'
  BY <1>1, <1>3 DEF OpSound, SpecSecured, BeforeKept, Rest, Compiling, LiveRules
<1>6. ActiveIsWatched' /\ OffIsUnwatched'
  BY <1>3 DEF ActiveIsWatched, OffIsUnwatched, Rest
<1> QED BY <1>4, <1>5, <1>6

LEMMA PatchPreserves == \A v \in 1..MaxVersion, patch \in Patches :
                          PlanIInv /\ Patch(v, patch) => PlanIInv'
<1> SUFFICES ASSUME NEW v \in 1..MaxVersion, NEW patch \in Patches, PlanIInv, Patch(v, patch)
             PROVE  PlanIInv'
  OBVIOUS
<1> DEFINE merged == Over(patch, IF plan.draft = NoSpec THEN plan.spec ELSE plan.draft)
<1>1. merged \in Specs
  BY SpecsMerge DEF PlanIInv, PlanTyped
<1>2. Rest /\ plan' = [plan EXCEPT !.draft = merged] /\ UNCHANGED <<rules, mapping, req, breaks, writes, torn, taken>>
  BY DEF Patch
<1> HIDE DEF merged
<1> QED BY <1>1, <1>2, RouteWrites DEF PlanIInv, PlanTyped

LEMMA ApplyPreserves == \A v \in 1..MaxVersion : PlanIInv /\ Apply(v) => PlanIInv'
<1> SUFFICES ASSUME NEW v \in 1..MaxVersion, PlanIInv, Apply(v) PROVE PlanIInv'
  OBVIOUS
<1>1. /\ Rest /\ Mutable /\ plan.draft # NoSpec /\ UNCHANGED <<rules, mapping, breaks, writes, torn, taken>>
      /\ plan' = [plan EXCEPT !.spec = plan.draft, !.draft = NoSpec, !.version = @ + 1]
  BY DEF Apply
<1>2. /\ plan' \in [status : DOMAIN Legal, version : Nat, spec : Specs, draft : Specs \cup {NoSpec}]
      /\ plan'.status = plan.status /\ plan'.spec = plan.draft
  <2>1. /\ plan \in [status : DOMAIN Legal, version : Nat, spec : Specs, draft : Specs \cup {NoSpec}]
        /\ plan.draft \in Specs
    BY <1>1 DEF PlanIInv, PlanTyped
  <2> HIDE DEF Mutable
  <2>2. NoSpec \in Specs \cup {NoSpec} /\ plan.version + 1 \in Nat
    BY <2>1
  <2> QED BY <1>1, <2>1, <2>2
<1>3. CASE plan.status \in {"active", "holding", "closing"}
  BY <1>1, <1>2, <1>3, RouteCompiles DEF Apply, CompileOps
<1>4. CASE plan.status \notin {"active", "holding", "closing"}
  BY <1>1, <1>2, <1>4, RouteWrites DEF Apply
<1> QED BY <1>3, <1>4

LEMMA ActivatePreserves == \A v \in 1..MaxVersion : PlanIInv /\ Activate(v) => PlanIInv'
<1> SUFFICES ASSUME NEW v \in 1..MaxVersion, PlanIInv, Activate(v) PROVE PlanIInv'
  OBVIOUS
<1>1. PICK op \in {"activate", "refuse"} : Compile(op, plan.spec)
  BY DEF Activate
<1>2. plan.status = "draft" /\ UNCHANGED <<plan, rules, mapping, breaks, writes, torn, taken>>
  BY DEF Activate
<1> QED BY <1>1, <1>2, RouteCompiles DEF PlanIInv, PlanTyped, CompileOps

LEMMA ResumePreserves == \A v \in 1..MaxVersion : PlanIInv /\ Resume(v) => PlanIInv'
<1> SUFFICES ASSUME NEW v \in 1..MaxVersion, PlanIInv, Resume(v) PROVE PlanIInv'
  OBVIOUS
<1>1. /\ plan' = [plan EXCEPT !.status = "active"] /\ Compile("resume", plan.spec)
      /\ UNCHANGED <<rules, mapping, breaks, writes, torn, taken>>
  BY DEF Resume
<1>2. /\ plan' \in [status : DOMAIN Legal, version : Nat, spec : Specs, draft : Specs \cup {NoSpec}]
      /\ plan'.status = "active" /\ plan'.spec = plan.spec
  BY <1>1 DEF PlanIInv, PlanTyped, Legal
<1> QED BY <1>1, <1>2, RouteCompiles DEF CompileOps

LEMMA StopPreserves == PlanIInv /\ (Pause \/ (\E held \in BOOLEAN : Close(held)) \/ Archive) => PlanIInv'
<1> SUFFICES ASSUME PlanIInv, Pause \/ (\E held \in BOOLEAN : Close(held)) \/ Archive
             PROVE  PlanIInv'
  OBVIOUS
<1>1. CASE Pause
  BY <1>1, RouteRetires DEF Pause, NoReq, ManagedRules
<1>2. ASSUME NEW held \in BOOLEAN, Close(held) PROVE PlanIInv'
  <2>1. CloseTarget(held) \in {"closing", "closed"}
    BY DEF CloseTarget
  <2> QED BY <1>2, <2>1, RouteRetires DEF Close, NoReq, ManagedRules
<1>3. CASE Archive
  <2>1. /\ Rest /\ plan' = [plan EXCEPT !.status = "archived"]
        /\ UNCHANGED <<rules, mapping, req, breaks, writes, torn, taken>>
    BY <1>3 DEF Archive
  <2>2. plan.status \in DOMAIN Legal /\ "archived" \in Legal[plan.status]
    BY <1>3 DEF Archive, PlanIInv, PlanTyped
  <2>3. plan.status = "closed"
    BY <2>2 DEF Legal
  <2> QED BY <2>1, <2>3, RouteWrites DEF PlanIInv, PlanTyped, Legal
<1> QED BY <1>1, <1>2, <1>3

-------------------------------------------------------------------------------
LEMMA PlanStepPreserves == PlanIInv /\ [PlanNext]_planVars => PlanIInv'
<1> SUFFICES ASSUME PlanIInv, [PlanNext]_planVars PROVE PlanIInv'
  OBVIOUS
<1>1. ASSUME NEW v \in 1..MaxVersion,
             Apply(v) \/ Activate(v) \/ Resume(v) \/ (\E patch \in Patches : Patch(v, patch))
      PROVE  PlanIInv'
  BY <1>1, ApplyPreserves, ActivatePreserves, ResumePreserves, PatchPreserves
<1>2. CASE Pause \/ (\E held \in BOOLEAN : Close(held)) \/ Archive
  BY <1>2, StopPreserves
<1>3. CASE CreateRule \/ LinkRule \/ UpdateRule \/ RetireRule \/ Answer
  BY <1>3, CreatePreserves, LinkPreserves, UpdatePreserves, RetirePreserves, AnswerPreserves
<1>4. CASE LoseWrite \/ CompileFails \/ BreakOff
  BY <1>4, LosePreserves, FailPreserves
<1>5. ASSUME NEW i \in DOMAIN rules,
             \/ RetireExit(i) \/ DeleteRule(i)
             \/ \E terms \in 1..(MaxEntry + MaxExit), live \in BOOLEAN : PatchRule(i, terms, live)
      PROVE  PlanIInv'
  <2>1. CASE RetireExit(i) \/ DeleteRule(i)
    BY <2>1, TakeAwayPreserves
  <2>2. ASSUME NEW terms \in 1..(MaxEntry + MaxExit), NEW live \in BOOLEAN,
               PatchRule(i, terms, live)
        PROVE  PlanIInv'
    BY <2>2, PatchRulePreserves
  <2> QED BY <1>5, <2>1, <2>2
<1>6. CASE UNCHANGED planVars
  <2>1. PlanTyped' /\ OpSound'
    BY <1>6 DEF planVars, PlanIInv, PlanTyped, OpSound, Rest, Compiling, LiveRules
  <2>2. SpecSecured' /\ BeforeKept'
    BY <1>6 DEF planVars, PlanIInv, SpecSecured, Secured, BeforeKept, Compiling, MayRetire,
                AllCreated, LiveIn, TakenOf
  <2>3. ActiveIsWatched' /\ OffIsUnwatched'
    BY <1>6 DEF planVars, PlanIInv, ActiveIsWatched, OffIsUnwatched, Rest, LiveRules
  <2> QED BY <2>1, <2>2, <2>3 DEF PlanIInv
<1> QED BY <1>1, <1>2, <1>3, <1>4, <1>5, <1>6 DEF PlanNext

\* The inductive invariant of the plan and its rules.
THEOREM PlanInductive == PlanSpec => []PlanIInv
BY PlanInitIInv, PlanStepPreserves, PTL DEF PlanSpec

\* An active plan is watched between requests, with the terms of its spec, for any
\* number of versions, rules, faults and writes of others: a request that ended
\* well has secured each role that the spec wants, and a role whose rule another
\* writer took away or changed has that write on record until the compiler sees to
\* the role again.
THEOREM ActivePlanWatched == PlanSpec => []ActiveIsWatched
<1>1. PlanIInv => ActiveIsWatched
  BY DEF PlanIInv
<1> QED BY <1>1, PlanInductive, PTL

\* A plan that was paused or closed has no live rule between requests but those
\* that others switched on after it was: the pause and the closing list every live
\* rule, in the mapping or not.
THEOREM PlanOffUnwatched == PlanSpec => []OffIsUnwatched
<1>1. PlanIInv => OffIsUnwatched
  BY DEF PlanIInv
<1> QED BY <1>1, PlanInductive, PTL

\* A compilation that lost no write never itself leaves a role of the spec unwatched
\* that was watched before, at none of its steps, so wherever it is broken off.
THEOREM PlanRolesKept == PlanSpec => []RolesNeverLapse
<1>1. PlanIInv => RolesNeverLapse
  <2> SUFFICES ASSUME PlanIInv, Compiling, ~req.lost, NEW r \in Wanted(plan.spec),
                      LiveIn(req.before, r)
               PROVE  LiveIn(rules, r) \/ TakenOf(r) # {}
    BY DEF RolesNeverLapse
  <2>1. DOMAIN rules = 1..Len(rules)
    BY DEF PlanIInv, PlanTyped
  <2>2. CASE MayRetire
    <3>1. PICK i \in 1..Len(rules) : rules[i].role = r /\ (i \in taken \/ rules[i].live)
      BY <2>2 DEF PlanIInv, SpecSecured, Secured, MayRetire, AllCreated
    <3> QED BY <2>1, <3>1 DEF LiveIn, TakenOf
  <2>3. CASE ~MayRetire
    BY <2>3 DEF PlanIInv, BeforeKept, Wanted
  <2> QED BY <2>2, <2>3
<1> QED BY <1>1, PlanInductive, PTL

-------------------------------------------------------------------------------
(* The todos.                                                              *)

Flows == {"L1", "L2", "L3"}
TodoRows == [level : Levels \cup {"none"}, agent : BOOLEAN, flow : Flows,
             terminal : {"none", "handled", "ignored", "expired"},
             by : {"none", "patrol", "client", "cascade"},
             count : Nat, late : 0..4, period : Nat]
Receipts == [todo : Todos, round : 0..2, period : Nat, quiet : BOOLEAN]
Works == [op : {"none", "to L2", "to L3", "bump", "log", "expire"}, count : Nat]
Passes == [pc : {"idle", "scan", "flush"}, queue : Seq([todo : Todos, flow : Flows]),
           work : Works, group : SUBSET Items]
Histories == [cards : Nat, late : Nat, result : SUBSET (Clients \X ClientTerminals)]
ClientStates == [pc : {"idle", "close", "send"}, todo : Todos \cup {"none"},
                 terminal : {"none"} \cup ClientTerminals]

\* Every variable keeps its type; a todo that is not created is blank, and a
\* request that is under way is about a todo.
Typed ==
  /\ todo \in [Todos -> TodoRows]
  /\ rule \in {"on", "off"}
  /\ receipts \subseteq Receipts
  /\ patrol \in Passes
  /\ client \in [Clients -> ClientStates]
  /\ switch \in {"idle", "disabled", "deleting"}
  /\ told \in [Todos -> Histories]
  /\ faults \in 0..MaxFaults
  /\ \A t \in Todos : ~Created(t) => todo[t] = NoTodo
  /\ \A c \in Clients : client[c].pc # "idle" => client[c].todo \in Todos /\ Created(client[c].todo)

\* Calls are on record for todos in L3 only, by the period that stands.
ReceiptsSound ==
  \A r \in receipts : /\ Created(r.todo) /\ todo[r.todo].flow = "L3"
                      /\ r.period = todo[r.todo].period

\* The pass has each todo once, and what it read of its level is behind the row
\* at most by a claim.
QueueSound ==
  /\ patrol.pc # "scan" => patrol.queue = <<>>
  /\ patrol.pc = "idle" => patrol.group = {}
  /\ patrol.work.op # "none" => patrol.queue # <<>>
  /\ patrol.work.op = "none" => patrol.work = NoWork
  /\ \A i, j \in 1..Len(patrol.queue) : patrol.queue[i].todo = patrol.queue[j].todo => i = j
  /\ \A i \in 1..Len(patrol.queue) :
       LET t == patrol.queue[i].todo
           flow == patrol.queue[i].flow IN
       /\ Created(t)
       /\ todo[t].flow = "L3" <=> flow = "L3"
       /\ flow = "L2" => todo[t].flow = "L2"

\* What the pass is about to write fits the todo it has in hand.
WorkSound ==
  /\ patrol.work.op = "to L2" => todo[Current].flow # "L3"
  /\ patrol.work.op = "to L3" => todo[Current].flow = "L2"
  /\ patrol.work.op \in {"bump", "log", "expire"} => todo[Current].flow = "L3"
  /\ patrol.work.op = "log" => todo[Current].level \notin Urgent
  /\ patrol.work.op = "expire" => Recorded(Current, 0)

\* A call in the buffer is the only one of its todo, of a round that is not on
\* record, and the pass is done with that todo but for counting the call.
GroupSound ==
  /\ \A i, j \in patrol.group : i.todo = j.todo => i = j
  /\ \A i \in patrol.group :
       /\ Created(i.todo) /\ todo[i.todo].flow = "L3" /\ i.period = todo[i.todo].period
       /\ ~Recorded(i.todo, i.round)
       /\ \A k \in 1..Len(patrol.queue) :
            patrol.queue[k].todo = i.todo => k = 1 /\ patrol.work.op = "bump"

Kept(t, n) == IF Recorded(t, n) THEN 1 ELSE 0
OnItsWay(t) == IF \E i \in patrol.group : i.todo = t /\ i.st = "done" THEN 1 ELSE 0

\* Each card is on record, about to be, or forgotten by a fault.
CardsSound ==
  \A t \in Todos : told[t].cards <= Kept(t, 0) + Kept(t, 1) + Kept(t, 2) + OnItsWay(t) + faults

\* After a card of a closed todo no other comes: the pass has no more of it, and
\* no later pass will.
LateSound ==
  \A t \in Todos :
    /\ told[t].late <= 1
    /\ told[t].late > 0 =>
         /\ Closed(t)
         /\ \A k \in 1..Len(patrol.queue) : patrol.queue[k].todo # t
         /\ \A i \in patrol.group : i.todo = t => i.st = "done"

\* Who closed a todo sends its result, which is that of the row, and nobody else.
ResultsSound ==
  /\ \A t \in Todos :
       /\ told[t].result # {} => Closed(t)
       /\ \A x, y \in told[t].result : x = y
       /\ \A x \in told[t].result : x[2] = todo[t].terminal
  /\ \A c \in Clients : client[c].pc = "send" =>
       /\ Closed(client[c].todo)
       /\ todo[client[c].todo].terminal = client[c].terminal
       /\ told[client[c].todo].result = {}
       /\ \A d \in Clients : client[d].pc = "send" /\ client[d].todo = client[c].todo => d = c

IInv == /\ Typed
        /\ ReceiptsSound
        /\ QueueSound
        /\ WorkSound
        /\ GroupSound
        /\ CardsSound
        /\ LateSound
        /\ ResultsSound
        /\ ExpiredWasCalled

-------------------------------------------------------------------------------
LEMMA InitIInv == Init => IInv
<1> SUFFICES ASSUME Init PROVE IInv
  OBVIOUS
<1> USE DEF Init, NoTodo, Resting, NoWork, NoRequest
<1>1. Typed
  BY BoundAssumption DEF Typed, TodoRows, Flows, Levels, Passes, Works, Histories, ClientStates,
                         Created
<1>2. ReceiptsSound /\ QueueSound /\ WorkSound /\ GroupSound
  <2>1. Len(patrol.queue) = 0 /\ patrol.queue = <<>>
    OBVIOUS
  <2>2. ReceiptsSound /\ GroupSound
    BY <2>1 DEF ReceiptsSound, GroupSound
  <2>3. QueueSound
    BY <2>1 DEF QueueSound
  <2>4. WorkSound
    BY DEF WorkSound
  <2> QED BY <2>2, <2>3, <2>4
<1>3. CardsSound
  BY BoundAssumption DEF CardsSound, Kept, OnItsWay, Recorded
<1>4. LateSound /\ ResultsSound /\ ExpiredWasCalled
  BY DEF LateSound, ResultsSound, ExpiredWasCalled
<1> QED BY <1>1, <1>2, <1>3, <1>4 DEF IInv

\* What a step may do to the row of a todo: a closed one stays as it is, levels
\* only rise, and in L3 the period stands still; only the patrol brings a todo
\* that exists into L3, and it closes one as expired only after a call.
Advances(t) ==
  /\ Created(t) => todo'[t].level = todo[t].level
  /\ Closed(t) => todo'[t] = todo[t]
  /\ todo[t].flow = "L3" => todo'[t].flow = "L3" /\ todo'[t].period = todo[t].period
  /\ todo[t].flow = "L2" => todo'[t].flow # "L1"
  /\ Created(t) /\ todo'[t].flow = "L3" =>
       todo[t].flow = "L3" \/ (patrol.queue # <<>> /\ t = Current)
  /\ todo'[t].flow = "L2" /\ todo[t].flow # "L2" => todo[t].flow = "L1"
  /\ todo'[t].by = "patrol" => todo[t].by = "patrol" \/ Recorded(t, 0)

\* When rows advance, what is on record stays on record.
LEMMA RecordsStay ==
  ASSUME IInv, \A t \in Todos : Advances(t), receipts' = receipts
  PROVE  /\ ReceiptsSound'
         /\ \A t \in Todos, n \in 0..2 : Recorded(t, n)' <=> Recorded(t, n)
         /\ ExpiredWasCalled'
<1>1. receipts \subseteq Receipts /\ \A r \in receipts : r.todo \in Todos
  BY DEF IInv, Typed, Receipts
<1>2. \A r \in receipts : /\ Created(r.todo) /\ todo'[r.todo].level = todo[r.todo].level
                          /\ todo'[r.todo].flow = "L3"
                          /\ todo'[r.todo].period = todo[r.todo].period
                          /\ r.period = todo[r.todo].period
  BY <1>1 DEF IInv, ReceiptsSound, Advances
<1>3. ReceiptsSound'
  BY <1>2 DEF ReceiptsSound, Created
<1>4. \A t \in Todos, n \in 0..2 : Recorded(t, n)' <=> Recorded(t, n)
  BY <1>2 DEF Recorded
<1>5. ExpiredWasCalled'
  <2>1. \A t \in Todos : todo'[t].by = "patrol" => Recorded(t, 0)
    BY DEF IInv, ExpiredWasCalled, Advances
  <2>2. \A r \in receipts : r.quiet => todo'[r.todo].level \notin Urgent
    BY <1>2 DEF IInv, ExpiredWasCalled
  <2>3. \A t \in Todos : Recorded(t, 0)' <=> Recorded(t, 0)
    BY <1>4
  <2> QED BY <2>1, <2>2, <2>3 DEF ExpiredWasCalled
<1> QED BY <1>3, <1>4, <1>5

\* The queue of the pass holds todos, the one in hand first.
LEMMA QueueFacts ==
  ASSUME Typed
  PROVE  /\ patrol.queue \in Seq([todo : Todos, flow : Flows])
         /\ \A i \in 1..Len(patrol.queue) : /\ patrol.queue[i].todo \in Todos
                                           /\ patrol.queue[i].flow \in Flows
         /\ patrol.queue # <<>> => /\ 1 \in 1..Len(patrol.queue) /\ Current = patrol.queue[1].todo
                                  /\ Current \in Todos
<1>1. patrol.queue \in Seq([todo : Todos, flow : Flows])
  BY DEF Typed, Passes
<1>2. \A i \in 1..Len(patrol.queue) : patrol.queue[i] \in [todo : Todos, flow : Flows]
  BY <1>1, ElementOfSeq
<1>3. patrol.queue # <<>> => 1 \in 1..Len(patrol.queue) /\ Head(patrol.queue) = patrol.queue[1]
  BY <1>1, EmptySeq
<1> QED BY <1>1, <1>2, <1>3 DEF Current

\* Steps of others than the patrol that write rows.
LEMMA RowsAdvance ==
  ASSUME IInv, Typed', \A t \in Todos : Advances(t), \A t \in Todos : Created(t)' \/ ~Created(t),
         \A t \in Todos : Created(t) /\ todo'[t].flow = "L3" => todo[t].flow = "L3",
         UNCHANGED <<receipts, patrol, told>>, faults <= faults'
  PROVE  /\ ReceiptsSound' /\ QueueSound' /\ WorkSound' /\ GroupSound' /\ CardsSound'
         /\ LateSound' /\ ExpiredWasCalled'
<1>1. /\ ReceiptsSound' /\ ExpiredWasCalled'
      /\ \A t \in Todos, n \in 0..2 : Recorded(t, n)' <=> Recorded(t, n)
  BY RecordsStay
<1>2. /\ patrol.queue \in Seq([todo : Todos, flow : Flows])
      /\ patrol.group \subseteq Items
  BY DEF IInv, Typed, Passes
<1>3. /\ \A i \in 1..Len(patrol.queue) : patrol.queue[i].todo \in Todos
      /\ \A i \in patrol.group : i.todo \in Todos /\ i.round \in 0..2
      /\ patrol.queue # <<>> => Current \in Todos /\ 1 \in 1..Len(patrol.queue)
                                /\ Current = patrol.queue[1].todo
  BY <1>2, QueueFacts DEF IInv, Items
<1>4. QueueSound'
  <2>1. \A t \in Todos : todo'[t].flow \in Flows
    BY DEF Typed, TodoRows
  <2>2. \A i \in 1..Len(patrol.queue) :
          LET t == patrol.queue[i].todo
              flow == patrol.queue[i].flow IN
          /\ Created(t)' /\ (todo'[t].flow = "L3" <=> flow = "L3")
          /\ flow = "L2" => todo'[t].flow = "L2"
    BY <1>3, <2>1 DEF IInv, QueueSound, Advances, Flows
  <2> QED BY <2>2 DEF IInv, QueueSound
<1>5. WorkSound'
  <2>1. \A t \in Todos : todo'[t].flow \in Flows
    BY DEF Typed, TodoRows
  <2>2. patrol.work.op # "none" => Current \in Todos /\ Created(Current) /\ Current' = Current
    BY <1>3 DEF IInv, QueueSound, Current
  <2>3. patrol.work.op # "none" =>
          /\ todo[Current].flow # "L3" <=> todo'[Current].flow # "L3"
          /\ todo[Current].flow = "L2" => todo'[Current].flow = "L2"
          /\ todo'[Current].level = todo[Current].level
          /\ Recorded(Current, 0)' <=> Recorded(Current, 0)
    BY <1>1, <2>1, <2>2 DEF Advances, Flows
  <2> QED BY <2>2, <2>3 DEF IInv, WorkSound
<1>6. GroupSound'
  BY <1>1, <1>3 DEF IInv, GroupSound, Advances
<1>7. CardsSound'
  <2>1. /\ \A t \in Todos : told[t].cards \in Nat /\ OnItsWay(t) \in 0..1
        /\ \A t \in Todos, n \in 0..2 : Kept(t, n) \in 0..1 /\ Kept(t, n)' = Kept(t, n)
        /\ faults \in Nat /\ faults' \in Nat /\ \A t \in Todos : OnItsWay(t)' = OnItsWay(t)
    BY <1>1, BoundAssumption DEF IInv, Typed, Histories, Kept, OnItsWay
  <2> QED BY <2>1 DEF IInv, CardsSound
<1>8. LateSound'
  BY DEF IInv, LateSound, Advances, Closed
<1> QED BY <1>1, <1>4, <1>5, <1>6, <1>7, <1>8

\* Results stand when closed rows do and nobody new is about to send one.
LEMMA ResultsStay ==
  ASSUME IInv, \A t \in Todos : Closed(t) => todo'[t] = todo[t], told' = told,
         \A c \in Clients : client'[c].pc = "send" => client'[c] = client[c]
  PROVE  ResultsSound'
<1>1. \A c \in Clients : client[c].pc = "send" => client[c].todo \in Todos
  BY DEF IInv, Typed
<1>2. \A t \in Todos : Closed(t) => Closed(t)' /\ todo'[t].terminal = todo[t].terminal
  BY DEF Closed
<1> QED BY <1>1, <1>2 DEF IInv, ResultsSound

-------------------------------------------------------------------------------
(* Creation, claims, time, and the rule.                                   *)

\* What a step of others than the patrol may do to the rows.
RowsOnly == /\ Typed'
            /\ \A t \in Todos : /\ Advances(t)
                                /\ Created(t) => Created(t)'
                                /\ Created(t) /\ todo'[t].flow = "L3" => todo[t].flow = "L3"

LEMMA CreateRows == \A t \in Todos : IInv /\ Create(t) => RowsOnly
<1> SUFFICES ASSUME NEW t \in Todos, IInv, Create(t) PROVE RowsOnly
  OBVIOUS
<1>1. PICK row \in TodoRows :
        /\ todo' = [todo EXCEPT ![t] = row]
        /\ row.level \in Levels /\ row.terminal = "none" /\ row.by = "none" /\ row.flow \in {"L1", "L3"}
  <2>1. PICK level \in Levels, agent \in BOOLEAN :
          todo' = [todo EXCEPT ![t] = [NoTodo EXCEPT !.level = level, !.agent = agent,
                                         !.flow = IF level \in Urgent THEN "L3" ELSE "L1"]]
    BY DEF Create
  <2> DEFINE flow == IF level \in Urgent THEN "L3" ELSE "L1"
             row == [NoTodo EXCEPT !.level = level, !.agent = agent, !.flow = flow]
  <2>2. NoTodo \in TodoRows /\ NoTodo.terminal = "none" /\ NoTodo.by = "none"
    BY DEF NoTodo, TodoRows, Flows
  <2>3. flow \in {"L1", "L3"}
    OBVIOUS
  <2> HIDE DEF flow
  <2>4. /\ row \in TodoRows /\ row.flow = flow /\ row.level = level
        /\ row.terminal = "none" /\ row.by = "none"
    BY <2>2, <2>3 DEF TodoRows, Flows
  <2> HIDE DEF row
  <2>5. todo' = [todo EXCEPT ![t] = row]
    BY <2>1 DEF row, flow
  <2> QED BY <2>3, <2>4, <2>5
<1>2. /\ todo \in [Todos -> TodoRows] /\ todo[t] = NoTodo /\ ~Created(t) /\ row.level # "none"
      /\ UNCHANGED <<rule, receipts, patrol, client, switch, told, faults>>
  BY <1>1 DEF Create, IInv, Typed, Levels
<1>3. /\ todo' \in [Todos -> TodoRows] /\ todo'[t] = row
      /\ \A u \in Todos : u # t => todo'[u] = todo[u]
  BY <1>1, <1>2
<1>4. \A u \in Todos : (Created(u) => Created(u)') /\ (~Created(u)' => todo'[u] = NoTodo)
  BY <1>2, <1>3 DEF Created, IInv, Typed
<1>5. Typed'
  BY <1>2, <1>3, <1>4 DEF IInv, Typed
<1>6. \A u \in Todos : Advances(u) /\ (Created(u) /\ todo'[u].flow = "L3" => todo[u].flow = "L3")
  BY <1>1, <1>2, <1>3 DEF Advances, Created, Closed, NoTodo
<1> QED BY <1>4, <1>5, <1>6 DEF RowsOnly

LEMMA ClaimRows == \A t \in Todos : IInv /\ Claim(t) => RowsOnly
<1> SUFFICES ASSUME NEW t \in Todos, IInv, Claim(t) PROVE RowsOnly
  OBVIOUS
<1>1. /\ todo \in [Todos -> TodoRows] /\ todo[t].flow = "L1" /\ Created(t) /\ ~Closed(t)
      /\ todo' = [todo EXCEPT ![t].flow = "L2"]
      /\ UNCHANGED <<rule, receipts, patrol, client, switch, told, faults>>
  BY DEF Claim, Open, IInv, Typed
<1>2. /\ todo' \in [Todos -> TodoRows] /\ todo'[t].flow = "L2" /\ todo'[t].level = todo[t].level
      /\ todo'[t].by = todo[t].by /\ \A u \in Todos : u # t => todo'[u] = todo[u]
  BY <1>1 DEF TodoRows, Flows
<1>3. \A u \in Todos : Created(u)' = Created(u) /\ (~Created(u) => todo'[u] = NoTodo)
  BY <1>1, <1>2 DEF Created, IInv, Typed
<1>4. Typed'
  BY <1>1, <1>2, <1>3 DEF IInv, Typed
<1>5. \A u \in Todos : Advances(u) /\ (todo'[u].flow = "L3" => todo[u].flow = "L3")
  BY <1>1, <1>2 DEF Advances, Created, Closed
<1> QED BY <1>3, <1>4, <1>5 DEF RowsOnly

LEMMA TimeRows == \A t \in Todos : IInv /\ TimePasses(t) => RowsOnly
<1> SUFFICES ASSUME NEW t \in Todos, IInv, TimePasses(t) PROVE RowsOnly
  OBVIOUS
<1>1. /\ todo \in [Todos -> TodoRows] /\ todo[t].late < 4 /\ Created(t) /\ ~Closed(t)
      /\ todo' = [todo EXCEPT ![t].late = @ + 1]
      /\ UNCHANGED <<rule, receipts, patrol, client, switch, told, faults>>
  BY DEF TimePasses, Open, IInv, Typed
<1>2. /\ todo' \in [Todos -> TodoRows]
      /\ todo'[t].flow = todo[t].flow /\ todo'[t].level = todo[t].level
      /\ todo'[t].by = todo[t].by /\ todo'[t].period = todo[t].period
      /\ \A u \in Todos : u # t => todo'[u] = todo[u]
  BY <1>1 DEF TodoRows, Flows
<1>3. \A u \in Todos : Created(u)' = Created(u) /\ (~Created(u) => todo'[u] = NoTodo)
  BY <1>1, <1>2 DEF Created, IInv, Typed
<1>4. Typed'
  BY <1>1, <1>2, <1>3 DEF IInv, Typed
<1>5. \A u \in Todos : Advances(u) /\ (todo'[u].flow = "L3" => todo[u].flow = "L3")
  BY <1>1, <1>2 DEF Advances, Created, Closed
<1> QED BY <1>3, <1>4, <1>5 DEF RowsOnly

LEMMA CascadeRows == IInv /\ Cascade => RowsOnly
<1> SUFFICES ASSUME IInv, Cascade PROVE RowsOnly
  OBVIOUS
<1>1. /\ todo \in [Todos -> TodoRows] /\ todo' = CloseAll
      /\ UNCHANGED <<rule, receipts, patrol, client, told, faults>>
      /\ switch' \in {"idle", "disabled", "deleting"}
  BY DEF Cascade, IInv, Typed
<1>2. /\ todo' \in [Todos -> TodoRows]
      /\ \A t \in Todos : /\ todo'[t].flow = todo[t].flow /\ todo'[t].level = todo[t].level
                          /\ todo'[t].period = todo[t].period
                          /\ todo'[t].by = "patrol" => todo[t].by = "patrol"
                          /\ ~Open(t) => todo'[t] = todo[t]
  <2> SUFFICES ASSUME NEW t \in Todos
               PROVE  /\ CloseAll[t] \in TodoRows
                      /\ CloseAll[t].flow = todo[t].flow /\ CloseAll[t].level = todo[t].level
                      /\ CloseAll[t].period = todo[t].period
                      /\ CloseAll[t].by = "patrol" => todo[t].by = "patrol"
                      /\ ~Open(t) => CloseAll[t] = todo[t]
    BY <1>1 DEF CloseAll
  <2> QED BY <1>1 DEF CloseAll, TodoRows
<1>3. \A u \in Todos : Created(u)' = Created(u) /\ (~Created(u) => todo'[u] = NoTodo)
  BY <1>2 DEF Created, Open, IInv, Typed
<1>4. Typed'
  BY <1>1, <1>2, <1>3 DEF IInv, Typed
<1>5. \A u \in Todos : Advances(u) /\ (todo'[u].flow = "L3" => todo[u].flow = "L3")
  BY <1>1, <1>2 DEF Advances, Open, Created, Closed
<1> QED BY <1>3, <1>4, <1>5 DEF RowsOnly

\* What keeps the rows keeps them in order.
LEMMA RowsStay == Typed' /\ todo' = todo /\ IInv => RowsOnly
BY DEF RowsOnly, Advances, Created, Closed, IInv, Typed

LEMMA RowsPreserve ==
  ASSUME IInv, RowsOnly, UNCHANGED <<receipts, patrol, told>>, faults <= faults',
         ResultsSound'
  PROVE  IInv'
<1>1. /\ Typed' /\ \A t \in Todos : Advances(t) /\ (Created(t)' \/ ~Created(t))
      /\ \A t \in Todos : Created(t) /\ todo'[t].flow = "L3" => todo[t].flow = "L3"
  BY DEF RowsOnly
<1>2. /\ ReceiptsSound' /\ QueueSound' /\ WorkSound' /\ GroupSound' /\ CardsSound'
      /\ LateSound' /\ ExpiredWasCalled'
  BY <1>1, RowsAdvance
<1> QED BY <1>1, <1>2 DEF IInv

LEMMA TodosPreserve == \A t \in Todos : IInv /\ (Create(t) \/ Claim(t) \/ TimePasses(t)) => IInv'
<1> SUFFICES ASSUME NEW t \in Todos, IInv, Create(t) \/ Claim(t) \/ TimePasses(t) PROVE IInv'
  OBVIOUS
<1>1. RowsOnly
  BY CreateRows, ClaimRows, TimeRows
<1>2. UNCHANGED <<receipts, patrol, client, told, faults>>
  BY DEF Create, Claim, TimePasses
<1>3. faults <= faults'
  BY <1>2, BoundAssumption DEF IInv, Typed
<1>4. ResultsSound'
  BY <1>1, <1>2, ResultsStay DEF RowsOnly, Advances
<1> QED BY <1>1, <1>2, <1>3, <1>4, RowsPreserve

LEMMA RulePreserves == IInv /\ (Disable \/ Enable \/ Cascade \/ Delete \/ SwitchFails) => IInv'
<1> SUFFICES ASSUME IInv, Disable \/ Enable \/ Cascade \/ Delete \/ SwitchFails PROVE IInv'
  OBVIOUS
<1>1. /\ UNCHANGED <<receipts, patrol, client, told>> /\ (Cascade \/ todo' = todo)
      /\ rule' \in {"on", "off"} /\ switch' \in {"idle", "disabled", "deleting"}
      /\ faults' \in 0..MaxFaults /\ faults <= faults'
  <2>1. /\ faults \in 0..MaxFaults /\ rule \in {"on", "off"}
        /\ switch \in {"idle", "disabled", "deleting"}
    BY DEF IInv, Typed
  <2>2. CASE SwitchFails
    BY <2>1, <2>2, BoundAssumption DEF SwitchFails
  <2>3. CASE Disable \/ Enable \/ Cascade \/ Delete
    BY <2>1, <2>3, BoundAssumption DEF Disable, Enable, Cascade, Delete
  <2> QED BY <2>2, <2>3
<1>2. RowsOnly
  <2>1. CASE todo' = todo
    <3>1. Typed'
      BY <1>1, <2>1 DEF IInv, Typed, Created
    <3> QED BY <2>1, <3>1, RowsStay
  <2> QED BY <1>1, <2>1, CascadeRows
<1>3. ResultsSound'
  BY <1>1, <1>2, ResultsStay DEF RowsOnly, Advances
<1> QED BY <1>1, <1>2, <1>3, RowsPreserve

-------------------------------------------------------------------------------
(* Requests to close.                                                      *)

LEMMA ReadsPreserve == \A c \in Clients : IInv /\ (CloseReads(c) \/ RequestFails(c)) => IInv'
<1> SUFFICES ASSUME NEW c \in Clients, IInv, CloseReads(c) \/ RequestFails(c) PROVE IInv'
  OBVIOUS
<1>1. /\ UNCHANGED <<todo, rule, receipts, patrol, switch, told>>
      /\ faults' \in 0..MaxFaults /\ faults <= faults'
  <2>1. faults \in 0..MaxFaults
    BY DEF IInv, Typed
  <2> QED BY <2>1, BoundAssumption DEF CloseReads, RequestFails
<1>2. PICK request \in ClientStates :
        /\ client' = [client EXCEPT ![c] = request] /\ request.pc # "send"
        /\ request.pc # "idle" => request.todo \in Todos /\ Created(request.todo)
  <2>1. client[c] \in ClientStates
    BY DEF IInv, Typed
  <2>2. CASE CloseReads(c)
    <3>1. PICK t \in Todos : Open(t) /\ client' = [client EXCEPT ![c].pc = "close", ![c].todo = t]
      BY <2>2 DEF CloseReads
    <3> DEFINE request == [client[c] EXCEPT !.pc = "close", !.todo = t]
    <3>2. request \in ClientStates /\ request.pc = "close" /\ request.todo = t
      BY <2>1 DEF ClientStates
    <3>3. client' = [client EXCEPT ![c] = request]
      BY <3>1
    <3> HIDE DEF request
    <3> QED BY <3>1, <3>2, <3>3 DEF Open
  <2>3. CASE RequestFails(c)
    <3>1. NoRequest \in ClientStates /\ NoRequest.pc = "idle"
      BY DEF NoRequest, ClientStates
    <3> QED BY <2>3, <3>1 DEF RequestFails
  <2> QED BY <2>2, <2>3
<1>3. /\ client \in [Clients -> ClientStates] /\ client' \in [Clients -> ClientStates]
      /\ client'[c] = request /\ \A d \in Clients : d # c => client'[d] = client[d]
  BY <1>2 DEF IInv, Typed
<1>4. Typed'
  BY <1>1, <1>2, <1>3 DEF IInv, Typed, Created
<1>5. RowsOnly
  BY <1>1, <1>4, RowsStay
<1>6. ResultsSound'
  <2>1. \A d \in Clients : client'[d].pc = "send" => client'[d] = client[d]
    BY <1>2, <1>3
  <2> QED BY <1>1, <2>1, ResultsStay
<1> QED BY <1>1, <1>5, <1>6, RowsPreserve

LEMMA WritesRows == \A c \in Clients : IInv /\ CloseWrites(c) => RowsOnly
<1> SUFFICES ASSUME NEW c \in Clients, IInv, CloseWrites(c) PROVE RowsOnly
  OBVIOUS
<1> DEFINE t == client[c].todo
<1>1. /\ t \in Todos /\ Created(t) /\ todo \in [Todos -> TodoRows]
      /\ client \in [Clients -> ClientStates] /\ client[c] \in ClientStates
      /\ UNCHANGED <<rule, receipts, patrol, switch, told, faults>>
  BY DEF CloseWrites, IInv, Typed
<1>2. NoRequest \in ClientStates /\ NoRequest.pc = "idle"
  BY DEF NoRequest, ClientStates
<1>3. CASE todo' = todo /\ client' = [client EXCEPT ![c] = NoRequest]
  <2>1. Typed'
    BY <1>1, <1>2, <1>3 DEF IInv, Typed, Created
  <2> QED BY <1>3, <2>1, RowsStay
<1>4. ASSUME NEW terminal \in ClientTerminals, ~Closed(t),
             todo' = [todo EXCEPT ![t].terminal = terminal, ![t].by = "client"],
             \/ client' = [client EXCEPT ![c].pc = "send", ![c].terminal = terminal]
             \/ client' = [client EXCEPT ![c] = NoRequest]
      PROVE  RowsOnly
  <2> HIDE DEF t
  <2>1. /\ todo' \in [Todos -> TodoRows]
        /\ todo'[t].flow = todo[t].flow /\ todo'[t].level = todo[t].level
        /\ todo'[t].by = "client" /\ todo'[t].period = todo[t].period
        /\ \A u \in Todos : u # t => todo'[u] = todo[u]
    <3> DEFINE row == [todo[t] EXCEPT !.terminal = terminal, !.by = "client"]
    <3>1. todo[t] \in TodoRows
      BY <1>1
    <3>2. /\ row \in TodoRows /\ row.flow = todo[t].flow /\ row.level = todo[t].level
          /\ row.by = "client" /\ row.period = todo[t].period
      BY <3>1 DEF TodoRows, ClientTerminals
    <3>3. todo' = [todo EXCEPT ![t] = row]
      BY <1>4
    <3> HIDE DEF row
    <3> QED BY <1>1, <3>2, <3>3
  <2>2. \A u \in Todos : Created(u)' = Created(u) /\ (~Created(u) => todo'[u] = NoTodo)
    BY <1>1, <2>1 DEF Created, IInv, Typed
  <2>3. /\ client' \in [Clients -> ClientStates]
        /\ client'[c].pc # "idle" => client'[c].todo = t
        /\ \A d \in Clients : d # c => client'[d] = client[d]
    BY <1>1, <1>2, <1>4 DEF ClientStates, t
  <2>4. Typed'
    BY <1>1, <2>1, <2>2, <2>3 DEF IInv, Typed
  <2>5. \A u \in Todos : Advances(u) /\ (todo'[u].flow = "L3" => todo[u].flow = "L3")
    BY <1>1, <1>4, <2>1 DEF Advances, Created, Closed
  <2> QED BY <2>2, <2>4, <2>5 DEF RowsOnly
<1> QED BY <1>3, <1>4 DEF CloseWrites

LEMMA WritesPreserve == \A c \in Clients : IInv /\ CloseWrites(c) => IInv'
<1> SUFFICES ASSUME NEW c \in Clients, IInv, CloseWrites(c) PROVE IInv'
  OBVIOUS
<1> DEFINE t == client[c].todo
<1>1. /\ t \in Todos /\ RowsOnly /\ UNCHANGED <<receipts, patrol, told, faults>>
      /\ faults <= faults' /\ todo \in [Todos -> TodoRows] /\ client \in [Clients -> ClientStates]
  <2>1. RowsOnly
    BY WritesRows
  <2>2. UNCHANGED <<receipts, patrol, told, faults>> /\ client[c].pc = "close"
    BY DEF CloseWrites
  <2> QED BY <2>1, <2>2, BoundAssumption DEF IInv, Typed
<1>2. \A d \in Clients : client[d].pc = "send" => client[d].todo \in Todos /\ Closed(client[d].todo)
  BY DEF IInv, Typed, ResultsSound
<1>3. \A u \in Todos : Closed(u) => todo'[u] = todo[u]
  BY <1>1 DEF RowsOnly, Advances
<1>4. CASE client' = [client EXCEPT ![c] = NoRequest]
  <2>1. \A d \in Clients : client'[d].pc = "send" => client'[d] = client[d]
    BY <1>1, <1>4 DEF NoRequest
  <2> QED BY <1>1, <1>3, <2>1, ResultsStay, RowsPreserve
<1>5. ASSUME NEW terminal \in ClientTerminals, ~Closed(t),
             todo' = [todo EXCEPT ![t].terminal = terminal, ![t].by = "client"],
             client' = [client EXCEPT ![c].pc = "send", ![c].terminal = terminal]
      PROVE  IInv'
  <2>1. /\ client'[c].todo = t /\ client'[c].terminal = terminal
        /\ \A d \in Clients : d # c => client'[d] = client[d]
    BY <1>1, <1>5 DEF ClientStates
  <2> HIDE DEF t
  <2>2. todo'[t].terminal = terminal /\ terminal # "none" /\ told[t].result = {}
    <3>1. todo'[t].terminal = terminal
      BY <1>1, <1>5 DEF TodoRows
    <3> QED BY <1>1, <1>5, <3>1 DEF IInv, ResultsSound, ClientTerminals
  <2>3. \A u \in Todos : Closed(u) => Closed(u)' /\ todo'[u].terminal = todo[u].terminal
    BY <1>3 DEF Closed
  <2>4. \A u \in Todos :
          /\ told'[u].result # {} => Closed(u)'
          /\ \A x, y \in told'[u].result : x = y
          /\ \A x \in told'[u].result : x[2] = todo'[u].terminal
    BY <1>1, <2>3 DEF IInv, ResultsSound
  <2>5. ASSUME NEW d \in Clients, client'[d].pc = "send"
        PROVE  /\ todo'[client'[d].todo].terminal # "none"
               /\ todo'[client'[d].todo].terminal = client'[d].terminal
               /\ told'[client'[d].todo].result = {}
               /\ \A e \in Clients :
                    client'[e].pc = "send" /\ client'[e].todo = client'[d].todo => e = d
    <3>1. CASE d = c
      <4>1. \A e \in Clients : client'[e].pc = "send" /\ client'[e].todo = t => e = c
        BY <1>2, <1>5, <2>1
      <4> QED BY <3>1, <4>1, <1>1, <2>1, <2>2
    <3>2. CASE d # c
      <4>1. client'[d] = client[d] /\ Closed(client[d].todo) /\ client[d].todo \in Todos
        BY <1>2, <2>1, <2>5, <3>2
      <4>3. /\ todo[client[d].todo].terminal = client[d].terminal
            /\ told[client[d].todo].result = {}
            /\ \A e \in Clients : client[e].pc = "send" /\ client[e].todo = client[d].todo => e = d
        BY <4>1, <2>5 DEF IInv, ResultsSound
      <4>2. \A e \in Clients : client'[e].pc = "send" /\ client'[e].todo = client[d].todo => e = d
        <5>1. client[d].todo # t
          BY <4>1, <1>5
        <5> QED BY <4>1, <4>3, <5>1, <2>1
      <4> QED BY <4>1, <4>2, <4>3, <1>1, <2>3 DEF Closed
    <3> QED BY <3>1, <3>2
  <2>6. ResultsSound'
    BY <2>4, <2>5 DEF ResultsSound, Closed
  <2> QED BY <1>1, <2>6, RowsPreserve
<1> QED BY <1>4, <1>5 DEF CloseWrites

-------------------------------------------------------------------------------
(* The patrol: it goes on to the next todo.                                *)

LEMMA NextFacts ==
  ASSUME IInv, patrol.queue # <<>>, patrol' = NextTodo
  PROVE  /\ patrol' \in Passes /\ patrol'.pc = "scan" /\ patrol'.group = patrol.group
         /\ patrol'.work = NoWork
         /\ Len(patrol.queue) \in Nat /\ Len(patrol'.queue) = Len(patrol.queue) - 1
         /\ \A i \in 1..Len(patrol'.queue) : /\ i + 1 \in 1..Len(patrol.queue)
                                             /\ patrol'.queue[i] = patrol.queue[i + 1]
         /\ \A i \in 1..Len(patrol'.queue) : patrol'.queue[i].todo \in Todos \ {Current}
<1>1. /\ patrol.queue \in Seq([todo : Todos, flow : Flows]) /\ patrol \in Passes
      /\ 1 \in 1..Len(patrol.queue) /\ Current = patrol.queue[1].todo
      /\ \A i \in 1..Len(patrol.queue) : patrol.queue[i].todo \in Todos
  BY QueueFacts DEF IInv, Typed
<1>2. /\ Tail(patrol.queue) \in Seq([todo : Todos, flow : Flows])
      /\ Len(Tail(patrol.queue)) = Len(patrol.queue) - 1
      /\ \A i \in 1..Len(Tail(patrol.queue)) : Tail(patrol.queue)[i] = patrol.queue[i + 1]
      /\ Len(patrol.queue) \in Nat
  BY <1>1, HeadTailProperties, LenProperties
<1>3. /\ patrol' \in Passes /\ patrol'.pc = patrol.pc /\ patrol'.group = patrol.group
      /\ patrol'.work = NoWork /\ patrol'.queue = Tail(patrol.queue)
  BY <1>1, <1>2 DEF NextTodo, Passes, NoWork, Works
<1>4. patrol.pc = "scan"
  BY DEF IInv, QueueSound
<1>5. \A i \in 1..Len(patrol'.queue) : i + 1 \in 1..Len(patrol.queue) /\ i + 1 # 1
  BY <1>2, <1>3
<1>6. \A i, j \in 1..Len(patrol.queue) : patrol.queue[i].todo = patrol.queue[j].todo => i = j
  BY DEF IInv, QueueSound
<1> QED BY <1>1, <1>2, <1>3, <1>4, <1>5, <1>6

\* A pass that has done with a todo, and wrote at most its row.
LEMMA NextPreserves ==
  ASSUME IInv, Typed', \A t \in Todos : Advances(t),
         \A t \in Todos \ {Current} : todo'[t] = todo[t],
         patrol.queue # <<>>, patrol' = NextTodo,
         UNCHANGED <<receipts, client, told>>, faults <= faults'
  PROVE  IInv'
<1>1. /\ ReceiptsSound' /\ ExpiredWasCalled'
      /\ \A t \in Todos, n \in 0..2 : Recorded(t, n)' <=> Recorded(t, n)
  BY RecordsStay
<1>2. /\ patrol'.pc = "scan" /\ patrol'.group = patrol.group /\ patrol'.work = NoWork
      /\ Len(patrol.queue) \in Nat /\ Len(patrol'.queue) = Len(patrol.queue) - 1
      /\ \A i \in 1..Len(patrol'.queue) : /\ i + 1 \in 1..Len(patrol.queue)
                                          /\ patrol'.queue[i] = patrol.queue[i + 1]
      /\ \A i \in 1..Len(patrol'.queue) : patrol'.queue[i].todo \in Todos \ {Current}
  BY NextFacts
<1>3. \A t \in Todos : Created(t) => Created(t)' /\ todo'[t].level = todo[t].level
  BY DEF Advances, Created
<1>4. QueueSound'
  <2>1. \A i \in 1..Len(patrol'.queue) :
          LET t == patrol'.queue[i].todo
              flow == patrol'.queue[i].flow IN
          /\ todo'[t].level # "none" /\ (todo'[t].flow = "L3" <=> flow = "L3")
          /\ flow = "L2" => todo'[t].flow = "L2"
    BY <1>2 DEF IInv, QueueSound, Created
  <2>2. \A i, j \in 1..Len(patrol'.queue) : patrol'.queue[i].todo = patrol'.queue[j].todo => i = j
    <3> SUFFICES ASSUME NEW i \in 1..Len(patrol'.queue), NEW j \in 1..Len(patrol'.queue),
                        patrol'.queue[i].todo = patrol'.queue[j].todo
                 PROVE  i = j
      OBVIOUS
    <3>1. /\ i + 1 \in 1..Len(patrol.queue) /\ j + 1 \in 1..Len(patrol.queue)
          /\ patrol.queue[i + 1].todo = patrol.queue[j + 1].todo
      BY <1>2
    <3>2. i + 1 = j + 1
      BY <3>1 DEF IInv, QueueSound
    <3> QED BY <3>2
  <2>3. patrol'.work.op = "none" /\ patrol'.pc = "scan" /\ patrol'.work = NoWork
    BY <1>2 DEF NoWork
  <2> QED BY <2>1, <2>2, <2>3 DEF QueueSound, Created
<1>5. WorkSound'
  BY <1>2 DEF WorkSound, NoWork
<1>6. GroupSound'
  <2>1. ASSUME NEW i \in patrol.group
        PROVE  /\ i.todo \in Todos /\ i.round \in 0..2
               /\ Created(i.todo)' /\ todo'[i.todo].flow = "L3" /\ i.period = todo'[i.todo].period
               /\ ~Recorded(i.todo, i.round)'
               /\ \A k \in 1..Len(patrol'.queue) : patrol'.queue[k].todo # i.todo
    <3>1. i.todo \in Todos /\ i.round \in 0..2
      BY DEF IInv, Typed, Passes, Items
    <3>2. /\ Created(i.todo) /\ todo[i.todo].flow = "L3" /\ i.period = todo[i.todo].period
          /\ ~Recorded(i.todo, i.round)
          /\ \A k \in 1..Len(patrol.queue) : patrol.queue[k].todo = i.todo => k = 1
      BY DEF IInv, GroupSound
    <3>3. \A k \in 1..Len(patrol'.queue) : k + 1 # 1
      BY <1>2
    <3> QED BY <1>1, <1>2, <1>3, <3>1, <3>2, <3>3 DEF Advances
  <2> QED BY <1>2, <2>1 DEF IInv, GroupSound
<1>7. CardsSound'
  <2>1. /\ \A t \in Todos : told[t].cards \in Nat /\ OnItsWay(t) \in 0..1
        /\ \A t \in Todos, n \in 0..2 : Kept(t, n) \in 0..1 /\ Kept(t, n)' = Kept(t, n)
        /\ faults \in Nat /\ faults' \in Nat /\ \A t \in Todos : OnItsWay(t)' = OnItsWay(t)
    BY <1>1, <1>2, BoundAssumption DEF IInv, Typed, Histories, Kept, OnItsWay
  <2> QED BY <2>1 DEF IInv, CardsSound
<1>8. LateSound'
  BY <1>2 DEF IInv, LateSound, Advances, Closed
<1>9. ResultsSound'
  BY ResultsStay DEF Advances
<1> QED BY <1>1, <1>4, <1>5, <1>6, <1>7, <1>8, <1>9 DEF IInv

\* The todo in hand, when the pass is about to write something of it.
LEMMA InHandFacts ==
  ASSUME IInv, patrol.work.op # "none"
  PROVE  /\ patrol.queue # <<>> /\ patrol.pc = "scan" /\ Current \in Todos /\ Created(Current)
         /\ 1 \in 1..Len(patrol.queue) /\ Current = patrol.queue[1].todo
         /\ todo \in [Todos -> TodoRows] /\ todo[Current] \in TodoRows
<1>1. patrol.queue # <<>> /\ Typed
  BY DEF IInv, QueueSound
<1> QED BY <1>1, QueueFacts DEF IInv, QueueSound, Typed

\* The pass goes on, and wrote nothing.
LEMMA WorkSkips ==
  ASSUME IInv, patrol.queue # <<>>, patrol' = NextTodo,
         UNCHANGED <<todo, rule, receipts, client, switch, told>>,
         faults' \in 0..MaxFaults, faults <= faults'
  PROVE  IInv' /\ \A t \in Todos : Advances(t)
<1>1. \A t \in Todos : Advances(t)
  BY DEF Advances
<1>2. Typed'
  BY NextFacts DEF IInv, Typed, Created
<1> QED BY <1>1, <1>2, NextPreserves

\* What the pass may make of the row of an open todo in hand.
WorkRow(row) ==
  /\ row \in TodoRows
  /\ row.level = todo[Current].level
  /\ row.flow \in {"L2", "L3"}
  /\ row.flow = "L2" => todo[Current].flow # "L3"
  /\ todo[Current].flow = "L3" => row.period = todo[Current].period
  /\ row.by = "patrol" => todo[Current].by = "patrol" \/ Recorded(Current, 0)

LEMMA WorkWrites ==
  ASSUME IInv, patrol.work.op # "none", patrol' = NextTodo,
         UNCHANGED <<rule, receipts, client, switch, told, faults>>,
         NEW row, WorkRow(row), ~Closed(Current), todo' = [todo EXCEPT ![Current] = row]
  PROVE  IInv' /\ \A t \in Todos : Advances(t)
<1>1. /\ patrol.queue # <<>> /\ Current \in Todos /\ Created(Current)
      /\ todo \in [Todos -> TodoRows] /\ todo[Current] \in TodoRows
  BY InHandFacts
<1>2. /\ todo' \in [Todos -> TodoRows] /\ todo'[Current] = row
      /\ \A t \in Todos \ {Current} : todo'[t] = todo[t]
  BY <1>1 DEF WorkRow
<1>3. \A t \in Todos : Advances(t)
  <2>1. Advances(Current)
    BY <1>1, <1>2 DEF Advances, WorkRow, TodoRows, Flows
  <2>2. \A t \in Todos \ {Current} : Advances(t)
    BY <1>2 DEF Advances
  <2> QED BY <2>1, <2>2
<1>4. Typed'
  <2>1. \A t \in Todos : Created(t)' = Created(t) /\ (~Created(t) => todo'[t] = NoTodo)
    BY <1>1, <1>2 DEF Created, WorkRow, IInv, Typed
  <2> QED BY <1>1, <1>2, <2>1, NextFacts DEF IInv, Typed
<1>5. faults <= faults'
  BY BoundAssumption DEF IInv, Typed
<1> QED BY <1>1, <1>2, <1>3, <1>4, <1>5, NextPreserves

LEMMA FaultsKept == ASSUME IInv, faults' = faults
                    PROVE  faults' \in 0..MaxFaults /\ faults <= faults'
BY BoundAssumption DEF IInv, Typed

LEMMA PromotePreserves == IInv /\ Promote => IInv' /\ \A t \in Todos : Advances(t)
<1> SUFFICES ASSUME IInv, Promote PROVE IInv' /\ \A t \in Todos : Advances(t)
  OBVIOUS
<1> DEFINE t == Current
<1>1. /\ patrol.work.op \in {"to L2", "to L3"} /\ patrol' = NextTodo
      /\ UNCHANGED <<rule, receipts, client, switch, told, faults>>
  BY DEF Promote
<1>2. /\ patrol.queue # <<>> /\ t \in Todos /\ Created(t)
      /\ todo \in [Todos -> TodoRows] /\ todo[t] \in TodoRows
      /\ todo[t].flow # "L3" /\ (patrol.work.op = "to L3" => todo[t].flow = "L2")
  BY <1>1, InHandFacts DEF IInv, WorkSound
<1>3. CASE todo' = todo
  BY <1>1, <1>2, <1>3, WorkSkips, FaultsKept
<1>4. ASSUME NEW late \in {todo[t].late, todo[t].late - 1} \cap Nat, ~Closed(t),
             todo' = [todo EXCEPT ![t].flow = IF patrol.work.op = "to L2" THEN "L2" ELSE "L3",
                                  ![t].count = @ + 1, ![t].late = late, ![t].period = @ + 1]
      PROVE  IInv' /\ \A u \in Todos : Advances(u)
  <2> DEFINE flow == IF patrol.work.op = "to L2" THEN "L2" ELSE "L3"
             row == [todo[t] EXCEPT !.flow = flow, !.count = @ + 1, !.late = late, !.period = @ + 1]
  <2>1. /\ flow \in {"L2", "L3"} /\ late \in 0..4 /\ todo[t].count + 1 \in Nat
        /\ todo[t].period + 1 \in Nat
    <3>1. todo[t].late \in 0..4 /\ todo[t].count \in Nat /\ todo[t].period \in Nat
      BY <1>2 DEF TodoRows
    <3>2. late \in 0..4
      BY <3>1
    <3>3. flow \in {"L2", "L3"}
      OBVIOUS
    <3> QED BY <3>1, <3>2, <3>3
  <2>2. todo' = [todo EXCEPT ![t] = row]
    BY <1>4
  <2> HIDE DEF flow, t
  <2>3. /\ row \in TodoRows /\ row.level = todo[t].level /\ row.by = todo[t].by /\ row.flow = flow
        /\ row.terminal = todo[t].terminal
    BY <1>2, <2>1 DEF TodoRows, Flows
  <2> HIDE DEF row
  <2>5. WorkRow(row)
    BY <1>2, <2>1, <2>3 DEF WorkRow, t, IInv, ExpiredWasCalled
  <2> QED BY <1>1, <1>4, <2>2, <2>5, WorkWrites DEF t
<1> QED BY <1>3, <1>4 DEF Promote, Promotable

LEMMA BumpPreserves == IInv /\ Bump => IInv' /\ \A t \in Todos : Advances(t)
<1> SUFFICES ASSUME IInv, Bump PROVE IInv' /\ \A t \in Todos : Advances(t)
  OBVIOUS
<1> DEFINE t == Current
<1>1. /\ patrol.work.op = "bump" /\ patrol' = NextTodo
      /\ UNCHANGED <<rule, receipts, client, switch, told, faults>>
  BY DEF Bump
<1>2. /\ patrol.queue # <<>> /\ t \in Todos /\ todo \in [Todos -> TodoRows] /\ todo[t] \in TodoRows
      /\ todo[t].flow = "L3" /\ patrol.work.count + 1 \in Nat
  <2>1. patrol \in Passes /\ todo[Current].flow = "L3"
    BY <1>1 DEF IInv, Typed, WorkSound
  <2>2. patrol.work.count \in Nat
    BY <2>1 DEF Passes, Works
  <2> QED BY <1>1, <2>1, <2>2, InHandFacts
<1>3. CASE todo' = todo
  BY <1>1, <1>2, <1>3, WorkSkips, FaultsKept
<1>4. CASE /\ ~Closed(t)
           /\ todo' = [todo EXCEPT ![t].flow = "L3", ![t].count = patrol.work.count + 1,
                                   ![t].period = @ + BumpExtends]
  <2> DEFINE row == [todo[t] EXCEPT !.flow = "L3", !.count = patrol.work.count + 1,
                                    !.period = @ + BumpExtends]
  <2>1. todo' = [todo EXCEPT ![t] = row]
    BY <1>4
  <2>2. todo[t].period \in Nat /\ todo[t].period + BumpExtends = todo[t].period
    BY <1>2 DEF TodoRows, BumpExtends
  <2> HIDE DEF t
  <2>3. /\ row \in TodoRows /\ row.level = todo[t].level /\ row.by = todo[t].by
        /\ row.flow = "L3" /\ row.period = todo[t].period
    BY <1>2, <2>2 DEF TodoRows, Flows
  <2> HIDE DEF row
  <2>4. WorkRow(row)
    BY <1>2, <2>3 DEF WorkRow, t
  <2> QED BY <1>1, <1>4, <2>1, <2>4, WorkWrites DEF t
<1> QED BY <1>3, <1>4 DEF Bump, Promotable

LEMMA ExpirePreserves == IInv /\ Expire => IInv' /\ \A t \in Todos : Advances(t)
<1> SUFFICES ASSUME IInv, Expire PROVE IInv' /\ \A t \in Todos : Advances(t)
  OBVIOUS
<1> DEFINE t == Current
<1>1. /\ patrol.work.op = "expire" /\ patrol' = NextTodo
      /\ UNCHANGED <<rule, receipts, client, switch, told, faults>>
  BY DEF Expire
<1>2. /\ patrol.queue # <<>> /\ t \in Todos /\ todo \in [Todos -> TodoRows] /\ todo[t] \in TodoRows
      /\ todo[t].flow = "L3" /\ Recorded(t, 0)
  BY <1>1, InHandFacts DEF IInv, WorkSound
<1>3. CASE todo' = todo
  BY <1>1, <1>2, <1>3, WorkSkips, FaultsKept
<1>4. CASE /\ ~Closed(t)
           /\ todo' = [todo EXCEPT ![t].terminal = "expired", ![t].by = "patrol"]
  <2> DEFINE row == [todo[t] EXCEPT !.terminal = "expired", !.by = "patrol"]
  <2>1. todo' = [todo EXCEPT ![t] = row]
    BY <1>4
  <2> HIDE DEF t
  <2>3. /\ row \in TodoRows /\ row.level = todo[t].level
        /\ row.flow = todo[t].flow /\ row.period = todo[t].period
    BY <1>2 DEF TodoRows, Flows
  <2> HIDE DEF row
  <2>4. WorkRow(row)
    BY <1>2, <2>3 DEF WorkRow, t
  <2> QED BY <1>1, <1>4, <2>1, <2>4, WorkWrites DEF t
<1> QED BY <1>3, <1>4 DEF Expire

LEMMA StepFailsPreserves == IInv /\ StepFails => IInv' /\ \A t \in Todos : Advances(t)
<1> SUFFICES ASSUME IInv, StepFails PROVE IInv' /\ \A t \in Todos : Advances(t)
  OBVIOUS
<1>1. patrol.queue # <<>> /\ faults \in 0..MaxFaults
  BY DEF StepFails, IInv, QueueSound, Typed
<1>2. /\ patrol' = NextTodo /\ UNCHANGED <<todo, rule, receipts, client, switch, told>>
      /\ faults' \in 0..MaxFaults /\ faults <= faults'
  BY <1>1, BoundAssumption DEF StepFails
<1> QED BY <1>1, <1>2, WorkSkips

-------------------------------------------------------------------------------
(* The patrol: the card of the pass.                                       *)

\* What is to be sent changes its state, and the todos of ts are told of.
LEMMA MessagesPreserve ==
  ASSUME IInv, patrol.pc = "flush", NEW ts \in SUBSET Todos, told' = ToldBy(ts),
         NEW G \in SUBSET Items, patrol' = [patrol EXCEPT !.group = G],
         \A i \in G : \E j \in patrol.group :
           /\ j.todo = i.todo /\ j.round = i.round /\ j.period = i.period
           /\ j.st = "done" => i.st = "done",
         \A i, j \in G : i.todo = j.todo => i = j,
         \A j \in patrol.group : j.st = "done" => j \in G,
         \A t \in ts : /\ \E j \in patrol.group : j.todo = t /\ j.st # "done"
                       /\ \E i \in G : i.todo = t /\ i.st = "done",
         UNCHANGED <<todo, rule, receipts, client, switch, faults>>
  PROVE  IInv'
<1>1. /\ patrol \in Passes /\ patrol.queue = <<>> /\ patrol.work = NoWork
      /\ told \in [Todos -> Histories] /\ faults \in Nat
  BY BoundAssumption DEF IInv, Typed, QueueSound
<1>2. /\ patrol' \in Passes /\ patrol'.pc = "flush" /\ patrol'.queue = <<>>
      /\ patrol'.work = NoWork /\ patrol'.group = G /\ Len(patrol'.queue) = 0
  BY <1>1 DEF Passes
<1>3. /\ told' \in [Todos -> Histories]
      /\ \A t \in Todos : told'[t].result = told[t].result
      /\ \A t \in ts : /\ told'[t].cards = told[t].cards + 1
                       /\ Closed(t) => told'[t].late = told[t].late + 1
                       /\ ~Closed(t) => told'[t].late = told[t].late
      /\ \A t \in Todos \ ts : told'[t] = told[t]
  <2> SUFFICES ASSUME NEW t \in Todos
               PROVE  /\ told'[t] \in Histories /\ told'[t].result = told[t].result
                      /\ t \in ts => /\ told'[t].cards = told[t].cards + 1
                                     /\ Closed(t) => told'[t].late = told[t].late + 1
                                     /\ ~Closed(t) => told'[t].late = told[t].late
                      /\ t \notin ts => told'[t] = told[t]
    BY DEF ToldBy
  <2>1. told[t] \in Histories
    BY <1>1
  <2>2. CASE t \in ts
    <3> DEFINE late == IF Closed(t) THEN told[t].late + 1 ELSE told[t].late
    <3>1. told'[t] = [told[t] EXCEPT !.cards = @ + 1, !.late = late]
      BY <2>2 DEF ToldBy
    <3>2. /\ late \in Nat /\ told[t].cards + 1 \in Nat
          /\ Closed(t) => late = told[t].late + 1
          /\ ~Closed(t) => late = told[t].late
      BY <2>1 DEF Histories
    <3> HIDE DEF late
    <3>3. /\ told'[t] \in Histories /\ told'[t].cards = told[t].cards + 1
          /\ told'[t].late = late /\ told'[t].result = told[t].result
      BY <2>1, <3>1, <3>2 DEF Histories
    <3> QED BY <2>2, <3>2, <3>3
  <2>3. CASE t \notin ts
    BY <2>1, <2>3 DEF ToldBy
  <2> QED BY <2>2, <2>3
<1>4. Typed'
  BY <1>2, <1>3 DEF IInv, Typed, Created
<1>5. ReceiptsSound' /\ ExpiredWasCalled' /\ \A t \in Todos, n \in 0..2 : Recorded(t, n)' <=> Recorded(t, n)
  BY RecordsStay DEF Advances
<1>6. QueueSound' /\ WorkSound'
  <2>1. patrol'.work.op = "none"
    BY <1>2 DEF NoWork
  <2>2. WorkSound'
    BY <2>1 DEF WorkSound
  <2>3. QueueSound'
    BY <1>2, <2>1 DEF QueueSound
  <2> QED BY <2>2, <2>3
<1>7. GroupSound'
  <2>1. ASSUME NEW i \in G
        PROVE  /\ Created(i.todo)' /\ todo'[i.todo].flow = "L3" /\ i.period = todo'[i.todo].period
               /\ ~Recorded(i.todo, i.round)'
    <3>1. PICK j \in patrol.group : j.todo = i.todo /\ j.round = i.round /\ j.period = i.period
      OBVIOUS
    <3>2. i.todo \in Todos /\ i.round \in 0..2
      BY DEF Items
    <3> QED BY <3>1, <3>2, <1>5 DEF IInv, GroupSound, Created
  <2> QED BY <1>2, <2>1 DEF GroupSound
<1>8. \A i, j \in patrol.group : i.todo = j.todo => i = j
  BY DEF IInv, GroupSound
<1>9. CardsSound'
  <2> SUFFICES ASSUME NEW t \in Todos
               PROVE  told'[t].cards <= Kept(t, 0)' + Kept(t, 1)' + Kept(t, 2)' + OnItsWay(t)' + faults'
    BY DEF CardsSound
  <2>1. /\ \A n \in 0..2 : Kept(t, n) \in 0..1 /\ Kept(t, n)' = Kept(t, n)
        /\ OnItsWay(t) \in 0..1 /\ OnItsWay(t)' \in 0..1 /\ told[t].cards \in Nat
    BY <1>1, <1>5 DEF Kept, OnItsWay, Histories
  <2>2. CASE t \in ts
    <3>1. OnItsWay(t) = 0 /\ OnItsWay(t)' = 1
      BY <2>2, <1>2, <1>8 DEF OnItsWay
    <3> QED BY <2>1, <2>2, <3>1, <1>1, <1>3 DEF IInv, CardsSound
  <2>3. CASE t \notin ts
    <3>1. OnItsWay(t) <= OnItsWay(t)'
      BY <1>2 DEF OnItsWay
    <3> QED BY <2>1, <2>3, <3>1, <1>1, <1>3 DEF IInv, CardsSound
  <2> QED BY <2>2, <2>3
<1>10. LateSound'
  <2> SUFFICES ASSUME NEW t \in Todos
               PROVE  /\ told'[t].late <= 1
                      /\ told'[t].late > 0 => /\ Closed(t)
                                              /\ \A i \in G : i.todo = t => i.st = "done"
    BY <1>2 DEF LateSound, Closed
  <2>1. told[t].late \in Nat
    BY <1>1 DEF Histories
  <2>2. CASE t \in ts
    <3>1. told[t].late = 0
      BY <2>1, <2>2 DEF IInv, LateSound
    <3>2. \A i \in G : i.todo = t => i.st = "done"
      BY <2>2
    <3> QED BY <2>2, <3>1, <3>2, <1>3
  <2>3. CASE t \notin ts
    BY <2>3, <1>3 DEF IInv, LateSound
  <2> QED BY <2>2, <2>3
<1>11. ResultsSound'
  BY <1>3 DEF IInv, ResultsSound, Typed, Closed
<1> QED BY <1>4, <1>5, <1>6, <1>7, <1>9, <1>10, <1>11 DEF IInv

LEMMA NobodyTold == Typed => ToldBy({}) = told
BY DEF Typed, ToldBy

LEMMA WakePreserves == IInv /\ WakeOwner => IInv'
<1> SUFFICES ASSUME IInv, WakeOwner PROVE IInv'
  OBVIOUS
<1>1. PICK i \in patrol.group, st \in {"card", "done"} :
        /\ patrol.pc = "flush" /\ i.st = "new" /\ Settle(i, st)
        /\ told' = told \/ (st = "done" /\ told' = ToldBy({i.todo}))
        /\ UNCHANGED <<todo, rule, receipts, client, switch, faults>>
  BY DEF WakeOwner, Flushing
<1> DEFINE item == [i EXCEPT !.st = st]
           G == (patrol.group \ {i}) \cup {item}
<1>2. /\ patrol.group \subseteq Items /\ i \in Items /\ patrol' = [patrol EXCEPT !.group = G]
      /\ \A j, k \in patrol.group : j.todo = k.todo => j = k
  BY <1>1 DEF Settle, IInv, Typed, Passes, GroupSound
<1>3. /\ item \in Items /\ item.todo = i.todo /\ item.round = i.round /\ item.period = i.period
      /\ item.st = st /\ i.todo \in Todos
  BY <1>2 DEF Items
<1> HIDE DEF item
<1>4. /\ G \in SUBSET Items /\ item \in G
      /\ \A j \in patrol.group : j.st = "done" => j \in G
      /\ \A j, k \in G : j.todo = k.todo => j = k
      /\ \A j \in G : \E k \in patrol.group :
           /\ k.todo = j.todo /\ k.round = j.round /\ k.period = j.period
           /\ k.st = "done" => j.st = "done"
  BY <1>1, <1>2, <1>3
<1> HIDE DEF G
<1>5. CASE told' = told
  <2>1. told' = ToldBy({}) /\ {} \in SUBSET Todos
    BY <1>5, NobodyTold DEF IInv
  <2> QED BY <1>1, <1>2, <1>4, <2>1, MessagesPreserve
<1>6. CASE st = "done" /\ told' = ToldBy({i.todo})
  <2>1. /\ {i.todo} \in SUBSET Todos
        /\ \A t \in {i.todo} : /\ \E j \in patrol.group : j.todo = t /\ j.st # "done"
                               /\ \E j \in G : j.todo = t /\ j.st = "done"
    BY <1>1, <1>3, <1>4, <1>6
  <2> QED BY <1>1, <1>2, <1>4, <1>6, <2>1, MessagesPreserve
<1> QED BY <1>1, <1>5, <1>6

LEMMA SendPreserves == IInv /\ SendCard => IInv'
<1> SUFFICES ASSUME IInv, SendCard PROVE IInv'
  OBVIOUS
<1> DEFINE Done(i) == [i EXCEPT !.st = "done"]
           G == (patrol.group \ OnCard) \cup {Done(i) : i \in OnCard}
           ts == {i.todo : i \in OnCard}
<1>1. /\ patrol.pc = "flush" /\ (told' = told \/ told' = ToldBy(ts))
      /\ patrol' = [patrol EXCEPT !.group = G]
      /\ UNCHANGED <<todo, rule, receipts, client, switch, faults>>
  BY DEF SendCard, OnCard, Flushing
<1>2. /\ patrol.group \subseteq Items /\ \A j, k \in patrol.group : j.todo = k.todo => j = k
      /\ OnCard \subseteq patrol.group /\ \A i \in OnCard : i.st = "card"
  BY DEF IInv, Typed, Passes, GroupSound, OnCard, Flushing
<1>3. \A i \in OnCard : /\ Done(i) \in Items /\ Done(i).todo = i.todo /\ Done(i).round = i.round
                        /\ Done(i).period = i.period /\ Done(i).st = "done" /\ i.todo \in Todos
  BY <1>2 DEF Items
<1> HIDE DEF Done
<1>4. /\ G \in SUBSET Items
      /\ \A j \in patrol.group : j.st = "done" => j \in G
      /\ \A j \in G : \E k \in patrol.group :
           /\ k.todo = j.todo /\ k.round = j.round /\ k.period = j.period
           /\ k.st = "done" => j.st = "done"
  BY <1>2, <1>3
<1>5. ASSUME NEW j \in G, NEW k \in G, j.todo = k.todo PROVE j = k
  <2>1. CASE j \in OnCard \/ k \in OnCard
    BY <2>1, <1>2, <1>3, <1>5
  <2>2. CASE j \notin OnCard /\ k \notin OnCard
    BY <2>2, <1>2, <1>3, <1>5
  <2> QED BY <2>1, <2>2
<1>6. CASE told' = told
  <2>1. told' = ToldBy({}) /\ {} \in SUBSET Todos
    BY <1>6, NobodyTold DEF IInv
  <2> HIDE DEF G
  <2> QED BY <1>1, <1>4, <1>5, <2>1, MessagesPreserve
<1>7. CASE told' = ToldBy(ts)
  <2>1. ts \in SUBSET Todos
    BY <1>3
  <2>2. \A t \in ts : /\ \E j \in patrol.group : j.todo = t /\ j.st # "done"
                      /\ \E j \in G : j.todo = t /\ j.st = "done"
    BY <1>2, <1>3
  <2> HIDE DEF G, ts
  <2> QED BY <1>1, <1>4, <1>5, <1>7, <2>1, <2>2, MessagesPreserve
<1> QED BY <1>1, <1>6, <1>7

\* An answer that is lost is a fault, and tells nobody of more than one card.
LEMMA AnswerLostPreserves == IInv /\ AnswerLost => IInv'
<1> SUFFICES ASSUME IInv, AnswerLost PROVE IInv'
  OBVIOUS
<1>1. PICK ts \in SUBSET Todos : told' = CardOnly(ts)
  <2>1. patrol.group \subseteq Items /\ OnCard \subseteq Items /\ Flushing("new") \subseteq Items
    BY DEF IInv, Typed, Passes, OnCard, Flushing
  <2>2. \A i \in Items : i.todo \in Todos
    BY DEF Items
  <2> QED BY <2>1, <2>2 DEF AnswerLost
<1>2. /\ UNCHANGED <<todo, rule, receipts, patrol, client, switch>>
      /\ faults' = faults + 1 /\ faults \in Nat /\ faults' \in 0..MaxFaults
      /\ told \in [Todos -> Histories]
  BY BoundAssumption DEF AnswerLost, IInv, Typed
<1>3. /\ told' \in [Todos -> Histories]
      /\ \A t \in Todos : /\ told[t].cards \in Nat /\ told'[t].cards \in Nat
                          /\ told'[t].cards <= told[t].cards + 1
                          /\ told'[t].late = told[t].late /\ told'[t].result = told[t].result
  <2> SUFFICES ASSUME NEW t \in Todos
               PROVE  /\ told'[t] \in Histories
                      /\ told[t].cards \in Nat /\ told'[t].cards \in Nat
                      /\ told'[t].cards <= told[t].cards + 1
                      /\ told'[t].late = told[t].late /\ told'[t].result = told[t].result
    BY <1>1 DEF CardOnly
  <2>1. told[t] \in Histories
    BY <1>2
  <2>2. CASE t \in ts
    <3>1. told'[t] = [told[t] EXCEPT !.cards = @ + 1]
      BY <1>1, <2>2 DEF CardOnly
    <3> QED BY <2>1, <3>1 DEF Histories
  <2>3. CASE t \notin ts
    <3>1. told'[t] = told[t]
      BY <1>1, <2>3 DEF CardOnly
    <3> QED BY <2>1, <3>1 DEF Histories
  <2> QED BY <2>2, <2>3
<1>4. Typed'
  BY <1>2, <1>3 DEF IInv, Typed, Created
<1>5. ReceiptsSound' /\ ExpiredWasCalled' /\ QueueSound' /\ WorkSound' /\ GroupSound'
  <2>1. ReceiptsSound' /\ ExpiredWasCalled'
    BY <1>2, RecordsStay DEF Advances
  <2>2. QueueSound'
    BY <1>2 DEF IInv, QueueSound, Created
  <2>3. WorkSound'
    BY <1>2 DEF IInv, WorkSound, Recorded, Current
  <2>4. GroupSound'
    BY <1>2 DEF IInv, GroupSound, Recorded, Created
  <2> QED BY <2>1, <2>2, <2>3, <2>4
<1>6. CardsSound'
  <2>1. \A t \in Todos : /\ \A n \in 0..2 : Kept(t, n)' = Kept(t, n) /\ Kept(t, n) \in 0..1
                         /\ OnItsWay(t)' = OnItsWay(t) /\ OnItsWay(t) \in 0..1
    BY <1>2 DEF Kept, OnItsWay, Recorded
  <2> QED BY <1>2, <1>3, <2>1 DEF IInv, CardsSound
<1>7. LateSound'
  BY <1>2, <1>3 DEF IInv, LateSound, Closed
<1>8. ResultsSound'
  BY <1>2, <1>3 DEF IInv, ResultsSound, Typed, Closed
<1> QED BY <1>4, <1>5, <1>6, <1>7, <1>8 DEF IInv

LEMMA RecordPreserves == IInv /\ Record => IInv'
<1> SUFFICES ASSUME IInv, Record PROVE IInv'
  OBVIOUS
<1>1. PICK i \in patrol.group :
        /\ patrol.pc = "flush"
        /\ receipts' = receipts \cup {[todo |-> i.todo, round |-> i.round,
                                       period |-> i.period, quiet |-> FALSE]}
        /\ patrol' = [patrol EXCEPT !.group = @ \ {i}]
        /\ Messaged /\ UNCHANGED <<todo, rule, client, switch, told, faults>>
  BY DEF Record
<1> DEFINE receipt == [todo |-> i.todo, round |-> i.round, period |-> i.period, quiet |-> FALSE]
<1>2. /\ patrol \in Passes /\ patrol.group \subseteq Items /\ i \in Items
      /\ patrol.queue = <<>> /\ patrol.work = NoWork /\ i.todo \in Todos /\ i.round \in 0..2
      /\ \A j, k \in patrol.group : j.todo = k.todo => j = k
      /\ Created(i.todo) /\ todo[i.todo].flow = "L3" /\ i.period = todo[i.todo].period
      /\ ~Recorded(i.todo, i.round)
  BY <1>1 DEF IInv, Typed, Passes, Items, GroupSound, QueueSound
<1>3. /\ patrol' \in Passes /\ patrol'.pc = "flush" /\ patrol'.queue = <<>>
      /\ patrol'.work = NoWork /\ patrol'.group = patrol.group \ {i} /\ Len(patrol'.queue) = 0
  BY <1>1, <1>2 DEF Passes
<1>4. i.st = "done"
  BY <1>1, <1>2 DEF Messaged, OnCard, Flushing, Items
<1>5. /\ receipt \in Receipts /\ receipt.todo = i.todo /\ receipt.round = i.round
      /\ receipt.period = i.period /\ receipt.quiet = FALSE /\ receipts' = receipts \cup {receipt}
  BY <1>1, <1>2 DEF Receipts, Items
<1> HIDE DEF receipt
<1>6. Typed'
  BY <1>1, <1>3, <1>5 DEF IInv, Typed, Created
<1>7. ReceiptsSound' /\ ExpiredWasCalled'
  <2>1. ReceiptsSound'
    BY <1>1, <1>2, <1>5 DEF IInv, ReceiptsSound, Created
  <2>2. ExpiredWasCalled'
    BY <1>1, <1>5 DEF IInv, ExpiredWasCalled, Recorded
  <2> QED BY <2>1, <2>2
<1>8. \A t \in Todos, n \in 0..2 :
        Recorded(t, n)' <=> Recorded(t, n) \/ (t = i.todo /\ n = i.round)
  BY <1>1, <1>2, <1>5 DEF Recorded
<1>9. QueueSound' /\ WorkSound'
  <2>1. patrol'.work.op = "none"
    BY <1>3 DEF NoWork
  <2>2. WorkSound'
    BY <2>1 DEF WorkSound
  <2>3. QueueSound'
    BY <1>3, <2>1 DEF QueueSound
  <2> QED BY <2>2, <2>3
<1>10. GroupSound'
  <2>1. ASSUME NEW j \in patrol.group \ {i}
        PROVE  /\ Created(j.todo)' /\ todo'[j.todo].flow = "L3" /\ j.period = todo'[j.todo].period
               /\ ~Recorded(j.todo, j.round)'
    <3>1. j.todo # i.todo /\ j.todo \in Todos /\ j.round \in 0..2
      BY <1>2 DEF Items
    <3> QED BY <3>1, <1>1, <1>8 DEF IInv, GroupSound, Created
  <2> QED BY <1>2, <1>3, <2>1 DEF GroupSound
<1>11. CardsSound'
  <2> SUFFICES ASSUME NEW t \in Todos
               PROVE  told'[t].cards <= Kept(t, 0)' + Kept(t, 1)' + Kept(t, 2)' + OnItsWay(t)' + faults'
    BY DEF CardsSound
  <2>1. /\ \A n \in 0..2 : Kept(t, n) \in 0..1 /\ Kept(t, n)' \in 0..1
        /\ OnItsWay(t) \in 0..1 /\ OnItsWay(t)' \in 0..1 /\ told[t].cards \in Nat /\ faults \in Nat
    BY BoundAssumption DEF Kept, OnItsWay, Histories, IInv, Typed
  <2>2. told[t].cards <= Kept(t, 0) + Kept(t, 1) + Kept(t, 2) + OnItsWay(t) + faults
    BY DEF IInv, CardsSound
  <2>3. CASE t = i.todo
    <3>1. Kept(t, i.round) = 0 /\ Kept(t, i.round)' = 1
      BY <2>3, <1>2, <1>8 DEF Kept
    <3>2. \A n \in 0..2 \ {i.round} : Kept(t, n)' = Kept(t, n)
      BY <1>8 DEF Kept
    <3>3. i.round = 0 \/ i.round = 1 \/ i.round = 2
      BY <1>2
    <3> QED BY <2>1, <2>2, <3>1, <3>2, <3>3, <1>1
  <2>4. CASE t # i.todo
    <3>1. \A n \in 0..2 : Kept(t, n)' = Kept(t, n)
      BY <2>4, <1>8 DEF Kept
    <3>2. OnItsWay(t)' = OnItsWay(t)
      BY <2>4, <1>3 DEF OnItsWay
    <3> QED BY <2>1, <2>2, <3>1, <3>2, <1>1
  <2> QED BY <2>3, <2>4
<1>12. LateSound'
  BY <1>1, <1>3 DEF IInv, LateSound, Closed
<1>13. ResultsSound'
  BY <1>1 DEF IInv, ResultsSound, Closed
<1> QED BY <1>6, <1>7, <1>9, <1>10, <1>11, <1>12, <1>13 DEF IInv

\* The pass ends, with nothing in hand but at the price of a fault.
LEMMA RestPreserves ==
  ASSUME IInv, Typed', ResultsSound', patrol' = Resting, UNCHANGED <<todo, receipts, told>>,
         (faults' = faults /\ patrol.group = {}) \/ faults' = faults + 1
  PROVE  IInv'
<1>1. /\ patrol'.pc = "idle" /\ patrol'.queue = <<>> /\ patrol'.work = NoWork /\ patrol'.group = {}
      /\ Len(patrol'.queue) = 0 /\ patrol'.work.op = "none"
  BY DEF Resting, NoWork
<1>2. /\ ReceiptsSound' /\ ExpiredWasCalled'
      /\ \A t \in Todos, n \in 0..2 : Recorded(t, n)' <=> Recorded(t, n)
  BY RecordsStay DEF Advances
<1>3. QueueSound' /\ WorkSound'
  BY <1>1 DEF QueueSound, WorkSound
<1>4. GroupSound'
  BY <1>1 DEF GroupSound
<1>5. CardsSound'
  <2> SUFFICES ASSUME NEW t \in Todos
               PROVE  told'[t].cards <= Kept(t, 0)' + Kept(t, 1)' + Kept(t, 2)' + OnItsWay(t)' + faults'
    BY DEF CardsSound
  <2>1. /\ \A n \in 0..2 : Kept(t, n) \in 0..1 /\ Kept(t, n)' = Kept(t, n)
        /\ OnItsWay(t) \in 0..1 /\ OnItsWay(t)' = 0 /\ told[t].cards \in Nat /\ faults \in Nat
    BY <1>1, <1>2, BoundAssumption DEF Kept, OnItsWay, Histories, IInv, Typed
  <2>2. told[t].cards <= Kept(t, 0) + Kept(t, 1) + Kept(t, 2) + OnItsWay(t) + faults
    BY DEF IInv, CardsSound
  <2>3. patrol.group = {} => OnItsWay(t) = 0
    BY DEF OnItsWay
  <2> QED BY <2>1, <2>2, <2>3
<1>6. LateSound'
  BY <1>1 DEF IInv, LateSound, Closed
<1> QED BY <1>2, <1>3, <1>4, <1>5, <1>6 DEF IInv

LEMMA EndPreserves == IInv /\ (RecordFails \/ EndPass \/ Crash) => IInv'
<1> SUFFICES ASSUME IInv, RecordFails \/ EndPass \/ Crash PROVE IInv'
  OBVIOUS
<1>1. Resting \in Passes
  BY DEF Resting, NoWork, Passes, Works
<1>2. /\ patrol' = Resting /\ UNCHANGED <<todo, rule, receipts, told>>
      /\ faults' \in 0..MaxFaults
      /\ (faults' = faults /\ patrol.group = {}) \/ faults' = faults + 1
      /\ \/ client' = client /\ switch' = switch
         \/ client' = [c \in Clients |-> NoRequest] /\ switch' = "idle"
  <2>1. faults \in 0..MaxFaults
    BY DEF IInv, Typed
  <2> QED BY <2>1, BoundAssumption DEF RecordFails, EndPass, Crash
<1>3. CASE client' = client /\ switch' = switch
  <2>1. Typed'
    BY <1>1, <1>2, <1>3 DEF IInv, Typed, Created
  <2>2. ResultsSound'
    BY <1>2, <1>3, ResultsStay
  <2> QED BY <1>2, <2>1, <2>2, RestPreserves
<1>4. CASE client' = [c \in Clients |-> NoRequest] /\ switch' = "idle"
  <2>1. NoRequest \in ClientStates /\ NoRequest.pc = "idle"
    BY DEF NoRequest, ClientStates
  <2>2. Typed'
    BY <1>1, <1>2, <1>4, <2>1 DEF IInv, Typed, Created
  <2>3. ResultsSound'
    BY <1>2, <1>4, <2>1, ResultsStay
  <2> QED BY <1>2, <2>2, <2>3, RestPreserves
<1> QED BY <1>2, <1>3, <1>4

LEMMA FlushPreserves == IInv /\ StartFlush => IInv'
<1> SUFFICES ASSUME IInv, StartFlush PROVE IInv'
  OBVIOUS
<1>1. /\ patrol.pc = "scan" /\ patrol.queue = <<>> /\ patrol' = [patrol EXCEPT !.pc = "flush"]
      /\ UNCHANGED <<todo, rule, receipts, client, switch, told, faults>>
      /\ patrol \in Passes /\ patrol.work = NoWork
  BY DEF StartFlush, IInv, Typed, QueueSound
<1>2. /\ patrol' \in Passes /\ patrol'.pc = "flush" /\ patrol'.queue = <<>>
      /\ patrol'.work = NoWork /\ patrol'.group = patrol.group /\ Len(patrol'.queue) = 0
  BY <1>1 DEF Passes
<1>3. Typed'
  BY <1>1, <1>2 DEF IInv, Typed, Created
<1>4. ReceiptsSound' /\ ExpiredWasCalled' /\ \A t \in Todos, n \in 0..2 : Recorded(t, n)' <=> Recorded(t, n)
  BY <1>1, RecordsStay DEF Advances
<1>5. QueueSound' /\ WorkSound'
  <2>1. patrol'.work.op = "none"
    BY <1>2 DEF NoWork
  <2>2. WorkSound'
    BY <2>1 DEF WorkSound
  <2>3. QueueSound'
    BY <1>2, <2>1 DEF QueueSound
  <2> QED BY <2>2, <2>3
<1>6. GroupSound'
  <2>1. \A i \in patrol.group : i.todo \in Todos /\ i.round \in 0..2
    BY <1>1 DEF Passes, Items
  <2> QED BY <1>1, <1>2, <1>4, <2>1 DEF IInv, GroupSound, Created
<1>7. CardsSound'
  BY <1>1, <1>2, <1>4 DEF IInv, CardsSound, Kept, OnItsWay
<1>8. LateSound' /\ ResultsSound'
  BY <1>1, <1>2 DEF IInv, LateSound, ResultsSound, Closed
<1> QED BY <1>3, <1>4, <1>5, <1>6, <1>7, <1>8 DEF IInv

LEMMA ResultPreserves == \A c \in Clients : IInv /\ SendResult(c) => IInv'
<1> SUFFICES ASSUME NEW c \in Clients, IInv, SendResult(c) PROVE IInv'
  OBVIOUS
<1> DEFINE t == client[c].todo
<1>1. /\ client[c].pc = "send" /\ client' = [client EXCEPT ![c] = NoRequest]
      /\ UNCHANGED <<todo, rule, receipts, patrol, switch, faults>>
      /\ told \in [Todos -> Histories] /\ client \in [Clients -> ClientStates] /\ t \in Todos
      /\ NoRequest \in ClientStates /\ NoRequest.pc = "idle"
  BY DEF SendResult, IInv, Typed, NoRequest, ClientStates
<1>2. /\ todo[t].terminal # "none" /\ todo[t].terminal = client[c].terminal /\ told[t].result = {}
      /\ \A d \in Clients : client[d].pc = "send" /\ client[d].todo = t => d = c
  BY <1>1 DEF IInv, ResultsSound, Closed
<1>3. client[c].terminal \in ClientTerminals
  BY <1>1, <1>2 DEF ClientStates
<1>4. /\ told' \in [Todos -> Histories]
      /\ \A u \in Todos : told'[u].cards = told[u].cards /\ told'[u].late = told[u].late
      /\ \A u \in Todos \ {t} : told'[u].result = told[u].result
      /\ \A x \in told'[t].result : x = <<c, client[c].terminal>>
  <2>1. CASE told' = told
    BY <1>1, <1>2, <2>1
  <2>2. CASE told' = [told EXCEPT ![t].result = @ \cup {<<c, client[c].terminal>>}]
    <3> DEFINE history == [told[t] EXCEPT !.result = @ \cup {<<c, client[c].terminal>>}]
    <3>1. told[t] \in Histories /\ told' = [told EXCEPT ![t] = history]
      BY <1>1, <2>2
    <3> HIDE DEF t
    <3>2. /\ history \in Histories /\ history.cards = told[t].cards /\ history.late = told[t].late
          /\ history.result = {<<c, client[c].terminal>>}
      BY <1>2, <1>3, <3>1 DEF Histories
    <3> HIDE DEF history
    <3> QED BY <1>1, <3>1, <3>2
  <2> QED BY <2>1, <2>2 DEF SendResult
<1> HIDE DEF t
<1>5. /\ client'[c].pc = "idle" /\ client' \in [Clients -> ClientStates]
      /\ \A d \in Clients : d # c => client'[d] = client[d]
  BY <1>1
<1>6. Typed'
  BY <1>1, <1>4, <1>5 DEF IInv, Typed, Created
<1>7. ReceiptsSound' /\ ExpiredWasCalled' /\ QueueSound' /\ WorkSound' /\ GroupSound'
  <2>1. ReceiptsSound' /\ ExpiredWasCalled'
    BY <1>1, RecordsStay DEF Advances
  <2>2. QueueSound'
    BY <1>1 DEF IInv, QueueSound, Created
  <2>3. WorkSound'
    BY <1>1 DEF IInv, WorkSound, Recorded, Current
  <2>4. GroupSound'
    BY <1>1 DEF IInv, GroupSound, Recorded, Created
  <2> QED BY <2>1, <2>2, <2>3, <2>4
<1>8. CardsSound' /\ LateSound'
  <2>1. \A u \in Todos : /\ \A n \in 0..2 : Kept(u, n)' = Kept(u, n)
                         /\ OnItsWay(u)' = OnItsWay(u)
    BY <1>1 DEF Kept, OnItsWay, Recorded
  <2>2. CardsSound'
    BY <1>1, <1>4, <2>1 DEF IInv, CardsSound
  <2>3. LateSound'
    BY <1>1, <1>4 DEF IInv, LateSound, Closed
  <2> QED BY <2>2, <2>3
<1>9. ResultsSound'
  <2>1. \A u \in Todos :
          /\ told'[u].result # {} => Closed(u)
          /\ \A x, y \in told'[u].result : x = y
          /\ \A x \in told'[u].result : x[2] = todo[u].terminal
    <3> SUFFICES ASSUME NEW u \in Todos
                 PROVE  /\ told'[u].result # {} => Closed(u)
                        /\ \A x, y \in told'[u].result : x = y
                        /\ \A x \in told'[u].result : x[2] = todo[u].terminal
      OBVIOUS
    <3>1. CASE u = t
      BY <3>1, <1>2, <1>4 DEF Closed
    <3>2. CASE u # t
      BY <3>2, <1>4 DEF IInv, ResultsSound
    <3> QED BY <3>1, <3>2
  <2>2. ASSUME NEW d \in Clients, client'[d].pc = "send"
        PROVE  /\ Closed(client[d].todo) /\ client'[d] = client[d]
               /\ todo[client[d].todo].terminal = client[d].terminal
               /\ told'[client[d].todo].result = {}
               /\ \A e \in Clients :
                    client'[e].pc = "send" /\ client'[e].todo = client[d].todo => e = d
    <3>1. d # c /\ client'[d] = client[d] /\ client[d].pc = "send"
      BY <1>5, <2>2
    <3>2. /\ Closed(client[d].todo) /\ client[d].todo \in Todos
          /\ todo[client[d].todo].terminal = client[d].terminal
          /\ told[client[d].todo].result = {}
          /\ \A e \in Clients : client[e].pc = "send" /\ client[e].todo = client[d].todo => e = d
      BY <3>1 DEF IInv, ResultsSound, Typed
    <3>3. client[d].todo # t
      BY <1>2, <3>1
    <3> QED BY <1>4, <1>5, <3>1, <3>2, <3>3
  <2> QED BY <1>1, <2>1, <2>2 DEF ResultsSound, Closed
<1> QED BY <1>6, <1>7, <1>8, <1>9 DEF IInv

-------------------------------------------------------------------------------
(* The patrol: it looks at a todo.                                         *)

\* No call of the todo that the pass looks at is in the buffer.
LEMMA LookFacts ==
  ASSUME IInv, patrol.work = NoWork, patrol.queue # <<>>
  PROVE  /\ patrol \in Passes /\ patrol.pc = "scan" /\ Current \in Todos /\ Created(Current)
         /\ todo[Current] \in TodoRows /\ Head(patrol.queue) = patrol.queue[1]
         /\ 1 \in 1..Len(patrol.queue) /\ Current = patrol.queue[1].todo
         /\ patrol.queue[1].flow \in Flows
         /\ \A i \in patrol.group : \A k \in 1..Len(patrol.queue) : patrol.queue[k].todo # i.todo
         /\ \A k \in 1..Len(patrol.queue) : patrol.queue[k].todo = Current => k = 1
<1>1. /\ Typed /\ patrol \in Passes /\ patrol.pc = "scan"
      /\ todo \in [Todos -> TodoRows] /\ patrol.work.op = "none"
  BY DEF IInv, Typed, QueueSound, NoWork
<1>2. /\ Current \in Todos /\ 1 \in 1..Len(patrol.queue) /\ Current = patrol.queue[1].todo
      /\ patrol.queue[1].flow \in Flows
  BY <1>1, QueueFacts
<1>3. Created(Current) /\ \A k \in 1..Len(patrol.queue) : patrol.queue[k].todo = Current => k = 1
  BY <1>2 DEF IInv, QueueSound
<1>4. \A i \in patrol.group : \A k \in 1..Len(patrol.queue) : patrol.queue[k].todo # i.todo
  BY <1>1 DEF IInv, GroupSound
<1>5. Head(patrol.queue) = patrol.queue[1]
  BY <1>1 DEF Passes
<1> QED BY <1>1, <1>2, <1>3, <1>4, <1>5

\* What the pass may come to have in hand for the todo it looked at.
WorkFits(work) ==
  /\ work \in Works /\ work.op # "none"
  /\ work.op = "to L2" => todo[Current].flow # "L3"
  /\ work.op = "to L3" => todo[Current].flow = "L2"
  /\ work.op \in {"bump", "log", "expire"} => todo[Current].flow = "L3"
  /\ work.op = "log" => todo[Current].level \notin Urgent
  /\ work.op = "expire" => Recorded(Current, 0)

LEMMA WorkPreserves ==
  ASSUME IInv, patrol.work = NoWork, patrol.queue # <<>>,
         NEW work, WorkFits(work), NEW G \in SUBSET Items,
         patrol' = [patrol EXCEPT !.group = G, !.work = work],
         \/ G = patrol.group
         \/ \E round \in 0..2 : /\ G = patrol.group \cup {Item(Current, round)}
                                /\ ~Recorded(Current, round) /\ work.op = "bump",
         UNCHANGED <<todo, rule, receipts, client, switch, told, faults>>
  PROVE  IInv'
<1>1. /\ patrol \in Passes /\ patrol.pc = "scan" /\ Current \in Todos /\ Created(Current)
      /\ todo[Current] \in TodoRows
      /\ 1 \in 1..Len(patrol.queue) /\ Current = patrol.queue[1].todo
      /\ \A i \in patrol.group : \A k \in 1..Len(patrol.queue) : patrol.queue[k].todo # i.todo
      /\ \A k \in 1..Len(patrol.queue) : patrol.queue[k].todo = Current => k = 1
  BY LookFacts
<1>2. /\ patrol' \in Passes /\ patrol'.pc = "scan" /\ patrol'.queue = patrol.queue
      /\ patrol'.work = work /\ patrol'.group = G /\ Current' = Current
  BY <1>1 DEF Passes, WorkFits, Current
<1>3. ASSUME NEW i \in G
      PROVE  \/ i \in patrol.group
             \/ /\ i.todo = Current /\ i.round \in 0..2 /\ i.period = todo[Current].period
                /\ i.st # "done" /\ ~Recorded(Current, i.round) /\ work.op = "bump"
  BY DEF Item
<1>4. Typed'
  BY <1>2 DEF IInv, Typed, Created
<1>5. ReceiptsSound' /\ ExpiredWasCalled' /\ \A t \in Todos, n \in 0..2 : Recorded(t, n)' <=> Recorded(t, n)
  BY RecordsStay DEF Advances
<1>6. QueueSound'
  <2>1. patrol'.pc = "scan" /\ patrol'.work.op # "none" /\ patrol'.queue = patrol.queue
    BY <1>2 DEF WorkFits
  <2>2. \A i \in 1..Len(patrol.queue) : Created(patrol.queue[i].todo)' <=> Created(patrol.queue[i].todo)
    BY DEF Created
  <2> QED BY <2>1, <2>2 DEF IInv, QueueSound
<1>7. WorkSound'
  <2>1. Recorded(Current, 0)' <=> Recorded(Current, 0)
    BY <1>1, <1>2, <1>5
  <2> QED BY <1>1, <1>2, <2>1 DEF WorkSound, WorkFits
<1>8. GroupSound'
  <2>1. ASSUME NEW i \in G
        PROVE  /\ Created(i.todo)' /\ todo'[i.todo].flow = "L3" /\ i.period = todo'[i.todo].period
               /\ ~Recorded(i.todo, i.round)'
               /\ \A k \in 1..Len(patrol.queue) :
                    patrol.queue[k].todo = i.todo => k = 1 /\ work.op = "bump"
    <3>1. i.todo \in Todos /\ i.round \in 0..2
      BY DEF Items
    <3>2. CASE i \in patrol.group
      BY <3>1, <3>2, <1>1, <1>5 DEF IInv, GroupSound, Created
    <3>3. CASE i \notin patrol.group
      BY <3>1, <3>3, <1>1, <1>3, <1>5 DEF WorkFits, Created
    <3> QED BY <3>2, <3>3
  <2>2. ASSUME NEW i \in G, NEW j \in G, i.todo = j.todo PROVE i = j
    <3>1. CASE i \in patrol.group /\ j \in patrol.group
      BY <2>2, <3>1 DEF IInv, GroupSound
    <3>2. CASE ~(i \in patrol.group /\ j \in patrol.group)
      <4>1. PICK round \in 0..2 : G = patrol.group \cup {Item(Current, round)}
        BY <3>2
      <4>2. Item(Current, round).todo = Current
        BY DEF Item
      <4> QED BY <2>2, <3>2, <4>1, <4>2, <1>1
    <3> QED BY <3>1, <3>2
  <2> QED BY <1>2, <2>1, <2>2 DEF GroupSound
<1>9. CardsSound'
  <2>1. \A t \in Todos : OnItsWay(t)' = OnItsWay(t)
    BY <1>2, <1>3 DEF OnItsWay
  <2>2. \A t \in Todos, n \in 0..2 : Kept(t, n)' = Kept(t, n)
    BY <1>5 DEF Kept
  <2> QED BY <2>1, <2>2 DEF IInv, CardsSound
<1>10. LateSound'
  BY <1>1, <1>2, <1>3 DEF IInv, LateSound, Closed
<1>11. ResultsSound'
  BY DEF IInv, ResultsSound, Closed
<1> QED BY <1>4, <1>5, <1>6, <1>7, <1>8, <1>9, <1>10, <1>11 DEF IInv

\* A call out of a round that is not on record.
LEMMA CallPreserves ==
  ASSUME IInv, patrol.work = NoWork, patrol.queue # <<>>, todo[Current].flow = "L3",
         NEW round \in 0..2, ~Recorded(Current, round), CallOut(Current, round),
         UNCHANGED <<todo, rule, receipts, client, switch, told, faults>>
  PROVE  IInv'
<1> DEFINE work == [op |-> "bump", count |-> todo[Current].count]
           G == patrol.group \cup {Item(Current, round)}
<1>1. Current \in Todos /\ todo[Current] \in TodoRows /\ patrol.group \subseteq Items
  BY LookFacts DEF Passes
<1>2. WorkFits(work)
  BY <1>1 DEF WorkFits, Works, TodoRows
<1>3. G \in SUBSET Items
  BY <1>1 DEF Item, Items, TodoRows
<1>4. patrol' = [patrol EXCEPT !.group = G, !.work = work]
  BY DEF CallOut
<1> HIDE DEF work
<1>5. work.op = "bump"
  BY DEF work
<1> QED BY <1>2, <1>3, <1>4, <1>5, WorkPreserves

LEMMA LookPreserves == IInv /\ Look => IInv'
<1> SUFFICES ASSUME IInv, Look PROVE IInv'
  OBVIOUS
<1> DEFINE t == Current
<1>1. /\ patrol.work = NoWork /\ patrol.queue # <<>>
      /\ UNCHANGED <<todo, rule, receipts, client, switch, told, faults>>
  BY DEF Look
<1>2. /\ patrol \in Passes /\ t \in Todos /\ todo[t] \in TodoRows /\ patrol.group \in SUBSET Items
      /\ Head(patrol.queue) = patrol.queue[1] /\ 1 \in 1..Len(patrol.queue)
      /\ t = patrol.queue[1].todo /\ patrol.queue[1].flow \in Flows
  BY <1>1, LookFacts DEF Passes
<1>3. PICK flow \in {Head(patrol.queue).flow, todo[t].flow} :
       \/ /\ flow # "L3"
          /\ patrol' = [patrol EXCEPT !.work = [NoWork EXCEPT
               !.op = IF flow = "L1" THEN "to L2" ELSE "to L3"]]
       \/ /\ flow = "L3" /\ MayWait(t)
          /\ patrol' = NextTodo
       \/ /\ flow = "L3" /\ CalledOut(t)
          /\ RemindOrExpire(t)
       \/ /\ flow = "L3" /\ ~CalledOut(t)
          /\ IF todo[t].level \notin Urgent /\ ~todo[t].agent
               THEN patrol' = [patrol EXCEPT !.work = [op |-> "log", count |-> todo[t].count]]
               ELSE CallOut(t, 0)
  BY DEF Look
<1>4. /\ flow \in Flows /\ todo[t].flow \in Flows
      /\ (todo[t].flow = "L3") = (flow = "L3")
      /\ flow = "L2" => todo[t].flow = "L2"
  <2>1. /\ todo[t].flow = "L3" <=> patrol.queue[1].flow = "L3"
        /\ patrol.queue[1].flow = "L2" => todo[t].flow = "L2"
    BY <1>2 DEF IInv, QueueSound
  <2> QED BY <1>2, <2>1 DEF TodoRows
<1> HIDE DEF t
<1>5. ASSUME NEW work, WorkFits(work), patrol' = [patrol EXCEPT !.work = work]
      PROVE  IInv'
  <2>1. patrol' = [patrol EXCEPT !.group = patrol.group, !.work = work]
    BY <1>2, <1>5 DEF Passes
  <2> QED BY <1>1, <1>2, <1>5, <2>1, WorkPreserves
<1>6. ASSUME patrol' = NextTodo PROVE IInv'
  BY <1>1, <1>6, WorkSkips, FaultsKept
<1>7. ASSUME flow = "L3", NEW round \in 0..2, ~Recorded(t, round), CallOut(t, round) PROVE IInv'
  BY <1>1, <1>4, <1>7, CallPreserves DEF t
<1>8. CASE /\ flow # "L3"
           /\ patrol' = [patrol EXCEPT !.work = [NoWork EXCEPT
                !.op = IF flow = "L1" THEN "to L2" ELSE "to L3"]]
  <2> DEFINE op == IF flow = "L1" THEN "to L2" ELSE "to L3"
             work == [NoWork EXCEPT !.op = op]
  <2>2. /\ op \in {"to L2", "to L3"} /\ todo[t].flow # "L3"
        /\ op = "to L3" => todo[t].flow = "L2"
    BY <1>4, <1>8 DEF Flows
  <2> HIDE DEF op
  <2>1. work \in Works /\ work.op = op
    BY <2>2 DEF NoWork, Works
  <2> HIDE DEF work
  <2>3. WorkFits(work)
    BY <2>1, <2>2 DEF WorkFits, t
  <2> QED BY <1>5, <1>8, <2>3 DEF work, op
<1>9. CASE flow = "L3" /\ CalledOut(t) /\ RemindOrExpire(t)
  <2>1. Recorded(t, 0)
    BY <1>9 DEF CalledOut
  <2>2. CASE patrol' = [patrol EXCEPT !.work = [NoWork EXCEPT !.op = "expire"]]
    <3> DEFINE work == [NoWork EXCEPT !.op = "expire"]
    <3>1. work \in Works /\ work.op = "expire"
      BY DEF NoWork, Works
    <3> HIDE DEF work
    <3>2. WorkFits(work)
      BY <1>4, <1>9, <2>1, <3>1 DEF WorkFits, t
    <3> QED BY <1>5, <2>2, <3>2 DEF work
  <2>3. CASE patrol' = NextTodo
    BY <1>6, <2>3
  <2>4. ASSUME NEW n, n = todo[t].count, n > 0, n < MaxReminds, ~Recorded(t, n), CallOut(t, n)
        PROVE  IInv'
    <3>1. n \in 0..2
      BY <1>2, <2>4 DEF TodoRows, MaxReminds
    <3> QED BY <1>7, <1>9, <2>4, <3>1
  <2> QED BY <1>9, <2>2, <2>3, <2>4 DEF RemindOrExpire
<1>10. CASE /\ flow = "L3" /\ ~CalledOut(t)
            /\ IF todo[t].level \notin Urgent /\ ~todo[t].agent
                 THEN patrol' = [patrol EXCEPT !.work = [op |-> "log", count |-> todo[t].count]]
                 ELSE CallOut(t, 0)
  <2>1. CASE CallOut(t, 0)
    BY <1>7, <1>10, <2>1 DEF CalledOut
  <2>2. CASE /\ todo[t].level \notin Urgent
             /\ patrol' = [patrol EXCEPT !.work = [op |-> "log", count |-> todo[t].count]]
    <3> DEFINE work == [op |-> "log", count |-> todo[t].count]
    <3>1. WorkFits(work)
      BY <1>2, <1>4, <1>10, <2>2 DEF WorkFits, Works, TodoRows, t
    <3> HIDE DEF work
    <3> QED BY <1>5, <2>2, <3>1 DEF work
  <2> QED BY <1>10, <2>1, <2>2
<1> QED BY <1>3, <1>6, <1>8, <1>9, <1>10

LEMMA LogPreserves == IInv /\ Log => IInv'
<1> SUFFICES ASSUME IInv, Log PROVE IInv'
  OBVIOUS
<1> DEFINE t == Current
           receipt == [todo |-> t, round |-> 0, period |-> todo[t].period, quiet |-> TRUE]
<1>1. /\ patrol.work.op = "log" /\ receipts' = receipts \cup {receipt}
      /\ patrol' = [patrol EXCEPT !.work.op = "bump"]
      /\ UNCHANGED <<todo, rule, client, switch, told, faults>>
  BY DEF Log
<1>2. /\ patrol.queue # <<>> /\ patrol.pc = "scan" /\ t \in Todos /\ Created(t)
      /\ 1 \in 1..Len(patrol.queue) /\ t = patrol.queue[1].todo
      /\ todo[t] \in TodoRows /\ todo[t].flow = "L3" /\ todo[t].level \notin Urgent
      /\ patrol \in Passes
  BY <1>1, InHandFacts DEF IInv, WorkSound, Typed
<1>3. /\ receipt \in Receipts /\ receipt.todo = t /\ receipt.round = 0
      /\ receipt.period = todo[t].period /\ receipt.quiet
  BY <1>2 DEF Receipts, TodoRows
<1> HIDE DEF receipt
<1>4. /\ patrol' \in Passes /\ patrol'.pc = patrol.pc /\ patrol'.queue = patrol.queue
      /\ patrol'.work.op = "bump" /\ patrol'.group = patrol.group /\ Current' = Current
  BY <1>1, <1>2 DEF Passes, Works, Current
<1>5. Typed'
  BY <1>1, <1>3, <1>4 DEF IInv, Typed, Created
<1>6. ReceiptsSound' /\ ExpiredWasCalled'
  <2>1. ReceiptsSound'
    BY <1>1, <1>2, <1>3 DEF IInv, ReceiptsSound, Created
  <2>2. ExpiredWasCalled'
    BY <1>1, <1>2, <1>3 DEF IInv, ExpiredWasCalled, Recorded
  <2> QED BY <2>1, <2>2
<1>7. \A u \in Todos, n \in 0..2 : Recorded(u, n)' <=> Recorded(u, n) \/ (u = t /\ n = 0)
  BY <1>1, <1>2, <1>3 DEF Recorded
<1>8. QueueSound'
  BY <1>1, <1>2, <1>4 DEF IInv, QueueSound, Created
<1>9. WorkSound'
  BY <1>1, <1>2, <1>4 DEF WorkSound
<1>10. GroupSound'
  <2>1. \A i \in patrol.group : i.todo # t /\ i.todo \in Todos /\ i.round \in 0..2
    BY <1>1, <1>2 DEF IInv, GroupSound, Passes, Items
  <2>2. \A i \in patrol.group : ~Recorded(i.todo, i.round)'
    BY <1>7, <2>1 DEF IInv, GroupSound
  <2>3. \A i \in patrol.group : \A k \in 1..Len(patrol.queue) : patrol.queue[k].todo # i.todo
    BY <1>1 DEF IInv, GroupSound
  <2> QED BY <1>1, <1>4, <2>2, <2>3 DEF IInv, GroupSound, Created
<1>11. CardsSound'
  <2>1. /\ \A u \in Todos, n \in 0..2 : /\ Kept(u, n) \in 0..1 /\ Kept(u, n)' \in 0..1
                                        /\ Kept(u, n) <= Kept(u, n)'
        /\ \A u \in Todos : OnItsWay(u) \in 0..1 /\ told[u].cards \in Nat
        /\ faults \in Nat
    BY <1>7, BoundAssumption DEF Kept, OnItsWay, IInv, Typed, Histories
  <2>2. \A u \in Todos : OnItsWay(u)' = OnItsWay(u)
    BY <1>4 DEF OnItsWay
  <2> QED BY <1>1, <2>1, <2>2 DEF IInv, CardsSound
<1>12. LateSound' /\ ResultsSound'
  BY <1>1, <1>4 DEF IInv, LateSound, ResultsSound, Closed
<1> QED BY <1>5, <1>6, <1>8, <1>9, <1>10, <1>11, <1>12 DEF IInv

\* A batch has each overdue todo at most once, and what the pass reads of it, too.
LEMMA RowsRead ==
  ASSUME NEW q \in Batches
  PROVE  /\ FirstRows(q) \in Seq(Overdue) /\ DOMAIN FirstRows(q) = 1..Len(FirstRows(q))
         /\ \A i \in 1..Len(FirstRows(q)) : FirstRows(q)[i] = q[i] /\ q[i] \in Overdue
         /\ \A i, j \in 1..Len(FirstRows(q)) : q[i] = q[j] => i = j
<1>1. Cardinality(Overdue) \in Nat
  <2>1. Overdue \subseteq Todos
    BY DEF Overdue
  <2> QED BY <2>1, LimitAssumption, FS_Subset, FS_CardinalityType
<1>2. /\ q \in [1..Cardinality(Overdue) -> Overdue]
      /\ \A i, j \in 1..Cardinality(Overdue) : i # j => q[i] # q[j]
  BY DEF Batches, SetToSeqs
<1>3. q \in Seq(Overdue) /\ Len(q) = Cardinality(Overdue)
  BY <1>1, <1>2
<1> DEFINE m == IF Len(q) < Limit THEN Len(q) ELSE Limit
<1>4. m \in 0..Len(q)
  BY <1>1, <1>3, LimitAssumption
<1> HIDE DEF m
<1>5. \A i \in 1..m : q[i] \in Overdue
  BY <1>2, <1>3, <1>4
<1>6. /\ SubSeq(q, 1, m) \in Seq(Overdue) /\ Len(SubSeq(q, 1, m)) = m
      /\ \A i \in 1..m : SubSeq(q, 1, m)[i] = q[i]
  BY <1>4, <1>5
<1> QED BY <1>2, <1>3, <1>4, <1>5, <1>6 DEF FirstRows, m

LEMMA ScanPreserves == IInv /\ Scan => IInv'
<1> SUFFICES ASSUME IInv, Scan PROVE IInv'
  OBVIOUS
<1>1. PICK q \in Batches :
        patrol' = [Resting EXCEPT !.pc = "scan", !.queue = [i \in DOMAIN FirstRows(q) |->
                    [todo |-> q[i], flow |-> todo[q[i]].flow]]]
  BY DEF Scan
<1>2. /\ patrol.pc = "idle" /\ patrol.group = {}
      /\ UNCHANGED <<todo, rule, receipts, client, switch, told, faults>>
  BY DEF Scan, IInv, QueueSound
<1> DEFINE n == Len(FirstRows(q))
           queue == [i \in 1..n |-> [todo |-> q[i], flow |-> todo[q[i]].flow]]
<1>3. /\ n \in Nat /\ DOMAIN FirstRows(q) = 1..n
      /\ \A i \in 1..n : q[i] \in Todos /\ Open(q[i]) /\ todo[q[i]].flow \in Flows
      /\ \A i, j \in 1..n : q[i] = q[j] => i = j
  <2>1. /\ FirstRows(q) \in Seq(Overdue) /\ DOMAIN FirstRows(q) = 1..n
        /\ \A i \in 1..n : q[i] \in Overdue
        /\ \A i, j \in 1..n : q[i] = q[j] => i = j
    BY RowsRead
  <2>2. n \in Nat
    BY <2>1
  <2>3. \A t \in Overdue : t \in Todos /\ Open(t) /\ todo[t].flow \in Flows
    BY DEF Overdue, IInv, Typed, TodoRows
  <2> QED BY <2>1, <2>2, <2>3
<1> HIDE DEF n
<1>4. /\ queue \in Seq([todo : Todos, flow : Flows]) /\ Len(queue) = n
      /\ \A i \in 1..n : queue[i].todo = q[i] /\ queue[i].flow = todo[q[i]].flow
  <2>1. \A i \in 1..n : [todo |-> q[i], flow |-> todo[q[i]].flow] \in [todo : Todos, flow : Flows]
    BY <1>3
  <2>2. queue \in [1..n -> [todo : Todos, flow : Flows]]
    BY <2>1
  <2>3. \A i \in 1..n : queue[i].todo = q[i] /\ queue[i].flow = todo[q[i]].flow
    BY <1>3
  <2>4. n \in Nat
    BY <1>3
  <2> HIDE DEF queue
  <2>5. queue \in Seq([todo : Todos, flow : Flows]) /\ Len(queue) = n
    <3> DEFINE R == [todo : Todos, flow : Flows]
    <3>1. queue \in [1..n -> R]
      BY <2>2
    <3> HIDE DEF R
    <3>2. queue \in Seq(R) /\ Len(queue) = n
      BY <2>4, <3>1
    <3> QED BY <3>2 DEF R
  <2> QED BY <2>3, <2>5
<1>5. patrol' = [pc |-> "scan", queue |-> queue, work |-> NoWork, group |-> {}]
  BY <1>1, <1>3 DEF Resting
<1> HIDE DEF queue
<1>6. /\ patrol' \in Passes /\ patrol'.pc = "scan" /\ patrol'.queue = queue
      /\ patrol'.work = NoWork /\ patrol'.group = {} /\ patrol'.work.op = "none"
  BY <1>4, <1>5 DEF Passes, NoWork, Works
<1>7. Typed'
  BY <1>2, <1>6 DEF IInv, Typed, Created
<1>8. ReceiptsSound' /\ ExpiredWasCalled' /\ \A t \in Todos, k \in 0..2 : Recorded(t, k)' <=> Recorded(t, k)
  BY <1>2, RecordsStay DEF Advances
<1>9. QueueSound'
  <2>1. \A t \in Todos : Open(t) => todo'[t].level # "none"
    BY <1>2 DEF Open, Created
  <2>2. \A i \in 1..n : /\ todo'[queue[i].todo].level # "none"
                        /\ queue[i].flow = todo'[queue[i].todo].flow
    BY <1>2, <1>3, <1>4, <2>1
  <2>3. \A i, j \in 1..n : queue[i].todo = queue[j].todo => i = j
    BY <1>3, <1>4
  <2> QED BY <1>4, <1>6, <2>2, <2>3 DEF QueueSound, Created
<1>10. WorkSound' /\ GroupSound'
  BY <1>6 DEF WorkSound, GroupSound
<1>11. CardsSound'
  <2>1. \A t \in Todos : OnItsWay(t)' = OnItsWay(t)
    BY <1>2, <1>6 DEF OnItsWay
  <2>2. \A t \in Todos, k \in 0..2 : Kept(t, k)' = Kept(t, k)
    BY <1>8 DEF Kept
  <2> QED BY <1>2, <2>1, <2>2 DEF IInv, CardsSound
<1>12. LateSound'
  BY <1>2, <1>3, <1>4, <1>6 DEF IInv, LateSound, Closed, Open
<1>13. ResultsSound'
  BY <1>2 DEF IInv, ResultsSound, Closed
<1> QED BY <1>7, <1>8, <1>9, <1>10, <1>11, <1>12, <1>13 DEF IInv

-------------------------------------------------------------------------------
LEMMA StepPreserves == IInv /\ [Next]_vars => IInv' /\ \A t \in Todos : Advances(t)
<1> SUFFICES ASSUME IInv, [Next]_vars PROVE IInv' /\ \A t \in Todos : Advances(t)
  OBVIOUS
<1>1. ASSUME todo' = todo PROVE \A t \in Todos : Advances(t)
  BY <1>1 DEF Advances
<1>2. ASSUME NEW t \in Todos, Create(t) \/ Claim(t) \/ TimePasses(t)
      PROVE  IInv' /\ \A u \in Todos : Advances(u)
  BY <1>2, TodosPreserve, CreateRows, ClaimRows, TimeRows DEF RowsOnly
<1>3. CASE Promote \/ Bump \/ Expire \/ StepFails
  BY <1>3, PromotePreserves, BumpPreserves, ExpirePreserves, StepFailsPreserves
<1>4. CASE Scan \/ Look \/ Log
  BY <1>1, <1>4, ScanPreserves, LookPreserves, LogPreserves DEF Scan, Look, Log
<1>5. CASE StartFlush \/ WakeOwner \/ SendCard \/ AnswerLost \/ Record
  BY <1>1, <1>5, FlushPreserves, WakePreserves, SendPreserves, AnswerLostPreserves,
     RecordPreserves
  DEF StartFlush, WakeOwner, SendCard, AnswerLost, Record
<1>6. CASE RecordFails \/ EndPass \/ Crash
  BY <1>1, <1>6, EndPreserves DEF RecordFails, EndPass, Crash
<1>7. ASSUME NEW c \in Clients, CloseReads(c) \/ RequestFails(c) \/ SendResult(c)
      PROVE  IInv' /\ \A t \in Todos : Advances(t)
  BY <1>1, <1>7, ReadsPreserve, ResultPreserves DEF CloseReads, RequestFails, SendResult
<1>8. ASSUME NEW c \in Clients, CloseWrites(c)
      PROVE  IInv' /\ \A t \in Todos : Advances(t)
  BY <1>8, WritesPreserve, WritesRows DEF RowsOnly
<1>9. CASE Disable \/ Enable \/ Cascade \/ Delete \/ SwitchFails
  BY <1>1, <1>9, RulePreserves, CascadeRows DEF RowsOnly, Disable, Enable, Delete, SwitchFails
<1>10. CASE UNCHANGED vars
  <2>1. Typed'
    BY <1>10 DEF vars, IInv, Typed, Created
  <2>2. ResultsSound'
    BY <1>10 DEF vars, IInv, ResultsSound, Closed
  <2>3. faults <= faults'
    BY <1>10, BoundAssumption DEF vars, IInv, Typed
  <2>4. RowsOnly
    BY <1>10, <2>1, RowsStay DEF vars
  <2> QED BY <1>1, <1>10, <2>2, <2>3, <2>4, RowsPreserve DEF vars
<1> QED BY <1>2, <1>3, <1>4, <1>5, <1>6, <1>7, <1>8, <1>9, <1>10 DEF Next, PatrolStep

\* The inductive invariant of the todos and of the pass that works on them.
THEOREM WatchInductive == Spec => []IInv
<1>1. IInv /\ [Next]_vars => IInv'
  BY StepPreserves
<1> QED BY InitIInv, <1>1, PTL DEF Spec

\* What the patrol expires was called out before, and an urgent todo is never
\* recorded without an attempt to tell somebody, whoever closes it meanwhile.
THEOREM ExpiryFollowsCall == Spec => []ExpiredWasCalled
<1>1. IInv => ExpiredWasCalled
  BY DEF IInv
<1> QED BY <1>1, WatchInductive, PTL

\* Nobody is told twice, but for a fault between a card and its record and for a
\* lost answer to a card: a card of each of three rounds, one of a todo closed
\* already, the result of one request.
THEOREM NobodyToldTwice == Spec => []CallsBounded
<1>1. IInv => CallsBounded
  <2> SUFFICES ASSUME IInv, NEW t \in Todos
               PROVE  /\ told[t].cards <= MaxReminds + faults
                      /\ told[t].late <= 1
                      /\ Cardinality(told[t].result) <= 1
                      /\ \A r \in told[t].result : r[2] = todo[t].terminal
    BY DEF CallsBounded
  <2>1. told[t].cards <= MaxReminds + faults
    <3>1. /\ \A n \in 0..2 : Kept(t, n) \in 0..1
          /\ OnItsWay(t) \in 0..1 /\ told[t].cards \in Nat /\ faults \in Nat
          /\ told[t].cards <= Kept(t, 0) + Kept(t, 1) + Kept(t, 2) + OnItsWay(t) + faults
      BY BoundAssumption DEF Kept, OnItsWay, IInv, Typed, Histories, CardsSound
    <3>2. OnItsWay(t) = 1 => \E n \in 0..2 : Kept(t, n) = 0
      BY DEF OnItsWay, Kept, IInv, Typed, Passes, Items, GroupSound
    <3>3. OnItsWay(t) = 1 => Kept(t, 0) = 0 \/ Kept(t, 1) = 0 \/ Kept(t, 2) = 0
      BY <3>2
    <3> QED BY <3>1, <3>3 DEF MaxReminds
  <2>2. Cardinality(told[t].result) <= 1
    <3>1. CASE told[t].result = {}
      BY <3>1, FS_EmptySet
    <3>2. ASSUME NEW x \in told[t].result PROVE Cardinality(told[t].result) <= 1
      <4>1. told[t].result = {x}
        BY DEF IInv, ResultsSound
      <4> QED BY <4>1, FS_Singleton
    <3> QED BY <3>1, <3>2
  <2> QED BY <2>1, <2>2 DEF IInv, LateSound, ResultsSound
<1> QED BY <1>1, WatchInductive, PTL

\* A closed todo never changes again, an open one never falls back a level, and
\* in L3 the period by which the receipts know a call stands still.
THEOREM TodosAdvance == Spec => TodosOnlyAdvance
<1> DEFINE Advance == \A t \in Todos : Created(t) =>
             /\ Closed(t) => todo'[t] = todo[t]
             /\ Rank[todo[t].flow] <= Rank[todo'[t].flow]
             /\ todo[t].flow = "L3" => todo'[t].period = todo[t].period
<1>1. IInv /\ [Next]_vars => [Advance]_vars
  <2> SUFFICES ASSUME IInv, [Next]_vars, NEW t \in Todos, Created(t)
               PROVE  /\ Closed(t) => todo'[t] = todo[t]
                      /\ Rank[todo[t].flow] <= Rank[todo'[t].flow]
                      /\ todo[t].flow = "L3" => todo'[t].period = todo[t].period
    OBVIOUS
  <2>1. Advances(t) /\ todo[t].flow \in Flows /\ todo'[t].flow \in Flows
    BY StepPreserves DEF IInv, Typed, TodoRows
  <2> QED BY <2>1 DEF Advances, Flows, Rank
<1> QED BY <1>1, WatchInductive, PTL DEF Spec, TodosOnlyAdvance
===============================================================================
