------------------------------ MODULE TradingPlan ------------------------------
(***************************************************************************)
(* One trading plan of quantsys-v2 and the watch rules it is compiled to.  *)
(* The write routes run one after another on the event loop, but a request *)
(* is a series of commits: of the plan, of each rule, of each row of the   *)
(* mapping from roles to rules.  The process may die between any two, and  *)
(* a write of a rule that fails is swallowed by the repository.            *)
(*                                                                         *)
(* The rules are not the compiler's alone: the position lifecycle of the   *)
(* watch engine, fills and the rule API write the same rows from threads   *)
(* of their own, between any two of those commits.                         *)
(*                                                                         *)
(* A spec gives the terms of each role, 0 when it has no rule of that role.*)
(* No trade carries a plan's id, so fills never move a plan (on_fill).     *)
(***************************************************************************)
EXTENDS Naturals, Sequences, FiniteSets

CONSTANTS
  MaxEntry,     \* bound: distinct terms of the entry
  MaxExit,      \* bound: distinct terms of the stop loss, and of the reduction
  MaxVersion,   \* bound: versions of the plan
  MaxRules,     \* bound: rules created for it
  MaxBreaks,    \* bound: crashes, failed compilations and lost writes
  MaxWrites     \* bound: writes of the rules by others

ASSUME BoundsAssumption ==
  {MaxEntry, MaxExit, MaxVersion, MaxRules, MaxBreaks, MaxWrites} \subseteq Nat

Roles == {"entry", "stop_loss", "reduce"}
Entries == [{"entry"} -> 0..MaxEntry]
Exits == [{"stop_loss", "reduce"} -> 0..MaxExit]

\* What a patch names replaces what the spec says of it.
Over(patch, spec) == [r \in DOMAIN patch \cup DOMAIN spec |->
  IF r \in DOMAIN patch THEN patch[r] ELSE spec[r]]

Specs == {Over(entry, exit) : entry \in Entries, exit \in Exits}
NoSpec == [r \in {} |-> 0]

\* validate_plan_spec: an exit needs a stop loss or a reduction.
Valid(spec) == spec["stop_loss"] # 0 \/ spec["reduce"] # 0

Legal == [draft |-> {"active"}, active |-> {"holding", "paused", "closed"},
          holding |-> {"closing", "paused"}, closing |-> {"closed", "holding"},
          closed |-> {"archived"}, paused |-> {"active", "closed"}, archived |-> {}]

VARIABLES
  plan,     \* [status, version, spec, draft]: the row of trading_plans
  rules,    \* watch_rules with this plan_id, in the order they were created: a
            \* rule that was deleted keeps its place, with terms 0
  mapping,  \* trading_plan_rules: role -> rule, or 0
  req,      \* the request the event loop is working on
  breaks,
  writes,
  torn,     \* history: the last request was broken off, or lost a write
  taken     \* history: rules that others wrote since the compiler last wrote them
            \* or created another one for their role

planVars == <<plan, rules, mapping, req, breaks, writes, torn, taken>>

\* undo: what the request has updated or retired, for its compensation.
NoReq == [op |-> "none", create |-> {}, linking |-> "none", update |-> {},
          retire |-> {}, before |-> <<>>, undo |-> {}, lost |-> FALSE]

PlanInit ==
  /\ plan \in [status : {"draft"}, version : {1}, spec : {s \in Specs : Valid(s)},
               draft : {NoSpec}]
  /\ rules = <<>> /\ mapping = [r \in Roles |-> 0]
  /\ req = NoReq
  /\ breaks = 0 /\ writes = 0 /\ torn = FALSE /\ taken = {}

Rest == req.op = "none"
Existing == {i \in DOMAIN rules : rules[i].terms # 0}
LiveRules == {i \in DOMAIN rules : rules[i].live}

\* update_fields: a row that is gone is not written.
Written(i, terms, live) ==
  IF i \in Existing THEN [rules EXCEPT ![i].terms = terms, ![i].live = live] ELSE rules

\* Mutant: only the rules that the mapping names.
MappedRules == {i \in LiveRules : \E r \in Roles : mapping[r] = i}

\* list_managed lists every rule with the plan's id, in the mapping or not.
ManagedRules == LiveRules

-------------------------------------------------------------------------------
(* Compilation (PlanCompiler).  An entry or stop loss is looked up with    *)
(* batch None, while the mapping says 0: only a reduction is found again.  *)

Found(r) == r = "reduce" /\ mapping[r] # 0
Wanted(spec) == {r \in Roles : spec[r] # 0}

\* Mutant: a rule that was retired counts as up to date.
ChangedTerms(spec, r) == rules[mapping[r]].terms # spec[r]

Changed(spec, r) == rules[mapping[r]].terms # spec[r] \/ ~rules[mapping[r]].live

\* Rules outside the mapping share one key for the whole plan: of those at most
\* one, whichever the query returned last, is seen.
Unmapped == {i \in Existing : \A r \in Roles : mapping[r] # i}
Seen == IF Unmapped = {} THEN {{}} ELSE {{i} : i \in Unmapped}

\* diff: what the request still has to create, to update and to retire.
Diff(op, spec, orphan) ==
  [op |-> op, linking |-> "none", before |-> rules, undo |-> {}, lost |-> FALSE,
   create |-> {r \in Wanted(spec) : ~Found(r)},
   update |-> {mapping[r] : r \in {x \in Wanted(spec) : Found(x) /\ Changed(spec, x)}},
   retire |-> {mapping[r] : r \in {x \in Roles : mapping[x] # 0
                                               /\ ~(x \in Wanted(spec) /\ Found(x))}}
              \cup orphan]

Compile(op, spec) ==
  /\ Len(rules) + Cardinality(Wanted(spec)) <= MaxRules
  /\ \E orphan \in Seen : req' = Diff(op, spec, orphan)

Compiling == req.op \in {"apply", "activate", "refuse", "realign", "resume"}

\* Roles are created in the order of desired_rules.
RoleRank == [entry |-> 1, stop_loss |-> 2, reduce |-> 3]
NextRole == CHOOSE r \in req.create : \A q \in req.create : RoleRank[r] <= RoleRank[q]

CreateRule ==
  /\ req.create # {} /\ req.linking = "none"
  /\ rules' = Append(rules, [role |-> NextRole, terms |-> plan.spec[NextRole], live |-> TRUE])
  /\ req' = [req EXCEPT !.create = @ \ {NextRole}, !.linking = NextRole]
  /\ taken' = {i \in taken : rules[i].role # NextRole}
  /\ UNCHANGED <<plan, mapping, breaks, writes, torn>>

\* record_rule_mapping: ON CONFLICT DO NOTHING; the foreign key wants the rule.
Linkable == Len(rules) \in Existing

LinkRule ==
  /\ req.linking # "none" /\ Linkable
  /\ mapping' = IF mapping[req.linking] = 0
                  THEN [mapping EXCEPT ![req.linking] = Len(rules)] ELSE mapping
  /\ req' = [req EXCEPT !.linking = "none"]
  /\ UNCHANGED <<plan, rules, breaks, writes, torn, taken>>

\* A rule that has been updated or retired is to be undone if the compilation fails.
SeenTo(i) == [req EXCEPT !.update = @ \ {i}, !.retire = @ \ {i}, !.undo = @ \cup {i}]

AllCreated == req.create = {} /\ req.linking = "none"

UpdateRule ==
  /\ AllCreated
  /\ \E i \in req.update :
       /\ rules' = Written(i, plan.spec[rules[i].role], TRUE)
       /\ req' = SeenTo(i)
       /\ taken' = IF i \in Existing THEN taken \ {i} ELSE taken
  /\ UNCHANGED <<plan, mapping, breaks, writes, torn>>

\* Mutant: the rules that have had their day are retired whenever it suits.
MayRetireAnyTime == req.linking = "none"

MayRetire == AllCreated /\ req.update = {}

\* The retirements of a compilation, of a pause and of a closing.
RetireRule ==
  /\ MayRetire
  /\ \E i \in req.retire :
       /\ rules' = Written(i, rules[i].terms, FALSE)
       /\ req' = SeenTo(i)
       /\ taken' = taken \ {i}
  /\ UNCHANGED <<plan, mapping, breaks, writes, torn>>

\* update_fields returns None when the database refuses, and nobody looks.
LoseWrite ==
  /\ breaks < MaxBreaks /\ breaks' = breaks + 1
  /\ \/ /\ AllCreated
        /\ \E i \in req.update :
             req' = [SeenTo(i) EXCEPT !.lost = TRUE]
     \/ /\ MayRetire
        /\ \E i \in req.retire :
             req' = [SeenTo(i) EXCEPT !.lost = TRUE]
  /\ UNCHANGED <<plan, rules, mapping, writes, torn, taken>>

Finished == AllCreated /\ req.update = {} /\ req.retire = {}

\* The compensation: what was updated or retired gets back what the diff had read
\* of it, and what was created is retired.
Undone == [i \in DOMAIN rules |->
  IF i \notin Existing THEN rules[i]
  ELSE IF i \notin DOMAIN req.before THEN [rules[i] EXCEPT !.live = FALSE]
  ELSE IF i \in req.undo THEN req.before[i] ELSE rules[i]]

\* A write raises, as does the mapping of a rule that is gone: the compilation is
\* undone, but for the mapping.
CompileFails ==
  /\ Compiling /\ ~Finished
  /\ IF req.linking # "none" /\ ~Linkable THEN UNCHANGED breaks
     ELSE breaks < MaxBreaks /\ breaks' = breaks + 1
  /\ rules' = Undone
  /\ req' = NoReq /\ torn' = TRUE
  /\ UNCHANGED <<plan, mapping, writes, taken>>

-------------------------------------------------------------------------------
(* The other writers of the rules.  Whatever else they change of a rule,   *)
(* the compiler compares its terms and whether it is enabled (live).       *)

OthersWrite == writes < MaxWrites /\ writes' = writes + 1

\* PositionLifecycleService retires the exits of an account that does not hold the
\* symbol, once a day and when a fill has sold it out.
RetireExit(i) ==
  /\ rules[i].live /\ rules[i].role # "entry"
  /\ rules' = Written(i, rules[i].terms, FALSE)
  /\ OthersWrite
  /\ taken' = taken \cup {i}
  /\ UNCHANGED <<plan, mapping, req, breaks, torn>>

\* PUT or PATCH of a rule: its conditions, and whether it is enabled, at once or
\* at the end of the day on which it expires.
PatchRule(i, terms, live) ==
  /\ i \in Existing
  /\ OthersWrite
  /\ rules' = Written(i, terms, live)
  /\ taken' = taken \cup {i}
  /\ UNCHANGED <<plan, mapping, req, breaks, torn>>

\* DELETE of a rule takes its row of the mapping along.
DeleteRule(i) ==
  /\ i \in Existing
  /\ OthersWrite
  /\ rules' = Written(i, 0, FALSE)
  /\ mapping' = [r \in Roles |-> IF mapping[r] = i THEN 0 ELSE mapping[r]]
  /\ taken' = taken \cup {i}
  /\ UNCHANGED <<plan, req, breaks, torn>>

-------------------------------------------------------------------------------
(* The routes.  The version a client names is one it has read.             *)

IsCurrent(v) == v = plan.version
Mutable == plan.status \notin {"closed", "archived"}

\* A patch replaces sections: entry, or exit as a whole.
Patches == Entries \cup Exits

Patch(v, patch) ==
  LET merged == Over(patch, IF plan.draft = NoSpec THEN plan.spec ELSE plan.draft)
  IN /\ Rest /\ Mutable
     /\ Valid(merged) /\ IsCurrent(v)
     /\ plan' = [plan EXCEPT !.draft = merged]
     /\ UNCHANGED <<rules, mapping, req, breaks, writes, torn, taken>>

Apply(v) ==
  /\ Rest /\ Mutable
  /\ plan.draft # NoSpec /\ plan.draft # plan.spec
  /\ plan.version < MaxVersion /\ IsCurrent(v)
  /\ plan' = [plan EXCEPT !.spec = plan.draft, !.draft = NoSpec, !.version = @ + 1]
  /\ IF plan.status \in {"active", "holding", "closing"}
       THEN Compile("apply", plan.draft) ELSE UNCHANGED req
  /\ UNCHANGED <<rules, mapping, breaks, writes, torn, taken>>

\* The rules come first, and only then the status, which a stale version refuses.
Activate(v) ==
  /\ Rest /\ plan.status = "draft"
  /\ Compile(IF IsCurrent(v) THEN "activate" ELSE "refuse", plan.spec)
  /\ UNCHANGED <<plan, rules, mapping, breaks, writes, torn, taken>>

Pause ==
  /\ Rest /\ "paused" \in Legal[plan.status]
  /\ plan' = [plan EXCEPT !.status = "paused"]
  /\ req' = [NoReq EXCEPT !.op = "pause", !.retire = ManagedRules]
  /\ UNCHANGED <<rules, mapping, breaks, writes, torn, taken>>

\* The status comes first.  A draft may be resumed too: it becomes active.
Resume(v) ==
  /\ Rest /\ "active" \in Legal[plan.status] /\ IsCurrent(v)
  /\ plan' = [plan EXCEPT !.status = "active"]
  /\ Compile("resume", plan.spec)
  /\ UNCHANGED <<rules, mapping, breaks, writes, torn, taken>>

\* next_close_status; whether the account holds the symbol is up to its trading.
CloseTarget(held) == IF held THEN "closing" ELSE "closed"

Close(held) ==
  /\ Rest /\ CloseTarget(held) \in Legal[plan.status]
  /\ plan' = [plan EXCEPT !.status = CloseTarget(held)]
  /\ req' = [NoReq EXCEPT !.op = "close", !.retire = ManagedRules]
  /\ UNCHANGED <<rules, mapping, breaks, writes, torn, taken>>

Archive ==
  /\ Rest /\ "archived" \in Legal[plan.status]
  /\ plan' = [plan EXCEPT !.status = "archived"]
  /\ UNCHANGED <<rules, mapping, req, breaks, writes, torn, taken>>

\* The answer.  A refused activation compiles the same spec once more, to clean up.
Answer ==
  /\ ~Rest /\ Finished
  /\ IF req.op = "refuse"
       THEN /\ Compile("realign", plan.spec) /\ UNCHANGED <<plan, torn>>
       ELSE /\ plan' = IF req.op = "activate" THEN [plan EXCEPT !.status = "active"] ELSE plan
            /\ req' = NoReq
            /\ torn' = req.lost
  /\ UNCHANGED <<rules, mapping, breaks, writes, taken>>

\* The process dies, or a retirement of a pause or a closing raises.
BreakOff ==
  /\ ~Rest
  /\ breaks < MaxBreaks /\ breaks' = breaks + 1
  /\ req' = NoReq /\ torn' = TRUE
  /\ UNCHANGED <<plan, rules, mapping, writes, taken>>

PlanNext ==
  \/ \E v \in 1..MaxVersion :
       Apply(v) \/ Activate(v) \/ Resume(v) \/ (\E patch \in Patches : Patch(v, patch))
  \/ Pause \/ (\E held \in BOOLEAN : Close(held)) \/ Archive
  \/ CreateRule \/ LinkRule \/ UpdateRule \/ RetireRule \/ Answer
  \/ LoseWrite \/ CompileFails \/ BreakOff
  \/ \E i \in DOMAIN rules :
       \/ RetireExit(i) \/ DeleteRule(i)
       \/ \E terms \in 1..(MaxEntry + MaxExit), live \in BOOLEAN : PatchRule(i, terms, live)

PlanSpec == PlanInit /\ [][PlanNext]_planVars

\* Bound of the run: a fault or a write by others, not both.
OneUpset == breaks + writes <= 1

-------------------------------------------------------------------------------
HasExit(spec) == \E r \in {"stop_loss", "reduce"} : spec[r] # 0

\* Type invariant; a plan has an exit, and the mapping names rules of the right role.
PlanTypeOK ==
  /\ plan \in [status : DOMAIN Legal, version : 1..MaxVersion,
               spec : Specs, draft : Specs \cup {NoSpec}]
  /\ HasExit(plan.spec) /\ (plan.draft # NoSpec => HasExit(plan.draft))
  /\ rules \in Seq([role : Roles, terms : Nat, live : BOOLEAN])
  /\ Len(rules) <= MaxRules
  /\ \A r \in Roles : mapping[r] # 0 => mapping[r] \in Existing /\ rules[mapping[r]].role = r
  /\ req.create \subseteq Roles /\ req.linking \in Roles \cup {"none"}
  /\ req.update \cup req.retire \cup taken \subseteq DOMAIN rules
  /\ torn \in BOOLEAN
  /\ breaks \in 0..MaxBreaks /\ writes \in 0..MaxWrites

\* Between requests an active plan is watched, but for what others took: each role
\* of its spec has a rule that is enabled with the terms of that spec, or one that
\* another writer changed or deleted after the compiler had seen to it.  Whatever
\* they do between its commits, a request never takes a role's rule for good that
\* is not, and the next one puts it right.
ActiveIsWatched ==
  Rest /\ ~torn /\ plan.status = "active" =>
    \A r \in Wanted(plan.spec) :
      \E i \in DOMAIN rules :
        /\ rules[i].role = r
        /\ \/ rules[i].live /\ rules[i].terms = plan.spec[r]
           \/ i \in taken

\* Between requests a plan that was paused or closed has no live rule, however
\* many its recompilations have left behind, but those that another writer has
\* switched on since.
OffIsUnwatched ==
  Rest /\ ~torn /\ plan.status \in {"paused", "closed", "archived"} => LiveRules \subseteq taken

LiveIn(rs, r) == \E i \in DOMAIN rs : rs[i].live /\ rs[i].role = r
TakenOf(r) == {i \in taken : rules[i].role = r}

\* A recompilation of an active plan makes before it breaks: a role that was
\* watched and stays in the spec is watched at every step of it, unless another
\* writer has taken a rule of it, so that neither a crash nor a failed compilation
\* leaves the position without its stop loss.  Not so once it lost a write: the
\* rule it failed to update may be the only one that it did not mean to retire.
RolesNeverLapse ==
  Compiling /\ ~req.lost /\ plan.status = "active" =>
    \A r \in Wanted(plan.spec) : LiveIn(req.before, r) => LiveIn(rules, r) \/ TakenOf(r) # {}

\* state_machine: active is "running: its managed rules are compiled, no position".
\* So a plan that was activated has the rules of its spec before it has a position.
ActiveHasItsRules ==
  Rest /\ ~torn /\ plan.status = "active" => \A r \in Wanted(plan.spec) : LiveIn(rules, r)

\* plan_compiler: the key of a rule is its role and symbol, and compiling the same
\* spec again changes nothing; so a plan has one live rule for a role.
OneRulePerRole ==
  Rest /\ ~torn => \A i, j \in LiveRules : rules[i].role = rules[j].role => i = j
===============================================================================
