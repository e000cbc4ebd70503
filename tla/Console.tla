------------------------------ MODULE Console -------------------------------
(***************************************************************************)
(* What the company does to an institution, and its owner to the modules:  *)
(* status, plan and subscription, the move to a licence of its own, the    *)
(* catalogue of plans.  Source: app/modules/platform/service.py, the       *)
(* modules of app/modules/settings/router.py, convert_to_dedicated.        *)
(*                                                                         *)
(* `granted` is a history variable: the modules an institution was given   *)
(* with its plan, or had added to the plan, or to itself, by the company.  *)
(***************************************************************************)
EXTENDS Tenancy, Sequences

CONSTANTS Catalogue,  \* the plans of the code: the modules of each
          Bundles     \* bound: sets of modules that are asked for

VARIABLES plan,       \* the collection of plans: a partial function
          subs,       \* subs[i]: subscriptions of institution i, oldest first
          granted

commerce == <<plan, subs, granted>>

-----------------------------------------------------------------------------
Plan(p) == <<"plan", p>>
Plans   == DOMAIN Catalogue

OnPlan(p) == {i \in DOMAIN tenant : tenant[i].plan = p}

\* Handlers that write the institution, and clear the cache of their process.
BeginWrite(h, op, w, i, change) ==
    /\ i \in DOMAIN tenant
    /\ Begin(h, op, "write tenant", [claims |-> {Inst(i)}, worker |-> w, inst |-> i,
                                     change |-> change, then |-> "forget"])
    /\ UNCHANGED <<tenancy, commerce>>

SetTenantStatus(h, w, i, s) ==
    BeginWrite(h, "suspend", w, i,
        CASE s = "cancelled" -> [status |-> s, sub |-> "cancelled"]
          [] s = "active"    -> [status |-> s, sub |-> "active"]
          [] OTHER           -> [status |-> s])

\* Of update_tenant's fields, the one that matters here.
UpdateTenant(h, w, i, ms) == BeginWrite(h, "allow", w, i, [modules |-> ms])

-----------------------------------------------------------------------------
(* change_subscription: a plan the console retired still counts.           *)

BeginSubscribe(h, w, i, p, lifetime) ==
    /\ i \in DOMAIN tenant
    /\ Begin(h, "subscribe", "look up plan",
             [claims |-> {Inst(i), Plan(p)}, worker |-> w, inst |-> i, plan |-> p,
              state |-> IF lifetime \/ p = "lifetime" THEN "lifetime" ELSE "active"])
    /\ UNCHANGED <<tenancy, commerce>>

LookUpPlan(h) ==
    /\ pc[h] = "look up plan"
    /\ LET p == req[h].plan  s == req[h].state IN
       IF p \notin DOMAIN plan /\ p \notin Plans THEN Finish(h)
       ELSE Carry(h, "write tenant",
              [claims |-> req[h].claims, worker |-> req[h].worker, inst |-> req[h].inst,
               change |-> [plan |-> p, status |-> "active", sub |-> s,
                           modules |-> IF p \in DOMAIN plan THEN plan[p].modules
                                       ELSE Catalogue[p]],
               then |-> "upsert subscription"])
    /\ UNCHANGED <<tenancy, commerce>>

\* The modules go with the plan; added by the company, they come on top.
WriteTenant(h) ==
    /\ pc[h] = "write tenant"
    /\ LET i == req[h].inst  change == req[h].change IN
       /\ Amend(req[h].worker, i, change)
       /\ granted' = CASE "plan" \in DOMAIN change -> [granted EXCEPT ![i] = change.modules]
                       [] req[h].then = "answer owner" -> granted
                       [] OTHER -> [granted EXCEPT ![i] = granted[i] \cup
                            IF "modules" \in DOMAIN change THEN change.modules ELSE {}]
    /\ Goto(h, IF req[h].then = "answer owner" THEN "forget" ELSE req[h].then)
    /\ UNCHANGED <<cache, clock, heard, plan, subs>>

SubscribedAnew(s, p, state) == {Append(s, [plan |-> p, state |-> state])}
Subscribed(s, p, state) ==
    IF s = <<>> THEN {<<[plan |-> p, state |-> state]>>}
    ELSE {[s EXCEPT ![k] = [plan |-> p, state |-> state]] : k \in DOMAIN s}

UpsertSubscription(h) ==
    /\ pc[h] = "upsert subscription"
    /\ LET i == req[h].inst  c == req[h].change IN
       \E s \in Subscribed(subs[i], c.plan, c.sub) : subs' = [subs EXCEPT ![i] = s]
    /\ Goto(h, "forget")
    /\ UNCHANGED <<tenancy, plan, granted>>

-----------------------------------------------------------------------------
(* convert_to_dedicated.                                                   *)

Convert(h, w, i) ==
    /\ i \in DOMAIN tenant
    /\ Begin(h, "convert", "write tenant",
             [claims |-> {Inst(i)}, worker |-> w, inst |-> i,
              change |-> [dedicated |-> TRUE, plan |-> "lifetime", status |-> "active",
                          sub |-> "lifetime", modules |-> Modules],
              then |-> "end subscriptions"])
    /\ UNCHANGED <<tenancy, commerce>>

EndSubscriptions(h) ==
    /\ pc[h] = "end subscriptions"
    /\ LET i == req[h].inst IN
       subs' = [subs EXCEPT ![i] =
                  [k \in DOMAIN subs[i] |->
                     IF subs[i][k].state \in {"trialing", "active", "past_due"}
                     THEN [plan |-> subs[i][k].plan, state |-> "lifetime"]
                     ELSE subs[i][k]]]
    /\ Goto(h, "forget")
    /\ UNCHANGED <<tenancy, plan, granted>>

-----------------------------------------------------------------------------
(* update_modules, once the owner's request has the institution's word.    *)

AllowedAnything(word) == Modules

\* Without a plan on file, what is switched on is all there is.
Allowed(word) == IF word.plan \in DOMAIN plan /\ plan[word.plan].modules # {}
                 THEN plan[word.plan].modules ELSE word.modules

Weigh(h) ==
    /\ pc[h] = "weigh"
    /\ LET word == req[h].word
           ms   == req[h].wanted \cup CoreModules
       IN  IF word.dedicated \/ ms \ CoreModules \subseteq Allowed(word)
           THEN Carry(h, "write tenant",
                  [claims |-> req[h].claims, worker |-> req[h].worker, inst |-> req[h].inst,
                   change |-> [modules |-> ms], then |-> "answer owner"])
           ELSE Finish(h)
    /\ UNCHANGED <<tenancy, commerce>>

-----------------------------------------------------------------------------
(* upsert_plan and delete_plan.                                            *)

\* A retired plan stays retired.
UpsertPlan(h, p, ms) ==
    /\ Once(h, "save plan", {Plan(p)})
    /\ plan' = With(plan, p, [modules |-> ms,
                              retired |-> p \in DOMAIN plan /\ plan[p].retired])
    /\ granted' = [i \in DOMAIN granted |-> granted[i] \cup
                     IF i \in OnPlan(p) THEN ms ELSE {}]
    /\ UNCHANGED <<tenancy, subs>>

BeginRetire(h, p) ==
    /\ OnPlan(p) = {}
    /\ Begin(h, "retire plan", "retire plan", [claims |-> {Plan(p)}, plan |-> p])
    /\ UNCHANGED <<tenancy, commerce>>

RetirePlan(h) ==
    /\ pc[h] = "retire plan"
    /\ plan' = [p \in DOMAIN plan |-> IF p = req[h].plan
                  THEN [modules |-> plan[p].modules, retired |-> TRUE] ELSE plan[p]]
    /\ Finish(h)
    /\ UNCHANGED <<tenancy, subs, granted>>

-----------------------------------------------------------------------------
\* What an institution has switched on, outside a licence of its own.
Within(i) == tenant[i].modules \subseteq CoreModules \cup granted[i]

\* Subscriptions, switches, plan edits, conversions and provisioning that ran
\* one after another leave an institution on a plan with modules that it was
\* given: with its plan, by an addition to that plan, or by the company.  An
\* institution whose switch overlapped a change of plan, or went by a cached
\* word of the plan before, is left out here: it may go beyond, and
\* SwitchWithinPlan below says so (platform/service.py change_subscription,
\* settings/router.py update_modules).
NothingUnbought ==
    \A i \in DOMAIN tenant :
      Calm(Inst(i)) /\ Calm(Plan(tenant[i].plan)) /\ ~tenant[i].dedicated => Within(i)

\* "On a shared subscription the plan is the ceiling: a school can switch a
\* module *off*, but cannot switch on something it has not bought"
\* (settings/router.py:131-132), whatever overlaps.
SwitchWithinPlan == \A i \in DOMAIN tenant : ~tenant[i].dedicated => Within(i)
=============================================================================
