---------------------------- MODULE Provisioning ----------------------------
(***************************************************************************)
(* Standing up an institution: a dozen inserts in a row, no transaction.   *)
(* Source: app/modules/tenants/provisioning.py, the signup and create      *)
(* routes of app/modules/platform/router.py.                               *)
(*                                                                         *)
(* `offered` is a history variable: the institutions handed to their owner.*)
(***************************************************************************)
EXTENDS Console

CONSTANTS Presets,     \* the roles every institution starts with
          Defaults,    \* the collections seed_defaults fills
          TrialPlans,  \* plans of the code that begin with a trial
          Founded,     \* the institution there is: its id, slug and plan
          Orders,      \* bound: plan, licence and modules that are asked for
          Doors,       \* bound: keys institutions are looked up by
          Pages        \* bound: modules whose pages are asked for

ASSUME ProvisioningAssumption == \A o \in Orders : o.lifetime \in BOOLEAN

VARIABLES kit,         \* kit[i]: what was inserted for institution i
          offered

founding == <<kit, offered>>
platform == <<tenancy, commerce, founding>>

-----------------------------------------------------------------------------
EmptyKit == [roles |-> {}, owner |-> FALSE, owners |-> 0, year |-> FALSE, defaults |-> {}]
FullKit  == [roles |-> Presets, owner |-> TRUE, owners |-> 1, year |-> TRUE,
             defaults |-> Defaults]

\* A key only the console knows is sold as the trial of the code.
Priced(p)  == IF p \in Plans THEN p ELSE "trial"
OnTrial(p) == Priced(p) \in TrialPlans

\* Of a type that every module suits.
NewTenant(s, p, dedicated, chosen) ==
    [slug |-> s, dedicated |-> dedicated, year |-> FALSE,
     plan |-> IF dedicated THEN "lifetime" ELSE p,
     modules |-> IF dedicated THEN Modules
                 ELSE IF chosen # {} THEN chosen ELSE Catalogue[Priced(p)],
     status |-> IF ~dedicated /\ OnTrial(p) THEN "trial" ELSE "active",
     sub |-> IF dedicated THEN "lifetime"
             ELSE IF OnTrial(p) THEN "trialing" ELSE "active"]

-----------------------------------------------------------------------------
BeginProvision(h, w, i, s, p, dedicated, chosen) ==
    /\ i \notin DOMAIN tenant /\ New(h, Inst(i))
    /\ Matches(BySlug(s)) = {}
    /\ \A j \in Institutions : j < i => j \in DOMAIN tenant \/ ~New(h, Inst(j))  \* bound
    /\ Begin(h, "provision", "insert tenant",
             [claims |-> {Inst(i), BySlug(s)}, worker |-> w, inst |-> i,
              doc |-> NewTenant(s, p, dedicated, chosen)])
    /\ UNCHANGED platform

\* The unique index has the last word on the address.
InsertTenant(h) ==
    /\ pc[h] = "insert tenant"
    /\ LET i == req[h].inst  doc == req[h].doc IN
       IF Matches(BySlug(doc.slug)) # {} THEN Finish(h) /\ UNCHANGED platform
       ELSE /\ tenant'  = With(tenant, i, doc)
            /\ subs'    = With(subs, i, <<>>)
            /\ kit'     = With(kit, i, EmptyKit)
            /\ granted' = With(granted, i, doc.modules \cup
                            IF doc.plan \in DOMAIN plan THEN plan[doc.plan].modules ELSE {})
            /\ Goto(h, "seed role")
            /\ UNCHANGED <<cache, clock, replaced, heard, plan, offered>>

Store(h, change) ==
    /\ kit' = [kit EXCEPT ![req[h].inst] = Amended(kit[req[h].inst], change)]
    /\ UNCHANGED <<tenancy, commerce, offered>>

\* One insert after another: the roles, the owner, ...
SeedRole(h) ==
    /\ pc[h] = "seed role"
    /\ \E r \in Presets \ kit[req[h].inst].roles :
         LET roles == kit[req[h].inst].roles \cup {r} IN
         /\ Store(h, [roles |-> roles])
         /\ Goto(h, IF roles = Presets THEN "insert owner" ELSE "seed role")

InsertOwner(h) == /\ pc[h] = "insert owner"
                  /\ Store(h, [owner |-> TRUE]) /\ Goto(h, "count owner")

CountOwner(h) ==
    /\ pc[h] = "count owner"
    /\ Store(h, [owners |-> kit[req[h].inst].owners + 1]) /\ Goto(h, "insert year")

InsertYear(h) == /\ pc[h] = "insert year"
                 /\ Store(h, [year |-> TRUE]) /\ Goto(h, "set year")

\* ... the year made current on the institution, ...
SetYear(h) ==
    /\ pc[h] = "set year"
    /\ Amend(req[h].worker, req[h].inst, [year |-> TRUE])
    /\ Goto(h, "seed defaults")
    /\ UNCHANGED <<cache, clock, heard, commerce, founding>>

\* ... what a school can start with, ...
SeedDefaults(h) ==
    /\ pc[h] = "seed defaults"
    /\ \E d \in Defaults \ kit[req[h].inst].defaults :
         LET defaults == kit[req[h].inst].defaults \cup {d} IN
         /\ Store(h, [defaults |-> defaults])
         /\ Goto(h, IF defaults # Defaults THEN "seed defaults"
                    ELSE IF req[h].doc.dedicated THEN "hand over"
                    ELSE "insert subscription")

\* ... and what it is billed for.
InsertSubscription(h) ==
    /\ pc[h] = "insert subscription"
    /\ LET i == req[h].inst  p == req[h].doc.plan IN
       subs' = [subs EXCEPT ![i] = Append(subs[i], [plan |-> p,
                  state |-> IF OnTrial(p) THEN "trialing" ELSE "active"])]
    /\ Goto(h, "hand over")
    /\ UNCHANGED <<tenancy, plan, granted, founding>>

HandOver(h) ==
    /\ pc[h] = "hand over"
    /\ cache' = Forgotten(req[h].worker)
    /\ offered' = offered \cup {req[h].inst}
    /\ Finish(h)
    /\ UNCHANGED <<tenant, clock, replaced, heard, commerce, kit>>

-----------------------------------------------------------------------------
PlatformInit ==
    /\ LET doc == [NewTenant(Founded.slug, Founded.plan, FALSE, {}) EXCEPT !.year = TRUE]
           only(x) == [i \in {Founded.inst} |-> x]
       IN  /\ tenant = only(doc) /\ granted = only(doc.modules) /\ kit = only(FullKit)
           /\ subs = only(<<[plan |-> doc.plan, state |-> doc.sub]>>)
    /\ cache = [w \in Workers |-> Nothing] /\ clock = 0
    /\ replaced = {} /\ heard = Nobody
    /\ plan = [p \in Plans |-> [modules |-> Catalogue[p], retired |-> FALSE]]
    /\ offered = {Founded.inst}

ToInstitution(h, w, i) ==
    \/ \E s \in {"active", "suspended", "cancelled"} : SetTenantStatus(h, w, i, s)
    \/ \E ms \in Bundles : UpdateTenant(h, w, i, ms)
    \/ Convert(h, w, i)
    \/ \E o \in Orders : BeginSubscribe(h, w, i, o.plan, o.lifetime)

PlatformArrive(h) ==
    Open(h) /\
      \/ /\ \/ \E w \in Workers, i \in Institutions : ToInstitution(h, w, i)
            \/ \E p \in {o.plan : o \in Orders}, ms \in Bundles \cup {{}} : UpsertPlan(h, p, ms)
            \/ \E p \in Plans : BeginRetire(h, p)
         /\ UNCHANGED founding
      \/ /\ \E w \in Workers, key \in Doors :
              \/ \E m \in Pages : BeginVisit(h, w, key, m)
              \/ \E ms \in Bundles : BeginSwitch(h, w, key, ms)
         /\ UNCHANGED <<commerce, founding>>
      \/ \E w \in Workers, i \in Institutions, s \in Slugs, o \in Orders :
           BeginProvision(h, w, i, s, o.plan, o.lifetime, o.chosen)

PlatformResume(h) ==
    \/ /\ LookUp(h) \/ ReadTenant(h) \/ Remember(h) \/ Forget(h)
       /\ UNCHANGED <<commerce, founding>>
    \/ /\ \/ LookUpPlan(h) \/ WriteTenant(h) \/ UpsertSubscription(h)
          \/ EndSubscriptions(h) \/ Weigh(h) \/ RetirePlan(h)
       /\ UNCHANGED founding
    \/ InsertTenant(h) \/ SeedRole(h) \/ InsertOwner(h) \/ CountOwner(h) \/ InsertYear(h)
    \/ SetYear(h) \/ SeedDefaults(h) \/ InsertSubscription(h) \/ HandOver(h)

PlatformStep(h) == PlatformArrive(h) \/ PlatformResume(h)

-----------------------------------------------------------------------------
\* An institution handed to its owner has everything it needs: every role,
\* an owner counted once, a year that is current, the defaults; and one with
\* no licence of its own has one subscription, on the plan it is on, unless
\* two requests met on it.
ReadyWhenOffered ==
    \A i \in offered :
      /\ kit[i] = FullKit /\ tenant[i].year
      /\ Calm(Inst(i)) /\ ~tenant[i].dedicated =>
           Len(subs[i]) = 1 /\ subs[i][1].plan = tenant[i].plan
=============================================================================
