------------------------------ MODULE Tenancy -------------------------------
(***************************************************************************)
(* Which institution a request belongs to, and whether it is let in.  Each *)
(* process remembers an institution's document for TTL, by id and by slug; *)
(* whoever changes the document clears the memory of its own process only. *)
(* Source: app/core/tenancy.py, the guards of app/core/deps.py.            *)
(*                                                                         *)
(* `replaced` and `heard` are history variables: the documents that are no *)
(* longer stored, and what the latest guard went by and said.              *)
(***************************************************************************)
EXTENDS Requests

CONSTANTS Institutions, \* their ids, in the order they are given out
          Slugs,
          Workers,      \* processes that serve requests
          Modules,      \* every module there is
          CoreModules,  \* those no institution can be without
          TTL,          \* how long a process remembers
          MaxClock      \* bound

ASSUME TenancyAssumption ==
    /\ Institutions \subseteq Nat \ {0}
    /\ CoreModules \subseteq Modules
    /\ TTL \in Nat /\ MaxClock \in Nat

VARIABLES tenant,   \* the collection of institutions: a partial function
          cache,    \* cache[w]: what process w remembers, by key
          clock, replaced, heard

tenancy == <<tenant, cache, clock, replaced, heard>>

-----------------------------------------------------------------------------
Inst(i)   == <<"institution", i>>
ById(i)   == <<"id", i>>
BySlug(s) == <<"slug", s>>
Nothing   == [c \in {} |-> {}]
Nobody    == [inst |-> 0]

Matches(key) == {i \in DOMAIN tenant : key \in {ById(i), BySlug(tenant[i].slug)}}

Hit(w, key)        == key \in DOMAIN cache[w] /\ cache[w][key].until > clock

\* Institutions here are of a type that every module suits: what a type does
\* not suit is in Access.
ModuleEnabled(doc, m) == doc.dedicated \/ m \in CoreModules \cup doc.modules

\* What require() asks of the institution.
LetIn(doc, m) == /\ doc.status \in {"active", "trial"}
                 /\ doc.sub \notin {"expired", "cancelled"}
                 /\ ModuleEnabled(doc, m)

-----------------------------------------------------------------------------
(* A request for a page of module m; or the owner's, to have `wanted`      *)
(* switched on, which no module guards.                                    *)

BeginVisit(h, w, key, m) ==
    /\ Begin(h, "visit", "look up",
             [claims |-> {}, worker |-> w, key |-> key, then |-> "guard", module |-> m])
    /\ UNCHANGED tenancy

BeginSwitch(h, w, key, wanted) ==
    /\ Begin(h, "switch", "look up",
             [claims |-> {}, worker |-> w, key |-> key, then |-> "weigh", wanted |-> wanted])
    /\ UNCHANGED tenancy

\* The word a request goes by from here; an old one, unless the request is
\* over at once, has met the change.
GoBy(h, i, doc) ==
    /\ heard' = IF req[h].then = "guard"
                THEN [inst |-> i, worker |-> req[h].worker, at |-> clock,
                      module |-> req[h].module, stored |-> tenant[i],
                      admitted |-> LetIn(doc, req[h].module)]
                ELSE heard
    /\ IF req[h].then = "guard" THEN BreakOff(h, {Inst(i)} \cap HeldByOthers(h))
       ELSE /\ pc' = [pc EXCEPT ![h] = req[h].then]
            /\ req' = [req EXCEPT ![h] =
                         [claims |-> {Inst(i)}, worker |-> req[h].worker, inst |-> i,
                          word |-> doc, wanted |-> req[h].wanted]]
            /\ disturbed' = disturbed \cup ({Inst(i)} \cap
                   (HeldByOthers(h) \cup IF doc = tenant[i] THEN {} ELSE {Inst(i)}))
            /\ UNCHANGED <<asked, begun>>

LookUp(h) ==
    /\ pc[h] = "look up"
    /\ LET w == req[h].worker  key == req[h].key IN
       IF Hit(w, key) THEN GoBy(h, cache[w][key].inst, cache[w][key].doc)
       ELSE Goto(h, "read tenant") /\ UNCHANGED heard
    /\ UNCHANGED <<tenant, cache, clock, replaced>>

ReadTenant(h) ==
    /\ pc[h] = "read tenant"
    /\ \/ Matches(req[h].key) = {} /\ Finish(h)
       \/ \E i \in Matches(req[h].key) :
            TakeOn(h, "remember", [c \in DOMAIN req[h] \cup {"claims", "inst", "word"} |->
                CASE c = "claims" -> {Inst(i)} [] c = "inst" -> i
                  [] c = "word" -> tenant[i] [] OTHER -> req[h][c]])
    /\ UNCHANGED tenancy

Remember(h) ==
    /\ pc[h] = "remember"
    /\ LET w == req[h].worker IN
       cache' = [cache EXCEPT ![w] = With(cache[w], req[h].key,
           [inst |-> req[h].inst, doc |-> req[h].word, until |-> clock + TTL])]
    /\ GoBy(h, req[h].inst, req[h].word)
    /\ UNCHANGED <<tenant, clock, replaced>>

-----------------------------------------------------------------------------
(* A change of an institution's document, and the clearing of the cache.   *)

\* Record r with some of its fields changed.
Amended(r, change) ==
    [c \in DOMAIN r |-> IF c \in DOMAIN change THEN change[c] ELSE r[c]]

Amend(w, i, change) ==
    /\ tenant' = [tenant EXCEPT ![i] = Amended(tenant[i], change)]
    /\ replaced' = replaced \cup {[inst |-> i, doc |-> tenant[i], by |-> w, at |-> clock]}

ForgottenById(w) == [cache EXCEPT ![w] =
                       [key \in {k \in DOMAIN cache[w] : k[1] = "slug"} |-> cache[w][key]]]

Forgotten(w) == [cache EXCEPT ![w] = Nothing]

\* invalidate_tenant_cache, and the answer.
Forget(h) ==
    /\ pc[h] = "forget"
    /\ cache' = Forgotten(req[h].worker)
    /\ Finish(h)
    /\ UNCHANGED <<tenant, clock, replaced, heard>>

\* Bound: time matters once something is remembered, and asked for.
Tick == /\ clock < MaxClock /\ "visit" \in asked
        /\ \E w \in Workers : cache[w] # Nothing
        /\ clock' = clock + 1
        /\ UNCHANGED <<requests, tenant, cache, replaced, heard>>

-----------------------------------------------------------------------------
\* An institution is let in or refused by its document as it is stored or,
\* where another process changed it, as it was less than the lifetime of the
\* cache ago: a suspension is never outlived for longer, and a process never
\* goes by a word it replaced itself, unless the guard and the change met.
AdmittedOnRecentWord ==
    heard # Nobody /\ Inst(heard.inst) \notin disturbed =>
      \/ heard.admitted = LetIn(heard.stored, heard.module)
      \/ \E r \in replaced :
           /\ r.inst = heard.inst /\ r.by # heard.worker
           /\ heard.admitted = LetIn(r.doc, heard.module)
           /\ heard.at < r.at + TTL
=============================================================================
