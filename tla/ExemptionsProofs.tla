--------------------------- MODULE ExemptionsProofs ---------------------------
(***************************************************************************)
(* Proofs about Exemptions, for any number of threads, ids, scopes and     *)
(* failures and any lifetime of the cached list.                           *)
(*                                                                         *)
(* The inductive invariant Inv says what each admin thread knows of the    *)
(* item it works on and of those it has scanned, and four things that      *)
(* outlive the requests: an id whose creation was answered is created by   *)
(* nobody any more; what a creation should meet is on every replica until  *)
(* it is revoked (KnownInv); an item is never active beside one of its     *)
(* scope that it should have met (Clear); and what is cached and may be    *)
(* served contains nothing that is gone, except what its load read on a    *)
(* lagging replica, and that lag did not end before the load began.        *)
(***************************************************************************)
EXTENDS Exemptions, FiniteSetTheorems, TLAPS

Creating == {"list", "put", "invalidate"}
Revoking == {"get", "putRevoked", "invalidateRevoked"}
Labels ==
    {"idle", "remediation", "drift", "enter", "loaded", "shown"}
        \cup Creating \cup Revoking \cup Scanning
Locals == [id : Ids \cup {None}, item : Item \cup Resources, todo : SUBSET Ids,
           list : SUBSET Entry, known : SUBSET Ids]
Holding == {"loading", "loaded"}

TypeInv ==
    /\ exemptions \in [Ids -> Item]
    /\ \A i \in Ids : exemptions[i] = NoItem \/ is_valid_scope(exemptions[i].scope)
    /\ \A i \in Ids : exemptions[i].expires_at # Bad
    /\ replicas \in [Ids -> SUBSET Item] /\ settled \in [Ids -> 0..now]
    /\ \A i \in Ids : exemptions[i] \in replicas[i]
    /\ \A i \in Ids : \A v \in replicas[i] :
          v.expires_at # Bad /\ (v = NoItem \/ v.scope = exemptions[i].scope)
    /\ began \in 0..now /\ missed \subseteq Ids
    /\ lock = None /\ at # None => began <= at
    /\ now \in 0..MaxTime /\ requests \in 0..MaxRequests /\ faults \in 0..MaxFaults
    /\ value \subseteq Entry /\ error \in BOOLEAN /\ at \in {None} \cup 0..now
    /\ lock \in {None} \cup Pages
    /\ \A t \in Threads : lock = t <=> pc[t] \in Holding
    /\ pc \in [Threads -> Labels] /\ ctx \in [Threads -> Locals]
    /\ \A t \in Threads : ctx[t].todo # {} => pc[t] \in Scanning
    /\ answered \subseteq Ids /\ gone \subseteq answered
    /\ before \in [Ids -> SUBSET answered]

\* An item of scope s, created as j, meets nothing that is active.
Clear(j, s) == \A i \in before[j] : exemptions[i].scope = s => ~_is_active(exemptions[i])

\* What a creation should meet is as it was, everywhere, until it is revoked.
KnownInv ==
    \A j \in Ids : \A i \in before[j] : exemptions[i].status = "REVOKED" \/ OnAllReplicas(i)

\* The scan of creation j has found what it should meet, but for what is left.
Found(j, found, todo) ==
    \A i \in before[j] \ todo :
        exemptions[i].status = "REVOKED" \/ [id |-> i, item |-> exemptions[i]] \in found

AdminInv(t) ==
    /\ pc[t] \in {"idle"} \cup Creating \cup Revoking
    /\ ctx[t].item \in Item /\ ctx[t].item.expires_at # Bad
    /\ pc[t] \notin {"idle", "get"} =>
          ctx[t].item # NoItem /\ is_valid_scope(ctx[t].item.scope)
    /\ pc[t] \in Creating =>
          /\ ctx[t].id \in Ids \ answered
          /\ exemptions[ctx[t].id] # NoItem => exemptions[ctx[t].id].scope = ctx[t].item.scope
    /\ pc[t] = "list" => Found(ctx[t].id, ctx[t].list, ctx[t].todo)
    /\ pc[t] \in {"put", "invalidate"} => Clear(ctx[t].id, ctx[t].item.scope)
    /\ pc[t] \in Revoking =>
          /\ ctx[t].id \in Ids /\ exemptions[ctx[t].id] # NoItem
          /\ ctx[t].known \subseteq answered
    /\ pc[t] = "putRevoked" =>
          /\ ctx[t].item.status = "REVOKED"
          /\ ctx[t].item.scope = exemptions[ctx[t].id].scope
    /\ pc[t] = "invalidateRevoked" /\ ctx[t].id \in ctx[t].known =>
          exemptions[ctx[t].id].status = "REVOKED"

CreatorsApart ==
    \A t, u \in Admins : t # u /\ pc[t] \in Creating /\ pc[u] \in Creating => ctx[t].id # ctx[u].id

TableInv ==
    /\ \A j \in Ids : exemptions[j] # NoItem => Clear(j, exemptions[j].scope)
    /\ \A i \in gone : exemptions[i].status = "REVOKED"

\* The cached list may be served, now or when its load is over.
Served == (lock = None /\ at # None) \/ \E t \in Pages : pc[t] = "loaded"

CleanInv == Served => \A e \in value : e.id \in gone => e.id \in missed

\* What the load missed lags, or lagged when the load began.
LagInv ==
    lock # None \/ at # None => \A i \in missed \cap gone : Lagging(i) \/ began <= settled[i]

CacheInv == CleanInv /\ LagInv

PageInv(t) ==
    /\ pc[t] \in {"idle", "enter", "loading", "loaded", "shown"}
    /\ ctx[t].known \subseteq gone
    /\ pc[t] \in {"idle", "enter"} => ctx[t].list = {}
    /\ pc[t] = "loading" =>
          \A e \in ctx[t].list : e.id \in gone /\ e.item.status = "ACTIVE" => e.id \in missed
    /\ pc[t] = "shown" => \A e \in ctx[t].list : e.id \notin ctx[t].known

CallerInv(t) ==
    /\ pc[t] \in {"idle", "askRemediation", "askDrift", "remediation", "drift"}
    /\ pc[t] # "idle" => ctx[t].item \in Resources
    /\ pc[t] = "remediation" => \A e \in ctx[t].list : e.item.status = "ACTIVE"

Inv ==
    /\ TypeInv /\ CreatorsApart /\ KnownInv /\ TableInv /\ CacheInv
    /\ \A t \in Admins : AdminInv(t)
    /\ \A t \in Pages : PageInv(t)
    /\ \A t \in Callers : CallerInv(t)

-----------------------------------------------------------------------------
(***************************************************************************)
(* Items, and the answer of is_exempt                                      *)
(***************************************************************************)
LEMMA NoItemFacts == /\ NoItem \in Item /\ NoItem.expires_at # Bad
                     /\ NoItem.status # "ACTIVE" /\ NoItem.status # "REVOKED"
BY ExemptionsAssumption DEF NoItem, Item

LEMMA ItemFacts ==
    ASSUME NEW x \in Item, x # NoItem
    PROVE  /\ x.scope \in Scopes /\ x.status \in {"ACTIVE", "REVOKED"}
           /\ [x EXCEPT !.status = "REVOKED"] \in Item
           /\ [x EXCEPT !.status = "REVOKED"] # NoItem
           /\ [x EXCEPT !.status = "REVOKED"].status = "REVOKED"
           /\ [x EXCEPT !.status = "REVOKED"].scope = x.scope
           /\ [x EXCEPT !.status = "REVOKED"].expires_at = x.expires_at
BY ExemptionsAssumption DEF NoItem, Item

\* What is_exempt answers is one of the exemptions it was given.
LEMMA ExemptIsListed ==
    ASSUME NEW res, NEW env, NEW active
    PROVE  is_exempt(res, env, active) \in {None} \cup {e.id : e \in active}
  <1> DEFINE matching == {e \in active : _matches(e.item.scope, res, env)}
             highest == {e \in matching : \A o \in matching :
                            _get_scope_rank(o.item.scope) <= _get_scope_rank(e.item.scope)}
  <1>1. CASE Cardinality(highest) = 1
    <2>1. highest # {}
      BY <1>1, FS_EmptySet
    <2>2. (CHOOSE e \in highest : TRUE) \in highest
      BY <2>1
    <2>3. is_exempt(res, env, active) = (CHOOSE e \in highest : TRUE).id
      BY <1>1 DEF is_exempt
    <2>. QED
      BY <2>2, <2>3
  <1>2. CASE Cardinality(highest) # 1
    BY <1>2 DEF is_exempt
  <1>. QED
    BY <1>1, <1>2

LEMMA ListFacts ==
    ASSUME NEW found \in SUBSET Entry
    PROVE  /\ list_active_exemptions(found) \in SUBSET Entry
           /\ \A e \in list_active_exemptions(found) :
                 e \in found /\ e.id \in Ids /\ e.item.status = "ACTIVE"
BY DEF list_active_exemptions, _is_active, Entry

-----------------------------------------------------------------------------
(***************************************************************************)
(* What a step of thread t leaves to the others                            *)
(***************************************************************************)
Moves(t) == \A u \in Threads \ {t} : pc'[u] = pc[u] /\ ctx'[u] = ctx[u]

\* Items never vanish or change their scope, and those whose creation was
\* answered can only be revoked.
Evolves ==
    /\ now <= now'
    /\ answered \subseteq answered' /\ gone \subseteq gone'
    /\ \A i \in Ids : exemptions[i] # NoItem =>
          exemptions'[i] # NoItem /\ exemptions'[i].scope = exemptions[i].scope
    /\ \A i \in answered :
          \/ exemptions'[i].status = "REVOKED"
          \/ exemptions'[i] = exemptions[i] /\ (OnAllReplicas(i) => OnAllReplicas(i)')
    /\ \A i \in answered : exemptions[i] = NoItem => exemptions'[i] = NoItem
    /\ \A i \in Ids : exemptions[i].status = "REVOKED" /\ i \in answered => exemptions'[i].status = "REVOKED"

\* New items, ids and answers are those of t.
Owns(t) ==
    /\ \A i \in Ids : exemptions[i] = NoItem =>
          \/ exemptions'[i] = NoItem
          \/ t \in Admins /\ pc[t] = "put" /\ i = ctx[t].id /\ exemptions'[i] = ctx[t].item
    /\ \A i \in answered' \ answered : t \in Admins /\ pc[t] \in Creating /\ i = ctx[t].id /\ pc'[t] = "idle"
    /\ \A j \in Ids : \/ before'[j] = before[j]
                      \/ /\ exemptions[j] = NoItem /\ exemptions'[j] = NoItem
                         /\ \A u \in Admins : ctx[u].id # j
                         /\ \A i \in before'[j] : OnAllReplicas(i)'
    /\ \A u \in Pages \ {t} : lock = u => gone' = gone /\ missed' = missed
    /\ t \in Admins /\ pc'[t] \in Creating =>
          \/ pc[t] \in Creating /\ ctx'[t].id = ctx[t].id
          \/ \A u \in Admins : ctx[u].id # ctx'[t].id

LEMMA QuietStays ==
    ASSUME TypeInv, TypeInv', Evolves, NEW i \in answered, ~_is_active(exemptions[i])
    PROVE  ~_is_active(exemptions[i])'
  <1>1. CASE exemptions'[i] = exemptions[i]
    <2>1. exemptions[i] \in Item /\ now \in Nat /\ now' \in Nat /\ now <= now'
      BY DEF TypeInv, Evolves
    <2>2. CASE exemptions[i] = NoItem
      BY <1>1, <2>2, NoItemFacts DEF _is_active
    <2>3. CASE exemptions[i] # NoItem
      <3>1. exemptions[i].expires_at \in {None, Bad} \cup Nat
        BY <2>1, <2>3, ExemptionsAssumption DEF Item
      <3>. QED
        BY <1>1, <2>1, <3>1 DEF _is_active
    <2>. QED
      BY <2>2, <2>3
  <1>2. CASE exemptions'[i].status = "REVOKED"
    BY <1>2 DEF _is_active
  <1>. QED
    BY <1>1, <1>2 DEF Evolves

LEMMA ClearStays ==
    ASSUME TypeInv, TypeInv', Evolves, NEW j \in Ids, NEW s, before'[j] = before[j], Clear(j, s),
           s # None
    PROVE  Clear(j, s)'
  <1>. SUFFICES ASSUME NEW i \in before'[j], exemptions'[i].scope = s
                PROVE  ~_is_active(exemptions[i])'
    BY DEF Clear
  <1>1. i \in answered /\ i \in Ids /\ i \in before[j]
    BY DEF TypeInv
  <1>2. CASE exemptions[i].scope = s
    BY <1>1, <1>2, QuietStays DEF Clear
  <1>3. CASE exemptions[i].scope # s
    BY <1>1, <1>3 DEF Evolves, NoItem
  <1>. QED
    BY <1>2, <1>3

LEMMA OtherAdmin ==
    ASSUME Inv, TypeInv', Evolves, NEW t, Owns(t), Moves(t), NEW u \in Admins \ {t}
    PROVE  AdminInv(u)'
  <1>1. /\ pc'[u] = pc[u] /\ ctx'[u] = ctx[u] /\ AdminInv(u)
        /\ t \in Admins => AdminInv(t)
    BY DEF Moves, Threads, Inv
  <1>2. pc[u] \in Creating => ctx[u].id \in Ids \ answered'
    BY <1>1 DEF AdminInv, Owns, Inv, CreatorsApart
  <1>3. pc[u] \in Creating => before'[ctx[u].id] = before[ctx[u].id]
    BY <1>1 DEF AdminInv, Owns
  <1>4. ASSUME pc[u] \in Creating, exemptions'[ctx[u].id] # NoItem
        PROVE  exemptions'[ctx[u].id].scope = ctx[u].item.scope
    BY <1>1, <1>4 DEF AdminInv, Owns, Evolves, Inv, CreatorsApart, Creating
  <1>8. ASSUME pc[u] = "list"
        PROVE  Found(ctx[u].id, ctx[u].list, ctx[u].todo)'
    <2>1. /\ before'[ctx[u].id] = before[ctx[u].id] /\ Found(ctx[u].id, ctx[u].list, ctx[u].todo)
          /\ before[ctx[u].id] \subseteq answered
      BY <1>1, <1>3, <1>8 DEF AdminInv, Creating, Inv, TypeInv
    <2>. QED
      BY <1>1, <2>1 DEF Found, Evolves, Inv, TypeInv
  <1>5. ASSUME pc[u] \in {"put", "invalidate"}
        PROVE  Clear(ctx[u].id, ctx[u].item.scope)'
    <2>1. /\ ctx[u].id \in Ids /\ before'[ctx[u].id] = before[ctx[u].id]
          /\ Clear(ctx[u].id, ctx[u].item.scope)
      BY <1>1, <1>3, <1>5 DEF AdminInv, Creating
    <2>2. ctx[u].item \in Item /\ ctx[u].item # NoItem
      BY <1>1, <1>5 DEF AdminInv
    <2>3. ctx[u].item.scope \in Scopes
      BY <2>2, ItemFacts
    <2>4. ctx[u].item.scope # None
      BY <2>3, ExemptionsAssumption
    <2>. QED
      BY <1>1, <2>1, <2>4, ClearStays DEF Inv
  <1>6. ASSUME pc[u] \in Revoking
        PROVE  /\ exemptions'[ctx[u].id] # NoItem
               /\ exemptions'[ctx[u].id].scope = exemptions[ctx[u].id].scope
               /\ ctx[u].known \subseteq answered'
    BY <1>1, <1>6 DEF AdminInv, Evolves
  <1>7. ASSUME pc[u] = "invalidateRevoked", ctx[u].id \in ctx[u].known
        PROVE  exemptions'[ctx[u].id].status = "REVOKED"
    BY <1>1, <1>7 DEF AdminInv, Evolves, Revoking
  <1>. QED
    BY <1>1, <1>2, <1>4, <1>5, <1>6, <1>7, <1>8 DEF AdminInv, Clear, Found, Revoking

\* What a step preserves, once it is known what it did to its own thread.
LEMMA Frame ==
    ASSUME Inv, TypeInv', Evolves, NEW t, Owns(t), Moves(t), CacheInv',
           \A i \in gone' : exemptions'[i].status = "REVOKED",
           t \in Admins => AdminInv(t)',
           t \in Pages => PageInv(t)',
           t \in Callers => CallerInv(t)'
    PROVE  Inv'
  <1>1. CreatorsApart'
    <2>. SUFFICES ASSUME NEW u \in Admins, NEW v \in Admins, u # v,
                         pc'[u] \in Creating, pc'[v] \in Creating
                  PROVE  ctx'[u].id # ctx'[v].id
      BY DEF CreatorsApart
    <2>1. CASE u # t /\ v # t
      BY <2>1 DEF Moves, Threads, Inv, CreatorsApart
    <2>2. CASE u = t
      BY <2>2 DEF Moves, Threads, Owns, Inv, CreatorsApart
    <2>3. CASE v = t
      BY <2>3 DEF Moves, Threads, Owns, Inv, CreatorsApart
    <2>. QED
      BY <2>1, <2>2, <2>3
  <1>2. ASSUME NEW j \in Ids, exemptions'[j] # NoItem
        PROVE  Clear(j, exemptions[j].scope)'
    <2>1. CASE exemptions[j] # NoItem
      <3>1. exemptions'[j].scope = exemptions[j].scope /\ before'[j] = before[j]
        BY <2>1 DEF Evolves, Owns
      <3>2. exemptions[j].scope # None
        <4>1. exemptions[j] \in Item
          BY DEF Inv, TypeInv
        <4>. QED
          BY <2>1, <4>1, ItemFacts, ExemptionsAssumption
      <3>3. Clear(j, exemptions[j].scope)
        BY <2>1 DEF Inv, TableInv
      <3>4. (\A i \in before[j] : exemptions[i].scope = exemptions[j].scope => ~_is_active(exemptions[i]))'
        BY <3>1, <3>2, <3>3, ClearStays DEF Inv, Clear
      <3>. QED
        BY <3>4 DEF Clear
    <2>2. CASE exemptions[j] = NoItem
      <3>1. /\ t \in Admins /\ pc[t] = "put" /\ j = ctx[t].id /\ exemptions'[j] = ctx[t].item
            /\ AdminInv(t)
        BY <1>2, <2>2 DEF Owns, Inv
      <3>2. before'[j] = before[j]
        BY <3>1 DEF Owns
      <3>3. ctx[t].item.scope # None
        BY <1>2, <3>1, ItemFacts, ExemptionsAssumption DEF AdminInv
      <3>4. Clear(j, ctx[t].item.scope)
        BY <3>1 DEF AdminInv
      <3>5. (\A i \in before[j] : exemptions[i].scope = exemptions[j].scope => ~_is_active(exemptions[i]))'
        BY <3>1, <3>2, <3>3, <3>4, ClearStays DEF Inv, Clear
      <3>. QED
        BY <3>5 DEF Clear
    <2>. QED
      BY <2>1, <2>2
  <1>3. TableInv'
    BY <1>2 DEF TableInv
  <1>4. \A u \in Admins : AdminInv(u)'
    BY OtherAdmin
  <1>5. ASSUME NEW u \in Pages, u # t
        PROVE  PageInv(u)'
    <2>1. /\ pc'[u] = pc[u] /\ ctx'[u] = ctx[u] /\ PageInv(u) /\ gone \subseteq gone'
          /\ pc[u] = "loading" => gone' = gone /\ missed' = missed
      BY <1>5 DEF Moves, Threads, Evolves, Owns, Inv, TypeInv, Holding
    <2>. QED
      BY <2>1 DEF PageInv
  <1>7. KnownInv'
    <2>. SUFFICES ASSUME NEW j \in Ids, NEW i \in before'[j]
                  PROVE  (exemptions[i].status = "REVOKED" \/ OnAllReplicas(i))'
      BY DEF KnownInv
    <2>1. CASE before'[j] = before[j]
      <3>1. i \in answered /\ (exemptions[i].status = "REVOKED" \/ OnAllReplicas(i)) /\ i \in Ids
        BY <2>1 DEF Inv, TypeInv, KnownInv
      <3>. QED
        BY <3>1 DEF Evolves
    <2>2. CASE before'[j] # before[j]
      BY <2>2 DEF Owns
    <2>. QED
      BY <2>1, <2>2
  <1>6. \A u \in Callers : CallerInv(u)'
    BY DEF Moves, Threads, Inv, CallerInv
  <1>. QED
    BY <1>1, <1>3, <1>4, <1>5, <1>6, <1>7 DEF Inv

\* A step that leaves the table, the cache and the history alone.
LEMMA LocalFrame ==
    ASSUME Inv, UNCHANGED <<table, cache, history>>, now' \in now..MaxTime,
           requests' \in 0..MaxRequests, faults' \in 0..MaxFaults,
           NEW t, Moves(t), pc' \in [Threads -> Labels], ctx' \in [Threads -> Locals],
           t \in Threads => pc[t] \notin Holding /\ pc'[t] \notin Holding,
           t \in Threads => (ctx'[t].todo # {} => pc'[t] \in Scanning),
           t \in Admins /\ pc'[t] \in Creating => pc[t] \in Creating /\ ctx'[t].id = ctx[t].id,
           t \in Admins => AdminInv(t)',
           t \in Pages => PageInv(t)',
           t \in Callers => CallerInv(t)'
    PROVE  Inv'
  <1>1. /\ exemptions' = exemptions /\ replicas' = replicas /\ settled' = settled
        /\ answered' = answered /\ before' = before /\ gone' = gone
        /\ value' = value /\ error' = error /\ at' = at /\ lock' = lock
        /\ began' = began /\ missed' = missed
    BY DEF table, cache, history
  <1>2. now \in Nat /\ now' \in Nat /\ now <= now' /\ now' \in 0..MaxTime
    BY DEF Inv, TypeInv
  <1>3. /\ at' \in {None} \cup 0..now' /\ began' \in 0..now' /\ settled' \in [Ids -> 0..now']
    BY <1>1, <1>2, ExemptionsAssumption DEF Inv, TypeInv
  <1>4. /\ \A u \in Threads : lock' = u <=> pc'[u] \in Holding
        /\ \A u \in Threads : ctx'[u].todo # {} => pc'[u] \in Scanning
    BY <1>1 DEF Inv, TypeInv, Moves
  <1>5. TypeInv'
    BY <1>1, <1>2, <1>3, <1>4 DEF Inv, TypeInv
  <1>6. Evolves /\ Owns(t)
    BY <1>1, <1>2 DEF Evolves, Owns, OnAllReplicas
  <1>7. CacheInv'
    <2>1. Served' => Served
      BY <1>1 DEF Served, Moves, Threads, Holding
    <2>. QED
      BY <1>1, <2>1 DEF Inv, CacheInv, CleanInv, LagInv, Lagging
  <1>8. \A i \in gone' : exemptions'[i].status = "REVOKED"
    BY <1>1 DEF Inv, TableInv
  <1>. QED
    BY <1>5, <1>6, <1>7, <1>8, Frame

-----------------------------------------------------------------------------
(***************************************************************************)
(* The steps                                                               *)
(***************************************************************************)
LEMMA InitInv == ASSUME Init PROVE Inv
  <1>1. TypeInv
    <2>1. NoCtx \in Locals
      BY NoItemFacts DEF NoCtx, Locals
    <2>2. pc \in [Threads -> Labels] /\ ctx \in [Threads -> Locals]
      BY <2>1 DEF Init, Labels
    <2>3. \A t \in Threads : lock = t <=> pc[t] \in Holding
      BY ExemptionsAssumption DEF Init, Threads, Holding
    <2>4. exemptions \in [Ids -> Item] /\ \A i \in Ids : exemptions[i] = NoItem
      BY NoItemFacts DEF Init
    <2>5. before \in [Ids -> SUBSET answered] /\ answered = {} /\ gone = {}
      BY DEF Init
    <2>6. now \in 0..MaxTime /\ requests \in 0..MaxRequests /\ faults \in 0..MaxFaults
      BY ExemptionsAssumption DEF Init
    <2>7. /\ replicas \in [Ids -> SUBSET Item] /\ settled \in [Ids -> 0..now] /\ began \in 0..now
          /\ \A i \in Ids : replicas[i] = {NoItem}
      BY NoItemFacts DEF Init
    <2>8. missed \subseteq Ids /\ \A t \in Threads : ctx[t].todo = {}
      BY DEF Init, NoCtx
    <2>. QED
      BY <2>2, <2>3, <2>4, <2>5, <2>6, <2>7, <2>8, NoItemFacts DEF Init, TypeInv
  <1>2. \A t \in Threads : pc[t] = "idle" /\ ctx[t] = NoCtx
    BY DEF Init
  <1>3. \A t \in Admins : AdminInv(t)
    BY <1>2, NoItemFacts DEF AdminInv, NoCtx, Creating, Revoking, Threads
  <1>. QED
    BY <1>1, <1>2, <1>3
    DEF Init, Inv, CreatorsApart, KnownInv, TableInv, CacheInv, CleanInv, LagInv, Served, PageInv, CallerInv,
        Threads, Creating, NoCtx

LEMMA AdminFacts ==
    ASSUME Inv, NEW t \in Admins
    PROVE  /\ t \in Threads /\ t \notin Pages /\ t \notin Callers /\ t # None
           /\ AdminInv(t) /\ pc[t] \in Labels /\ ctx[t] \in Locals
           /\ ctx[t].id \in Ids \cup {None} /\ ctx[t].known \subseteq Ids
BY ExemptionsAssumption DEF Inv, TypeInv, Threads, Locals

LEMMA BoundFacts ==
    ASSUME Inv
    PROVE  /\ requests \in 0..MaxRequests /\ faults \in 0..MaxFaults /\ now \in now..MaxTime
           /\ Request => requests' \in 0..MaxRequests
           /\ Fault => faults' \in 0..MaxFaults
BY ExemptionsAssumption DEF Inv, TypeInv, Request, Fault

LEMMA ReturnLocal ==
    ASSUME Inv, NEW t \in Threads, Return(t)
    PROVE  /\ Moves(t) /\ pc' \in [Threads -> Labels] /\ ctx' \in [Threads -> Locals]
           /\ pc'[t] = "idle" /\ ctx'[t] = NoCtx /\ ctx'[t].todo = {}
           /\ t \in Admins => AdminInv(t)'
           /\ t \in Pages => PageInv(t)'
           /\ t \in Callers => CallerInv(t)'
  <1>1. pc' = [pc EXCEPT ![t] = "idle"] /\ ctx' = [ctx EXCEPT ![t] = NoCtx]
    BY DEF Return, Goto
  <1>2. NoCtx \in Locals
    BY NoItemFacts DEF NoCtx, Locals
  <1>3. /\ Moves(t) /\ pc' \in [Threads -> Labels] /\ ctx' \in [Threads -> Locals]
        /\ pc'[t] = "idle" /\ ctx'[t] = NoCtx /\ NoCtx.todo = {}
    BY <1>1, <1>2 DEF Inv, TypeInv, Moves, Labels, NoCtx
  <1>. QED
    BY <1>3, NoItemFacts DEF AdminInv, PageInv, CallerInv, NoCtx, Creating, Revoking

LEMMA StartCreateInv ==
    ASSUME Inv, NEW t \in Admins, NEW s \in Scopes, NEW e \in Expiries, StartCreate(t, s, e)
    PROVE  Inv'
  <1> DEFINE x == [status |-> "ACTIVE", scope |-> s, expires_at |-> e]
  <1>1. PICK i \in uuid4(s) :
            /\ ctx' = [ctx EXCEPT ![t].id = i, ![t].item = x, ![t].todo = Ids]
            /\ before' = [before EXCEPT ![i] = {k \in answered : OnAllReplicas(k)}]
    BY DEF StartCreate
  <1>2. /\ pc[t] = "idle" /\ pc' = [pc EXCEPT ![t] = "list"] /\ Request
        /\ is_valid_scope(s) /\ e # Bad
        /\ exemptions' = exemptions /\ now' = now /\ faults' = faults
        /\ answered' = answered /\ gone' = gone
        /\ value' = value /\ error' = error /\ at' = at /\ lock' = lock
        /\ replicas' = replicas /\ settled' = settled /\ began' = began /\ missed' = missed
    BY DEF StartCreate, At, Goto, Refused, table, cache
  <1>3. /\ i \in Ids \ answered /\ exemptions[i] = NoItem
        /\ \A u \in Admins : ctx[u].id # i
    BY DEF uuid4
  <1>4. x \in Item /\ x # NoItem
    BY ExemptionsAssumption DEF Item, NoItem
  <1>5. ctx[t] \in Locals /\ t \in Threads
    BY AdminFacts
  <1>6. /\ ctx' \in [Threads -> Locals] /\ pc' \in [Threads -> Labels] /\ Moves(t)
        /\ pc'[t] = "list" /\ ctx'[t].id = i /\ ctx'[t].item = x /\ ctx'[t].todo = Ids
    BY <1>1, <1>2, <1>3, <1>4, <1>5 DEF Inv, TypeInv, Locals, Moves, Labels, Creating
  <1>7. before' \in [Ids -> SUBSET answered']
    BY <1>1, <1>2, <1>3 DEF Inv, TypeInv
  <1>8. /\ \A u \in Threads : lock' = u <=> pc'[u] \in Holding
        /\ \A u \in Threads : ctx'[u].todo # {} => pc'[u] \in Scanning
    BY <1>2, <1>6 DEF Inv, TypeInv, Moves, Holding, Scanning
  <1>9. TypeInv'
    BY <1>2, <1>6, <1>7, <1>8, BoundFacts DEF Inv, TypeInv
  <1>10. AdminInv(t)'
    <2>1. before'[i] \subseteq Ids
      BY <1>3, <1>7, <1>2 DEF Inv, TypeInv
    <2>. QED
      BY <1>2, <1>3, <1>4, <1>6, <2>1 DEF AdminInv, Found, Creating, Revoking
  <1>11. Evolves
    BY <1>2 DEF Evolves, OnAllReplicas, Inv, TypeInv
  <1>12. Owns(t)
    <2>1. \A j \in Ids : j # i => before'[j] = before[j]
      BY <1>1 DEF Inv, TypeInv
    <2>2. \A k \in before'[i] : OnAllReplicas(k)'
      BY <1>1, <1>2, <1>3 DEF Inv, TypeInv, OnAllReplicas
    <2>. QED
      BY <1>2, <1>3, <1>6, <2>1, <2>2 DEF Owns
  <1>13. CacheInv' /\ \A g \in gone' : exemptions'[g].status = "REVOKED"
    <2>1. Served' => Served
      BY <1>2, <1>6 DEF Served, Moves, Threads
    <2>. QED
      BY <1>2, <2>1 DEF Inv, CacheInv, CleanInv, LagInv, Lagging, TableInv
  <1>. QED
    BY <1>6, <1>9, <1>10, <1>11, <1>12, <1>13, AdminFacts, Frame

\* A scan that met no conflict leaves nothing active of that scope that it
\* should have met.
LEMMA NoConflictClears ==
    ASSUME Inv, NEW j \in Ids, NEW s, NEW found, Found(j, found, {}),
           ~Conflict(s, list_active_exemptions(found))
    PROVE  Clear(j, s)
  <1>. SUFFICES ASSUME NEW i \in before[j], exemptions[i].scope = s, _is_active(exemptions[i])
                PROVE  FALSE
    BY DEF Clear
  <1>1. exemptions[i].status # "REVOKED"
    BY DEF _is_active
  <1>2. [id |-> i, item |-> exemptions[i]] \in list_active_exemptions(found)
    BY <1>1 DEF list_active_exemptions, Found
  <1>. QED
    BY <1>2 DEF Conflict

\* What the scan of a thread does when it reads version v of item i.
Reads(t, i, v) ==
    /\ i \in Ids /\ v \in Item /\ pc[t] \in Scanning /\ pc' = pc
    /\ ctx'[t] = [ctx[t] EXCEPT !.todo = @ \ {i}, !.list = @ \cup {[id |-> i, item |-> v]}]
    /\ missed' = IF t \in Pages /\ exemptions[i].status = "REVOKED" /\ v.status = "ACTIVE"
                   THEN missed \cup {i} ELSE missed
    /\ ctx' \in [Threads -> Locals] /\ pc' \in [Threads -> Labels] /\ Moves(t)

LEMMA ScanLocal ==
    ASSUME Inv, NEW t \in Threads, ScanItem(t)
    PROVE  \E i \in ctx[t].todo : \E v \in replicas[i] : Reads(t, i, v)
  <1>7. PICK i \in ctx[t].todo : \E v \in replicas[i] :
            /\ ctx' = [ctx EXCEPT ![t].todo = @ \ {i}, ![t].list = @ \cup {[id |-> i, item |-> v]}]
            /\ missed' = IF t \in Pages /\ exemptions[i].status = "REVOKED" /\ v.status = "ACTIVE"
                           THEN missed \cup {i} ELSE missed
    BY DEF ScanItem
  <1>1. PICK v \in replicas[i] :
            /\ ctx' = [ctx EXCEPT ![t].todo = @ \ {i}, ![t].list = @ \cup {[id |-> i, item |-> v]}]
            /\ missed' = IF t \in Pages /\ exemptions[i].status = "REVOKED" /\ v.status = "ACTIVE"
                           THEN missed \cup {i} ELSE missed
    BY <1>7
  <1>2. pc[t] \in Scanning /\ pc' = pc
    BY DEF ScanItem
  <1>3. ctx[t] \in Locals /\ i \in Ids /\ v \in Item /\ [id |-> i, item |-> v] \in Entry
    <2>1. ctx[t] \in Locals /\ i \in Ids
      BY DEF Inv, TypeInv, Locals
    <2>. QED
      BY <2>1 DEF Inv, TypeInv, Entry
  <1>4. /\ ctx'[t] = [ctx[t] EXCEPT !.todo = @ \ {i}, !.list = @ \cup {[id |-> i, item |-> v]}]
        /\ \A u \in Threads \ {t} : ctx'[u] = ctx[u]
        /\ ctx' = [ctx EXCEPT ![t] = [ctx[t] EXCEPT !.todo = @ \ {i}, !.list = @ \cup {[id |-> i, item |-> v]}]]
    BY <1>1 DEF Inv, TypeInv
  <1>5. [ctx[t] EXCEPT !.todo = @ \ {i}, !.list = @ \cup {[id |-> i, item |-> v]}] \in Locals
    BY <1>3 DEF Locals
  <1>6. ctx' \in [Threads -> Locals] /\ pc' \in [Threads -> Labels] /\ Moves(t)
    BY <1>2, <1>4, <1>5 DEF Moves, Inv, TypeInv
  <1>. QED
    BY <1>1, <1>2, <1>3, <1>4, <1>6 DEF Reads

LEMMA ScanOfAdmin == ASSUME Inv, NEW t \in Admins, ScanItem(t) PROVE Inv'
  <1>1. t \in Threads /\ t \notin Pages /\ t \notin Callers /\ AdminInv(t) /\ ctx[t] \in Locals
    BY AdminFacts
  <1>8. PICK i \in ctx[t].todo : \E v \in replicas[i] : Reads(t, i, v)
    BY <1>1, ScanLocal
  <1>9. PICK v \in replicas[i] : Reads(t, i, v)
    BY <1>8
  <1>2. /\ i \in Ids /\ v \in Item /\ pc[t] \in Scanning /\ pc' = pc
        /\ ctx'[t] = [ctx[t] EXCEPT !.todo = @ \ {i}, !.list = @ \cup {[id |-> i, item |-> v]}]
        /\ missed' = missed
        /\ ctx' \in [Threads -> Locals] /\ pc' \in [Threads -> Labels] /\ Moves(t)
    BY <1>1, <1>9 DEF Reads
  <1>3. /\ UNCHANGED <<table, cache, history>> /\ now' = now /\ requests' = requests /\ faults' = faults
    BY <1>2 DEF ScanItem, cache, bounds
  <1>4. pc[t] = "list" /\ pc'[t] = "list"
    BY <1>1, <1>2 DEF AdminInv, Scanning, Creating, Revoking
  <1>5. /\ ctx'[t].id = ctx[t].id /\ ctx'[t].item = ctx[t].item
        /\ ctx'[t].todo = ctx[t].todo \ {i} /\ ctx'[t].list = ctx[t].list \cup {[id |-> i, item |-> v]}
    BY <1>1, <1>2 DEF Locals
  <1>6. Found(ctx[t].id, ctx'[t].list, ctx'[t].todo)
    <2>1. i \in before[ctx[t].id] => exemptions[i].status = "REVOKED" \/ v = exemptions[i]
      BY <1>1, <1>2, <1>4 DEF AdminInv, Creating, Inv, KnownInv, OnAllReplicas
    <2>. QED
      BY <1>1, <1>4, <1>5, <2>1 DEF AdminInv, Found
  <1>7. AdminInv(t)'
    BY <1>1, <1>3, <1>4, <1>5, <1>6 DEF AdminInv, Found, Creating, Revoking, table, history
  <1>. QED
    BY <1>1, <1>2, <1>3, <1>4, <1>5, <1>7, BoundFacts, LocalFrame DEF Creating, Holding, Scanning

LEMMA ListForCreateInv == ASSUME Inv, NEW t \in Admins, ListForCreate(t) PROVE Inv'
  <1>1. pc[t] = "list" /\ UNCHANGED <<table, cache, history>> /\ now' = now /\ requests' = requests
    BY DEF ListForCreate, At, Scanned
  <1>2. faults' \in 0..MaxFaults
    BY BoundFacts DEF ListForCreate
  <1>3. CASE Return(t)
    BY <1>1, <1>2, <1>3, ReturnLocal, BoundFacts, AdminFacts, LocalFrame DEF Creating, Holding
  <1>4. CASE /\ ~Conflict(ctx[t].item.scope, list_active_exemptions(ctx[t].list)) /\ Goto(t, "put")
             /\ ctx' = [ctx EXCEPT ![t].list = {}] /\ ctx[t].todo = {}
    <2>1. /\ pc' \in [Threads -> Labels] /\ ctx' \in [Threads -> Locals] /\ Moves(t)
          /\ pc'[t] = "put" /\ t \in Threads
          /\ ctx'[t].id = ctx[t].id /\ ctx'[t].item = ctx[t].item /\ ctx'[t].todo = {}
      BY <1>4, AdminFacts DEF Goto, Moves, Inv, TypeInv, Labels, Creating, Locals
    <2>2. Clear(ctx[t].id, ctx[t].item.scope)
      BY <1>1, <1>4, AdminFacts, NoConflictClears DEF AdminInv, Creating
    <2>3. AdminInv(t)'
      BY <1>1, <2>1, <2>2, AdminFacts
      DEF AdminInv, Creating, Revoking, Clear, _is_active, table, history
    <2>. QED
      BY <1>1, <1>2, <2>1, <2>3, BoundFacts, AdminFacts, LocalFrame DEF Creating, Holding
  <1>. QED
    BY <1>3, <1>4 DEF ListForCreate, Scanned

\* The puts of an admin thread, which also repeat and fail: what they have in
\* common.
Puts(t) ==
    /\ pc[t] \in {"put", "putRevoked"}
    /\ put_exemption(ctx[t].id, ctx[t].item) \/ UNCHANGED table
    /\ UNCHANGED <<now, cache, before, gone>>
    /\ requests' = requests /\ faults' \in 0..MaxFaults
    /\ \/ pc[t] = "put" /\ answered' = answered \cup {ctx[t].id} /\ Return(t)
       \/ /\ answered' = answered
          /\ \/ Return(t)
             \/ pc[t] = "put" /\ UNCHANGED <<pc, ctx>>
             \/ pc[t] = "put" /\ Goto(t, "invalidate") /\ UNCHANGED ctx
             \/ /\ pc[t] = "putRevoked" /\ Goto(t, "invalidateRevoked") /\ UNCHANGED ctx
                /\ put_exemption(ctx[t].id, ctx[t].item)

LEMMA PutsInv == ASSUME Inv, NEW t \in Admins, Puts(t) PROVE Inv'
  <1> DEFINE i == ctx[t].id
             x == ctx[t].item
  <1>1. /\ AdminInv(t) /\ t \in Threads /\ i \in Ids /\ x \in Item /\ x # NoItem
        /\ is_valid_scope(x.scope) /\ x.expires_at # Bad
        /\ exemptions[i] # NoItem => exemptions[i].scope = x.scope
        /\ pc[t] = "put" => i \notin answered
        /\ pc[t] = "putRevoked" => exemptions[i] # NoItem /\ x.status = "REVOKED"
    BY AdminFacts DEF Puts, AdminInv, Creating, Revoking
  <1>2. /\ now' = now /\ before' = before /\ gone' = gone
        /\ value' = value /\ error' = error /\ at' = at /\ lock' = lock
        /\ began' = began /\ missed' = missed /\ settled' = settled
    BY DEF Puts, cache, put_exemption, table
  <1>3. /\ exemptions' \in [Ids -> Item]
        /\ exemptions'[i] = x \/ exemptions'[i] = exemptions[i]
        /\ \A j \in Ids \ {i} : exemptions'[j] = exemptions[j]
        /\ replicas' \in [Ids -> SUBSET Item]
        /\ \/ replicas'[i] = replicas[i] \cup {x} /\ exemptions'[i] = x
           \/ replicas'[i] = replicas[i] /\ exemptions'[i] = exemptions[i]
        /\ \A j \in Ids \ {i} : replicas'[j] = replicas[j]
    BY <1>1 DEF Puts, put_exemption, table, Inv, TypeInv
  <1>4. /\ pc' \in [Threads -> Labels] /\ ctx' \in [Threads -> Locals] /\ Moves(t)
        /\ pc'[t] \in {"idle", "put", "invalidate", "invalidateRevoked"}
        /\ pc'[t] \in {"put", "invalidate"} =>
               pc[t] = "put" /\ ctx'[t] = ctx[t] /\ answered' = answered
        /\ pc'[t] = "invalidateRevoked" =>
               pc[t] = "putRevoked" /\ ctx'[t] = ctx[t] /\ exemptions'[i] = x
        /\ pc'[t] = "idle" => AdminInv(t)'
    <2>1. CASE Return(t)
      BY <2>1, <1>1, ReturnLocal
    <2>2. CASE UNCHANGED <<pc, ctx>> /\ pc[t] = "put" /\ answered' = answered
      BY <2>2 DEF Moves, Inv, TypeInv
    <2>3. CASE Goto(t, "invalidate") /\ UNCHANGED ctx /\ pc[t] = "put" /\ answered' = answered
      BY <2>3, <1>1 DEF Goto, Moves, Inv, TypeInv, Labels, Creating
    <2>4. CASE /\ Goto(t, "invalidateRevoked") /\ UNCHANGED ctx /\ pc[t] = "putRevoked"
               /\ put_exemption(ctx[t].id, ctx[t].item)
      BY <2>4, <1>1 DEF Goto, Moves, Inv, TypeInv, Labels, Revoking, put_exemption
    <2>. QED
      BY <2>1, <2>2, <2>3, <2>4 DEF Puts
  <1>5. /\ answered \subseteq answered' /\ answered' \subseteq Ids
        /\ \A j \in answered' \ answered : pc[t] = "put" /\ j = i /\ pc'[t] = "idle"
    BY <1>1, <1>4, ReturnLocal DEF Puts, Inv, TypeInv
  <1>6. \A j \in Ids : /\ exemptions'[j] = NoItem \/ is_valid_scope(exemptions'[j].scope)
                      /\ exemptions'[j].expires_at # Bad
    BY <1>1, <1>3 DEF Inv, TypeInv
  <1>7. /\ \A u \in Threads : lock' = u <=> pc'[u] \in Holding
        /\ \A u \in Threads : ctx'[u].todo # {} => pc'[u] \in Scanning
    <2>1. ctx'[t].todo = {}
      <3>1. ctx[t].todo = {}
        BY <1>1 DEF Inv, TypeInv, Puts, Scanning
      <3>2. CASE Return(t)
        BY <3>2, <1>1, ReturnLocal
      <3>. QED
        BY <3>1, <3>2 DEF Puts
    <2>. QED
      BY <1>1, <1>2, <1>4, <2>1 DEF Inv, TypeInv, Moves, Puts, Holding
  <1>14. ASSUME NEW j \in Ids
         PROVE  /\ exemptions'[j] \in replicas'[j]
                /\ \A v \in replicas'[j] :
                      v.expires_at # Bad /\ (v = NoItem \/ v.scope = exemptions'[j].scope)
    <2>1. \A v \in replicas[j] : v \in Item /\ v.expires_at # Bad /\ (v = NoItem \/ v.scope = exemptions[j].scope)
      BY DEF Inv, TypeInv
    <2>2. CASE j # i \/ (replicas'[i] = replicas[i] /\ exemptions'[i] = exemptions[i])
      BY <1>3, <2>1, <2>2 DEF Inv, TypeInv
    <2>3. CASE j = i /\ replicas'[i] = replicas[i] \cup {x} /\ exemptions'[i] = x
      <3>1. ASSUME NEW v \in replicas[i], v # NoItem PROVE v.scope = x.scope
        <4>1. v.scope \in Scopes
          BY <2>1, <2>3, <3>1, ItemFacts
        <4>2. exemptions[i] # NoItem
          BY <2>1, <2>3, <3>1, <4>1, ExemptionsAssumption DEF NoItem
        <4>. QED
          BY <1>1, <2>1, <2>3, <3>1, <4>2
      <3>. QED
        BY <1>1, <2>1, <2>3, <3>1
    <2>. QED
      BY <1>3, <2>2, <2>3
  <1>8. TypeInv'
    <2>1. before' \in [Ids -> SUBSET answered'] /\ gone' \subseteq answered'
      BY <1>2, <1>5 DEF Inv, TypeInv
    <2>. QED
      BY <1>2, <1>3, <1>4, <1>5, <1>6, <1>7, <1>14, <2>1 DEF Inv, TypeInv, Puts
  <1>9. Evolves
    BY <1>1, <1>2, <1>3, <1>5 DEF Evolves, OnAllReplicas, Inv, TypeInv, Puts
  <1>10. Owns(t)
    BY <1>1, <1>2, <1>3, <1>4, <1>5 DEF Owns, Creating, Puts
  <1>11. CacheInv' /\ \A g \in gone' : exemptions'[g].status = "REVOKED"
    <2>1. \A g \in gone' : exemptions'[g].status = "REVOKED"
      BY <1>2, <1>9 DEF Inv, TypeInv, TableInv, Evolves
    <2>2. Served' => Served
      BY <1>2, <1>4 DEF Served, Moves, Threads
    <2>3. ASSUME NEW g \in Ids, g \in gone, Lagging(g) PROVE Lagging(g)'
      BY <1>2, <1>3, <2>1, <2>3 DEF Lagging
    <2>. QED
      BY <1>2, <2>1, <2>2, <2>3 DEF Inv, TypeInv, CacheInv, CleanInv, LagInv
  <1>12. ASSUME pc'[t] \in {"put", "invalidate"} PROVE AdminInv(t)'
    <2>1. ctx'[t] = ctx[t] /\ answered' = answered /\ pc[t] = "put"
      BY <1>4, <1>12
    <2>2. (Clear(ctx[t].id, ctx[t].item.scope))'
      <3>1. Clear(i, x.scope) /\ x.scope # None
        BY <1>1, <2>1, ItemFacts, ExemptionsAssumption DEF AdminInv
      <3>2. before'[i] = before[i]
        BY <1>2
      <3>3. (\A j \in before[i] : exemptions[j].scope = x.scope => ~_is_active(exemptions[j]))'
        BY <1>1, <1>8, <1>9, <2>1, <3>1, <3>2, ClearStays DEF Inv, Clear
      <3>. QED
        BY <2>1, <3>3 DEF Clear
    <2>. QED
      BY <1>1, <1>3, <1>12, <2>1, <2>2 DEF AdminInv, Creating, Revoking
  <1>13. ASSUME pc'[t] = "invalidateRevoked" PROVE AdminInv(t)'
    BY <1>1, <1>4, <1>5, <1>13 DEF AdminInv, Creating, Revoking
  <1>. QED
    BY <1>4, <1>8, <1>9, <1>10, <1>11, <1>12, <1>13, AdminFacts, Frame

LEMMA PutSteps ==
    ASSUME Inv, NEW t \in Admins,
           PutNew(t) \/ PutRepeated(t) \/ PutFails(t) \/ PutRevoked(t) \/ PutRevokedFails(t)
    PROVE  Puts(t)
  <1>1. ASSUME PutNew(t) \/ PutRevoked(t) PROVE Puts(t)
    BY <1>1, BoundFacts DEF PutNew, PutRevoked, Puts, At, history, bounds
  <1>2. ASSUME PutRepeated(t) \/ PutFails(t) PROVE Puts(t)
    BY <1>2, BoundFacts DEF PutRepeated, PutFails, Puts, At, history
  <1>3. ASSUME PutRevokedFails(t) PROVE Puts(t)
    BY <1>3, BoundFacts DEF PutRevokedFails, Puts, At, history
  <1>. QED
    BY <1>1, <1>2, <1>3

LEMMA AnswerCreateInv == ASSUME Inv, NEW t \in Admins, AnswerCreate(t) PROVE Inv'
  <1> DEFINE i == ctx[t].id
  <1>1. /\ pc[t] = "invalidate" /\ at' = None /\ answered' = answered \cup {i} /\ Return(t)
        /\ lock = None /\ lock' = None
        /\ replicas' = replicas /\ settled' = settled /\ began' = began /\ missed' = missed
        /\ exemptions' = exemptions /\ now' = now /\ value' = value /\ error' = error
        /\ requests' = requests /\ faults' = faults /\ before' = before /\ gone' = gone
    BY DEF AnswerCreate, At, table, bounds
  <1>2. t \in Threads /\ i \in Ids \ answered
    BY <1>1, AdminFacts DEF AdminInv, Creating
  <1>3. /\ Moves(t) /\ pc' \in [Threads -> Labels] /\ ctx' \in [Threads -> Locals]
        /\ pc'[t] = "idle" /\ AdminInv(t)' /\ ctx'[t].todo = {}
    BY <1>1, <1>2, ReturnLocal
  <1>4. /\ \A u \in Threads : lock' = u <=> pc'[u] \in Holding
        /\ \A u \in Threads : ctx'[u].todo # {} => pc'[u] \in Scanning
        /\ \A u \in Pages : pc'[u] \notin Holding
    BY <1>1, <1>2, <1>3, ExemptionsAssumption DEF Inv, TypeInv, Moves, Holding, Threads
  <1>5. answered \subseteq answered' /\ answered' \subseteq Ids
    BY <1>1, <1>2 DEF Inv, TypeInv
  <1>6. before' \in [Ids -> SUBSET answered'] /\ gone' \subseteq answered'
    BY <1>1, <1>5 DEF Inv, TypeInv
  <1>7. TypeInv'
    BY <1>1, <1>3, <1>4, <1>5, <1>6 DEF Inv, TypeInv
  <1>8. Evolves
    BY <1>1, <1>5 DEF Evolves, OnAllReplicas, Inv, TypeInv
  <1>9. Owns(t)
    BY <1>1, <1>2, <1>3, ExemptionsAssumption DEF Owns, Creating
  <1>10. CacheInv' /\ \A g \in gone' : exemptions'[g].status = "REVOKED"
    BY <1>1, <1>4 DEF Inv, CacheInv, CleanInv, LagInv, Served, Holding, TableInv
  <1>. QED
    BY <1>3, <1>7, <1>8, <1>9, <1>10, AdminFacts, Frame

LEMMA AnswerRevokeInv == ASSUME Inv, NEW t \in Admins, AnswerRevoke(t) PROVE Inv'
  <1> DEFINE i == ctx[t].id
  <1>1. /\ pc[t] = "invalidateRevoked" /\ at' = None /\ gone' = gone \cup ({i} \cap ctx[t].known) /\ Return(t)
        /\ lock = None /\ lock' = None
        /\ replicas' = replicas /\ settled' = settled /\ began' = began /\ missed' = missed
        /\ exemptions' = exemptions /\ now' = now /\ value' = value /\ error' = error
        /\ requests' = requests /\ faults' = faults /\ before' = before /\ answered' = answered
    BY DEF AnswerRevoke, At, table, bounds
  <1>2. /\ t \in Threads /\ ctx[t].known \subseteq answered
        /\ i \in ctx[t].known => exemptions[i].status = "REVOKED"
    BY <1>1, AdminFacts DEF AdminInv, Revoking
  <1>3. /\ Moves(t) /\ pc' \in [Threads -> Labels] /\ ctx' \in [Threads -> Locals]
        /\ pc'[t] = "idle" /\ AdminInv(t)' /\ ctx'[t].todo = {}
    BY <1>1, <1>2, ReturnLocal
  <1>4. /\ \A u \in Threads : lock' = u <=> pc'[u] \in Holding
        /\ \A u \in Threads : ctx'[u].todo # {} => pc'[u] \in Scanning
        /\ \A u \in Pages : pc'[u] \notin Holding
    BY <1>1, <1>2, <1>3, ExemptionsAssumption DEF Inv, TypeInv, Moves, Holding, Threads
  <1>5. gone \subseteq gone' /\ gone' \subseteq answered'
    BY <1>1, <1>2 DEF Inv, TypeInv
  <1>6. TypeInv'
    BY <1>1, <1>3, <1>4, <1>5 DEF Inv, TypeInv
  <1>7. Evolves
    BY <1>1, <1>5 DEF Evolves, OnAllReplicas, Inv, TypeInv
  <1>8. Owns(t)
    BY <1>1, <1>2, <1>3, ExemptionsAssumption DEF Owns, Creating
  <1>9. CacheInv' /\ \A g \in gone' : exemptions'[g].status = "REVOKED"
    BY <1>1, <1>2, <1>4 DEF Inv, CacheInv, CleanInv, LagInv, Served, Holding, TableInv
  <1>. QED
    BY <1>3, <1>6, <1>7, <1>8, <1>9, AdminFacts, Frame

\* A version that some replica holds belongs to an item of the same scope.
LEMMA KnownVersion ==
    ASSUME Inv, NEW i \in Ids, NEW v \in replicas[i], v # NoItem
    PROVE  /\ exemptions[i] # NoItem /\ v \in Item /\ v.expires_at # Bad
           /\ v.scope = exemptions[i].scope
  <1>1. v \in Item /\ v.expires_at # Bad /\ v.scope = exemptions[i].scope
    BY DEF Inv, TypeInv
  <1>2. exemptions[i].scope # None
    BY <1>1, ItemFacts, ExemptionsAssumption
  <1>3. NoItem.scope = None
    BY DEF NoItem
  <1>. QED
    BY <1>1, <1>2, <1>3

LEMMA StartRevokeInv ==
    ASSUME Inv, NEW t \in Admins, NEW i \in Ids, StartRevoke(t, i) PROVE Inv'
  <1>5. exemptions[i] # NoItem
    BY KnownVersion DEF StartRevoke
  <1>1. /\ pc[t] = "idle" /\ exemptions[i] # NoItem /\ Request
        /\ ctx' = [ctx EXCEPT ![t].id = i, ![t].known = answered] /\ pc' = [pc EXCEPT ![t] = "get"]
        /\ UNCHANGED <<table, cache, history>> /\ now' = now /\ faults' = faults
    BY <1>5 DEF StartRevoke, At, Goto
  <1>2. /\ ctx[t] \in Locals /\ t \in Threads /\ answered \in SUBSET Ids
        /\ AdminInv(t) /\ ctx[t].todo = {}
    BY <1>1, AdminFacts DEF Inv, TypeInv, Scanning
  <1>3. /\ ctx' \in [Threads -> Locals] /\ pc' \in [Threads -> Labels] /\ Moves(t)
        /\ pc'[t] = "get" /\ ctx'[t].id = i /\ ctx'[t].known = answered /\ ctx'[t].item = ctx[t].item
        /\ ctx'[t].todo = {}
    BY <1>1, <1>2 DEF Inv, TypeInv, Locals, Moves, Labels, Revoking
  <1>4. AdminInv(t)'
    BY <1>1, <1>2, <1>3 DEF AdminInv, Creating, Revoking, table, history
  <1>. QED
    BY <1>1, <1>3, <1>4, BoundFacts, AdminFacts, LocalFrame DEF Creating, Holding

LEMMA GetForRevokeInv == ASSUME Inv, NEW t \in Admins, GetForRevoke(t) PROVE Inv'
  <1>1. pc[t] = "get" /\ UNCHANGED <<table, cache, history>> /\ now' = now /\ requests' = requests
    BY DEF GetForRevoke, At
  <1>2. faults' \in 0..MaxFaults
    BY BoundFacts DEF GetForRevoke
  <1>3. CASE Return(t)
    BY <1>1, <1>2, <1>3, ReturnLocal, BoundFacts, AdminFacts, LocalFrame DEF Creating, Holding
  <1>4. ASSUME NEW v \in replicas[ctx[t].id] \ {NoItem}, Goto(t, "putRevoked"),
               ctx' = [ctx EXCEPT ![t].item = [v EXCEPT !.status = "REVOKED"]]
        PROVE  Inv'
    <2> DEFINE x == [v EXCEPT !.status = "REVOKED"]
    <2>1. /\ ctx[t].id \in Ids /\ exemptions[ctx[t].id] # NoItem /\ exemptions[ctx[t].id] \in Item
          /\ ctx[t].known \subseteq answered /\ ctx[t].todo = {}
          /\ is_valid_scope(exemptions[ctx[t].id].scope)
      BY <1>1, AdminFacts DEF AdminInv, Revoking, Inv, TypeInv, Scanning
    <2>6. v \in Item /\ v # NoItem /\ v.expires_at # Bad /\ v.scope = exemptions[ctx[t].id].scope
      BY <1>4, <2>1, KnownVersion
    <2>2. /\ x \in Item /\ x # NoItem /\ x.status = "REVOKED" /\ x.scope = exemptions[ctx[t].id].scope
          /\ x.expires_at # Bad
      BY <2>1, <2>6, ItemFacts
    <2>3. ctx[t] \in Locals /\ t \in Threads
      BY AdminFacts
    <2>4. /\ ctx' \in [Threads -> Locals] /\ pc' \in [Threads -> Labels] /\ Moves(t)
          /\ pc'[t] = "putRevoked" /\ ctx'[t].id = ctx[t].id /\ ctx'[t].known = ctx[t].known
          /\ ctx'[t].item = x /\ ctx'[t].todo = {}
      BY <1>4, <2>1, <2>2, <2>3 DEF Goto, Inv, TypeInv, Locals, Moves, Labels, Revoking
    <2>5. AdminInv(t)'
      BY <1>1, <2>1, <2>2, <2>4 DEF AdminInv, Creating, Revoking, table, history
    <2>. QED
      BY <1>1, <1>2, <2>4, <2>5, BoundFacts, AdminFacts, LocalFrame DEF Creating, Holding
  <1>. QED
    BY <1>3, <1>4 DEF GetForRevoke

LEMMA CallerFacts ==
    ASSUME Inv, NEW t \in Callers
    PROVE  /\ t \in Threads /\ t \notin Admins /\ t \notin Pages
           /\ CallerInv(t) /\ ctx[t] \in Locals /\ pc[t] \notin Holding
BY ExemptionsAssumption DEF Inv, TypeInv, CallerInv, Threads, Holding

\* Whatever a caller does leaves it a caller.
LEMMA CallerFrame ==
    ASSUME Inv, NEW t \in Callers, UNCHANGED <<table, cache, history>>, now' = now,
           requests' \in 0..MaxRequests, faults' \in 0..MaxFaults,
           NEW l \in {"askRemediation", "askDrift", "remediation", "drift"}, pc' = [pc EXCEPT ![t] = l],
           NEW x \in Locals, ctx' = [ctx EXCEPT ![t] = x], x.item \in Resources,
           x.todo # {} => l \in Scanning,
           l = "remediation" => \A e \in x.list : e.item.status = "ACTIVE"
    PROVE  Inv'
  <1>1. /\ ctx' \in [Threads -> Locals] /\ pc' \in [Threads -> Labels] /\ Moves(t)
        /\ pc'[t] = l /\ ctx'[t] = x
    BY CallerFacts DEF Inv, TypeInv, Moves, Labels, Scanning
  <1>2. CallerInv(t)'
    BY <1>1 DEF CallerInv
  <1>. QED
    BY <1>1, <1>2, CallerFacts, LocalFrame, BoundFacts DEF Holding

LEMMA ScanOfCaller == ASSUME Inv, NEW t \in Callers, ScanItem(t) PROVE Inv'
  <1>5. PICK i \in ctx[t].todo : \E v \in replicas[i] : Reads(t, i, v)
    BY CallerFacts, ScanLocal
  <1>6. PICK v \in replicas[i] : Reads(t, i, v)
    BY <1>5
  <1>1. /\ pc[t] \in Scanning /\ pc' = pc
        /\ ctx'[t] = [ctx[t] EXCEPT !.todo = @ \ {i}, !.list = @ \cup {[id |-> i, item |-> v]}]
        /\ missed' = missed /\ ctx' \in [Threads -> Locals] /\ Moves(t)
    BY <1>6, CallerFacts DEF Reads
  <1>2. /\ UNCHANGED <<table, cache, history>> /\ now' = now /\ requests' = requests /\ faults' = faults
    BY <1>1 DEF ScanItem, cache, bounds
  <1>3. /\ ctx'[t].item = ctx[t].item /\ pc'[t] = pc[t] /\ pc' \in [Threads -> Labels]
    BY <1>1, CallerFacts DEF Locals, Inv, TypeInv
  <1>4. CallerInv(t)'
    BY <1>1, <1>3, CallerFacts DEF CallerInv, Scanning
  <1>. QED
    BY <1>1, <1>2, <1>3, <1>4, CallerFacts, LocalFrame, BoundFacts

LEMMA StartAskInv ==
    ASSUME Inv, NEW t \in Callers, NEW res \in Resources, NEW l \in {"askRemediation", "askDrift"},
           StartAsk(t, res, l)
    PROVE  Inv'
  <1> DEFINE x == [ctx[t] EXCEPT !.item = res, !.todo = Ids]
  <1>1. /\ UNCHANGED <<table, cache, history>> /\ now' = now /\ Request /\ faults' = faults
        /\ pc' = [pc EXCEPT ![t] = l]
        /\ ctx' = [ctx EXCEPT ![t].item = res, ![t].todo = Ids]
    BY DEF StartAsk, Goto
  <1>2. ctx' = [ctx EXCEPT ![t] = x] /\ x \in Locals /\ x.item = res
    BY <1>1, CallerFacts DEF Locals, Inv, TypeInv
  <1>3. requests' \in 0..MaxRequests /\ faults' \in 0..MaxFaults /\ l \in Scanning /\ l # "remediation"
    BY <1>1, BoundFacts DEF Scanning
  <1>4. /\ x.item \in Resources /\ (x.todo # {} => l \in Scanning)
        /\ l = "remediation" => \A e \in x.list : e.item.status = "ACTIVE"
    BY <1>2, <1>3
  <1>5. /\ UNCHANGED <<table, cache, history>> /\ now' = now /\ pc' = [pc EXCEPT ![t] = l]
        /\ l \in {"askRemediation", "askDrift", "remediation", "drift"}
    BY <1>1
  <1>. HIDE DEF x
  <1>. QED
    BY <1>2, <1>3, <1>4, <1>5, CallerFrame

LEMMA AskedInv ==
    ASSUME Inv, NEW t \in Callers, AskForRemediation(t) \/ AskForDrift(t)
    PROVE  Inv'
  <1>1. /\ UNCHANGED <<table, cache, history>> /\ now' = now /\ requests' = requests
        /\ faults' \in 0..MaxFaults
        /\ pc[t] \in {"askRemediation", "askDrift"}
    BY BoundFacts DEF AskForRemediation, AskForDrift, Scanned, At
  <1>2. ctx[t].item \in Resources /\ ctx[t] \in Locals
    BY <1>1, CallerFacts DEF CallerInv
  <1>3. CASE Return(t)
    BY <1>1, <1>3, CallerFacts, ReturnLocal, BoundFacts, LocalFrame DEF Holding
  <1>4. CASE /\ ctx' = [ctx EXCEPT ![t].todo = {}, ![t].list = {}] /\ Goto(t, "drift")
    <2> DEFINE x == [ctx[t] EXCEPT !.todo = {}, !.list = {}]
    <2>1. ctx' = [ctx EXCEPT ![t] = x] /\ x \in Locals /\ x.item = ctx[t].item /\ x.todo = {}
      BY <1>2, <1>4, CallerFacts DEF Locals, Inv, TypeInv
    <2>. QED
      BY <1>1, <1>2, <1>4, <2>1, BoundFacts, CallerFrame DEF Goto
  <1>5. ASSUME NEW env, NEW l \in {"remediation", "drift"}, Goto(t, l), ctx[t].todo = {},
               Told(t, list_active_exemptions(ctx[t].list),
                    is_exempt(ctx[t].item, env, list_active_exemptions(ctx[t].list)))
        PROVE  Inv'
    <2> DEFINE active == list_active_exemptions(ctx[t].list)
               id == is_exempt(ctx[t].item, env, active)
               x == [ctx[t] EXCEPT !.list = active, !.id = id]
    <2>1. /\ active \in SUBSET Entry /\ id \in Ids \cup {None}
          /\ \A e \in active : e.item.status = "ACTIVE"
      <3>1. ctx[t].list \in SUBSET Entry
        BY <1>2 DEF Locals
      <3>2. active \in SUBSET Entry /\ \A e \in active : e.id \in Ids /\ e.item.status = "ACTIVE"
        BY <3>1, ListFacts
      <3>. QED
        BY <3>2, ExemptIsListed
    <2>2. ctx' = [ctx EXCEPT ![t] = [ctx[t] EXCEPT !.list = active, !.id = id]]
      BY <1>5, CallerFacts DEF Told, Inv, TypeInv
    <2>3. /\ x \in Locals /\ x.item = ctx[t].item /\ x.todo = ctx[t].todo
          /\ \A e \in x.list : e.item.status = "ACTIVE"
      <3>. HIDE DEF active, id
      <3>. QED
        BY <1>2, <2>1 DEF Locals
    <2>. QED
      <3>. HIDE DEF x
      <3>. QED
        BY <1>1, <1>2, <1>5, <2>2, <2>3, BoundFacts, CallerFrame DEF Goto, x
  <1>. QED
    BY <1>3, <1>4, <1>5 DEF AskForRemediation, AskForDrift, Scanned

LEMMA CallerActedInv == ASSUME Inv, NEW t \in Callers, Acted(t) PROVE Inv'
  <1>1. /\ Return(t) /\ UNCHANGED <<table, cache, history>> /\ now' = now
        /\ requests' = requests /\ faults' = faults
    BY DEF Acted, bounds
  <1>. QED
    BY <1>1, CallerFacts, ReturnLocal, BoundFacts, LocalFrame DEF Holding

\* A page, its locals, and who else it is not.
LEMMA PageFacts ==
    ASSUME Inv, NEW t \in Pages
    PROVE  /\ t \in Threads /\ t \notin Admins /\ t \notin Callers /\ t # None
           /\ PageInv(t) /\ ctx[t] \in Locals
           /\ lock = t <=> pc[t] \in Holding
           /\ pc[t] \in {"idle", "enter", "loaded", "shown"} => ctx[t].todo = {}
BY ExemptionsAssumption DEF Inv, TypeInv, Threads, Scanning

\* What a page is served holds nothing that was gone when it was asked for and
\* is not excused: end is when the load was over, and the list is not older
\* than its lifetime.
LEMMA ServeIsClean ==
    ASSUME Inv, NEW t \in Pages, Served, lock # None \/ at # None, NEW end \in 0..now, now < end + TTL,
           began <= end, Serve(t, end)
    PROVE  /\ ctx' \in [Threads -> Locals] /\ pc' \in [Threads -> Labels] /\ Moves(t)
           /\ pc'[t] = "shown" /\ ctx'[t].todo = ctx[t].todo
           /\ ctx'[t].known \subseteq ctx[t].known
           /\ \A e \in ctx'[t].list : e.id \notin ctx'[t].known
  <1> DEFINE served == IF error THEN {} ELSE value
             known == ctx[t].known \ Excused(end)
  <1>1. /\ ctx[t] \in Locals /\ t \in Threads /\ PageInv(t)
        /\ served \in SUBSET Entry /\ ctx[t].known \in SUBSET Ids /\ ctx[t].known \subseteq gone
    BY PageFacts DEF Inv, TypeInv, Locals, PageInv
  <1>2. ctx' = [ctx EXCEPT ![t] = [ctx[t] EXCEPT !.list = served, !.known = known]]
    BY <1>1 DEF Serve, Inv, TypeInv
  <1>3. pc' = [pc EXCEPT ![t] = "shown"]
    BY DEF Serve, Goto
  <1>4. ASSUME NEW e \in served, e.id \in ctx[t].known PROVE e.id \in Excused(end)
    <2>1. e.id \in gone /\ e.id \in missed /\ e.id \in Ids
      BY <1>1, <1>4 DEF Inv, CacheInv, CleanInv
    <2>2. Lagging(e.id) \/ began <= settled[e.id]
      BY <2>1 DEF Inv, CacheInv, LagInv
    <2>3. /\ now \in Nat /\ end \in Nat /\ began \in Nat /\ settled[e.id] \in Nat /\ TTL \in Nat
      BY <2>1, ExemptionsAssumption DEF Inv, TypeInv
    <2>4. CASE began <= settled[e.id]
      <3>1. now < settled[e.id] + TTL + (end - began)
        BY <2>3, <2>4
      <3>. QED
        BY <2>1, <3>1 DEF Excused
    <2>. QED
      BY <2>1, <2>2, <2>4 DEF Excused
  <1>. HIDE DEF served, known
  <1>5. [ctx[t] EXCEPT !.list = served, !.known = known] \in Locals
    BY <1>1 DEF Locals, known
  <1>6. /\ ctx'[t].list = served /\ ctx'[t].known = known /\ ctx'[t].todo = ctx[t].todo
    BY <1>1, <1>2 DEF Locals, Inv, TypeInv
  <1>7. ctx' \in [Threads -> Locals] /\ pc' \in [Threads -> Labels] /\ Moves(t) /\ pc'[t] = "shown"
    BY <1>1, <1>2, <1>3, <1>5 DEF Moves, Labels, Inv, TypeInv
  <1>. QED
    BY <1>4, <1>6, <1>7 DEF known

LEMMA StartPageInv == ASSUME Inv, NEW t \in Pages, StartPage(t) PROVE Inv'
  <1>1. /\ pc[t] = "idle" /\ Request /\ ctx' = [ctx EXCEPT ![t].known = gone] /\ pc' = [pc EXCEPT ![t] = "enter"]
        /\ UNCHANGED <<table, cache, history>> /\ now' = now /\ faults' = faults
    BY DEF StartPage, At, Goto
  <1>2. ctx[t] \in Locals /\ t \in Threads /\ gone \in SUBSET Ids
    BY PageFacts DEF Inv, TypeInv
  <1>3. /\ ctx' \in [Threads -> Locals] /\ pc' \in [Threads -> Labels] /\ Moves(t)
        /\ pc'[t] = "enter" /\ ctx'[t].known = gone /\ ctx'[t].todo = {}
        /\ ctx'[t].list = ctx[t].list
    BY <1>1, <1>2, PageFacts DEF Inv, TypeInv, Locals, Moves, Labels
  <1>4. PageInv(t)'
    BY <1>1, <1>3, PageFacts DEF PageInv, history
  <1>. QED
    BY <1>1, <1>3, <1>4, BoundFacts, PageFacts, LocalFrame DEF Holding

LEMMA HitInv == ASSUME Inv, NEW t \in Pages, Hit(t) PROVE Inv'
  <1>1. /\ pc[t] = "enter" /\ at # None /\ lock = None /\ now < at + TTL /\ Serve(t, at)
        /\ UNCHANGED <<table, cache, history>> /\ now' = now /\ faults' = faults /\ requests' = requests
    BY DEF Hit, Fresh, At, bounds
  <1>2. Served /\ at \in 0..now /\ began <= at
    BY <1>1 DEF Served, Inv, TypeInv
  <1>3. /\ ctx' \in [Threads -> Locals] /\ pc' \in [Threads -> Labels] /\ Moves(t)
        /\ pc'[t] = "shown" /\ ctx'[t].todo = {} /\ ctx'[t].known \subseteq ctx[t].known
        /\ \A e \in ctx'[t].list : e.id \notin ctx'[t].known
    BY <1>1, <1>2, PageFacts, ServeIsClean
  <1>4. PageInv(t)'
    BY <1>1, <1>3, PageFacts DEF PageInv, history
  <1>. QED
    BY <1>1, <1>3, <1>4, BoundFacts, PageFacts, LocalFrame DEF Holding

\* A page that holds the lock, or takes it, changes the cache and nothing else.
LEMMA PageFrame ==
    ASSUME Inv, NEW t \in Pages, UNCHANGED <<table, now, history>>, requests' = requests,
           faults' \in 0..MaxFaults, Moves(t), lock \in {None, t}, lock' \in {None, t},
           lock' = t <=> pc'[t] \in Holding,
           pc' \in [Threads -> Labels], ctx' \in [Threads -> Locals],
           ctx'[t].todo # {} => pc'[t] \in Scanning,
           value' \subseteq Entry, error' \in BOOLEAN, at' \in {None} \cup 0..now,
           began' \in 0..now, missed' \subseteq Ids,
           lock' = None /\ at' # None => began' <= at',
           CacheInv', PageInv(t)'
    PROVE  Inv'
  <1>1. /\ exemptions' = exemptions /\ replicas' = replicas /\ settled' = settled /\ now' = now
        /\ answered' = answered /\ before' = before /\ gone' = gone
    BY DEF table, history
  <1>2. /\ \A u \in Threads : lock' = u <=> pc'[u] \in Holding
        /\ \A u \in Threads : ctx'[u].todo # {} => pc'[u] \in Scanning
    BY PageFacts, ExemptionsAssumption DEF Inv, TypeInv, Moves, Threads
  <1>3. TypeInv'
    BY <1>1, <1>2 DEF Inv, TypeInv
  <1>4. Evolves /\ Owns(t)
    BY <1>1, PageFacts DEF Evolves, Owns, OnAllReplicas, Inv, TypeInv
  <1>5. \A g \in gone' : exemptions'[g].status = "REVOKED"
    BY <1>1 DEF Inv, TableInv
  <1>. QED
    BY <1>3, <1>4, <1>5, PageFacts, Frame

\* While one page holds the lock, no other has loaded.
LEMMA OneLoads ==
    ASSUME Inv, NEW t, lock \in {None, t}, NEW u \in Pages, u # t
    PROVE  pc[u] \notin Holding
BY ExemptionsAssumption DEF Inv, TypeInv, Threads

LEMMA LoadInv == ASSUME Inv, NEW t \in Pages, Load(t) PROVE Inv'
  <1>1. /\ pc[t] = "enter" /\ lock = None /\ lock' = t /\ pc' = [pc EXCEPT ![t] = "loading"]
        /\ began' = now /\ missed' = {} /\ ctx' = [ctx EXCEPT ![t].todo = Ids]
        /\ value' = value /\ error' = error /\ at' = at /\ now' = now
        /\ faults' = faults /\ requests' = requests
        /\ UNCHANGED <<table, history>>
    BY DEF Load, At, Goto, bounds
  <1>2. /\ t \in Threads /\ t # None /\ t \notin Admins /\ PageInv(t) /\ ctx[t] \in Locals
    BY PageFacts
  <1>3. /\ pc' \in [Threads -> Labels] /\ ctx' \in [Threads -> Locals] /\ Moves(t)
        /\ pc'[t] = "loading" /\ ctx'[t].todo = Ids
        /\ ctx'[t].known = ctx[t].known /\ ctx'[t].list = ctx[t].list
    BY <1>1, <1>2 DEF Inv, TypeInv, Locals, Moves, Labels, Scanning
  <1>4. ctx[t].list = {}
    BY <1>1, <1>2 DEF PageInv
  <1>5. PageInv(t)'
    BY <1>1, <1>2, <1>3, <1>4 DEF PageInv, history
  <1>6. CacheInv'
    <2>2. \A u \in Pages \ {t} : pc[u] \notin Holding
      BY <1>1, OneLoads
    <2>1. ~Served'
      BY <1>1, <1>2, <1>3, <2>2 DEF Served, Moves, Threads, Holding
    <2>. QED
      BY <1>1, <2>1 DEF CacheInv, CleanInv, LagInv
  <1>7. now \in Nat
    BY DEF Inv, TypeInv
  <1>. QED
    BY <1>1, <1>2, <1>3, <1>5, <1>6, <1>7, BoundFacts, PageFrame DEF Inv, TypeInv, Holding, Scanning

LEMMA ScanOfPage == ASSUME Inv, NEW t \in Pages, ScanItem(t) PROVE Inv'
  <1>1. PICK i \in ctx[t].todo : \E v \in replicas[i] : Reads(t, i, v)
    BY PageFacts, ScanLocal
  <1>10. PICK v \in replicas[i] : Reads(t, i, v)
    BY <1>1
  <1>2. /\ i \in Ids /\ v \in Item /\ pc[t] \in Scanning /\ pc' = pc
        /\ ctx'[t] = [ctx[t] EXCEPT !.todo = @ \ {i}, !.list = @ \cup {[id |-> i, item |-> v]}]
        /\ missed' = IF exemptions[i].status = "REVOKED" /\ v.status = "ACTIVE"
                       THEN missed \cup {i} ELSE missed
        /\ ctx' \in [Threads -> Locals] /\ pc' \in [Threads -> Labels] /\ Moves(t)
    BY <1>10 DEF Reads
  <1>3. /\ UNCHANGED <<table, now, history>> /\ value' = value /\ error' = error /\ at' = at
        /\ lock' = lock /\ began' = began /\ requests' = requests /\ faults' = faults
    BY DEF ScanItem, bounds
  <1>4. /\ PageInv(t) /\ ctx[t] \in Locals /\ pc[t] = "loading" /\ lock = t /\ t # None
    BY <1>2, PageFacts DEF PageInv, Scanning, Holding
  <1>5. /\ ctx'[t].known = ctx[t].known /\ ctx'[t].list = ctx[t].list \cup {[id |-> i, item |-> v]}
        /\ pc'[t] = "loading"
    BY <1>2, <1>4 DEF Locals
  <1>6. i \in gone /\ v.status = "ACTIVE" => i \in missed' /\ Lagging(i)
    BY <1>2 DEF Inv, TableInv, Lagging
  <1>7. PageInv(t)'
    BY <1>2, <1>3, <1>4, <1>5, <1>6 DEF PageInv, history
  <1>8. CacheInv'
    <2>4. \A u \in Pages \ {t} : pc[u] \notin Holding
      BY <1>4, OneLoads
    <2>1. ~Served'
      BY <1>2, <1>3, <1>4, <2>4 DEF Served, Holding
    <2>2. \A g \in Ids : Lagging(g) => Lagging(g)'
      BY <1>3 DEF Lagging, table
    <2>3. ASSUME NEW g \in missed' \cap gone' PROVE (Lagging(g) \/ began <= settled[g])'
      BY <1>2, <1>3, <1>4, <1>6, <2>2 DEF Inv, TypeInv, CacheInv, LagInv, table, history
    <2>. QED
      BY <2>1, <2>3 DEF CacheInv, CleanInv, LagInv
  <1>9. missed' \subseteq Ids
    BY <1>2 DEF Inv, TypeInv
  <1>. QED
    BY <1>2, <1>3, <1>4, <1>5, <1>7, <1>8, <1>9, BoundFacts, PageFrame
    DEF Inv, TypeInv, Holding, Scanning

LEMMA LoaderReturnsInv == ASSUME Inv, NEW t \in Pages, LoaderReturns(t) PROVE Inv'
  <1>1. /\ pc[t] = "loading" /\ pc' = [pc EXCEPT ![t] = "loaded"]
        /\ value' \in {list_active_exemptions(ctx[t].list), {}} /\ error' \in BOOLEAN
        /\ ctx' = [ctx EXCEPT ![t].todo = {}, ![t].list = {}]
        /\ faults' \in 0..MaxFaults /\ requests' = requests
        /\ at' = at /\ lock' = lock /\ began' = began /\ missed' = missed
        /\ UNCHANGED <<table, now, history>>
    BY BoundFacts DEF LoaderReturns, Scanned, At, Goto
  <1>2. /\ t \in Threads /\ t # None /\ lock = t /\ PageInv(t) /\ ctx[t] \in Locals
    BY <1>1, PageFacts DEF Holding
  <1>3. /\ pc' \in [Threads -> Labels] /\ ctx' \in [Threads -> Locals] /\ Moves(t)
        /\ pc'[t] = "loaded" /\ ctx'[t].todo = {} /\ ctx'[t].known = ctx[t].known
    BY <1>1, <1>2 DEF Inv, TypeInv, Locals, Moves, Labels
  <1>4. ctx[t].list \in SUBSET Entry
    BY <1>2 DEF Locals
  <1>5. /\ value' \subseteq Entry
        /\ \A e \in value' : e.id \in gone => e.id \in missed
    BY <1>1, <1>2, <1>4, ListFacts DEF PageInv
  <1>6. CacheInv'
    <2>1. \A g \in Ids : Lagging(g) => Lagging(g)'
      BY <1>1 DEF Lagging, table
    <2>. QED
      BY <1>1, <1>2, <1>5, <2>1 DEF Inv, TypeInv, CacheInv, CleanInv, LagInv, table, history
  <1>7. PageInv(t)'
    BY <1>1, <1>2, <1>3 DEF PageInv, history
  <1>. QED
    BY <1>1, <1>2, <1>3, <1>5, <1>6, <1>7, PageFrame DEF Inv, TypeInv, Holding

LEMMA LoadedInv == ASSUME Inv, NEW t \in Pages, Loaded(t) PROVE Inv'
  <1>1. /\ pc[t] = "loaded" /\ lock' = None /\ at' = now /\ Serve(t, now)
        /\ value' = value /\ error' = error /\ began' = began /\ missed' = missed
        /\ faults' = faults /\ requests' = requests
        /\ UNCHANGED <<table, now, history>>
    BY DEF Loaded, At, bounds
  <1>2. /\ t \in Threads /\ t # None /\ lock = t /\ PageInv(t) /\ ctx[t].todo = {}
    BY <1>1, PageFacts DEF Holding
  <1>3. /\ now \in 0..now /\ now < now + TTL /\ began <= now /\ Served
    BY <1>1, ExemptionsAssumption DEF Inv, TypeInv, Served
  <1>4. /\ ctx' \in [Threads -> Locals] /\ pc' \in [Threads -> Labels] /\ Moves(t)
        /\ pc'[t] = "shown" /\ ctx'[t].todo = {} /\ ctx'[t].known \subseteq ctx[t].known
        /\ \A e \in ctx'[t].list : e.id \notin ctx'[t].known
    <2>1. lock # None \/ at # None
      BY <1>2
    <2>. QED
      BY <1>1, <1>2, <1>3, <2>1, ServeIsClean
  <1>5. CacheInv'
    <2>1. \A g \in Ids : Lagging(g) => Lagging(g)'
      BY <1>1 DEF Lagging, table
    <2>. QED
      BY <1>1, <1>2, <1>3, <2>1 DEF Inv, TypeInv, CacheInv, CleanInv, LagInv, table, history
  <1>6. PageInv(t)'
    BY <1>1, <1>2, <1>4 DEF PageInv, history
  <1>. QED
    BY <1>1, <1>2, <1>3, <1>4, <1>5, <1>6, BoundFacts, PageFrame DEF Inv, TypeInv, Holding

LEMMA PageActedInv == ASSUME Inv, NEW t \in Pages, Acted(t) PROVE Inv'
  <1>1. /\ Return(t) /\ UNCHANGED <<table, cache, history>> /\ now' = now
        /\ requests' = requests /\ faults' = faults /\ pc[t] \notin Holding
    BY DEF Acted, bounds, Holding
  <1>. QED
    BY <1>1, ReturnLocal, BoundFacts, PageFacts, LocalFrame DEF Holding

\* The last replica learns: what lagged has settled now.
LEMMA SettleInv == ASSUME Inv, NEW i \in Ids, Settle(i) PROVE Inv'
  <1>1. /\ replicas' = [replicas EXCEPT ![i] = {exemptions[i]}]
        /\ settled' = IF Lagging(i) THEN [settled EXCEPT ![i] = now] ELSE settled
        /\ exemptions' = exemptions /\ now' = now /\ pc' = pc /\ ctx' = ctx
        /\ UNCHANGED <<cache, bounds, history>>
    BY DEF Settle
  <1>2. /\ value' = value /\ error' = error /\ at' = at /\ lock' = lock /\ began' = began /\ missed' = missed
        /\ answered' = answered /\ before' = before /\ gone' = gone
        /\ requests' = requests /\ faults' = faults
    BY <1>1 DEF cache, bounds, history
  <1>3. None \notin Threads /\ Moves(None)
    BY <1>1, ExemptionsAssumption DEF Threads, Moves
  <1>4. /\ replicas' \in [Ids -> SUBSET Item] /\ settled' \in [Ids -> 0..now]
        /\ replicas'[i] = {exemptions[i]} /\ \A j \in Ids \ {i} : replicas'[j] = replicas[j]
    BY <1>1 DEF Inv, TypeInv
  <1>5. TypeInv'
    BY <1>1, <1>2, <1>4 DEF Inv, TypeInv
  <1>6. Evolves /\ Owns(None)
    BY <1>1, <1>2, <1>3, <1>4 DEF Evolves, Owns, OnAllReplicas, Threads, Inv, TypeInv
  <1>7. CacheInv'
    <2>1. Served' => Served
      BY <1>1, <1>2 DEF Served
    <2>2. ASSUME NEW g \in Ids, Lagging(g) \/ began <= settled[g]
          PROVE  (Lagging(g) \/ began <= settled[g])'
      BY <1>1, <1>2, <1>4, <2>2 DEF Lagging, Inv, TypeInv
    <2>. QED
      BY <1>1, <1>2, <2>1, <2>2 DEF Inv, TypeInv, CacheInv, CleanInv, LagInv
  <1>8. \A g \in gone' : exemptions'[g].status = "REVOKED"
    BY <1>1, <1>2 DEF Inv, TableInv
  <1>. QED
    BY <1>3, <1>5, <1>6, <1>7, <1>8, Frame DEF Threads

LEMMA TickInv == ASSUME Inv, Tick PROVE Inv'
  <1>1. /\ now' \in now..MaxTime /\ requests' = requests /\ faults' = faults
        /\ UNCHANGED <<table, cache, history>> /\ pc' = pc /\ ctx' = ctx
    BY ExemptionsAssumption DEF Tick, bounds, Inv, TypeInv
  <1>2. None \notin Threads /\ Moves(None)
    BY <1>1, ExemptionsAssumption DEF Threads, Moves
  <1>3. pc' \in [Threads -> Labels] /\ ctx' \in [Threads -> Locals]
    BY <1>1 DEF Inv, TypeInv
  <1>. QED
    BY <1>1, <1>2, <1>3, BoundFacts, LocalFrame DEF Threads

LEMMA NextInv == ASSUME Inv, Next PROVE Inv'
  <1>1. ASSUME NEW t \in Admins, AdminStep(t) PROVE Inv'
    BY <1>1, ScanOfAdmin, ListForCreateInv, PutSteps, PutsInv, AnswerCreateInv, GetForRevokeInv, AnswerRevokeInv
    DEF AdminStep
  <1>2. ASSUME NEW t \in Admins,
               (\E s \in Scopes, e \in Expiries : StartCreate(t, s, e)) \/ (\E i \in Ids : StartRevoke(t, i))
        PROVE  Inv'
    BY <1>2, StartCreateInv, StartRevokeInv
  <1>3. ASSUME NEW t \in Pages,
               \/ StartPage(t) \/ Hit(t) \/ Load(t) \/ ScanItem(t) \/ LoaderReturns(t) \/ Loaded(t)
               \/ Acted(t)
        PROVE  Inv'
    BY <1>3, StartPageInv, HitInv, LoadInv, ScanOfPage, LoaderReturnsInv, LoadedInv, PageActedInv
  <1>4. ASSUME NEW t \in Callers,
               \/ \E r \in Resources, l \in {"askRemediation", "askDrift"} : StartAsk(t, r, l)
               \/ ScanItem(t) \/ AskForRemediation(t) \/ AskForDrift(t) \/ Acted(t)
        PROVE  Inv'
    BY <1>4, StartAskInv, ScanOfCaller, AskedInv, CallerActedInv
  <1>. QED
    BY <1>1, <1>2, <1>3, <1>4, SettleInv, TickInv DEF Next

LEMMA StutterInv == ASSUME Inv, UNCHANGED vars PROVE Inv'
  <1>1. /\ UNCHANGED <<exemptions, replicas, settled, now, value, error, at, lock, began, missed>>
        /\ UNCHANGED <<pc, ctx, requests, faults, answered, before, gone>>
    BY DEF vars
  <1>2. TypeInv' /\ CacheInv' /\ \A t \in Pages : PageInv(t)'
    BY <1>1 DEF Inv, TypeInv, CacheInv, CleanInv, LagInv, Served, Lagging, PageInv
  <1>3. CreatorsApart' /\ KnownInv' /\ TableInv' /\ \A t \in Callers : CallerInv(t)'
    BY <1>1 DEF Inv, CreatorsApart, KnownInv, OnAllReplicas, TableInv, Clear, _is_active, CallerInv
  <1>4. \A t \in Admins : AdminInv(t)'
    BY <1>1 DEF Inv, AdminInv, Found, Clear, _is_active
  <1>. QED
    BY <1>2, <1>3, <1>4 DEF Inv

\* The invariant holds in every behaviour.
THEOREM Invariance == Spec => []Inv
  <1>1. Inv /\ [Next]_vars => Inv'
    BY NextInv, StutterInv
  <1>. QED
    BY <1>1, InitInv, PTL DEF Spec

-----------------------------------------------------------------------------
(***************************************************************************)
(* The properties                                                          *)
(***************************************************************************)

\* Items are whole, no scope without rank and no date that does not parse is
\* ever stored, and the lock of the cached list belongs to the page that loads.
THEOREM TypeCorrect == Spec => []TypeOK
  <1>1. ASSUME Inv PROVE TypeOK
    <2>1. \A t \in Admins : ctx[t].id \in Ids \cup {None}
      BY AdminFacts, <1>1
    <2>2. \A t \in Threads : ctx[t].todo \subseteq Ids
      BY <1>1 DEF Inv, TypeInv, Locals
    <2>. QED
      BY <1>1, <2>1, <2>2 DEF Inv, TypeInv, AdminInv, TypeOK, Holding
  <1>. QED
    BY <1>1, Invariance, PTL

\* A creation that began when another was answered, and known to every replica,
\* never leaves two active exemptions of one scope.
THEOREM OverlapOnlyHolds == Spec => []OverlapOnly
  <1>1. ASSUME Inv PROVE OverlapOnly
    <2>. SUFFICES ASSUME NEW i \in Ids, NEW j \in Ids, i # j, _is_active(exemptions[i]), _is_active(exemptions[j]),
                         exemptions[i].scope = exemptions[j].scope, i \in before[j]
                  PROVE  FALSE
      BY DEF OverlapOnly
    <2>1. exemptions[j] # NoItem
      BY NoItemFacts DEF _is_active
    <2>. QED
      BY <1>1, <2>1 DEF Inv, TableInv, Clear
  <1>. QED
    BY <1>1, Invariance, PTL

\* No page shows an exemption whose revocation had been answered when the page
\* was asked for, but from a list that was read on a lagging replica, and not
\* when its lifetime and the time of its load have passed since the lag ended.
THEOREM RevokeIsSeenHolds == Spec => []RevokeIsSeen
  <1>1. ASSUME Inv PROVE RevokeIsSeen
    <2>. SUFFICES ASSUME NEW t \in Pages, NEW r \in Resources, pc[t] = "shown",
                         ShownExemption(t, r) \in ctx[t].known
                  PROVE  FALSE
      BY DEF RevokeIsSeen
    <2>1. ctx[t].known \subseteq Ids /\ \A e \in ctx[t].list : e.id \notin ctx[t].known
      BY <1>1, PageFacts DEF PageInv, Inv, TypeInv
    <2>2. ShownExemption(t, r) \in {None} \cup {e.id : e \in ctx[t].list}
      BY ExemptIsListed DEF ShownExemption
    <2>. QED
      BY <2>1, <2>2, ExemptionsAssumption
  <1>. QED
    BY <1>1, Invariance, PTL

\* A revoked exemption comes back only through a repeated put of the request
\* that created it and has not been answered.
THEOREM RevokedStaysRevokedHolds == Spec => RevokedStaysRevoked
  <1>1. ASSUME Inv, [Next]_vars, NEW i \in Ids, exemptions[i].status = "REVOKED",
               exemptions'[i].status # "REVOKED"
        PROVE  \E t \in Admins : pc[t] = "put" /\ ctx[t].id = i /\ i \notin answered
    <2>1. exemptions' # exemptions
      BY <1>1
    <2>2. PICK t \in Admins : PutNew(t) \/ PutRepeated(t) \/ PutFails(t) \/ PutRevoked(t) \/ PutRevokedFails(t)
      BY <1>1, <2>1
      DEF Next, vars, AdminStep, StartCreate, StartRevoke, ListForCreate, AnswerCreate, GetForRevoke,
          AnswerRevoke, StartAsk, ScanItem, AskForRemediation, AskForDrift, Acted, StartPage, Hit, Load,
          LoaderReturns, Loaded, Settle, Tick, table
    <2>3. Puts(t) /\ AdminInv(t)
      BY <1>1, <2>2, PutSteps DEF Inv
    <2>4. exemptions' = [exemptions EXCEPT ![ctx[t].id] = ctx[t].item] /\ exemptions \in [Ids -> Item]
      BY <1>1, <2>1, <2>3 DEF Puts, put_exemption, table, Inv, TypeInv
    <2>5. ctx[t].id = i /\ ctx[t].item.status # "REVOKED"
      BY <1>1, <2>4
    <2>. QED
      BY <2>3, <2>5 DEF Puts, AdminInv, Creating
  <1>2. Inv /\ [Next]_vars =>
            [\A i \in Ids : exemptions[i].status = "REVOKED" =>
                \/ exemptions'[i].status = "REVOKED"
                \/ \E t \in Admins : pc[t] = "put" /\ ctx[t].id = i /\ i \notin answered]_vars
    BY <1>1
  <1>. QED
    BY <1>2, Invariance, PTL DEF Spec, RevokedStaysRevoked

-----------------------------------------------------------------------------
(***************************************************************************)
(* What the finding about CoveredIsSkipped is due to: remediation asks     *)
(* without an environment, so exemptions by environment are out of its     *)
(* sight, and nothing else is.                                             *)
(***************************************************************************)
ByEnvironment(scope) == "environment" \in Given(scope)

\* An environment that is not passed is matched by nothing.
LEMMA NoneMatchesNoEnvironment ==
    ASSUME NEW scope, NEW res, ByEnvironment(scope)
    PROVE  ~_matches(scope, res, None)
BY DEF ByEnvironment, Given, _matches

\* Other exemptions do not look at it.
LEMMA EnvironmentUnused ==
    ASSUME NEW scope, NEW res, NEW env, ~ByEnvironment(scope)
    PROVE  _matches(scope, res, env) <=> _matches(scope, res, None)
BY DEF ByEnvironment, _matches

\* The answer depends on the environment only through the exemptions by
\* environment that match it.
LEMMA SameAnswer ==
    ASSUME NEW res, NEW env, NEW active,
           \A e \in active : ByEnvironment(e.item.scope) => ~_matches(e.item.scope, res, env)
    PROVE  is_exempt(res, env, active) = is_exempt(res, None, active)
  <1>1. {e \in active : _matches(e.item.scope, res, env)} = {e \in active : _matches(e.item.scope, res, None)}
    BY NoneMatchesNoEnvironment, EnvironmentUnused
  <1> DEFINE highest(m) == {e \in m : \A o \in m : _get_scope_rank(o.item.scope) <= _get_scope_rank(e.item.scope)}
             answer(m) == IF Cardinality(highest(m)) = 1 THEN (CHOOSE e \in highest(m) : TRUE).id ELSE None
  <1>2. /\ is_exempt(res, env, active) = answer({e \in active : _matches(e.item.scope, res, env)})
        /\ is_exempt(res, None, active) = answer({e \in active : _matches(e.item.scope, res, None)})
    BY DEF is_exempt
  <1>. HIDE DEF answer
  <1>. QED
    BY <1>1, <1>2

\* What a remediation request was told is the answer without an environment.
ToldWithoutEnvironment ==
    \A t \in Callers :
        pc[t] = "remediation" => ctx[t].id = is_exempt(ctx[t].item, None, ctx[t].list)

LEMMA ToldStep ==
    ASSUME Inv, ToldWithoutEnvironment, [Next]_vars
    PROVE  ToldWithoutEnvironment'
  <1>. SUFFICES ASSUME NEW u \in Callers, pc'[u] = "remediation"
                PROVE  ctx'[u].id = is_exempt(ctx'[u].item, None, ctx'[u].list)
    BY DEF ToldWithoutEnvironment, is_exempt, _matches, is_valid_scope, _get_scope_rank, Given
  <1>1. /\ pc \in [Threads -> Labels] /\ ctx \in [Threads -> Locals] /\ u \in Threads
        /\ u \notin Admins /\ u \notin Pages
    BY ExemptionsAssumption DEF Inv, TypeInv, Threads
  <1>2. CASE ctx'[u] = ctx[u] /\ pc'[u] = pc[u]
    BY <1>2 DEF ToldWithoutEnvironment
  <1>3. CASE AskForRemediation(u)
    <2> DEFINE active == list_active_exemptions(ctx[u].list)
    <2>1. ctx' = [ctx EXCEPT ![u].list = active, ![u].id = is_exempt(ctx[u].item, None, active)]
      BY <1>1, <1>3 DEF AskForRemediation, Told, Return, Goto
    <2>2. /\ ctx'[u].item = ctx[u].item /\ ctx'[u].list = active
          /\ ctx'[u].id = is_exempt(ctx[u].item, None, active)
      <3>. HIDE DEF active
      <3>. QED
        BY <1>1, <2>1 DEF Locals
    <2>. QED
      BY <2>2
  <1>4. CASE \/ \E r \in Resources, l \in {"askRemediation", "askDrift"} : StartAsk(u, r, l)
             \/ ScanItem(u) \/ AskForDrift(u) \/ Acted(u)
    BY <1>1, <1>4 DEF StartAsk, ScanItem, Scanning, AskForDrift, Acted, Return, Goto
  <1>5. ASSUME NEW t \in Threads, t # u, NEW l,
               pc' = [pc EXCEPT ![t] = l] \/ pc' = pc,
               \A v \in Threads \ {t} : ctx'[v] = ctx[v]
        PROVE  ctx'[u] = ctx[u] /\ pc'[u] = pc[u]
    BY <1>1, <1>5
  <1>6. ASSUME NEW t \in Admins,
               \/ AdminStep(t) \/ \E i \in Ids : StartRevoke(t, i)
               \/ \E s \in Scopes, e \in Expiries : StartCreate(t, s, e)
        PROVE  ctx'[u] = ctx[u] /\ pc'[u] = pc[u]
    BY <1>1, <1>6
    DEF AdminStep, ScanItem, StartCreate, StartRevoke, ListForCreate, PutNew, PutRepeated, PutFails, AnswerCreate,
        GetForRevoke, PutRevoked, PutRevokedFails, AnswerRevoke, Return, Goto
  <1>7. ASSUME NEW t \in Pages,
               \/ StartPage(t) \/ Hit(t) \/ Load(t) \/ ScanItem(t) \/ LoaderReturns(t) \/ Loaded(t)
               \/ Acted(t)
        PROVE  ctx'[u] = ctx[u] /\ pc'[u] = pc[u]
    BY <1>1, <1>7 DEF StartPage, Hit, Load, ScanItem, LoaderReturns, Loaded, Serve, Acted, Return, Goto
  <1>8. ASSUME NEW t \in Callers \ {u},
               \/ \E r \in Resources, l \in {"askRemediation", "askDrift"} : StartAsk(t, r, l)
               \/ ScanItem(t) \/ AskForRemediation(t) \/ AskForDrift(t) \/ Acted(t)
        PROVE  ctx'[u] = ctx[u] /\ pc'[u] = pc[u]
    BY <1>1, <1>8 DEF StartAsk, ScanItem, AskForRemediation, AskForDrift, Acted, Told, Return, Goto
  <1>. QED
    BY <1>2, <1>3, <1>4, <1>6, <1>7, <1>8 DEF Next, Settle, Tick, vars

LEMMA ToldHolds == Spec => []ToldWithoutEnvironment
  <1>1. Init => ToldWithoutEnvironment
    BY DEF Init, ToldWithoutEnvironment, Threads
  <1>2. Inv /\ ToldWithoutEnvironment /\ [Next]_vars => ToldWithoutEnvironment'
    BY ToldStep
  <1>. QED
    BY <1>1, <1>2, Invariance, PTL DEF Spec

\* Every remediation request that goes on although the compliance page shows
\* its resource as exempt has missed an exemption by environment that matches
\* the resource; nothing else makes the two disagree.
MissedByEnvironment ==
    \A t \in Callers :
        /\ pc[t] = "remediation" /\ ctx[t].id = None
        /\ is_exempt(ctx[t].item, ctx[t].item["environment"], ctx[t].list) # None
        => \E e \in ctx[t].list : /\ ByEnvironment(e.item.scope)
                                  /\ _matches(e.item.scope, ctx[t].item, ctx[t].item["environment"])

THEOREM MissedByEnvironmentOnly == Spec => []MissedByEnvironment
  <1>1. ToldWithoutEnvironment => MissedByEnvironment
    BY SameAnswer DEF ToldWithoutEnvironment, MissedByEnvironment
  <1>. QED
    BY <1>1, ToldHolds, PTL

\* Where no exemption is ever asked for by environment, a remediation request
\* for a resource that is covered is skipped.
NoScopeByEnvironment == \A s \in Scopes : ~ByEnvironment(s)

THEOREM CoveredIsSkippedElsewhere ==
    ASSUME NoScopeByEnvironment
    PROVE  Spec => []CoveredIsSkipped
  <1>1. ASSUME Inv, ToldWithoutEnvironment
        PROVE  CoveredIsSkipped
    <2>. SUFFICES ASSUME NEW t \in Callers, pc[t] = "remediation"
                  PROVE  ctx[t].id = is_exempt(ctx[t].item, ctx[t].item["environment"], ctx[t].list)
      BY DEF CoveredIsSkipped
    <2>1. \A e \in ctx[t].list : ~ByEnvironment(e.item.scope)
      <3>1. \A e \in ctx[t].list : e.item \in Item /\ e.item.status = "ACTIVE"
        BY <1>1, CallerFacts DEF CallerInv, Locals, Entry
      <3>2. \A e \in ctx[t].list : e.item.scope \in Scopes
        BY <3>1, ItemFacts, NoItemFacts
      <3>. QED
        BY <3>2 DEF NoScopeByEnvironment
    <2>2. is_exempt(ctx[t].item, ctx[t].item["environment"], ctx[t].list)
            = is_exempt(ctx[t].item, None, ctx[t].list)
      BY <2>1, SameAnswer
    <2>. QED
      BY <1>1, <2>2 DEF ToldWithoutEnvironment
  <1>. QED
    BY <1>1, Invariance, ToldHolds, PTL
=============================================================================
