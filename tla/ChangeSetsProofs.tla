--------------------------- MODULE ChangeSetsProofs ---------------------------
(***************************************************************************)
(* Proofs about ChangeSets, for any resources, keys, values, requests and  *)
(* number of request threads.                                              *)
(*                                                                         *)
(* The inductive invariant Inv says, for each request, what it knows:      *)
(* while it reads, that what it has read still holds or is in touched; as  *)
(* it writes, that goal, items and token are those of the plan made from   *)
(* seen (Planned), that what it is still going to write holds what was     *)
(* read (Current), that a result SUCCESS which nothing is outstanding for  *)
(* was accepted by AWS (Real), and that an undo has put back what it is    *)
(* not still going to (Restored).                                          *)
(***************************************************************************)
EXTENDS ChangeSets, FiniteSetTheorems, TLAPS

Goals == [Keys -> Values \cup {None, Keep}]
Tokens == UNION {[S -> TagMap \X TagMap] : S \in SUBSET Resources}
Locals == [pc : {"idle", "read", "write"}, undo_of : Nat, overwrite : BOOLEAN, token : Tokens,
           want : [Resources -> TagMap], unread : SUBSET Resources, seen : [Resources -> TagMap],
           goal : [Resources -> Goals],
           toSet : SUBSET Resources, toRemove : SUBSET Resources, toOp : SUBSET Settings,
           items : [Resources -> Items], ops : [Settings -> OpItems]]
Row == [items : [Resources -> Items], ops : [Settings -> OpItems],
        status : {"APPLIED", "PARTIAL", "FAILED", "NO_CHANGE", "UNDONE", "UNDO_PARTIAL"},
        undo_of : Nat, undone_by : Nat]

TypeInv ==
    /\ tags \in [Resources -> TagMap]
    /\ setting \in [Settings -> {"off", "on", "other"}]
    /\ rows \in Seq(Row) /\ pruned \in 0 .. Len(rows)
    /\ ctx \in [Users -> Locals]
    /\ touched \in [Users -> SUBSET Cells]

RowInv(i) ==
    /\ rows[i].undone_by \in {0} \cup (i + 1 .. Len(rows))
    /\ rows[i].undo_of \in 0 .. i - 1
    /\ \A r \in Resources : rows[i].items[r].result = "SUCCESS" => rows[i].items[r].hit

RoomInv == Len(rows) + Cardinality(Active) <= MaxRows

\* Whether request u looks at r, and the item of the change set that it undoes.
Relevant(u, r) ==
    IF ctx[u].undo_of = 0 THEN ctx[u].want[r] # NoTags
    ELSE rows[ctx[u].undo_of].items[r].result = "SUCCESS"
Old(u, r) == rows[ctx[u].undo_of].items[r]

UndoInv(u) ==
    ctx[u].undo_of # 0 =>
        /\ ctx[u].undo_of \in DOMAIN rows /\ rows[ctx[u].undo_of].undo_of = 0
        /\ ctx[u].token = <<>>

\* What has been read still holds, or is known to have been touched; nothing is
\* outstanding before the plan.
ReadInv(u) ==
    /\ ctx[u].pc = "read" =>
          /\ ctx[u].undo_of # 0 => ctx[u].items = rows[ctx[u].undo_of].items
          /\ \A r \in Resources \ ctx[u].unread, k \in Keys :
                Relevant(u, r) /\ <<r, k>> \notin touched[u] => tags[r][k] = ctx[u].seen[r][k]
    /\ ctx[u].pc # "write" => ctx[u].toSet = {} /\ ctx[u].toRemove = {}

Planned(u) ==
    /\ ctx[u].unread = {}
    /\ ctx[u].undo_of = 0 =>
          /\ ctx[u].token # <<>> => ctx[u].token = plan_token(ctx[u].want, ctx[u].seen, ctx[u].overwrite)
          /\ \A r \in Resources :
                LET plan == PlanItem(ctx[u].want[r], ctx[u].seen[r], ctx[u].overwrite) IN
                /\ ctx[u].goal[r] = ApplyGoal(plan)
                /\ ctx[u].items[r].before = plan.before
    /\ ctx[u].undo_of # 0 =>
          \A r \in Resources :
              /\ ctx[u].goal[r] = UndoGoal(Old(u, r), ctx[u].seen[r])
              /\ ctx[u].items[r].conflicts = UndoItem(Old(u, r), ctx[u].seen[r]).conflicts

Real(u) ==
    \A r \in Resources :
        ctx[u].items[r].result = "SUCCESS" => ctx[u].items[r].hit \/ r \in ctx[u].toSet \cup ctx[u].toRemove

Current(u) ==
    \A r \in Resources, k \in Keys :
        Pending(u, r, k) /\ <<r, k>> \notin touched[u] => tags[r][k] = ctx[u].seen[r][k]

Restored(u) ==
    ctx[u].undo_of # 0 =>
        \A r \in Resources, k \in Keys :
            Old(u, r).result = "SUCCESS" /\ k \in Mine(Old(u, r), ctx[u].seen[r]) /\ <<r, k>> \notin touched[u] =>
                \/ Pending(u, r, k)
                \/ ctx[u].items[r].result = "FAILED"
                \/ tags[r][k] = Old(u, r).before[k]

WriteInv(u) == ctx[u].pc = "write" => Planned(u) /\ Real(u) /\ Current(u) /\ Restored(u)

UserInv(u) == UndoInv(u) /\ ReadInv(u) /\ WriteInv(u)

Inv ==
    /\ TypeInv /\ RoomInv
    /\ \A i \in DOMAIN rows : RowInv(i)
    /\ \A u \in Users : UserInv(u)

-----------------------------------------------------------------------------
(***************************************************************************)
(* Plans                                                                   *)
(***************************************************************************)
LEMMA NoTagsType == NoTags \in TagMap /\ NoItem \in Items /\ NoOp \in OpItems
BY DEF NoTags, TagMap, NoItem, Items, NoOp, OpItems

LEMMA PlanType ==
    ASSUME NEW want \in TagMap, NEW cur \in TagMap, NEW ow \in BOOLEAN
    PROVE  /\ PlanItem(want, cur, ow) \in Items
           /\ ApplyGoal(PlanItem(want, cur, ow)) \in Goals
           /\ ApplyGoal(PlanItem(want, cur, ow)) # [k \in Keys |-> Keep]
                => want # NoTags /\ PlanItem(want, cur, ow).result = "SUCCESS"
           /\ ~PlanItem(want, cur, ow).hit
  <1> DEFINE after == Changes(want, cur, ow)
             plan == PlanItem(want, cur, ow)
  <1>1. after \in TagMap
    BY DEF Changes, TagMap
  <1>2. [k \in Keys |-> IF after[k] = None THEN None ELSE cur[k]] \in TagMap
    BY DEF TagMap
  <1>3. plan \in Items /\ plan.after = after /\ ~plan.hit
        /\ (plan.result = "SUCCESS" => want # NoTags)
    BY <1>1, <1>2, NoTagsType DEF PlanItem, NoItem, Items
  <1>4. ApplyGoal(plan) \in Goals
    BY <1>1, <1>3 DEF ApplyGoal, Goals, TagMap
  <1>5. ApplyGoal(plan) # [k \in Keys |-> Keep] => plan.result = "SUCCESS"
    BY DEF ApplyGoal
  <1>. QED
    BY <1>3, <1>4, <1>5

LEMMA UndoType ==
    ASSUME NEW it \in Items, NEW cur \in TagMap
    PROVE  /\ UndoItem(it, cur) \in Items /\ UndoGoal(it, cur) \in Goals
           /\ ~UndoItem(it, cur).hit
  <1>1. [k \in Keys |-> IF k \in Mine(it, cur) THEN cur[k] ELSE None] \in TagMap
    BY DEF TagMap
  <1>2. [k \in Keys |-> IF k \in Mine(it, cur) THEN it.before[k] ELSE None] \in TagMap
    BY DEF TagMap, Items
  <1>3. UndoItem(it, cur) \in Items /\ ~UndoItem(it, cur).hit
    BY <1>1, <1>2, NoTagsType DEF UndoItem, Items, NoItem
  <1>4. UndoGoal(it, cur) \in Goals
    BY DEF UndoGoal, Goals, Items, TagMap
  <1>. QED
    BY <1>3, <1>4

LEMMA TokenType ==
    ASSUME NEW want \in [Resources -> TagMap], NEW cur \in [Resources -> TagMap], NEW ow \in BOOLEAN
    PROVE  plan_token(want, cur, ow) \in Tokens
  <1> DEFINE S == {q \in Resources : want[q] # NoTags}
  <1>1. \A r \in S : PlanItem(want[r], cur[r], ow) \in Items
    BY PlanType
  <1>2. plan_token(want, cur, ow) \in [S -> TagMap \X TagMap]
    BY <1>1 DEF plan_token, Items
  <1>. QED
    BY <1>2 DEF Tokens

-----------------------------------------------------------------------------
(***************************************************************************)
(* What a step leaves to the requests it does not belong to                *)
(***************************************************************************)

\* Rows stay, with their items.
RowsKept ==
    \A c \in DOMAIN rows :
        c \in DOMAIN rows' /\ rows'[c].items = rows[c].items /\ rows'[c].undo_of = rows[c].undo_of

\* Request v is left alone, and what changes under it is noted.
Spared(v) ==
    /\ ctx'[v] = ctx[v] /\ touched[v] \subseteq touched'[v]
    /\ ctx[v].pc # "idle" =>
          \A r \in Resources \ ctx[v].unread, k \in Keys :
              tags'[r][k] # tags[r][k] => <<r, k>> \in touched'[v]

LEMMA OtherUser ==
    ASSUME TypeInv, TypeInv', RowsKept, NEW v \in Users, UserInv(v), Spared(v)
    PROVE  UserInv(v)'
  <1>1. UndoInv(v)'
    BY DEF UserInv, UndoInv, Spared, RowsKept
  <1>2. ctx[v].undo_of # 0 => rows'[ctx[v].undo_of].items = rows[ctx[v].undo_of].items
    BY DEF UserInv, UndoInv, RowsKept
  <1>3. ReadInv(v)'
    BY <1>2 DEF UserInv, ReadInv, Relevant, Spared
  <1>4. ASSUME ctx[v].pc = "write" PROVE Planned(v)' /\ Real(v)'
    BY <1>2, <1>4 DEF UserInv, WriteInv, Planned, Real, Spared, Old
  <1>5. ASSUME ctx[v].pc = "write",
               NEW r \in Resources, NEW k \in Keys, <<r, k>> \notin touched'[v]
        PROVE  tags'[r][k] = tags[r][k] /\ <<r, k>> \notin touched[v]
    BY <1>5 DEF UserInv, WriteInv, Planned, Spared
  <1>6. ASSUME ctx[v].pc = "write" PROVE Current(v)'
    BY <1>5, <1>6 DEF UserInv, WriteInv, Current, Pending, Spared
  <1>7. ASSUME ctx[v].pc = "write" PROVE Restored(v)'
    <2>1. Restored(v) /\ ctx'[v] = ctx[v]
      BY <1>7 DEF UserInv, WriteInv, Spared
    <2>2. \A r \in Resources : ctx[v].undo_of # 0 => Old(v, r)' = Old(v, r)
      BY <1>2, <2>1 DEF Old
    <2>3. \A r \in Resources, k \in Keys : Pending(v, r, k)' <=> Pending(v, r, k)
      BY <2>1 DEF Pending
    <2>4. SUFFICES ASSUME ctx[v].undo_of # 0, NEW r \in Resources, NEW k \in Keys,
                          Old(v, r).result = "SUCCESS", k \in Mine(Old(v, r), ctx[v].seen[r]),
                          <<r, k>> \notin touched'[v]
                   PROVE  \/ Pending(v, r, k)
                          \/ ctx[v].items[r].result = "FAILED"
                          \/ tags'[r][k] = Old(v, r).before[k]
      BY <2>1, <2>2, <2>3 DEF Restored
    <2>5. tags'[r][k] = tags[r][k] /\ <<r, k>> \notin touched[v]
      BY <1>5, <1>7, <2>4
    <2>. QED
      BY <2>1, <2>4, <2>5 DEF Restored
  <1>. QED
    BY <1>1, <1>3, <1>4, <1>6, <1>7 DEF UserInv, WriteInv, Spared

\* A request that is idle has nothing to show.
LEMMA IdleUser ==
    ASSUME NEW v \in Users, ctx'[v] = Idle PROVE UserInv(v)'
BY DEF UserInv, UndoInv, ReadInv, WriteInv, Idle

LEMMA IdleType == Idle \in Locals
  <1>1. [r \in Resources |-> NoTags] \in [Resources -> TagMap]
    BY NoTagsType
  <1>2. [r \in Resources |-> [k \in Keys |-> Keep]] \in [Resources -> Goals]
    BY DEF Goals
  <1>3. <<>> \in Tokens
    <2>1. <<>> \in [{} -> TagMap \X TagMap]
      OBVIOUS
    <2>. QED
      BY <2>1 DEF Tokens
  <1>4. /\ [r \in Resources |-> NoItem] \in [Resources -> Items]
        /\ [o \in Settings |-> NoOp] \in [Settings -> OpItems]
    BY NoTagsType
  <1>. QED
    BY <1>1, <1>2, <1>3, <1>4 DEF Idle, Locals

\* A request that begins or ends, or goes on.
LEMMA RoomStays ==
    ASSUME Inv, NEW u, RowsKept, TypeInv',
           \A v \in Users \ {u} : ctx'[v].pc = ctx[v].pc,
           \/ Len(rows') = Len(rows) /\ (u \in Users /\ ctx'[u].pc # "idle" => ctx[u].pc # "idle")
           \/ Len(rows') = Len(rows) /\ Room
           \/ u \in Users /\ Len(rows') = Len(rows) + 1 /\ ctx[u].pc # "idle" /\ ctx'[u].pc = "idle"
    PROVE  RoomInv'
  <1>1. /\ Active \subseteq Users /\ IsFiniteSet(Active) /\ Cardinality(Active) \in Nat
        /\ Active' \subseteq Users /\ IsFiniteSet(Active') /\ Cardinality(Active') \in Nat
    BY ChangeSetsAssumption, FS_Subset, FS_CardinalityType DEF Active
  <1>2. Len(rows) \in Nat /\ MaxRows \in Nat /\ Len(rows) + Cardinality(Active) <= MaxRows
    BY ChangeSetsAssumption DEF Inv, TypeInv, RoomInv
  <1>3. CASE Len(rows') = Len(rows) /\ (u \in Users /\ ctx'[u].pc # "idle" => ctx[u].pc # "idle")
    <2>1. Active' \subseteq Active
      BY <1>3 DEF Active
    <2>2. Cardinality(Active') <= Cardinality(Active)
      BY <1>1, <2>1, FS_Subset
    <2>. QED
      BY <1>1, <1>2, <1>3, <2>2 DEF RoomInv
  <1>4. CASE Len(rows') = Len(rows) /\ Room
    <2>1. Active' \subseteq Active \cup {u}
      BY DEF Active
    <2>2. IsFiniteSet(Active \cup {u}) /\ Cardinality(Active \cup {u}) <= Cardinality(Active) + 1
          /\ Cardinality(Active \cup {u}) \in Nat
      <3>1. IsFiniteSet(Active \cup {u}) /\ Cardinality(Active \cup {u}) \in Nat
        BY <1>1, FS_AddElement, FS_CardinalityType
      <3>2. CASE u \in Active
        <4>1. Active \cup {u} = Active
          BY <3>2
        <4>2. Cardinality(Active \cup {u}) = Cardinality(Active)
          BY <4>1
        <4>. QED
          BY <1>1, <3>1, <4>2
      <3>3. CASE u \notin Active
        BY <1>1, <3>1, <3>3, FS_AddElement
      <3>. QED
        BY <3>1, <3>2, <3>3
    <2>3. Cardinality(Active') <= Cardinality(Active \cup {u})
      BY <2>1, <2>2, FS_Subset
    <2>. QED
      BY <1>1, <1>2, <1>4, <2>2, <2>3 DEF RoomInv, Room
  <1>5. CASE u \in Users /\ Len(rows') = Len(rows) + 1 /\ ctx[u].pc # "idle" /\ ctx'[u].pc = "idle"
    <2>1. Active' = Active \ {u} /\ u \in Active
      BY <1>5 DEF Active
    <2>2. Cardinality(Active') = Cardinality(Active) - 1
      BY <1>1, <2>1, FS_RemoveElement
    <2>. QED
      BY <1>1, <1>2, <1>5, <2>2 DEF RoomInv
  <1>. QED
    BY <1>3, <1>4, <1>5

\* A step of u that writes neither tags nor rows nor under others' eyes.
LEMMA LocalFrame ==
    ASSUME Inv, NEW u \in Users, tags' = tags, rows' = rows, pruned' = pruned,
           setting' \in [Settings -> {"off", "on", "other"}],
           ctx' \in [Users -> Locals], touched' \in [Users -> SUBSET Cells],
           \A v \in Users \ {u} : ctx'[v] = ctx[v] /\ touched[v] \subseteq touched'[v],
           (ctx'[u].pc # "idle" => ctx[u].pc # "idle") \/ Room,
           UserInv(u)'
    PROVE  Inv'
  <1>1. TypeInv'
    BY DEF Inv, TypeInv
  <1>2. RowsKept
    BY DEF RowsKept
  <1>3. \A v \in Users \ {u} : UserInv(v)'
    BY <1>1, <1>2, OtherUser DEF Inv, Spared
  <1>4. RoomInv'
    BY <1>1, <1>2, RoomStays
  <1>5. \A i \in DOMAIN rows' : RowInv(i)'
    BY DEF Inv, RowInv
  <1>. QED
    BY <1>1, <1>3, <1>4, <1>5 DEF Inv

LEMMA InitInv == ASSUME Init PROVE Inv
  <1>1. rows = <<>> /\ rows \in Seq(Row) /\ Len(rows) = 0 /\ DOMAIN rows = {}
    BY DEF Init
  <1>2. TypeInv
    BY <1>1, IdleType, NoTagsType DEF Init, TypeInv
  <1>3. Active = {}
    BY DEF Init, Active, Idle
  <1>4. RoomInv
    BY <1>1, <1>3, FS_EmptySet, ChangeSetsAssumption DEF RoomInv
  <1>5. \A u \in Users : UserInv(u)
    BY DEF Init, UserInv, UndoInv, ReadInv, WriteInv, Idle
  <1>. QED
    BY <1>1, <1>2, <1>4, <1>5 DEF Inv

LEMMA RespondInv ==
    ASSUME Inv, NEW u \in Users, Respond(u), tags' = tags, rows' = rows, pruned' = pruned,
           setting' = setting
    PROVE  Inv'
  <1>1. ctx' \in [Users -> Locals] /\ touched' \in [Users -> SUBSET Cells] /\ ctx'[u] = Idle
    BY IdleType DEF Respond, Inv, TypeInv
  <1>2. \A v \in Users \ {u} : ctx'[v] = ctx[v] /\ touched[v] \subseteq touched'[v]
    BY DEF Respond, Inv, TypeInv
  <1>3. setting' \in [Settings -> {"off", "on", "other"}]
    BY DEF Inv, TypeInv
  <1>4. UserInv(u)' /\ ctx'[u].pc = "idle"
    BY <1>1, IdleUser DEF Idle
  <1>. QED
    BY <1>1, <1>2, <1>3, <1>4, LocalFrame

-----------------------------------------------------------------------------
(***************************************************************************)
(* The steps of a request                                                  *)
(***************************************************************************)
LEMMA UserFacts ==
    ASSUME Inv, NEW u \in Users
    PROVE  /\ ctx[u] \in Locals /\ UserInv(u)
           /\ setting \in [Settings -> {"off", "on", "other"}] /\ tags \in [Resources -> TagMap]
           /\ touched \in [Users -> SUBSET Cells] /\ ctx \in [Users -> Locals]
           /\ \A i \in DOMAIN rows : rows[i] \in Row
BY DEF Inv, TypeInv

LEMMA StartApplyInv ==
    ASSUME Inv, NEW u \in Users, NEW q \in Requests, StartApply(u, q) PROVE Inv'
  <1> DEFINE ops == [o \in Settings |-> IF o \in q.ops THEN [before |-> setting[o], result |-> "SUCCESS"]
                                        ELSE NoOp]
             unread == {r \in Resources : q.want[r] # NoTags}
             token == IF q.previewed THEN plan_token(q.want, tags, q.overwrite) ELSE <<>>
             c == [Idle EXCEPT !.pc = "read", !.want = q.want, !.overwrite = q.overwrite,
                       !.token = token, !.unread = unread, !.ops = ops, !.toOp = q.ops]
  <1>1. /\ Room /\ ctx' = [ctx EXCEPT ![u] = c] /\ touched' = [touched EXCEPT ![u] = {}]
        /\ tags' = tags /\ setting' = setting /\ rows' = rows /\ pruned' = pruned
    BY DEF StartApply
  <1>2. q \in RequestType
    BY RequestsAssumption
  <1>3. ops \in [Settings -> OpItems]
    BY UserFacts, NoTagsType DEF OpItems
  <1>4. token \in Tokens
    BY <1>2, UserFacts, TokenType, IdleType DEF RequestType, Locals, Idle
  <1>5. c \in Locals
    BY <1>2, <1>3, <1>4, IdleType DEF RequestType, Locals, Idle
  <1>6. ctx' \in [Users -> Locals] /\ touched' \in [Users -> SUBSET Cells] /\ ctx'[u] = c
    BY <1>1, <1>5, UserFacts
  <1>7. c.pc = "read" /\ c.undo_of = 0 /\ c.unread = unread /\ c.want = q.want
        /\ c.toSet = {} /\ c.toRemove = {}
    BY DEF Idle
  <1>8. UserInv(u)'
    BY <1>6, <1>7 DEF UserInv, UndoInv, ReadInv, WriteInv, Relevant
  <1>. QED
    BY <1>1, <1>6, <1>8, UserFacts, LocalFrame

LEMMA StartUndoInv ==
    ASSUME Inv, NEW u \in Users, NEW i \in 1 .. Len(rows), StartUndo(u, i) PROVE Inv'
  <1> DEFINE ops == [o \in Settings |-> IF rows[i].ops[o].result = "SUCCESS" THEN rows[i].ops[o] ELSE NoOp]
             unread == {r \in Resources : rows[i].items[r].result = "SUCCESS"}
             toOp == {o \in Settings : rows[i].ops[o].result = "SUCCESS"}
             c == [Idle EXCEPT !.pc = "read", !.undo_of = i, !.unread = unread,
                       !.items = rows[i].items, !.ops = ops, !.toOp = toOp]
  <1>1. /\ Room /\ ctx' = [ctx EXCEPT ![u] = c] /\ touched' = [touched EXCEPT ![u] = {}]
        /\ tags' = tags /\ setting' = setting /\ rows' = rows /\ pruned' = pruned
        /\ rows[i].undo_of = 0
    BY DEF StartUndo, Undoable
  <1>2. i \in DOMAIN rows /\ rows[i] \in Row /\ i \in Nat
    BY DEF Inv, TypeInv
  <1>3. ops \in [Settings -> OpItems]
    BY <1>2, NoTagsType DEF Row
  <1>4. c \in Locals
    BY <1>2, <1>3, IdleType DEF Row, Locals, Idle
  <1>5. ctx' \in [Users -> Locals] /\ touched' \in [Users -> SUBSET Cells] /\ ctx'[u] = c
    BY <1>1, <1>4, UserFacts
  <1>6. c.pc = "read" /\ c.undo_of = i /\ c.unread = unread /\ c.items = rows[i].items /\ c.token = <<>>
        /\ c.toSet = {} /\ c.toRemove = {}
    BY DEF Idle
  <1>7. UserInv(u)'
    BY <1>1, <1>2, <1>5, <1>6 DEF UserInv, UndoInv, ReadInv, WriteInv, Relevant
  <1>. QED
    BY <1>1, <1>5, <1>7, UserFacts, LocalFrame

LEMMA FetchInv ==
    ASSUME Inv, NEW u \in Users, NEW r \in Resources, Fetch(u, r) PROVE Inv'
  <1>1. /\ ctx[u].pc = "read" /\ ctx' = [ctx EXCEPT ![u].seen[r] = tags[r], ![u].unread = @ \ {r}]
        /\ tags' = tags /\ setting' = setting /\ rows' = rows /\ pruned' = pruned
        /\ touched' = touched
    BY DEF Fetch
  <1>2. ctx[u] \in Locals /\ tags[r] \in TagMap
    BY UserFacts
  <1>3. /\ ctx' \in [Users -> Locals]
        /\ ctx'[u].seen = [ctx[u].seen EXCEPT ![r] = tags[r]] /\ ctx'[u].unread = ctx[u].unread \ {r}
        /\ ctx'[u].pc = "read" /\ ctx'[u].undo_of = ctx[u].undo_of /\ ctx'[u].want = ctx[u].want
        /\ ctx'[u].items = ctx[u].items /\ ctx'[u].token = ctx[u].token
    BY <1>1, <1>2, UserFacts DEF Locals
  <1>4. \A s \in Resources : ctx'[u].seen[s] = IF s = r THEN tags[r] ELSE ctx[u].seen[s]
    BY <1>2, <1>3 DEF Locals
  <1>5. UndoInv(u)' /\ WriteInv(u)'
    BY <1>1, <1>3, UserFacts DEF UserInv, UndoInv, WriteInv
  <1>6. ReadInv(u)'
    BY <1>1, <1>3, <1>4, UserFacts DEF UserInv, ReadInv, Relevant
  <1>7. \A v \in Users \ {u} : ctx'[v] = ctx[v] /\ touched[v] \subseteq touched'[v]
    BY <1>1, UserFacts
  <1>. QED
    BY <1>1, <1>3, <1>5, <1>6, <1>7, UserFacts, LocalFrame DEF UserInv

\* What succeeds in a plan has something to write.
LEMMA SuccessHasGoals ==
    ASSUME NEW cur \in TagMap
    PROVE  /\ \A want \in TagMap, ow \in BOOLEAN :
                  PlanItem(want, cur, ow).result = "SUCCESS" =>
                      \E k \in Keys : ApplyGoal(PlanItem(want, cur, ow))[k] \in Values
           /\ \A it \in Items :
                  UndoItem(it, cur).result = "SUCCESS" =>
                      \E k \in Keys : UndoGoal(it, cur)[k] \in Values \cup {None}
  <1>1. ASSUME NEW want \in TagMap, NEW ow \in BOOLEAN, PlanItem(want, cur, ow).result = "SUCCESS"
        PROVE  \E k \in Keys : ApplyGoal(PlanItem(want, cur, ow))[k] \in Values
    <2> DEFINE after == Changes(want, cur, ow)
    <2>1. after \in TagMap
      BY DEF Changes, TagMap
    <2>2. after # NoTags /\ PlanItem(want, cur, ow).after = after
      BY <1>1 DEF PlanItem, NoItem
    <2>3. PICK k \in Keys : after[k] # None
      BY <2>1, <2>2 DEF TagMap, NoTags
    <2>. QED
      BY <1>1, <2>1, <2>2, <2>3 DEF ApplyGoal, TagMap
  <1>2. ASSUME NEW it \in Items, UndoItem(it, cur).result = "SUCCESS"
        PROVE  \E k \in Keys : UndoGoal(it, cur)[k] \in Values \cup {None}
    <2>1. it.result = "SUCCESS" /\ Mine(it, cur) # {}
      BY <1>2 DEF UndoItem, NoItem
    <2>2. PICK k \in Keys : k \in Mine(it, cur)
      BY <2>1 DEF Mine
    <2>. QED
      BY <2>1, <2>2 DEF UndoGoal, Items, TagMap
  <1>. QED
    BY <1>1, <1>2

\* Request u goes on to write goal.
Begins(u, items, goal) ==
    ctx' = [ctx EXCEPT ![u].pc = "write", ![u].items = items, ![u].goal = goal,
                       ![u].toSet = ToSet(goal), ![u].toRemove = ToRemove(goal)]

LEMMA PlanMoves ==
    ASSUME Inv, NEW u \in Users, ctx[u].unread = {},
           NEW items \in [Resources -> Items], NEW goal \in [Resources -> Goals],
           Begins(u, items, goal)
    PROVE  /\ ctx' \in [Users -> Locals] /\ \A v \in Users \ {u} : ctx'[v] = ctx[v]
           /\ ctx'[u].pc = "write" /\ ctx'[u].items = items /\ ctx'[u].goal = goal
           /\ ctx'[u].toSet = ToSet(goal) /\ ctx'[u].toRemove = ToRemove(goal)
           /\ ctx'[u].undo_of = ctx[u].undo_of /\ ctx'[u].token = ctx[u].token
           /\ ctx'[u].want = ctx[u].want /\ ctx'[u].seen = ctx[u].seen
           /\ ctx'[u].overwrite = ctx[u].overwrite /\ ctx'[u].unread = {}
  <1> DEFINE d == [ctx[u] EXCEPT !.pc = "write", !.items = items, !.goal = goal,
                                 !.toSet = ToSet(goal), !.toRemove = ToRemove(goal)]
  <1>1. ctx[u] \in Locals /\ ctx \in [Users -> Locals]
    BY UserFacts
  <1>2. ctx' = [ctx EXCEPT ![u] = d]
    BY <1>1 DEF Begins
  <1>3. ToSet(goal) \in SUBSET Resources /\ ToRemove(goal) \in SUBSET Resources
    BY DEF ToSet, ToRemove
  <1>4. d \in Locals
    BY <1>1, <1>3 DEF Locals
  <1>5. /\ d.pc = "write" /\ d.items = items /\ d.goal = goal
        /\ d.toSet = ToSet(goal) /\ d.toRemove = ToRemove(goal)
        /\ d.undo_of = ctx[u].undo_of /\ d.token = ctx[u].token
        /\ d.want = ctx[u].want /\ d.seen = ctx[u].seen
        /\ d.overwrite = ctx[u].overwrite /\ d.unread = {}
    BY <1>1 DEF Locals
  <1>. QED
    BY <1>1, <1>2, <1>4, <1>5

LEMMA PlanInv == ASSUME Inv, NEW u \in Users, Plan(u) PROVE Inv'
  <1> DEFINE c == ctx[u]
             items == [r \in Resources |->
                          IF c.undo_of = 0 THEN PlanItem(c.want[r], c.seen[r], c.overwrite)
                                           ELSE UndoItem(c.items[r], c.seen[r])]
             goal == [r \in Resources |->
                          IF c.undo_of = 0 THEN ApplyGoal(items[r]) ELSE UndoGoal(c.items[r], c.seen[r])]
  <1>1. /\ c.pc = "read" /\ c.unread = {}
        /\ tags' = tags /\ setting' = setting /\ rows' = rows /\ pruned' = pruned
    BY DEF Plan
  <1>2. CASE Respond(u)
    BY <1>1, <1>2, RespondInv
  <1>3. CASE PreviewHolds(c) /\ touched' = touched /\ Begins(u, items, goal)
    <2>1. /\ c \in Locals /\ c.want \in [Resources -> TagMap] /\ c.seen \in [Resources -> TagMap]
          /\ c.items \in [Resources -> Items] /\ c.overwrite \in BOOLEAN
          /\ UserInv(u)
      BY UserFacts DEF Locals
    <2>2. \A r \in Resources : items[r] \in Items /\ goal[r] \in Goals
      BY <2>1, PlanType, UndoType
    <2>3. /\ items \in [Resources -> Items] /\ goal \in [Resources -> Goals]
          /\ ToSet(goal) \subseteq Resources /\ ToRemove(goal) \subseteq Resources
      BY <2>2 DEF ToSet, ToRemove
    <2>4. /\ ctx' \in [Users -> Locals] /\ \A v \in Users \ {u} : ctx'[v] = ctx[v]
          /\ ctx'[u].pc = "write" /\ ctx'[u].items = items /\ ctx'[u].goal = goal
          /\ ctx'[u].toSet = ToSet(goal) /\ ctx'[u].toRemove = ToRemove(goal)
      <3>. HIDE DEF items, goal
      <3>. QED
        BY <1>1, <1>3, <2>3, PlanMoves
    <2>5. /\ ctx'[u].undo_of = c.undo_of /\ ctx'[u].token = c.token /\ ctx'[u].want = c.want
          /\ ctx'[u].seen = c.seen /\ ctx'[u].overwrite = c.overwrite /\ ctx'[u].unread = {}
      <3>. HIDE DEF items, goal
      <3>. QED
        BY <1>1, <1>3, <2>3, PlanMoves
    <2>6. UndoInv(u)' /\ ReadInv(u)'
      BY <1>1, <2>1, <2>4, <2>5 DEF UserInv, UndoInv, ReadInv
    <2>7. c.undo_of # 0 => c.items = rows[c.undo_of].items
      BY <1>1, <2>1 DEF UserInv, ReadInv
    <2>8. Planned(u)'
      <3>1. ASSUME c.undo_of = 0, c.token # <<>>
            PROVE  c.token = plan_token(c.want, c.seen, c.overwrite)
        BY <1>3, <3>1 DEF PreviewHolds
      <3>2. ASSUME c.undo_of = 0, NEW r \in Resources
            PROVE  LET plan == PlanItem(c.want[r], c.seen[r], c.overwrite)
                   IN goal[r] = ApplyGoal(plan) /\ items[r].before = plan.before
        BY <3>2
      <3>3. ASSUME c.undo_of # 0, NEW r \in Resources
            PROVE  /\ goal[r] = UndoGoal(rows[c.undo_of].items[r], c.seen[r])
                   /\ items[r].conflicts = UndoItem(rows[c.undo_of].items[r], c.seen[r]).conflicts
        BY <2>7, <3>3
      <3>. HIDE DEF items, goal
      <3>. QED
        BY <1>1, <2>4, <2>5, <3>1, <3>2, <3>3 DEF Planned, Old
    <2>9. Real(u)'
      <3>. SUFFICES ASSUME NEW r \in Resources, items[r].result = "SUCCESS"
                    PROVE  r \in ToSet(goal) \cup ToRemove(goal)
        BY <2>4 DEF Real
      <3>1. \E k \in Keys : goal[r][k] \in Values \cup {None}
        BY <2>1, SuccessHasGoals
      <3>. QED
        BY <3>1 DEF ToSet, ToRemove
    <2>10. Current(u)'
      <3>. SUFFICES ASSUME NEW r \in Resources, NEW k \in Keys, goal[r][k] \in Values \cup {None},
                           <<r, k>> \notin touched[u]
                    PROVE  tags[r][k] = c.seen[r][k]
        <4>. HIDE DEF items, goal
        <4>. QED
          BY <1>1, <1>3, <2>4, <2>5 DEF Current, Pending
      <3>1. goal[r][k] # Keep
        BY ChangeSetsAssumption DEF None, Keep
      <3>2. Relevant(u, r)
        <4>1. CASE c.undo_of = 0
          <5>1. goal[r] # [j \in Keys |-> Keep]
            BY <3>1
          <5>. QED
            BY <2>1, <4>1, <5>1, PlanType DEF Relevant
        <4>2. CASE c.undo_of # 0
          BY <2>7, <3>1, <4>2 DEF Relevant, UndoGoal
        <4>. QED
          BY <4>1, <4>2
      <3>. QED
        BY <1>1, <2>1, <3>2 DEF UserInv, ReadInv
    <2>11. Restored(u)'
      <3>. SUFFICES ASSUME c.undo_of # 0, NEW r \in Resources, NEW k \in Keys,
                           c.items[r].result = "SUCCESS", k \in Mine(c.items[r], c.seen[r])
                    PROVE  Pending(u, r, k)'
        <4>. HIDE DEF items, goal
        <4>. QED
          BY <1>1, <2>4, <2>5, <2>7 DEF Restored, Old
      <3>1. goal[r][k] = c.items[r].before[k] /\ c.items[r].before[k] \in Values \cup {None}
        BY <2>1 DEF UndoGoal, Items, TagMap
      <3>. HIDE DEF items, goal
      <3>. QED
        BY <2>4, <3>1 DEF Pending, ToSet, ToRemove
    <2>12. WriteInv(u)'
      BY <2>8, <2>9, <2>10, <2>11 DEF WriteInv
    <2>13. /\ \A v \in Users \ {u} : ctx'[v] = ctx[v] /\ touched[v] \subseteq touched'[v]
           /\ touched' \in [Users -> SUBSET Cells] /\ ctx[u].pc # "idle"
      BY <1>1, <1>3, <2>4, UserFacts
    <2>. QED
      BY <1>1, <2>4, <2>6, <2>12, <2>13, UserFacts, LocalFrame DEF UserInv
  <1>. QED
    BY <1>2, <1>3 DEF Plan, Begins

-----------------------------------------------------------------------------
(***************************************************************************)
(* Writes                                                                  *)
(***************************************************************************)

\* A step that writes, by u or by somebody else.
LEMMA WriteFrame ==
    ASSUME Inv, TypeInv', NEW u, rows' = rows,
           \A v \in Users \ {u} : Spared(v),
           u \in Users => ctx'[u].pc = ctx[u].pc /\ UserInv(u)'
    PROVE  Inv'
  <1>1. RowsKept
    BY DEF RowsKept
  <1>2. \A v \in Users \ {u} : UserInv(v)' /\ ctx'[v].pc = ctx[v].pc
    BY <1>1, OtherUser DEF Inv, Spared
  <1>3. RoomInv'
    BY <1>1, <1>2, RoomStays
  <1>4. \A i \in DOMAIN rows' : RowInv(i)'
    BY DEF Inv, RowInv
  <1>. QED
    BY <1>2, <1>3, <1>4 DEF Inv

LEMMA TouchSpares ==
    ASSUME Inv, NEW u, NEW cells \in SUBSET Cells, Touch(u, cells),
           \A v \in Users \ {u} : ctx'[v] = ctx[v],
           \A r \in Resources, k \in Keys : tags'[r][k] # tags[r][k] => <<r, k>> \in cells
    PROVE  /\ touched' \in [Users -> SUBSET Cells]
           /\ u \in Users => touched'[u] = touched[u]
           /\ \A v \in Users \ {u} : Spared(v)
  <1>1. \A v \in Users : touched'[v] =
            IF v = u THEN touched[v]
            ELSE touched[v] \cup {c \in cells : ctx[v].pc # "idle" /\ c[1] \notin ctx[v].unread}
    BY DEF Touch
  <1>2. touched' \in [Users -> SUBSET Cells]
    BY <1>1 DEF Touch, Inv, TypeInv
  <1>3. ASSUME NEW v \in Users \ {u}, ctx[v].pc # "idle",
               NEW r \in Resources \ ctx[v].unread, NEW k \in Keys, tags'[r][k] # tags[r][k]
        PROVE  <<r, k>> \in touched'[v]
    <2>1. <<r, k>> \in cells /\ <<r, k>>[1] = r
      BY <1>3
    <2>. QED
      BY <1>1, <1>3, <2>1
  <1>. QED
    BY <1>1, <1>2, <1>3 DEF Spared

\* What a call writes: the goals of its phase, and nothing else.
LEMMA WrittenFacts ==
    ASSUME Inv, NEW u \in Users, NEW r \in Resources, NEW removing \in BOOLEAN
    PROVE  /\ Written(u, r, removing) \in TagMap
           /\ \A k \in Keys :
                 Written(u, r, removing)[k] =
                    IF ctx[u].goal[r][k] \in (IF removing THEN {None} ELSE Values)
                    THEN ctx[u].goal[r][k] ELSE tags[r][k]
  <1>1. ctx[u].goal[r] \in Goals /\ tags[r] \in TagMap
    BY UserFacts DEF Locals
  <1>2. \A k \in Keys : Payload(u, r, removing)[k] =
            IF ctx[u].goal[r][k] \in (IF removing THEN {None} ELSE Values)
            THEN ctx[u].goal[r][k] ELSE Keep
    <2>1. CASE removing = TRUE
      BY <1>1, <2>1, ChangeSetsAssumption DEF Payload, Goals
    <2>2. CASE removing = FALSE
      BY <1>1, <2>2, ChangeSetsAssumption DEF Payload, Goals
    <2>. QED
      BY <2>1, <2>2
  <1>3. None # Keep /\ Keep \notin Values
    BY ChangeSetsAssumption DEF None, Keep
  <1>. QED
    BY <1>1, <1>2, <1>3 DEF Written, TagMap

LEMMA OutcomeFacts ==
    ASSUME NEW it \in Items, NEW failed \in BOOLEAN, NEW hit \in BOOLEAN
    PROVE  LET o == Outcome(it, failed, hit) IN
           /\ o \in Items /\ o.before = it.before /\ o.conflicts = it.conflicts
           /\ o.result = IF failed THEN "FAILED" ELSE it.result
           /\ o.hit = (it.hit \/ hit)
BY DEF Outcome, Items

CellsOf(hit) == UNION {Changed(r, tags'[r]) : r \in hit}

\* What a tagging call did, in terms of the fields of the request.
TagCalled(u, batch, removing, failed, hit) ==
    /\ ctx[u].pc = "write" /\ batch \subseteq Resources
    /\ batch \subseteq (IF removing THEN ctx[u].toRemove ELSE ctx[u].toSet)
    /\ removing => ctx[u].toSet = {}
    /\ failed \subseteq batch /\ hit \subseteq batch /\ batch \ failed \subseteq hit
    /\ tags' = [r \in Resources |-> IF r \in hit THEN Written(u, r, removing) ELSE tags[r]]
    /\ ctx' \in [Users -> Locals] /\ \A v \in Users \ {u} : ctx'[v] = ctx[v]
    /\ ctx'[u].pc = "write" /\ ctx'[u].unread = ctx[u].unread
    /\ ctx'[u].toSet = IF removing THEN ctx[u].toSet ELSE ctx[u].toSet \ batch
    /\ ctx'[u].toRemove = IF removing THEN ctx[u].toRemove \ batch ELSE ctx[u].toRemove
    /\ \A r \in Resources :
          ctx'[u].items[r] = IF r \in batch THEN Outcome(ctx[u].items[r], r \in failed, r \in hit)
                                            ELSE ctx[u].items[r]
    /\ ctx'[u].undo_of = ctx[u].undo_of /\ ctx'[u].token = ctx[u].token
    /\ ctx'[u].want = ctx[u].want /\ ctx'[u].seen = ctx[u].seen
    /\ ctx'[u].overwrite = ctx[u].overwrite /\ ctx'[u].goal = ctx[u].goal

LEMMA TagCallMoves ==
    ASSUME Inv, NEW u \in Users, NEW batch \in SUBSET Resources, NEW removing \in BOOLEAN,
           TagCall(u, batch, removing)
    PROVE  \E failed, hit \in SUBSET batch :
              /\ TagCalled(u, batch, removing, failed, hit)
              /\ Touch(u, CellsOf(hit))
  <1>1. PICK failed \in SUBSET batch, hit \in SUBSET batch :
          /\ \/ failed = {} /\ hit = batch
             \/ failed # {} /\ hit = batch \ failed
             \/ failed = batch /\ hit # {}
          /\ tags' = [r \in Resources |-> IF r \in hit THEN Written(u, r, removing) ELSE tags[r]]
          /\ Touch(u, CellsOf(hit))
          /\ ctx' = [ctx EXCEPT
                ![u].toSet = IF removing THEN @ ELSE @ \ batch,
                ![u].toRemove = IF removing THEN @ \ batch ELSE @,
                ![u].items = [r \in Resources |->
                    IF r \in batch THEN Outcome(ctx[u].items[r], r \in failed, r \in hit)
                                   ELSE ctx[u].items[r]]]
    BY DEF TagCall, CellsOf
  <1>2. ctx[u] \in Locals /\ ctx \in [Users -> Locals]
    BY UserFacts
  <1> DEFINE items == [r \in Resources |->
                    IF r \in batch THEN Outcome(ctx[u].items[r], r \in failed, r \in hit)
                                   ELSE ctx[u].items[r]]
             toSet == IF removing THEN ctx[u].toSet ELSE ctx[u].toSet \ batch
             toRemove == IF removing THEN ctx[u].toRemove \ batch ELSE ctx[u].toRemove
             d == [ctx[u] EXCEPT !.toSet = toSet, !.toRemove = toRemove, !.items = items]
  <1>3. items \in [Resources -> Items]
    <2>1. ASSUME NEW r \in Resources PROVE items[r] \in Items
      <3>1. ctx[u].items[r] \in Items
        BY <1>2 DEF Locals
      <3>2. (r \in failed) \in BOOLEAN /\ (r \in hit) \in BOOLEAN
        OBVIOUS
      <3>3. Outcome(ctx[u].items[r], r \in failed, r \in hit) \in Items
        BY <3>1, <3>2, OutcomeFacts
      <3>. QED
        BY <3>1, <3>3
    <2>. QED
      BY <2>1
  <1>4. toSet \in SUBSET Resources /\ toRemove \in SUBSET Resources
    BY <1>2 DEF Locals
  <1>5. ctx' = [ctx EXCEPT ![u] = d]
    BY <1>1, <1>2 DEF Locals
  <1>6. /\ d \in Locals
        /\ d.pc = ctx[u].pc /\ d.unread = ctx[u].unread /\ d.toSet = toSet /\ d.toRemove = toRemove
        /\ d.items = items /\ d.undo_of = ctx[u].undo_of /\ d.token = ctx[u].token
        /\ d.want = ctx[u].want /\ d.seen = ctx[u].seen
        /\ d.overwrite = ctx[u].overwrite /\ d.goal = ctx[u].goal
    <2>. HIDE DEF items, toSet, toRemove
    <2>. QED
      BY <1>2, <1>3, <1>4 DEF Locals
  <1>7. /\ ctx' \in [Users -> Locals] /\ ctx'[u] = d /\ \A v \in Users \ {u} : ctx'[v] = ctx[v]
    BY <1>2, <1>5, <1>6
  <1>8. /\ ctx[u].pc = "write"
        /\ removing => ctx[u].toSet = {}
        /\ batch \subseteq (IF removing THEN ctx[u].toRemove ELSE ctx[u].toSet)
    BY DEF TagCall
  <1>9. batch \ failed \subseteq hit
    BY <1>1
  <1>10. /\ ctx'[u].toSet = toSet /\ ctx'[u].toRemove = toRemove /\ ctx'[u].items = items
         /\ ctx'[u].pc = ctx[u].pc /\ ctx'[u].unread = ctx[u].unread
         /\ ctx'[u].undo_of = ctx[u].undo_of /\ ctx'[u].token = ctx[u].token
    <2>. HIDE DEF d
    <2>. QED
      BY <1>6, <1>7
  <1>11. /\ ctx'[u].want = ctx[u].want /\ ctx'[u].seen = ctx[u].seen
         /\ ctx'[u].overwrite = ctx[u].overwrite /\ ctx'[u].goal = ctx[u].goal
    <2>. HIDE DEF d
    <2>. QED
      BY <1>6, <1>7
  <1>12. \A r \in Resources :
            ctx'[u].items[r] = IF r \in batch THEN Outcome(ctx[u].items[r], r \in failed, r \in hit)
                                              ELSE ctx[u].items[r]
    BY <1>10
  <1>13. TagCalled(u, batch, removing, failed, hit)
    <2>1. /\ ctx[u].pc = "write" /\ batch \subseteq Resources
          /\ batch \subseteq (IF removing THEN ctx[u].toRemove ELSE ctx[u].toSet)
          /\ removing => ctx[u].toSet = {}
          /\ failed \subseteq batch /\ hit \subseteq batch /\ batch \ failed \subseteq hit
      BY <1>1, <1>8, <1>9
    <2>2. /\ ctx'[u].pc = "write" /\ ctx'[u].unread = ctx[u].unread
          /\ ctx'[u].toSet = IF removing THEN ctx[u].toSet ELSE ctx[u].toSet \ batch
          /\ ctx'[u].toRemove = IF removing THEN ctx[u].toRemove \ batch ELSE ctx[u].toRemove
      <3>1. ctx'[u].toSet = toSet /\ ctx'[u].toRemove = toRemove
        BY <1>10
      <3>2. ctx'[u].pc = "write" /\ ctx'[u].unread = ctx[u].unread
        BY <1>8, <1>10
      <3>. QED
        BY <3>1, <3>2
    <2>. HIDE DEF d, items, toSet, toRemove
    <2>. QED
      BY <1>1, <1>7, <1>10, <1>11, <1>12, <2>1, <2>2 DEF TagCalled
  <1>. QED
    BY <1>1, <1>13

LEMMA TagCallInv ==
    ASSUME Inv, NEW u \in Users, NEW batch \in SUBSET Resources, NEW removing \in BOOLEAN,
           TagCall(u, batch, removing)
    PROVE  Inv'
  <1>1. PICK failed \in SUBSET batch, hit \in SUBSET batch :
              /\ TagCalled(u, batch, removing, failed, hit)
              /\ Touch(u, CellsOf(hit))
    BY TagCallMoves
  <1> DEFINE phase == IF removing THEN {None} ELSE Values
             cells == CellsOf(hit)
  <1>2. /\ setting' = setting /\ rows' = rows /\ pruned' = pruned
        /\ ctx[u] \in Locals /\ UserInv(u) /\ WriteInv(u) /\ ctx[u].pc = "write"
        /\ \A r \in Resources : ctx[u].items[r] \in Items
    <2>1. setting' = setting /\ rows' = rows /\ pruned' = pruned
      BY DEF TagCall
    <2>2. ctx[u].pc = "write"
      BY <1>1 DEF TagCalled
    <2>. QED
      BY <2>1, <2>2, UserFacts DEF UserInv, Locals
  <1>3. \A r \in Resources : /\ tags'[r] \in TagMap
                             /\ \A k \in Keys : tags'[r][k] =
                                   IF r \in hit /\ ctx[u].goal[r][k] \in phase
                                   THEN ctx[u].goal[r][k] ELSE tags[r][k]
    BY <1>1, WrittenFacts, UserFacts DEF TagCalled
  <1>4. /\ cells \in SUBSET Cells
        /\ \A r \in Resources, k \in Keys : tags'[r][k] # tags[r][k] => <<r, k>> \in cells
    <2>1. \A r \in hit : Changed(r, tags'[r]) \subseteq Cells
      BY DEF Changed, Cells
    <2>2. ASSUME NEW r \in Resources, NEW k \in Keys, tags'[r][k] # tags[r][k]
          PROVE  <<r, k>> \in cells
      <3>1. r \in hit
        BY <1>3, <2>2
      <3>2. <<r, k>> \in Changed(r, tags'[r])
        BY <2>2 DEF Changed
      <3>. QED
        BY <3>1, <3>2 DEF CellsOf
    <2>. QED
      BY <2>1, <2>2 DEF CellsOf
  <1>5. /\ touched' \in [Users -> SUBSET Cells] /\ touched'[u] = touched[u]
        /\ \A v \in Users \ {u} : Spared(v)
    <2>1. Touch(u, cells) /\ \A v \in Users \ {u} : ctx'[v] = ctx[v]
      BY <1>1 DEF TagCalled
    <2>. HIDE DEF cells
    <2>. QED
      BY <1>4, <2>1, TouchSpares
  <1>6. TypeInv'
    <2>1. tags' \in [Resources -> TagMap]
      BY <1>1, <1>3 DEF TagCalled
    <2>. QED
      BY <1>1, <1>2, <1>5, <2>1 DEF TagCalled, Inv, TypeInv
  <1>7. \A r \in Resources :
          LET it == ctx[u].items[r] IN
          /\ ctx'[u].items[r].before = it.before /\ ctx'[u].items[r].conflicts = it.conflicts
          /\ ctx'[u].items[r].result = IF r \in failed THEN "FAILED" ELSE it.result
          /\ ctx'[u].items[r].hit = (it.hit \/ r \in hit)
    <2>1. failed \subseteq batch /\ hit \subseteq batch
      OBVIOUS
    <2>2. ASSUME NEW r \in Resources
          PROVE  LET it == ctx[u].items[r]
                     o == Outcome(it, r \in failed, r \in hit)
                 IN /\ o.before = it.before /\ o.conflicts = it.conflicts
                    /\ o.result = IF r \in failed THEN "FAILED" ELSE it.result
                    /\ o.hit = (it.hit \/ r \in hit)
      BY <1>2, <2>2 DEF Outcome, Items
    <2>3. \A r \in Resources : ctx[u].items[r].hit \in BOOLEAN
      BY <1>2 DEF Items
    <2>. QED
      BY <1>1, <2>1, <2>2, <2>3 DEF TagCalled
  <1>8. \A r \in Resources, k \in Keys :
          Pending(u, r, k)' <=> Pending(u, r, k) /\ ~(r \in batch /\ ctx[u].goal[r][k] \in phase)
    <2>1. None \notin Values
      BY ChangeSetsAssumption
    <2>. QED
      BY <1>1, <2>1 DEF TagCalled, Pending
  <1>9. UndoInv(u)' /\ ReadInv(u)'
    BY <1>1, <1>2 DEF TagCalled, UserInv, UndoInv, ReadInv
  <1>10. Planned(u)'
    BY <1>1, <1>2, <1>7 DEF TagCalled, WriteInv, Planned, Old
  <1>11. Real(u)'
    BY <1>1, <1>2, <1>7 DEF TagCalled, WriteInv, Real
  <1>12. Current(u)'
    BY <1>1, <1>2, <1>3, <1>5, <1>8 DEF TagCalled, WriteInv, Current
  <1>13. Restored(u)'
    <2>. SUFFICES ASSUME ctx[u].undo_of # 0, NEW r \in Resources, NEW k \in Keys,
                         Old(u, r).result = "SUCCESS", k \in Mine(Old(u, r), ctx[u].seen[r]),
                         <<r, k>> \notin touched[u], ~Pending(u, r, k)', ctx'[u].items[r].result # "FAILED"
                  PROVE  tags'[r][k] = Old(u, r).before[k]
      BY <1>1, <1>2, <1>5 DEF TagCalled, Restored, Old
    <2>1. ctx[u].goal[r][k] = Old(u, r).before[k]
      BY <1>2 DEF WriteInv, Planned, UndoGoal
    <2>2. r \notin failed /\ ctx[u].items[r].result # "FAILED"
      BY <1>7
    <2>3. Pending(u, r, k) \/ tags[r][k] = Old(u, r).before[k]
      BY <1>2, <2>2 DEF WriteInv, Restored
    <2>4. CASE Pending(u, r, k)
      <3>1. r \in batch /\ ctx[u].goal[r][k] \in phase
        BY <1>8, <2>4
      <3>2. r \in hit
        BY <1>1, <2>2, <3>1 DEF TagCalled
      <3>. QED
        BY <1>3, <2>1, <3>1, <3>2
    <2>5. CASE tags[r][k] = Old(u, r).before[k]
      BY <1>3, <2>1, <2>5
    <2>. QED
      BY <2>3, <2>4, <2>5
  <1>. QED
    BY <1>1, <1>2, <1>5, <1>6, <1>9, <1>10, <1>11, <1>12, <1>13, WriteFrame DEF TagCalled, UserInv, WriteInv

LEMMA OpCallInv ==
    ASSUME Inv, NEW u \in Users, NEW o \in Settings, OpCall(u, o) PROVE Inv'
  <1> DEFINE new == IF ctx[u].undo_of = 0 THEN "on" ELSE ctx[u].ops[o].before
             cells == IF setting'[o] = setting[o] THEN {} ELSE {<<o, "setting">>}
  <1>1. PICK done \in BOOLEAN, hit \in BOOLEAN :
            /\ setting' = [setting EXCEPT ![o] = IF hit THEN new ELSE @]
            /\ ctx' = [ctx EXCEPT ![u].toOp = @ \ {o},
                                  ![u].ops[o].result = IF done THEN @ ELSE "FAILED"]
            /\ Touch(u, cells)
    BY DEF OpCall
  <1>2. /\ ctx[u].pc = "write" /\ tags' = tags /\ rows' = rows /\ pruned' = pruned
        /\ ctx[u] \in Locals /\ ctx \in [Users -> Locals] /\ UserInv(u)
    BY UserFacts DEF OpCall
  <1>3. ctx[u].ops \in [Settings -> OpItems] /\ ctx[u].ops[o].before \in {"off", "on", "other"}
    BY <1>2 DEF Locals, OpItems
  <1>4. setting' \in [Settings -> {"off", "on", "other"}]
    BY <1>1, <1>3, UserFacts
  <1> DEFINE ops == [ctx[u].ops EXCEPT ![o].result = IF done THEN @ ELSE "FAILED"]
             toOp == ctx[u].toOp \ {o}
             d == [ctx[u] EXCEPT !.toOp = toOp, !.ops = ops]
  <1>5. ops \in [Settings -> OpItems]
    BY <1>3 DEF OpItems
  <1>6. ctx' = [ctx EXCEPT ![u] = d]
    BY <1>1, <1>2 DEF Locals
  <1>7. toOp \in SUBSET Settings
    BY <1>2 DEF Locals
  <1>8. /\ d \in Locals
        /\ d.pc = "write" /\ d.unread = ctx[u].unread /\ d.toSet = ctx[u].toSet
        /\ d.toRemove = ctx[u].toRemove /\ d.items = ctx[u].items
        /\ d.undo_of = ctx[u].undo_of /\ d.token = ctx[u].token
        /\ d.want = ctx[u].want /\ d.seen = ctx[u].seen
        /\ d.overwrite = ctx[u].overwrite /\ d.goal = ctx[u].goal
    <2>. HIDE DEF ops, toOp
    <2>. QED
      BY <1>2, <1>5, <1>7 DEF Locals
  <1>. HIDE DEF d
  <1>9. ctx' \in [Users -> Locals] /\ ctx'[u] = d /\ \A v \in Users \ {u} : ctx'[v] = ctx[v]
    BY <1>2, <1>6, <1>8
  <1>10. /\ touched' \in [Users -> SUBSET Cells] /\ touched'[u] = touched[u]
         /\ \A v \in Users \ {u} : Spared(v)
    <2>1. cells \in SUBSET Cells
      BY DEF Cells
    <2>. HIDE DEF cells
    <2>. QED
      BY <1>1, <1>2, <1>9, <2>1, TouchSpares
  <1>11. TypeInv'
    BY <1>2, <1>4, <1>9, <1>10 DEF Inv, TypeInv
  <1>12. UndoInv(u)' /\ ReadInv(u)'
    BY <1>2, <1>8, <1>9 DEF UserInv, UndoInv, ReadInv
  <1>13. Planned(u)' /\ Real(u)'
    BY <1>2, <1>8, <1>9 DEF UserInv, WriteInv, Planned, Real, Old
  <1>14. Current(u)' /\ Restored(u)'
    BY <1>2, <1>8, <1>9, <1>10 DEF UserInv, WriteInv, Current, Restored, Pending, Old
  <1>. QED
    BY <1>2, <1>8, <1>9, <1>10, <1>11, <1>12, <1>13, <1>14, WriteFrame DEF UserInv, WriteInv

LEMMA EditInv ==
    ASSUME Inv, NEW r \in Resources, NEW k \in Keys, NEW v \in Values \cup {None}, Edit(r, k, v)
    PROVE  Inv'
  <1>1. /\ tags' = [tags EXCEPT ![r][k] = v] /\ Touch(None, {<<r, k>>})
        /\ setting' = setting /\ rows' = rows /\ pruned' = pruned /\ ctx' = ctx
    BY DEF Edit
  <1>2. tags' \in [Resources -> TagMap]
    BY <1>1, UserFacts DEF Inv, TypeInv, TagMap
  <1>3. \A s \in Resources, j \in Keys : tags'[s][j] # tags[s][j] => <<s, j>> \in {<<r, k>>}
    BY <1>1 DEF Inv, TypeInv, TagMap
  <1>4. {<<r, k>>} \in SUBSET Cells
    BY DEF Cells
  <1>5. touched' \in [Users -> SUBSET Cells] /\ \A u \in Users \ {None} : Spared(u)
    BY <1>1, <1>3, <1>4, TouchSpares
  <1>6. TypeInv'
    BY <1>1, <1>2, <1>5 DEF Inv, TypeInv
  <1>. QED
    BY <1>1, <1>5, <1>6, ChangeSetsAssumption, WriteFrame

LEMMA EditSettingInv ==
    ASSUME Inv, NEW o \in Settings, NEW v \in {"off", "on", "other"}, EditSetting(o, v)
    PROVE  Inv'
  <1>1. /\ setting' = [setting EXCEPT ![o] = v] /\ Touch(None, {<<o, "setting">>})
        /\ tags' = tags /\ rows' = rows /\ pruned' = pruned /\ ctx' = ctx
    BY DEF EditSetting
  <1>2. {<<o, "setting">>} \in SUBSET Cells
    BY DEF Cells
  <1>3. touched' \in [Users -> SUBSET Cells] /\ \A u \in Users \ {None} : Spared(u)
    BY <1>1, <1>2, TouchSpares
  <1>4. TypeInv'
    BY <1>1, <1>3 DEF Inv, TypeInv
  <1>. QED
    BY <1>1, <1>3, <1>4, ChangeSetsAssumption, WriteFrame

LEMMA RecordInv == ASSUME Inv, NEW u \in Users, _record(u) PROVE Inv'
  <1> DEFINE c == ctx[u]
             row == [items |-> c.items, ops |-> c.ops, status |-> StatusOf(c.items, c.ops),
                     undo_of |-> c.undo_of, undone_by |-> 0]
             id == Len(rows) + 1
             mark == IF Clean(c.items, c.ops) THEN "UNDONE" ELSE "UNDO_PARTIAL"
             old == [i \in DOMAIN rows |->
                        IF i = c.undo_of /\ Exists(i)
                        THEN [rows[i] EXCEPT !.undone_by = id, !.status = mark] ELSE rows[i]]
  <1>1. /\ c.pc = "write" /\ c.toSet = {} /\ c.toRemove = {}
        /\ rows' = Append(old, row) /\ pruned' \in pruned .. Len(rows) /\ Respond(u)
        /\ tags' = tags /\ setting' = setting
    BY DEF _record
  <1>2. /\ c \in Locals /\ UserInv(u) /\ rows \in Seq(Row) /\ Len(rows) \in Nat
        /\ DOMAIN rows = 1..Len(rows) /\ pruned \in 0..Len(rows)
        /\ \A i \in DOMAIN rows : rows[i] \in Row /\ RowInv(i)
    BY UserFacts DEF Inv, TypeInv
  <1>3. row \in Row
    BY <1>2 DEF Row, Locals, StatusOf
  <1>4. ASSUME NEW i \in DOMAIN rows
        PROVE  /\ old[i] \in Row /\ old[i].items = rows[i].items /\ old[i].undo_of = rows[i].undo_of
               /\ old[i].undone_by \in {rows[i].undone_by, id}
    <2>1. rows[i] \in Row /\ id \in Nat
      BY <1>2
    <2>2. mark \in {"UNDONE", "UNDO_PARTIAL"}
      OBVIOUS
    <2>. HIDE DEF mark, id
    <2>3. CASE i = c.undo_of /\ Exists(i)
      <3>1. old[i] = [rows[i] EXCEPT !.undone_by = id, !.status = mark]
        BY <2>3
      <3>. HIDE DEF old
      <3>. QED
        BY <2>1, <2>2, <3>1 DEF Row
    <2>4. CASE ~(i = c.undo_of /\ Exists(i))
      <3>1. old[i] = rows[i]
        BY <2>4
      <3>. HIDE DEF old
      <3>. QED
        BY <2>1, <3>1
    <2>. QED
      BY <2>3, <2>4
  <1>5. old \in Seq(Row) /\ Len(old) = Len(rows)
    <2>1. DOMAIN old = 1 .. Len(rows)
      BY <1>2
    <2>2. old = [i \in DOMAIN old |-> old[i]]
      OBVIOUS
    <2>. HIDE DEF old
    <2>3. old \in [1 .. Len(rows) -> Row]
      BY <1>2, <1>4, <2>1, <2>2
    <2>. QED
      BY <1>2, <2>1, <2>3
  <1>. HIDE DEF old, row
  <1>6. /\ rows' \in Seq(Row) /\ Len(rows') = Len(rows) + 1 /\ DOMAIN rows' = 1 .. Len(rows) + 1
        /\ \A i \in DOMAIN rows : rows'[i] = old[i]
        /\ rows'[Len(rows) + 1] = row
    BY <1>1, <1>2, <1>3, <1>5
  <1>7. /\ ctx' \in [Users -> Locals] /\ touched' \in [Users -> SUBSET Cells] /\ ctx'[u] = Idle
        /\ \A v \in Users \ {u} : ctx'[v] = ctx[v] /\ touched'[v] = touched[v]
    BY <1>1, IdleType DEF Respond, Inv, TypeInv
  <1>8. TypeInv'
    BY <1>1, <1>2, <1>6, <1>7 DEF Inv, TypeInv
  <1>9. RowsKept
    BY <1>2, <1>4, <1>6 DEF RowsKept
  <1>10. \A i \in DOMAIN rows' : RowInv(i)'
    <2>1. ASSUME NEW i \in DOMAIN rows PROVE RowInv(i)'
      BY <1>2, <1>4, <1>6, <2>1 DEF RowInv
    <2>2. ASSUME NEW i \in Nat, i = Len(rows) + 1 PROVE RowInv(i)'
      <3>1. row.undone_by = 0 /\ row.undo_of = c.undo_of /\ row.items = c.items
        BY DEF row
      <3>2. c.undo_of \in 0 .. Len(rows)
        BY <1>2 DEF UserInv, UndoInv, Locals
      <3>3. \A r \in Resources : c.items[r].result = "SUCCESS" => c.items[r].hit
        BY <1>1, <1>2 DEF UserInv, WriteInv, Real
      <3>4. rows'[i] = row
        BY <1>6, <2>2
      <3>5. rows'[i].undo_of \in 0 .. i - 1
        BY <1>2, <2>2, <3>1, <3>2, <3>4
      <3>. QED
        BY <3>1, <3>3, <3>4, <3>5 DEF RowInv
    <2>3. \A i \in DOMAIN rows' : i \in Nat /\ (i \in DOMAIN rows \/ i = Len(rows) + 1)
      BY <1>2, <1>6
    <2>. QED
      BY <2>1, <2>2, <2>3
  <1>11. \A v \in Users : UserInv(v)'
    <2>1. \A v \in Users \ {u} : UserInv(v)'
      BY <1>1, <1>7, <1>8, <1>9, OtherUser DEF Inv, Spared
    <2>. QED
      BY <1>7, <2>1, IdleUser
  <1>12. RoomInv'
    <2>1. ctx'[u].pc = "idle" /\ ctx[u].pc # "idle"
      BY <1>1, <1>7 DEF Idle
    <2>. QED
      BY <1>6, <1>7, <1>8, <1>9, <2>1, RoomStays
  <1>. QED
    BY <1>8, <1>10, <1>11, <1>12 DEF Inv

LEMMA NextInv == ASSUME Inv, Next PROVE Inv'
  <1>1. ASSUME NEW u \in Users, FetchFault(u) \/ _recordFault(u) \/ Crash(u) PROVE Inv'
    BY <1>1, RespondInv DEF FetchFault, _recordFault, Crash
  <1>2. ASSUME NEW u \in Users, Plan(u) \/ _record(u) PROVE Inv'
    BY <1>2, PlanInv, RecordInv
  <1>3. ASSUME NEW u \in Users, NEW batch \in SUBSET Resources, NEW removing \in BOOLEAN,
               TagCall(u, batch, removing)
        PROVE  Inv'
    BY <1>3, TagCallInv
  <1>. QED
    BY <1>1, <1>2, <1>3, StartApplyInv, StartUndoInv, FetchInv, OpCallInv, EditInv, EditSettingInv
    DEF Next

LEMMA StutterInv == ASSUME Inv, UNCHANGED vars PROVE Inv'
  <1>1. /\ tags' = tags /\ setting' = setting /\ rows' = rows /\ pruned' = pruned
        /\ ctx' = ctx /\ touched' = touched
    BY DEF vars
  <1>2. TypeInv'
    BY <1>1 DEF Inv, TypeInv
  <1>3. \A v \in Users \ {None} : Spared(v)
    BY <1>1 DEF Spared
  <1>. QED
    BY <1>1, <1>2, <1>3, ChangeSetsAssumption, WriteFrame

\* The invariant holds in every behaviour.
THEOREM Invariance == Spec => []Inv
  <1>1. Inv /\ [Next]_vars => Inv'
    BY NextInv, StutterInv
  <1>. QED
    BY <1>1, InitInv, PTL DEF Spec

-----------------------------------------------------------------------------
(***************************************************************************)
(* The properties                                                          *)
(***************************************************************************)
LEMMA TypeFollows == ASSUME Inv PROVE TypeOK
  <1>1. Len(rows) <= MaxRows
    <2>1. Active \subseteq Users
      BY DEF Active
    <2>2. IsFiniteSet(Active)
      BY <2>1, ChangeSetsAssumption, FS_Subset
    <2>3. Cardinality(Active) \in Nat
      BY <2>2, FS_CardinalityType
    <2>4. Len(rows) \in Nat /\ MaxRows \in Nat
      BY ChangeSetsAssumption DEF Inv, TypeInv
    <2>. QED
      BY <2>3, <2>4 DEF Inv, RoomInv
  <1>2. ASSUME NEW i \in DOMAIN rows
        PROVE  /\ rows[i].items \in [Resources -> Items] /\ rows[i].ops \in [Settings -> OpItems]
               /\ rows[i].status \in {"APPLIED", "PARTIAL", "FAILED", "NO_CHANGE", "UNDONE", "UNDO_PARTIAL"}
               /\ rows[i].undone_by \in {0} \cup (i + 1 .. Len(rows))
               /\ rows[i].undo_of \in 0 .. i - 1
    <2>1. rows[i] \in Row
      BY DEF Inv, TypeInv
    <2>. QED
      BY <2>1 DEF Inv, RowInv, Row
  <1>3. ASSUME NEW u \in Users
        PROVE  /\ ctx[u].items \in [Resources -> Items] /\ ctx[u].ops \in [Settings -> OpItems]
               /\ ctx[u].undo_of # 0 => rows[ctx[u].undo_of].undo_of = 0
               /\ touched[u] \subseteq Cells
    <2>1. ctx[u] \in Locals /\ touched[u] \in SUBSET Cells
      BY DEF Inv, TypeInv
    <2>. QED
      BY <2>1 DEF Inv, UserInv, UndoInv, Locals
  <1>. QED
    BY <1>1, <1>2, <1>3 DEF TypeOK, Inv, TypeInv

\* The variables keep their shape, and the table its bound.
THEOREM TypeCorrect == Spec => []TypeOK
BY Invariance, TypeFollows, PTL

\* SuccessIsReal: results are recorded only when no call is outstanding.
THEOREM SuccessIsRealHolds == Spec => []SuccessIsReal
  <1>1. Inv => SuccessIsReal
    BY DEF Inv, RowInv, SuccessIsReal
  <1>. QED
    BY <1>1, Invariance, PTL

\* What a plan has outstanding, of an apply and of an undo.
LEMMA PendingGoal ==
    ASSUME Inv, NEW u \in Users, NEW r \in Resources, NEW k \in Keys, Pending(u, r, k)
    PROVE  /\ ctx[u].pc = "write" /\ ctx[u].goal[r][k] # Keep
           /\ UserInv(u) /\ Planned(u) /\ Current(u) /\ Restored(u)
  <1>1. UserInv(u)
    BY DEF Inv
  <1>2. ctx[u].pc = "write"
    BY <1>1 DEF UserInv, ReadInv, Pending
  <1>3. Keep \notin Values /\ Keep # None
    BY ChangeSetsAssumption DEF Keep, None
  <1>. QED
    BY <1>1, <1>2, <1>3 DEF UserInv, WriteInv, Pending

LEMMA ApplyGoalIs ==
    ASSUME NEW want \in TagMap, NEW cur \in TagMap, NEW ow \in BOOLEAN, NEW k \in Keys,
           ApplyGoal(PlanItem(want, cur, ow))[k] # Keep
    PROVE  /\ PlanItem(want, cur, ow).before[k] = cur[k]
           /\ ApplyGoal(PlanItem(want, cur, ow))[k] = PlanItem(want, cur, ow).after[k]
           /\ ~ow => cur[k] = None
           /\ want # NoTags
  <1> DEFINE plan == PlanItem(want, cur, ow)
  <1>1. /\ plan.after = Changes(want, cur, ow)
        /\ plan.before = [j \in Keys |-> IF Changes(want, cur, ow)[j] = None THEN None ELSE cur[j]]
        /\ plan.result = "SUCCESS" => want # NoTags
    BY DEF PlanItem, NoItem
  <1>2. plan.result = "SUCCESS" /\ plan.after[k] # None /\ ApplyGoal(plan)[k] = plan.after[k]
    BY DEF ApplyGoal
  <1>3. ~ow => cur[k] = None
    BY <1>1, <1>2 DEF Changes
  <1>. QED
    BY <1>1, <1>2, <1>3

\* NoBlindWrite: what is outstanding holds what was read unless it was touched,
\* and the plan made from what was read asks for no more than it may.
THEOREM NoBlindWriteHolds == Spec => []NoBlindWrite
  <1>1. ASSUME Inv PROVE NoBlindWrite
    <2>. SUFFICES ASSUME NEW u \in Users, NEW r \in Resources, NEW k \in Keys,
                         Pending(u, r, k), <<r, k>> \notin touched[u]
                  PROVE  IF ctx[u].undo_of # 0 THEN tags[r][k] = rows[ctx[u].undo_of].items[r].after[k]
                         ELSE /\ tags[r][k] = ctx[u].items[r].before[k]
                              /\ ~ctx[u].overwrite => tags[r][k] = None
      BY DEF NoBlindWrite
    <2>1. /\ Planned(u) /\ ctx[u].goal[r][k] # Keep
          /\ tags[r][k] = ctx[u].seen[r][k]
      BY <1>1, PendingGoal DEF Current
    <2>2. ctx[u].want[r] \in TagMap /\ ctx[u].seen[r] \in TagMap /\ ctx[u].overwrite \in BOOLEAN
      BY <1>1 DEF Inv, TypeInv, Locals
    <2>3. CASE ctx[u].undo_of # 0
      <3>1. k \in Mine(Old(u, r), ctx[u].seen[r])
        BY <2>1, <2>3 DEF Planned, UndoGoal
      <3>. QED
        BY <2>1, <2>3, <3>1 DEF Mine, Old
    <2>4. CASE ctx[u].undo_of = 0
      <3>1. /\ ctx[u].goal[r] = ApplyGoal(PlanItem(ctx[u].want[r], ctx[u].seen[r], ctx[u].overwrite))
            /\ ctx[u].items[r].before = PlanItem(ctx[u].want[r], ctx[u].seen[r], ctx[u].overwrite).before
        BY <2>1, <2>4 DEF Planned
      <3>. QED
        BY <2>1, <2>2, <2>4, <3>1, ApplyGoalIs
    <2>. QED
      BY <2>3, <2>4
  <1>. QED
    BY <1>1, Invariance, PTL

\* PreviewIsBinding: the token is that of the plan being written.
THEOREM PreviewIsBindingHolds == Spec => []PreviewIsBinding
  <1>1. ASSUME Inv PROVE PreviewIsBinding
    <2>. SUFFICES ASSUME NEW u \in Users, ctx[u].token # <<>>, ctx[u].pc = "write",
                         NEW r \in DOMAIN ctx[u].token, NEW k \in Keys, ctx[u].goal[r][k] # Keep
                  PROVE  /\ ctx[u].goal[r][k] = ctx[u].token[r][2][k]
                         /\ \/ tags[r][k] = ctx[u].token[r][1][k]
                            \/ ~Pending(u, r, k) \/ <<r, k>> \in touched[u]
      BY DEF PreviewIsBinding
    <2>1. /\ ctx[u].undo_of = 0 /\ Planned(u) /\ Current(u)
          /\ ctx[u].want \in [Resources -> TagMap] /\ ctx[u].seen \in [Resources -> TagMap]
          /\ ctx[u].overwrite \in BOOLEAN
      BY <1>1 DEF Inv, TypeInv, Locals, UserInv, UndoInv, WriteInv
    <2> DEFINE plan == PlanItem(ctx[u].want[r], ctx[u].seen[r], ctx[u].overwrite)
    <2>2. /\ r \in Resources /\ ctx[u].goal[r] = ApplyGoal(plan)
          /\ ctx[u].token[r] = <<plan.before, plan.after>>
      BY <2>1 DEF Planned, plan_token
    <2>3. ctx[u].goal[r][k] = plan.after[k] /\ plan.before[k] = ctx[u].seen[r][k]
      BY <2>1, <2>2, ApplyGoalIs
    <2>. HIDE DEF plan
    <2>. QED
      BY <2>1, <2>2, <2>3 DEF Current
  <1>. QED
    BY <1>1, Invariance, PTL

\* UndoneMeansRestored: no conflict is that every written key was still the
\* change set's own, and no failure that every call for them took effect.
THEOREM UndoneMeansRestoredHolds == Spec => []UndoneMeansRestored
  <1>1. ASSUME Inv PROVE UndoneMeansRestored
    <2>. SUFFICES ASSUME NEW u \in Users, ctx[u].undo_of # 0, ctx[u].pc = "write",
                         ctx[u].toSet = {}, ctx[u].toRemove = {},
                         Clean(ctx[u].items, ctx[u].ops),
                         NEW r \in Resources, NEW k \in Keys,
                         Old(u, r).result = "SUCCESS", Old(u, r).after[k] # None,
                         <<r, k>> \notin touched[u]
                  PROVE  tags[r][k] = Old(u, r).before[k]
      BY DEF UndoneMeansRestored, Old
    <2>1. Planned(u) /\ Restored(u)
      BY <1>1 DEF Inv, UserInv, WriteInv
    <2>2. ctx[u].items[r].result # "FAILED" /\ ~ctx[u].items[r].conflicts
      BY DEF Clean, Results
    <2>3. ~UndoItem(Old(u, r), ctx[u].seen[r]).conflicts
      BY <2>1, <2>2 DEF Planned
    <2>4. UndoItem(Old(u, r), ctx[u].seen[r]).conflicts
            = (\E j \in Keys : Old(u, r).after[j] # None /\ j \notin Mine(Old(u, r), ctx[u].seen[r]))
      BY DEF UndoItem, NoItem
    <2>5. k \in Mine(Old(u, r), ctx[u].seen[r])
      BY <2>3, <2>4
    <2>6. ~Pending(u, r, k)
      BY DEF Pending
    <2>. QED
      BY <2>1, <2>2, <2>5, <2>6 DEF Restored
  <1>. QED
    BY <1>1, Invariance, PTL
=============================================================================
