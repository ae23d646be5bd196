------------------------ MODULE SlideEditingTheorems ------------------------
(***************************************************************************)
(* What holds of SlideEditing for any users, slides and number of versions. *)
(***************************************************************************)
EXTENDS SlideEditing, TLAPS

(* Where a request stops says what it is.                                  *)
Placed ==
    \A u \in Users :
        /\ pc[u] = "check" => op[u].kind = "edit"
        /\ pc[u] = "pick" => op[u].kind = "rollback"
        /\ pc[u] \in {"number", "commit"} => op[u].kind \in Editing
        /\ pc[u] = "commit" => op[u].number \in 1..MaxVersions
        /\ pc[u] \in {"insert", "refresh"} => op[u].kind = "lock"

Requests == TypeOK /\ Placed

LEMMA GeneratedType == Generated \in Decks
<1> QED BY EditingAssumption DEF Generated, Decks

LEMMA NoRequestType == NoRequest \in Request
<1>1. (CHOOSE s \in Slides : TRUE) \in Slides
  BY EditingAssumption
<1> QED BY <1>1, GeneratedType, EditingAssumption DEF NoRequest, Request, Kinds, Editing

(* What a request writes is a deck.                                        *)
LEMMA ResultType ==
    ASSUME NEW r \in Request
    PROVE  Result(r) \in Decks
<1> QED BY DEF Result, Request, Decks

LEMMA BeginRequests ==
    ASSUME Requests, NEW u \in Users, NEW place \in Places, NEW r \in Request, Begin(u, place, r),
           place = "check" => r.kind = "edit",
           place = "pick" => r.kind = "rollback",
           place = "number" => r.kind \in Editing,
           place # "commit",
           place \in {"insert", "refresh"} => r.kind = "lock",
           UNCHANGED <<deckVars, lockVars>>
    PROVE  Requests'
<1>1. TypeOK'
  BY DEF Requests, TypeOK, Begin, deckVars, lockVars
<1>2. Placed'
  BY DEF Requests, TypeOK, Placed, Begin
<1> QED BY <1>1, <1>2 DEF Requests

LEMMA LeaveRequests ==
    ASSUME Requests, NEW u \in Users, Leave(u)
    PROVE  Requests'
<1>1. TypeOK'
  BY NoRequestType DEF Requests, TypeOK, Leave, deckVars, lockVars, Places
<1>2. Placed'
  BY DEF Requests, TypeOK, Placed, Leave
<1> QED BY <1>1, <1>2 DEF Requests

(* The requests other than that of user u keep what Requests says of them. *)
LEMMA DisturbedType ==
    ASSUME Requests, NEW u \in Users, NEW others, NEW v \in Users
    PROVE  /\ Disturbed(u, others)[v] \in Request
           /\ v # u => /\ Disturbed(u, others)[v].kind = op[v].kind
                       /\ Disturbed(u, others)[v].number = op[v].number
<1>1. op[v] \in Request
  BY DEF Requests, TypeOK
<1>2. [op[v] EXCEPT !.alone = FALSE] \in Request
  BY <1>1 DEF Request
<1>3. /\ [op[v] EXCEPT !.alone = FALSE].kind = op[v].kind
      /\ [op[v] EXCEPT !.alone = FALSE].number = op[v].number
  BY <1>1 DEF Request
<1> QED BY <1>1, <1>2, <1>3, NoRequestType DEF Disturbed

(* A request that ends and changes those of others in other fields.        *)
LEMMA EndRequests ==
    ASSUME Requests, NEW u \in Users,
           pc' = [pc EXCEPT ![u] = "idle"],
           op' \in [Users -> Request],
           \A v \in Users \ {u} : op'[v].kind = op[v].kind /\ op'[v].number = op[v].number
    PROVE  Placed'
BY DEF Requests, TypeOK, Placed

LEMMA ReleasedType ==
    ASSUME Requests, NEW s \in Slides, NEW w, NEW v \in Users
    PROVE  /\ Released(s, w)[v] \in Request
           /\ Released(s, w)[v].kind = op[v].kind
           /\ Released(s, w)[v].number = op[v].number
<1>1. op[v] \in Request
  BY DEF Requests, TypeOK
<1>2. /\ [op[v] EXCEPT !.held = @ \ {w}] \in Request
      /\ [op[v] EXCEPT !.held = @ \ {w}].kind = op[v].kind
      /\ [op[v] EXCEPT !.held = @ \ {w}].number = op[v].number
  BY <1>1 DEF Request
<1> QED BY <1>1, <1>2 DEF Released

LEMMA GrantTypes ==
    ASSUME Requests, NEW u \in Users, Grant(u)
    PROVE  /\ lock' \in [Slides -> SUBSET Users]
           /\ raced' \in SUBSET Slides
           /\ pc' \in [Users -> Places]
<1>1. op[u].slide \in Slides
  BY DEF Requests, TypeOK, Request
<1> QED BY <1>1 DEF Requests, TypeOK, Grant, Places

LEMMA WriteDeckRequests ==
    ASSUME Requests, NEW u \in Users, WriteDeck(u)
    PROVE  Requests'
<1>0. op[u] \in Request /\ versions \subseteq Version /\ deck \in Decks
  BY DEF Requests, TypeOK
<1>1. ASSUME NEW s \in Slides, StartUpdate(u, s)
      PROVE  Requests'
  <2> DEFINE r == [NoRequest EXCEPT !.kind = "edit", !.slide = s, !.saved = deck, !.held = lock[s] \ {u}]
  <2>1. lock[s] \ {u} \in SUBSET Users
    BY DEF Requests, TypeOK
  <2>2. r \in Request /\ r.kind = "edit"
    BY <1>0, <2>1, NoRequestType DEF Request, Kinds, Editing
  <2>3. Begin(u, "check", r) /\ UNCHANGED <<deckVars, lockVars>>
    BY <1>1 DEF StartUpdate
  <2> HIDE DEF r
  <2> QED BY <2>2, <2>3, BeginRequests DEF Places
<1>2. ASSUME CheckLock(u)
      PROVE  Requests'
  <2>1. TypeOK'
    BY <1>2 DEF CheckLock, Requests, TypeOK, Places, deckVars, lockVars
  <2>2. Placed'
    BY <1>2 DEF CheckLock, Requests, TypeOK, Placed, Editing
  <2> QED BY <2>1, <2>2 DEF Requests
<1>3. ASSUME LockRefusesEdit(u) \/ NumberTaken(u)
      PROVE  Requests'
  BY <1>3, LeaveRequests DEF LockRefusesEdit, NumberTaken
<1>4. ASSUME StartRollback(u)
      PROVE  Requests'
  <2> DEFINE r == [NoRequest EXCEPT !.kind = "rollback", !.saved = deck]
  <2>1. r \in Request /\ r.kind = "rollback"
    BY <1>0, NoRequestType DEF Request, Kinds, Editing
  <2>2. Begin(u, "pick", r) /\ UNCHANGED <<deckVars, lockVars>>
    BY <1>4 DEF StartRollback
  <2> HIDE DEF r
  <2> QED BY <2>1, <2>2, BeginRequests DEF Places
<1>5. ASSUME NEW target \in versions, PickTarget(u, target)
      PROVE  Requests'
  <2>1. target.deck \in Decks
    BY <1>0 DEF Version
  <2>2. [op[u] EXCEPT !.applied = target.deck] \in Request
    BY <1>0, <2>1 DEF Request
  <2>3. TypeOK'
    BY <1>5, <2>2 DEF PickTarget, Requests, TypeOK, Places, deckVars, lockVars
  <2>4. [op[u] EXCEPT !.applied = target.deck].kind = op[u].kind
    BY <1>0 DEF Request
  <2>5. Placed'
    BY <1>5, <2>4 DEF PickTarget, Requests, TypeOK, Placed, Editing
  <2> QED BY <2>3, <2>5 DEF Requests
<1>6. ASSUME NEW source \in versions, NEW target \in versions, StartMerge(u, source, target)
      PROVE  Requests'
  <2> DEFINE r(merged) == [NoRequest EXCEPT !.kind = "merge", !.saved = merged, !.applied = merged]
  <2>1. PICK merged \in {source.deck, target.deck} : Begin(u, "number", r(merged))
    BY <1>6 DEF StartMerge
  <2>2. merged \in Decks
    BY <1>0 DEF Version
  <2>3. r(merged) \in Request /\ r(merged).kind = "merge"
    BY <2>2, NoRequestType DEF Request, Kinds, Editing
  <2>4. UNCHANGED <<deckVars, lockVars>>
    BY <1>6 DEF StartMerge
  <2> HIDE DEF r
  <2> QED BY <2>1, <2>3, <2>4, BeginRequests DEF Places, Editing
<1>7. ASSUME ReadNumber(u)
      PROVE  Requests'
  <2>1. PICK n \in NextNumbers : op' = [op EXCEPT ![u].number = n]
    BY <1>7 DEF ReadNumber
  <2>2. n \in 1..MaxVersions
    BY DEF NextNumbers
  <2>3. [op[u] EXCEPT !.number = n] \in Request
    BY <1>0, <2>2, EditingAssumption DEF Request
  <2>4. TypeOK'
    BY <1>7, <2>1, <2>3 DEF ReadNumber, Requests, TypeOK, Places, deckVars, lockVars
  <2>5. [op[u] EXCEPT !.number = n].kind = op[u].kind /\ [op[u] EXCEPT !.number = n].number = n
    BY <1>0 DEF Request
  <2>6. Placed'
    BY <1>7, <2>1, <2>2, <2>5 DEF ReadNumber, Requests, TypeOK, Placed, Editing
  <2> QED BY <2>4, <2>6 DEF Requests
<1>8. ASSUME Commit(u)
      PROVE  Requests'
  <2> DEFINE others == {v \in Users : op[v].kind \in Editing}
  <2>1. op' = Disturbed(u, others)
    BY <1>8 DEF Commit
  <2> HIDE DEF others
  <2>2. op' \in [Users -> Request]
    BY <2>1, DisturbedType DEF Disturbed
  <2>3. [number |-> op[u].number, deck |-> op[u].saved] \in Version
    BY <1>0, <1>8 DEF Commit, Requests, Placed, Request, Version
  <2>4. TypeOK'
    BY <1>0, <1>8, <2>2, <2>3, ResultType DEF Commit, Requests, TypeOK, Places, lockVars
  <2>5. \A v \in Users \ {u} : op'[v].kind = op[v].kind /\ op'[v].number = op[v].number
    BY <2>1, DisturbedType
  <2>6. pc' = [pc EXCEPT ![u] = "idle"]
    BY <1>8 DEF Commit
  <2>7. Placed'
    BY <2>2, <2>5, <2>6, EndRequests
  <2> QED BY <2>4, <2>7 DEF Requests
<1> QED BY <1>1, <1>2, <1>3, <1>4, <1>5, <1>6, <1>7, <1>8 DEF WriteDeck

LEMMA UseLockRequests ==
    ASSUME Requests, NEW u \in Users, UseLock(u)
    PROVE  Requests'
<1>0. op[u] \in Request /\ op[u].slide \in Slides /\ op[u].owner \in Users \cup {Nobody}
  BY DEF Requests, TypeOK, Request
<1>1. ASSUME NEW s \in Slides, LockFree(u, s) \/ LockMine(u, s)
      PROVE  Requests'
  <2> DEFINE new == [NoRequest EXCEPT !.kind = "lock", !.slide = s]
             mine == [NoRequest EXCEPT !.kind = "lock", !.slide = s, !.owner = u]
  <2>1. /\ new \in Request /\ new.kind = "lock"
        /\ mine \in Request /\ mine.kind = "lock"
    BY NoRequestType DEF Request, Kinds
  <2>2. /\ Begin(u, "insert", new) \/ Begin(u, "refresh", mine)
        /\ UNCHANGED <<deckVars, lockVars>>
    BY <1>1 DEF LockFree, LockMine
  <2> HIDE DEF new, mine
  <2> QED BY <2>1, <2>2, BeginRequests DEF Places
<1>2. ASSUME NEW s \in Slides, NEW w \in Users, FindLock(u, s, w)
      PROVE  Requests'
  <2> DEFINE r == [NoRequest EXCEPT !.kind = "unlock", !.slide = s, !.owner = w]
  <2>1. r \in Request
    BY NoRequestType DEF Request, Kinds
  <2>2. Begin(u, "delete", r) /\ UNCHANGED <<deckVars, lockVars>>
    BY <1>2 DEF FindLock
  <2> HIDE DEF r
  <2> QED BY <2>1, <2>2, BeginRequests DEF Places
<1>3. ASSUME InsertLock(u)
      PROVE  Requests'
  <2>1. \A v \in Users :
           /\ op'[v] \in Request
           /\ v # u => op'[v].kind = op[v].kind /\ op'[v].number = op[v].number
    <3> SUFFICES ASSUME NEW v \in Users
                 PROVE  /\ op'[v] \in Request
                        /\ v # u => op'[v].kind = op[v].kind /\ op'[v].number = op[v].number
      OBVIOUS
    <3>1. \/ op'[v] = [op[v] EXCEPT !.owner = Nobody]
          \/ op'[v] = Disturbed(u, Rivals(u))[v]
      BY <1>3 DEF InsertLock
    <3>2. op[v] \in Request
      BY DEF Requests, TypeOK
    <3>3. /\ [op[v] EXCEPT !.owner = Nobody] \in Request
          /\ [op[v] EXCEPT !.owner = Nobody].kind = op[v].kind
          /\ [op[v] EXCEPT !.owner = Nobody].number = op[v].number
      BY <3>2 DEF Request
    <3>4. /\ Disturbed(u, Rivals(u))[v] \in Request
          /\ v # u => /\ Disturbed(u, Rivals(u))[v].kind = op[v].kind
                      /\ Disturbed(u, Rivals(u))[v].number = op[v].number
      BY DisturbedType
    <3> QED BY <3>1, <3>3, <3>4
  <2>2. op' \in [Users -> Request]
    <3>1. op' = [v \in Users |-> op'[v]]
      BY <1>3 DEF InsertLock
    <3> QED BY <3>1, <2>1
  <2>3. TypeOK'
    BY <1>3, <2>2, GrantTypes DEF InsertLock, Requests, TypeOK, deckVars
  <2>4. Placed'
    BY <1>3, <2>1, <2>2, EndRequests DEF InsertLock, Grant
  <2> QED BY <2>3, <2>4 DEF Requests
<1>4. ASSUME RefreshLock(u)
      PROVE  Requests'
  <2>1. op' = Disturbed(u, Rivals(u))
    BY <1>4 DEF RefreshLock
  <2>2. op' \in [Users -> Request]
    BY <2>1, DisturbedType DEF Disturbed
  <2>3. TypeOK'
    BY <1>4, <2>2, GrantTypes DEF RefreshLock, Requests, TypeOK, deckVars
  <2>4. \A v \in Users \ {u} : op'[v].kind = op[v].kind /\ op'[v].number = op[v].number
    BY <2>1, DisturbedType
  <2>5. Placed'
    BY <1>4, <2>2, <2>4, EndRequests DEF RefreshLock, Grant
  <2> QED BY <2>3, <2>5 DEF Requests
<1>5. ASSUME RefreshNothing(u)
      PROVE  Requests'
  BY <1>5, LeaveRequests DEF RefreshNothing
<1>6. ASSUME DeleteLock(u)
      PROVE  Requests'
  <2> DEFINE o == Released(op[u].slide, op[u].owner)
  <2>1. \A v \in Users :
           /\ op'[v] \in Request
           /\ v # u => op'[v].kind = op[v].kind /\ op'[v].number = op[v].number
    <3> SUFFICES ASSUME NEW v \in Users
                 PROVE  /\ op'[v] \in Request
                        /\ v # u => op'[v].kind = op[v].kind /\ op'[v].number = op[v].number
      OBVIOUS
    <3>1. /\ o[v] \in Request
          /\ o[v].kind = op[v].kind /\ o[v].number = op[v].number
      BY <1>0, ReleasedType
    <3>2. \/ v = u /\ op'[v] = NoRequest
          \/ op'[v] = [o[v] EXCEPT !.owner = Nobody]
          \/ op'[v] = o[v]
      BY <1>6 DEF DeleteLock
    <3> HIDE DEF o
    <3>3. /\ [o[v] EXCEPT !.owner = Nobody] \in Request
          /\ [o[v] EXCEPT !.owner = Nobody].kind = o[v].kind
          /\ [o[v] EXCEPT !.owner = Nobody].number = o[v].number
      BY <3>1 DEF Request
    <3> QED BY <3>1, <3>2, <3>3, NoRequestType
  <2>2. op' \in [Users -> Request]
    <3>1. op' = [v \in Users |-> op'[v]]
      BY <1>6 DEF DeleteLock
    <3> QED BY <3>1, <2>1
  <2>3. TypeOK'
    BY <1>0, <1>6, <2>2 DEF DeleteLock, Requests, TypeOK, deckVars, Places
  <2>4. Placed'
    BY <1>6, <2>1, <2>2, EndRequests DEF DeleteLock
  <2> QED BY <2>3, <2>4 DEF Requests
<1> QED BY <1>1, <1>2, <1>3, <1>4, <1>5, <1>6 DEF UseLock

LEMMA ExpiryRequests ==
    ASSUME Requests, NEW s \in Slides, NEW u \in Users, LockExpires(s, u)
    PROVE  Requests'
<1>1. op' = Released(s, u)
  BY DEF LockExpires
<1>2. op' \in [Users -> Request]
  BY <1>1, ReleasedType DEF Released
<1>3. TypeOK'
  BY <1>2 DEF LockExpires, Requests, TypeOK, deckVars
<1>4. \A v \in Users : op'[v].kind = op[v].kind /\ op'[v].number = op[v].number
  BY <1>1, ReleasedType
<1>5. Placed'
  BY <1>4 DEF LockExpires, Requests, TypeOK, Placed
<1> QED BY <1>3, <1>5 DEF Requests

LEMMA InitRequests == Init => Requests
<1> SUFFICES ASSUME Init PROVE Requests
  OBVIOUS
<1>1. TypeOK
  BY GeneratedType, NoRequestType DEF Init, TypeOK, Places
<1>2. Placed
  BY DEF Init, Placed
<1> QED BY <1>1, <1>2 DEF Requests

LEMMA StepRequests ==
    ASSUME Requests, [Next]_vars
    PROVE  Requests'
<1>1. ASSUME UNCHANGED vars
      PROVE  Requests'
  BY <1>1 DEF vars, Requests, TypeOK, Placed
<1>2. ASSUME NEW u \in Users, RequestDies(u)
      PROVE  Requests'
  BY <1>2, LeaveRequests DEF RequestDies
<1> QED BY <1>1, <1>2, WriteDeckRequests, UseLockRequests, ExpiryRequests DEF Next

(* The presentation, its versions and locks, and every request, keep their *)
(* types, and a request is the kind its place in the code says.            *)
THEOREM EditingTypeCorrect == Spec => [](TypeOK /\ Placed)
<1>1. Init => Requests
  BY InitRequests
<1>2. Requests /\ [Next]_vars => Requests'
  BY StepRequests
<1>3. Requests => TypeOK /\ Placed
  BY DEF Requests
<1> QED BY <1>1, <1>2, <1>3, PTL DEF Spec

-----------------------------------------------------------------------------
(* Version numbers.  The number a request has read may be taken when it    *)
(* commits, but the one before it never disappears.                        *)
Numbered ==
    /\ VersionsNumbered
    /\ \A u \in Users :
          pc[u] = "commit" => op[u].number = 1 \/ \E v \in versions : v.number = op[u].number - 1

LEMMA NumberedFrame ==
    ASSUME Numbered, versions' = versions,
           \A u \in Users : pc'[u] = "commit" => pc[u] = "commit" /\ op'[u].number = op[u].number
    PROVE  Numbered'
BY DEF Numbered, VersionsNumbered

LEMMA WriteDeckNumbered ==
    ASSUME Requests, Numbered, NEW u \in Users, WriteDeck(u)
    PROVE  Numbered'
<1>0. op[u] \in Request /\ versions \subseteq Version
  BY DEF Requests, TypeOK
<1>1. ASSUME \/ \E s \in Slides : StartUpdate(u, s)
             \/ CheckLock(u) \/ LockRefusesEdit(u) \/ StartRollback(u)
             \/ \E v \in versions : PickTarget(u, v)
             \/ \E v, w \in versions : StartMerge(u, v, w)
             \/ NumberTaken(u)
      PROVE  Numbered'
  <2>1. versions' = versions
    BY <1>1 DEF StartUpdate, CheckLock, LockRefusesEdit, StartRollback, PickTarget, StartMerge,
                NumberTaken, Leave, deckVars
  <2>2. \E place \in Places \ {"commit"} : \E r : pc' = [pc EXCEPT ![u] = place] /\ op' = [op EXCEPT ![u] = r]
    <3>1. \A s \in Slides : StartUpdate(u, s) =>
            \E r : pc' = [pc EXCEPT ![u] = "check"] /\ op' = [op EXCEPT ![u] = r]
      BY DEF StartUpdate, Begin
    <3>2. CheckLock(u) =>
            \E r : pc' = [pc EXCEPT ![u] = "number"] /\ op' = [op EXCEPT ![u] = r]
      <4>1. op = [op EXCEPT ![u] = op[u]]
        BY DEF Requests, TypeOK
      <4> QED BY <4>1 DEF CheckLock
    <3>3. LockRefusesEdit(u) \/ NumberTaken(u) =>
            \E r : pc' = [pc EXCEPT ![u] = "idle"] /\ op' = [op EXCEPT ![u] = r]
      BY DEF LockRefusesEdit, NumberTaken, Leave
    <3>4. StartRollback(u) =>
            \E r : pc' = [pc EXCEPT ![u] = "pick"] /\ op' = [op EXCEPT ![u] = r]
      BY DEF StartRollback, Begin
    <3>5. \A v \in versions : PickTarget(u, v) =>
            \E r : pc' = [pc EXCEPT ![u] = "number"] /\ op' = [op EXCEPT ![u] = r]
      BY DEF PickTarget
    <3>6. \A v, w \in versions : StartMerge(u, v, w) =>
            \E r : pc' = [pc EXCEPT ![u] = "number"] /\ op' = [op EXCEPT ![u] = r]
      BY DEF StartMerge, Begin
    <3> QED BY <1>1, <3>1, <3>2, <3>3, <3>4, <3>5, <3>6 DEF Places
  <2>3. \A v \in Users : pc'[v] = "commit" => pc[v] = "commit" /\ op'[v].number = op[v].number
    BY <2>2 DEF Requests, TypeOK
  <2> QED BY <2>1, <2>3, NumberedFrame
<1>2. ASSUME ReadNumber(u)
      PROVE  Numbered'
  <2>1. PICK n \in NextNumbers : op' = [op EXCEPT ![u].number = n]
    BY <1>2 DEF ReadNumber
  <2>2. n = 1 \/ \E v \in versions : v.number = n - 1
    BY DEF NextNumbers
  <2>3. versions' = versions /\ pc' = [pc EXCEPT ![u] = "commit"]
    BY <1>2 DEF ReadNumber, deckVars
  <2>4. op'[u].number = n /\ \A v \in Users \ {u} : op'[v] = op[v]
    BY <1>0, <2>1 DEF Requests, TypeOK, Request
  <2>5. \A v \in Users : pc'[v] = "commit" => v = u \/ pc[v] = "commit"
    BY <2>3 DEF Requests, TypeOK
  <2> QED BY <2>2, <2>3, <2>4, <2>5 DEF Numbered, VersionsNumbered
<1>3. ASSUME Commit(u)
      PROVE  Numbered'
  <2> DEFINE new == [number |-> op[u].number, deck |-> op[u].saved]
             others == {v \in Users : op[v].kind \in Editing}
  <2>1. /\ pc[u] = "commit"
        /\ versions' = versions \cup {new}
        /\ \A v \in versions : v.number # op[u].number
        /\ pc' = [pc EXCEPT ![u] = "idle"]
        /\ op' = Disturbed(u, others)
    BY <1>3 DEF Commit, NumberIsTaken
  <2>2. new.number = op[u].number
    OBVIOUS
  <2> HIDE DEF new, others
  <2>3. op[u].number = 1 \/ \E v \in versions : v.number = op[u].number - 1
    BY <2>1 DEF Numbered
  <2>4. VersionsNumbered'
    <3>1. op[u].number \in 1..MaxVersions
      BY <2>1 DEF Requests, Placed
    <3>2. \A v, w \in versions' : v.number = w.number => v = w
      BY <2>1, <2>2 DEF Numbered, VersionsNumbered
    <3>3. \A v \in versions' : v.number > 1 => \E w \in versions' : w.number = v.number - 1
      BY <2>1, <2>2, <2>3, <3>1, EditingAssumption DEF Numbered, VersionsNumbered
    <3> QED BY <3>2, <3>3 DEF VersionsNumbered
  <2>5. \A v \in Users : pc'[v] = "commit" => v # u /\ pc[v] = "commit"
    BY <2>1 DEF Requests, TypeOK
  <2>6. \A v \in Users \ {u} : op'[v].number = op[v].number
    BY <2>1, DisturbedType
  <2>7. \A v \in Users :
           pc'[v] = "commit" => op'[v].number = 1 \/ \E w \in versions' : w.number = op'[v].number - 1
    BY <2>1, <2>5, <2>6 DEF Numbered
  <2> QED BY <2>4, <2>7 DEF Numbered
<1> QED BY <1>1, <1>2, <1>3 DEF WriteDeck

LEMMA UseLockNumbered ==
    ASSUME Requests, Numbered, NEW u \in Users, UseLock(u) \/ RequestDies(u)
    PROVE  Numbered'
<1>1. versions' = versions
  BY DEF UseLock, RequestDies, LockFree, LockMine, FindLock, InsertLock, RefreshLock, RefreshNothing,
         DeleteLock, Leave, deckVars
<1>2. \E place \in Places \ {"commit"} : pc' = [pc EXCEPT ![u] = place]
  BY DEF UseLock, RequestDies, LockFree, LockMine, FindLock, InsertLock, RefreshLock, RefreshNothing,
         DeleteLock, Leave, Begin, Grant, Places
<1>3. \A v \in Users : pc'[v] = "commit" => v # u /\ pc[v] = "commit"
  BY <1>2 DEF Requests, TypeOK
<1>4. ASSUME NEW v \in Users \ {u}
      PROVE  op'[v].number = op[v].number
  <2>0. op[v] \in Request /\ op[u].slide \in Slides
    BY DEF Requests, TypeOK, Request
  <2>1. [op[v] EXCEPT !.owner = Nobody].number = op[v].number
    BY <2>0 DEF Request
  <2>2. Disturbed(u, Rivals(u))[v].number = op[v].number
    BY DisturbedType
  <2>3. CASE InsertLock(u) \/ RefreshLock(u)
    BY <2>1, <2>2, <2>3 DEF InsertLock, RefreshLock
  <2>4. CASE DeleteLock(u)
    <3> DEFINE o == Released(op[u].slide, op[u].owner)
    <3>1. o[v] \in Request /\ o[v].number = op[v].number
      BY <2>0, ReleasedType
    <3>2. op'[v] = [o[v] EXCEPT !.owner = Nobody] \/ op'[v] = o[v]
      BY <2>4 DEF DeleteLock
    <3> HIDE DEF o
    <3>3. [o[v] EXCEPT !.owner = Nobody].number = o[v].number
      BY <3>1 DEF Request
    <3> QED BY <3>1, <3>2, <3>3
  <2>5. CASE ~ (InsertLock(u) \/ RefreshLock(u) \/ DeleteLock(u))
    <3>1. op'[v] = op[v]
      BY <2>5 DEF UseLock, RequestDies, LockFree, LockMine, FindLock, RefreshNothing, Leave, Begin,
                  Requests, TypeOK
    <3> QED BY <3>1
  <2> QED BY <2>3, <2>4, <2>5
<1> QED BY <1>1, <1>3, <1>4, NumberedFrame

LEMMA StepNumbered ==
    ASSUME Requests, Numbered, [Next]_vars
    PROVE  Numbered'
<1>1. ASSUME UNCHANGED vars
      PROVE  Numbered'
  BY <1>1 DEF vars, Numbered, VersionsNumbered
<1>2. ASSUME NEW s \in Slides, NEW u \in Users, LockExpires(s, u)
      PROVE  Numbered'
  <2>1. op' = Released(s, u) /\ pc' = pc /\ versions' = versions
    BY <1>2 DEF LockExpires, deckVars
  <2>2. \A v \in Users : op'[v].number = op[v].number
    BY <2>1, ReleasedType
  <2> QED BY <2>1, <2>2, NumberedFrame
<1> QED BY <1>1, <1>2, WriteDeckNumbered, UseLockNumbered DEF Next

(* A version number names one version and the numbers have no gap, in      *)
(* whatever order requests read the largest number and commit.             *)
THEOREM NumbersIdentifyVersions == Spec => []VersionsNumbered
<1>1. Init => Requests /\ Numbered
  BY InitRequests DEF Init, Numbered, VersionsNumbered
<1>2. Requests /\ Numbered /\ [Next]_vars => Requests' /\ Numbered'
  BY StepRequests, StepNumbered
<1>3. Numbered => VersionsNumbered
  BY DEF Numbered
<1> QED BY <1>1, <1>2, <1>3, PTL DEF Spec

-----------------------------------------------------------------------------
(* What a step of one user leaves of the requests of the others.           *)
Keeps(r, q) ==
    /\ r.kind = q.kind /\ r.slide = q.slide /\ r.saved = q.saved /\ r.applied = q.applied
    /\ r.alone => q.alone
    /\ r.held \subseteq q.held

LEMMA DisturbedKeeps ==
    ASSUME Requests, NEW u \in Users, NEW others, NEW v \in Users \ {u}
    PROVE  /\ Keeps(Disturbed(u, others)[v], op[v])
           /\ v \in others => ~ Disturbed(u, others)[v].alone
<1>1. op[v] \in Request
  BY DEF Requests, TypeOK
<1>2. /\ Keeps([op[v] EXCEPT !.alone = FALSE], op[v])
      /\ ~ [op[v] EXCEPT !.alone = FALSE].alone
  BY <1>1 DEF Request, Keeps
<1>3. Keeps(op[v], op[v])
  BY DEF Keeps
<1>4. Disturbed(u, others)[v] = IF v \in others THEN [op[v] EXCEPT !.alone = FALSE] ELSE op[v]
  BY DEF Disturbed
<1> QED BY <1>2, <1>3, <1>4

LEMMA ReleasedKeeps ==
    ASSUME Requests, NEW s \in Slides, NEW w, NEW v \in Users
    PROVE  /\ Keeps(Released(s, w)[v], op[v])
           /\ op[v].slide = s => w \notin Released(s, w)[v].held
<1>1. op[v] \in Request
  BY DEF Requests, TypeOK
<1>2. /\ Keeps([op[v] EXCEPT !.held = @ \ {w}], op[v])
      /\ w \notin [op[v] EXCEPT !.held = @ \ {w}].held
  BY <1>1 DEF Request, Keeps
<1>3. Keeps(op[v], op[v])
  BY DEF Keeps
<1> QED BY <1>2, <1>3 DEF Released

LEMMA DeletedKeeps ==
    ASSUME Requests, NEW u \in Users, DeleteLock(u), NEW v \in Users \ {u}
    PROVE  /\ Keeps(op'[v], op[v])
           /\ op[v].slide = op[u].slide => op[u].owner \notin op'[v].held
<1> DEFINE o == Released(op[u].slide, op[u].owner)
<1>0. op[u].slide \in Slides
  BY DEF Requests, TypeOK, Request
<1>1. /\ o[v] \in Request
      /\ Keeps(o[v], op[v])
      /\ op[v].slide = op[u].slide => op[u].owner \notin o[v].held
  BY <1>0, ReleasedType, ReleasedKeeps
<1>2. op'[v] = [o[v] EXCEPT !.owner = Nobody] \/ op'[v] = o[v]
  BY DEF DeleteLock
<1> HIDE DEF o
<1>3. /\ Keeps([o[v] EXCEPT !.owner = Nobody], op[v])
      /\ [o[v] EXCEPT !.owner = Nobody].held = o[v].held
  BY <1>1 DEF Request, Keeps
<1> QED BY <1>1, <1>2, <1>3

LEMMA InsertedKeeps ==
    ASSUME Requests, NEW u \in Users, InsertLock(u) \/ RefreshLock(u), NEW v \in Users \ {u}
    PROVE  /\ Keeps(op'[v], op[v])
           /\ v \in Rivals(u) => ~ op'[v].alone
<1>1. op[v] \in Request
  BY DEF Requests, TypeOK
<1>2. Keeps([op[v] EXCEPT !.owner = Nobody], op[v])
  BY <1>1 DEF Request, Keeps
<1>3. /\ Keeps(Disturbed(u, Rivals(u))[v], op[v])
      /\ v \in Rivals(u) => ~ Disturbed(u, Rivals(u))[v].alone
  BY DisturbedKeeps
<1>4. \/ op[v].kind = "unlock" /\ op'[v] = [op[v] EXCEPT !.owner = Nobody]
      \/ op'[v] = Disturbed(u, Rivals(u))[v]
  BY DEF InsertLock, RefreshLock
<1>5. op[v].kind = "unlock" => v \notin Rivals(u)
  BY DEF Rivals
<1> QED BY <1>2, <1>3, <1>4, <1>5

LEMMA OthersKeep ==
    ASSUME Requests, NEW u \in Users, WriteDeck(u) \/ UseLock(u) \/ RequestDies(u), NEW v \in Users \ {u}
    PROVE  /\ Keeps(op'[v], op[v])
           /\ pc'[v] = pc[v]
<1>1. pc'[v] = pc[v]
  BY DEF WriteDeck, UseLock, StartUpdate, CheckLock, LockRefusesEdit, StartRollback, PickTarget, StartMerge,
         ReadNumber, Commit, NumberTaken, LockFree, LockMine, FindLock, InsertLock, RefreshLock,
         RefreshNothing, DeleteLock, RequestDies, Leave, Begin, Grant, Requests, TypeOK
<1>2. CASE Commit(u)
  BY <1>1, <1>2, DisturbedKeeps DEF Commit
<1>3. CASE InsertLock(u) \/ RefreshLock(u)
  BY <1>1, <1>3, InsertedKeeps
<1>4. CASE DeleteLock(u)
  BY <1>1, <1>4, DeletedKeeps
<1>5. CASE ~ (Commit(u) \/ InsertLock(u) \/ RefreshLock(u) \/ DeleteLock(u))
  <2>1. op'[v] = op[v]
    BY <1>5 DEF WriteDeck, UseLock, StartUpdate, CheckLock, LockRefusesEdit, StartRollback, PickTarget,
                StartMerge, ReadNumber, NumberTaken, LockFree, LockMine, FindLock,
                RefreshNothing, RequestDies, Leave, Begin, Requests, TypeOK
  <2> QED BY <1>1, <2>1 DEF Keeps
<1> QED BY <1>2, <1>3, <1>4, <1>5

-----------------------------------------------------------------------------
(* Decks.  A request that is alone has read the present deck.              *)
Saves(r) == r.kind \in {"edit", "rollback"} /\ r.alone

Current ==
    /\ DecksAreRecoverable
    /\ \A u \in Users : Saves(op[u]) => op[u].saved = deck

LEMMA CurrentFrame ==
    ASSUME Requests, Current, UNCHANGED deckVars, NEW u \in Users,
           WriteDeck(u) \/ UseLock(u) \/ RequestDies(u),
           Saves(op'[u]) => op'[u].saved = deck
    PROVE  Current'
<1>1. DecksAreRecoverable'
  BY DEF Current, DecksAreRecoverable, deckVars
<1>2. \A v \in Users \ {u} : Keeps(op'[v], op[v])
  BY OthersKeep
<1>3. \A v \in Users : Saves(op'[v]) => op'[v].saved = deck'
  BY <1>2 DEF Current, Saves, Keeps, deckVars
<1> QED BY <1>1, <1>3 DEF Current, Saves

LEMMA NoRequestFields ==
    /\ NoRequest.kind = "none"
    /\ NoRequest.held = {}
    /\ ~ Saves(NoRequest)
BY DEF NoRequest, Saves

LEMMA WriteDeckCurrent ==
    ASSUME Requests, Current, NEW u \in Users, WriteDeck(u)
    PROVE  Current'
<1>0. op[u] \in Request /\ op \in [Users -> Request]
  BY DEF Requests, TypeOK
<1>1. ASSUME (\E s \in Slides : StartUpdate(u, s)) \/ StartRollback(u)
      PROVE  Current'
  <2>1. op'[u].saved = deck
    BY <1>0, <1>1 DEF StartUpdate, StartRollback, Begin, NoRequest
  <2> QED BY <1>1, <2>1, CurrentFrame DEF StartUpdate, StartRollback
<1>2. ASSUME \E v, w \in versions : StartMerge(u, v, w)
      PROVE  Current'
  <2>1. op'[u].kind = "merge"
    BY <1>0, <1>2 DEF StartMerge, Begin, NoRequest
  <2>2. ~ Saves(op'[u])
    BY <2>1 DEF Saves
  <2> QED BY <1>2, <2>2, CurrentFrame DEF StartMerge
<1>3. ASSUME CheckLock(u) \/ (\E v \in versions : PickTarget(u, v)) \/ ReadNumber(u)
      PROVE  Current'
  <2>1. Saves(op'[u]) => Saves(op[u]) /\ op'[u].saved = op[u].saved
    BY <1>0, <1>3 DEF CheckLock, PickTarget, ReadNumber, Saves, Request
  <2>2. UNCHANGED deckVars
    BY <1>3 DEF CheckLock, PickTarget, ReadNumber
  <2> QED BY <2>1, <2>2, CurrentFrame DEF Current
<1>4. ASSUME LockRefusesEdit(u) \/ NumberTaken(u)
      PROVE  Current'
  <2>1. op'[u] = NoRequest /\ UNCHANGED deckVars
    BY <1>0, <1>4 DEF LockRefusesEdit, NumberTaken, Leave
  <2> QED BY <2>1, CurrentFrame, NoRequestFields
<1>5. ASSUME Commit(u)
      PROVE  Current'
  <2> DEFINE others == {v \in Users : op[v].kind \in Editing}
             new == [number |-> op[u].number, deck |-> op[u].saved]
  <2>1. /\ versions' = versions \cup {new}
        /\ deck' = Result(op[u])
        /\ decks' = decks \cup {Result(op[u])}
        /\ overwrote' = (overwrote \/ op[u].kind = "merge" \/ ~ op[u].alone)
        /\ op' = Disturbed(u, others)
        /\ pc[u] = "commit"
    BY <1>5 DEF Commit
  <2>2. new.deck = op[u].saved
    OBVIOUS
  <2>3. \A v \in others \ {u} : ~ Disturbed(u, others)[v].alone
    BY DisturbedKeeps
  <2>4. \A v \in Users \ {u} : Keeps(Disturbed(u, others)[v], op[v])
    BY DisturbedKeeps
  <2>5. \A v \in Users \ {u} : op[v].kind \in {"edit", "rollback"} => v \in others
    BY DEF Editing
  <2>6. op'[u] = NoRequest
    BY <2>1 DEF Disturbed
  <2> HIDE DEF new, others
  <2>7. \A v \in Users : ~ Saves(op'[v])
    BY <2>1, <2>3, <2>4, <2>5, <2>6, NoRequestFields DEF Saves, Keeps
  <2>8. DecksAreRecoverable'
    <3>1. ASSUME ~ overwrote'
          PROVE  decks' \subseteq {deck'} \cup {v.deck : v \in versions'}
      <4>1. ~ overwrote /\ op[u].alone /\ op[u].kind # "merge"
        BY <2>1, <3>1 DEF Requests, TypeOK
      <4>2. op[u].kind \in Editing
        BY <2>1 DEF Requests, Placed
      <4>3. op[u].saved = deck
        BY <4>1, <4>2 DEF Current, Saves, Editing
      <4>4. decks \subseteq {deck} \cup {v.deck : v \in versions}
        BY <4>1 DEF Current, DecksAreRecoverable
      <4> QED BY <2>1, <2>2, <4>3, <4>4
    <3> QED BY <3>1 DEF DecksAreRecoverable
  <2> QED BY <2>7, <2>8 DEF Current
<1> QED BY <1>1, <1>2, <1>3, <1>4, <1>5 DEF WriteDeck

LEMMA LockRequestKind ==
    ASSUME Requests, NEW u \in Users, UseLock(u) \/ RequestDies(u)
    PROVE  op'[u].kind \notin Editing
<1>0. op[u] \in Request /\ op \in [Users -> Request]
  BY DEF Requests, TypeOK
<1>1. CASE \E s \in Slides : LockFree(u, s) \/ LockMine(u, s) \/ \E w \in Users : FindLock(u, s, w)
  <2>1. \A s \in Slides : LockFree(u, s) => op'[u].kind = "lock"
    BY <1>0 DEF LockFree, Begin, NoRequest
  <2>2. \A s \in Slides : LockMine(u, s) => op'[u].kind = "lock"
    BY <1>0 DEF LockMine, Begin, NoRequest
  <2>3. \A s \in Slides, w \in Users : FindLock(u, s, w) => op'[u].kind = "unlock"
    BY <1>0 DEF FindLock, Begin, NoRequest
  <2>4. op'[u].kind \in {"lock", "unlock"}
    BY <1>1, <2>1, <2>2, <2>3
  <2> QED BY <2>4 DEF Editing
<1>2. CASE InsertLock(u)
  <2>1. op[u].kind = "lock"
    BY <1>2 DEF InsertLock, Requests, Placed
  <2>2. op'[u] = NoRequest
    BY <1>2, <2>1 DEF InsertLock, Disturbed
  <2> QED BY <2>2, NoRequestFields DEF Editing
<1>3. CASE RefreshLock(u) \/ RefreshNothing(u) \/ DeleteLock(u) \/ RequestDies(u)
  <2>1. op'[u] = NoRequest
    BY <1>0, <1>3 DEF RefreshLock, RefreshNothing, DeleteLock, RequestDies, Leave, Disturbed
  <2> QED BY <2>1, NoRequestFields DEF Editing
<1> QED BY <1>1, <1>2, <1>3 DEF UseLock

LEMMA UseLockCurrent ==
    ASSUME Requests, Current, NEW u \in Users, UseLock(u) \/ RequestDies(u)
    PROVE  Current'
<1>1. UNCHANGED deckVars
  BY DEF UseLock, RequestDies, LockFree, LockMine, FindLock, InsertLock, RefreshLock, RefreshNothing,
         DeleteLock, Leave
<1>2. op'[u].kind \notin Editing
  BY LockRequestKind
<1> QED BY <1>1, <1>2, CurrentFrame DEF Saves, Editing

LEMMA StepCurrent ==
    ASSUME Requests, Current, [Next]_vars
    PROVE  Current'
<1>1. ASSUME UNCHANGED vars
      PROVE  Current'
  BY <1>1 DEF vars, Current, DecksAreRecoverable, Saves
<1>2. ASSUME NEW s \in Slides, NEW u \in Users, LockExpires(s, u)
      PROVE  Current'
  <2>1. op' = Released(s, u) /\ UNCHANGED deckVars
    BY <1>2 DEF LockExpires
  <2>2. \A v \in Users : Keeps(op'[v], op[v])
    BY <2>1, ReleasedKeeps
  <2>3. \A v \in Users : Saves(op'[v]) => op'[v].saved = deck'
    BY <2>1, <2>2 DEF Current, Saves, Keeps, deckVars
  <2>4. DecksAreRecoverable'
    BY <2>1 DEF Current, DecksAreRecoverable, deckVars
  <2> QED BY <2>3, <2>4 DEF Current, Saves
<1> QED BY <1>1, <1>2, WriteDeckCurrent, UseLockCurrent DEF Next

(* No deck is lost by edits and rollbacks that do not overlap: it is the   *)
(* present one or in a version, however many of them there have been.      *)
THEOREM NoDeckIsLost == Spec => []DecksAreRecoverable
<1>1. Init => Requests /\ Current
  <2> SUFFICES ASSUME Init PROVE Requests /\ Current
    OBVIOUS
  <2>1. DecksAreRecoverable
    BY DEF Init, DecksAreRecoverable
  <2>2. \A u \in Users : op[u] = NoRequest
    BY DEF Init
  <2>3. \A u \in Users : ~ Saves(op[u])
    BY <2>2, NoRequestFields
  <2> QED BY <2>1, <2>3, InitRequests DEF Current
<1>2. Requests /\ Current /\ [Next]_vars => Requests' /\ Current'
  BY StepRequests, StepCurrent
<1>3. Current => DecksAreRecoverable
  BY DEF Current
<1> QED BY <1>1, <1>2, <1>3, PTL DEF Spec

-----------------------------------------------------------------------------
(* Locks and edits.  Those who have kept a slide locked still have it.     *)
Held ==
    /\ LockedSlideRefusesEdits
    /\ \A u \in Users : op[u].held \subseteq lock[op[u].slide] \ {u}

LEMMA HeldFrame ==
    ASSUME Requests, Held, NEW u \in Users, WriteDeck(u) \/ UseLock(u) \/ RequestDies(u),
           \A s \in Slides : lock[s] \subseteq lock'[s],
           op'[u].held \subseteq lock'[op'[u].slide] \ {u},
           op'[u].kind = "edit" /\ pc'[u] \in {"number", "commit"} => op'[u].held = {}
    PROVE  Held'
<1>1. \A v \in Users \ {u} : Keeps(op'[v], op[v]) /\ pc'[v] = pc[v]
  BY OthersKeep
<1>2. \A v \in Users : op[v].slide \in Slides
  BY DEF Requests, TypeOK, Request
<1>3. LockedSlideRefusesEdits'
  <2>1. \A v \in Users \ {u} : op'[v].kind = "edit" /\ pc'[v] \in {"number", "commit"} => op'[v].held = {}
    BY <1>1 DEF Held, LockedSlideRefusesEdits, Keeps
  <2> QED BY <2>1 DEF LockedSlideRefusesEdits
<1>4. \A v \in Users : op'[v].held \subseteq lock'[op'[v].slide] \ {v}
  BY <1>1, <1>2 DEF Held, Keeps
<1> QED BY <1>3, <1>4 DEF Held

LEMMA WriteDeckHeld ==
    ASSUME Requests, Held, NEW u \in Users, WriteDeck(u)
    PROVE  Held'
<1>0. op[u] \in Request /\ op \in [Users -> Request] /\ pc \in [Users -> Places]
  BY DEF Requests, TypeOK
<1>1. lock' = lock
  BY DEF WriteDeck, StartUpdate, CheckLock, LockRefusesEdit, StartRollback, PickTarget, StartMerge,
         ReadNumber, Commit, NumberTaken, Leave, lockVars
<1>2. ASSUME NEW s \in Slides, StartUpdate(u, s)
      PROVE  Held'
  <2>1. op'[u].held = lock[s] \ {u} /\ op'[u].slide = s /\ pc'[u] = "check"
    BY <1>0, <1>2 DEF StartUpdate, Begin, NoRequest
  <2> QED BY <1>1, <2>1, HeldFrame
<1>3. ASSUME CheckLock(u)
      PROVE  Held'
  <2>1. op'[u] = op[u] /\ lock[op[u].slide] \subseteq {u}
    BY <1>3 DEF CheckLock
  <2>2. op[u].held = {}
    BY <2>1 DEF Held
  <2> QED BY <1>1, <2>1, <2>2, HeldFrame
<1>4. ASSUME \/ StartRollback(u) \/ LockRefusesEdit(u) \/ NumberTaken(u) \/ Commit(u)
             \/ \E v, w \in versions : StartMerge(u, v, w)
      PROVE  Held'
  <2>1. StartRollback(u) => op'[u].held = {}
    BY <1>0 DEF StartRollback, Begin, NoRequest
  <2>2. \A v, w \in versions : StartMerge(u, v, w) => op'[u].held = {}
    BY <1>0 DEF StartMerge, Begin, NoRequest
  <2>3. LockRefusesEdit(u) \/ NumberTaken(u) \/ Commit(u) => op'[u] = NoRequest
    BY <1>0 DEF LockRefusesEdit, NumberTaken, Commit, Leave, Disturbed
  <2>4. op'[u].held = {}
    BY <1>4, <2>1, <2>2, <2>3, NoRequestFields
  <2> QED BY <1>1, <2>4, HeldFrame
<1>5. ASSUME NEW target \in versions, PickTarget(u, target)
      PROVE  Held'
  <2>1. op'[u].held = op[u].held /\ op'[u].slide = op[u].slide /\ op'[u].kind = op[u].kind
    BY <1>0, <1>5 DEF PickTarget, Request
  <2>2. op[u].kind = "rollback"
    BY <1>5 DEF PickTarget, Requests, Placed
  <2> QED BY <1>1, <2>1, <2>2, HeldFrame DEF Held
<1>6. ASSUME ReadNumber(u)
      PROVE  Held'
  <2>1. op'[u].held = op[u].held /\ op'[u].slide = op[u].slide /\ op'[u].kind = op[u].kind
    BY <1>0, <1>6 DEF ReadNumber, Request
  <2>2. op[u].kind = "edit" => op[u].held = {}
    BY <1>6 DEF ReadNumber, Held, LockedSlideRefusesEdits
  <2> QED BY <1>1, <2>1, <2>2, HeldFrame DEF Held
<1> QED BY <1>2, <1>3, <1>4, <1>5, <1>6 DEF WriteDeck

LEMMA UseLockHeld ==
    ASSUME Requests, Held, NEW u \in Users, UseLock(u) \/ RequestDies(u)
    PROVE  Held'
<1>0. /\ op[u] \in Request /\ op \in [Users -> Request] /\ op[u].slide \in Slides
      /\ lock \in [Slides -> SUBSET Users]
  BY DEF Requests, TypeOK, Request
<1>1. op'[u].held = {}
  <2>1. \A s \in Slides : LockFree(u, s) \/ LockMine(u, s) => op'[u].held = {}
    BY <1>0 DEF LockFree, LockMine, Begin, NoRequest
  <2>2. \A s \in Slides, w \in Users : FindLock(u, s, w) => op'[u].held = {}
    BY <1>0 DEF FindLock, Begin, NoRequest
  <2>3. InsertLock(u) => op'[u] = NoRequest
    <3> SUFFICES ASSUME InsertLock(u) PROVE op'[u] = NoRequest
      OBVIOUS
    <3>1. op[u].kind = "lock"
      BY DEF InsertLock, Requests, Placed
    <3> QED BY <3>1 DEF InsertLock, Disturbed
  <2>4. RefreshLock(u) \/ RefreshNothing(u) \/ DeleteLock(u) \/ RequestDies(u) => op'[u] = NoRequest
    BY <1>0 DEF RefreshLock, RefreshNothing, DeleteLock, RequestDies, Leave, Disturbed
  <2> QED BY <2>1, <2>2, <2>3, <2>4, NoRequestFields DEF UseLock
<1>2. ASSUME ~ DeleteLock(u)
      PROVE  Held'
  <2>1. \A s \in Slides : lock[s] \subseteq lock'[s]
    BY <1>0, <1>2 DEF UseLock, RequestDies, LockFree, LockMine, FindLock, InsertLock, RefreshLock,
                      RefreshNothing, Leave, Grant, lockVars
  <2> QED BY <1>1, <2>1, HeldFrame
<1>3. ASSUME DeleteLock(u)
      PROVE  Held'
  <2>1. lock' = [lock EXCEPT ![op[u].slide] = @ \ {op[u].owner}]
    BY <1>3 DEF DeleteLock
  <2>2. \A v \in Users \ {u} :
           /\ Keeps(op'[v], op[v]) /\ pc'[v] = pc[v]
           /\ op[v].slide = op[u].slide => op[u].owner \notin op'[v].held
    BY <1>3, DeletedKeeps, OthersKeep DEF UseLock
  <2>3. \A v \in Users : op[v].slide \in Slides
    BY DEF Requests, TypeOK, Request
  <2>4. ASSUME NEW v \in Users \ {u}
        PROVE  op'[v].held \subseteq lock'[op'[v].slide] \ {v}
    <3>1. op'[v].slide = op[v].slide /\ op'[v].held \subseteq lock[op[v].slide] \ {v}
      BY <2>2 DEF Held, Keeps
    <3> QED BY <1>0, <2>1, <2>2, <2>3, <3>1
  <2>5. LockedSlideRefusesEdits'
    <3>1. \A v \in Users \ {u} :
             op'[v].kind = "edit" /\ pc'[v] \in {"number", "commit"} => op'[v].held = {}
      BY <2>2 DEF Held, LockedSlideRefusesEdits, Keeps
    <3> QED BY <1>1, <3>1 DEF LockedSlideRefusesEdits
  <2> QED BY <1>1, <2>4, <2>5 DEF Held
<1> QED BY <1>2, <1>3

LEMMA StepHeld ==
    ASSUME Requests, Held, [Next]_vars
    PROVE  Held'
<1>1. ASSUME UNCHANGED vars
      PROVE  Held'
  BY <1>1 DEF vars, Held, LockedSlideRefusesEdits
<1>2. ASSUME NEW s \in Slides, NEW u \in Users, LockExpires(s, u)
      PROVE  Held'
  <2>1. op' = Released(s, u) /\ pc' = pc /\ lock' = [lock EXCEPT ![s] = @ \ {u}]
    BY <1>2 DEF LockExpires
  <2>2. \A v \in Users :
           /\ Keeps(op'[v], op[v])
           /\ op[v].slide = s => u \notin op'[v].held
    BY <2>1, ReleasedKeeps
  <2>3. lock \in [Slides -> SUBSET Users] /\ \A v \in Users : op[v].slide \in Slides
    BY DEF Requests, TypeOK, Request
  <2>4. ASSUME NEW v \in Users
        PROVE  op'[v].held \subseteq lock'[op'[v].slide] \ {v}
    <3>1. op'[v].slide = op[v].slide /\ op'[v].held \subseteq lock[op[v].slide] \ {v}
      BY <2>2 DEF Held, Keeps
    <3> QED BY <2>1, <2>2, <2>3, <3>1
  <2>5. LockedSlideRefusesEdits'
    BY <2>1, <2>2 DEF Held, LockedSlideRefusesEdits, Keeps
  <2> QED BY <2>4, <2>5 DEF Held
<1> QED BY <1>1, <1>2, WriteDeckHeld, UseLockHeld DEF Next

(* An edit does not get past the lock of another user who has had the      *)
(* slide locked since the edit began.                                      *)
THEOREM LockKeepsOthersOut == Spec => []LockedSlideRefusesEdits
<1>1. Init => Requests /\ Held
  <2> SUFFICES ASSUME Init PROVE Requests /\ Held
    OBVIOUS
  <2>1. \A u \in Users : op[u].held = {}
    BY NoRequestFields DEF Init
  <2> QED BY <2>1, InitRequests DEF Held, LockedSlideRefusesEdits
<1>2. Requests /\ Held /\ [Next]_vars => Requests' /\ Held'
  BY StepRequests, StepHeld
<1>3. Held => LockedSlideRefusesEdits
  BY DEF Held
<1> QED BY <1>1, <1>2, <1>3, PTL DEF Spec

-----------------------------------------------------------------------------
(* Locks of two users.  A request for a lock that is alone is for a slide  *)
(* that nobody else has locked since it looked.                            *)
Exclusive ==
    /\ ExclusiveUnlessRaced
    /\ \A u \in Users : op[u].kind = "lock" /\ op[u].alone => lock[op[u].slide] \subseteq {u}

LEMMA ExclusiveFrame ==
    ASSUME Requests, Exclusive, NEW u \in Users, WriteDeck(u) \/ UseLock(u) \/ RequestDies(u),
           \A s \in Slides : lock'[s] \subseteq lock[s],
           raced' = raced,
           op'[u].kind = "lock" /\ op'[u].alone => lock'[op'[u].slide] \subseteq {u}
    PROVE  Exclusive'
<1>1. \A v \in Users \ {u} : Keeps(op'[v], op[v])
  BY OthersKeep
<1>2. \A v \in Users : op[v].slide \in Slides
  BY DEF Requests, TypeOK, Request
<1>3. ExclusiveUnlessRaced'
  BY DEF Exclusive, ExclusiveUnlessRaced
<1>4. \A v \in Users : op'[v].kind = "lock" /\ op'[v].alone => lock'[op'[v].slide] \subseteq {v}
  <2>1. ASSUME NEW v \in Users \ {u}, op'[v].kind = "lock", op'[v].alone
        PROVE  lock'[op'[v].slide] \subseteq {v}
    <3>1. op[v].kind = "lock" /\ op[v].alone /\ op'[v].slide = op[v].slide
      BY <1>1, <2>1 DEF Keeps
    <3> QED BY <1>2, <3>1 DEF Exclusive
  <2> QED BY <2>1
<1> QED BY <1>3, <1>4 DEF Exclusive

LEMMA GrantExclusive ==
    ASSUME Requests, Exclusive, NEW u \in Users, InsertLock(u) \/ RefreshLock(u)
    PROVE  Exclusive'
<1>1. /\ lock' = [lock EXCEPT ![op[u].slide] = @ \cup {u}]
      /\ raced' = IF op[u].alone THEN raced ELSE raced \cup {op[u].slide}
  BY DEF InsertLock, RefreshLock, Grant
<1>2. /\ lock \in [Slides -> SUBSET Users]
      /\ \A v \in Users : op[v].slide \in Slides
      /\ op[u].alone \in BOOLEAN
  BY DEF Requests, TypeOK, Request
<1>3. op[u].kind = "lock"
  BY DEF InsertLock, RefreshLock, Requests, Placed
<1>4. op'[u] = NoRequest
  BY <1>3 DEF InsertLock, RefreshLock, Disturbed
<1>5. ASSUME NEW s \in Slides \ raced'
      PROVE  \A v, w \in lock'[s] : v = w
  <2>1. s \notin raced
    BY <1>1, <1>5
  <2>2. CASE s = op[u].slide
    <3>1. op[u].alone
      BY <1>1, <1>5, <2>2
    <3>2. lock[s] \subseteq {u}
      BY <1>3, <2>2, <3>1 DEF Exclusive
    <3>3. lock'[s] \subseteq {u}
      BY <1>1, <1>2, <2>2, <3>2
    <3> QED BY <3>3
  <2>3. CASE s # op[u].slide
    <3>1. lock'[s] = lock[s]
      BY <1>1, <1>2, <2>3
    <3> QED BY <2>1, <3>1 DEF Exclusive, ExclusiveUnlessRaced
  <2> QED BY <2>2, <2>3
<1>6. ASSUME NEW v \in Users \ {u}, op'[v].kind = "lock", op'[v].alone
      PROVE  lock'[op'[v].slide] \subseteq {v}
  <2>1. Keeps(op'[v], op[v]) /\ v \notin Rivals(u)
    BY <1>6, InsertedKeeps
  <2>2. op[v].kind = "lock" /\ op[v].alone /\ op'[v].slide = op[v].slide
    BY <1>6, <2>1 DEF Keeps
  <2>3. op[v].slide # op[u].slide
    BY <2>1, <2>2 DEF Rivals
  <2>4. lock'[op[v].slide] = lock[op[v].slide]
    BY <1>1, <1>2, <2>3
  <2> QED BY <2>2, <2>4 DEF Exclusive
<1>7. ExclusiveUnlessRaced'
  BY <1>5 DEF ExclusiveUnlessRaced
<1> QED BY <1>4, <1>6, <1>7, NoRequestFields DEF Exclusive

LEMMA StepExclusive ==
    ASSUME Requests, Exclusive, [Next]_vars
    PROVE  Exclusive'
<1>0. /\ lock \in [Slides -> SUBSET Users] /\ op \in [Users -> Request]
      /\ \A v \in Users : op[v] \in Request /\ op[v].slide \in Slides
  BY DEF Requests, TypeOK, Request
<1>1. ASSUME UNCHANGED vars
      PROVE  Exclusive'
  BY <1>1 DEF vars, Exclusive, ExclusiveUnlessRaced
<1>2. ASSUME NEW s \in Slides, NEW u \in Users, LockExpires(s, u)
      PROVE  Exclusive'
  <2>1. op' = Released(s, u) /\ raced' = raced /\ lock' = [lock EXCEPT ![s] = @ \ {u}]
    BY <1>2 DEF LockExpires
  <2>2. \A t \in Slides : lock'[t] \subseteq lock[t]
    BY <1>0, <2>1
  <2>3. \A v \in Users : Keeps(op'[v], op[v])
    BY <2>1, ReleasedKeeps
  <2>4. ExclusiveUnlessRaced'
    BY <2>1, <2>2 DEF Exclusive, ExclusiveUnlessRaced
  <2>5. ASSUME NEW v \in Users, op'[v].kind = "lock", op'[v].alone
        PROVE  lock'[op'[v].slide] \subseteq {v}
    <3>1. op[v].kind = "lock" /\ op[v].alone /\ op'[v].slide = op[v].slide
      BY <2>3, <2>5 DEF Keeps
    <3> QED BY <1>0, <2>2, <3>1 DEF Exclusive
  <2> QED BY <2>4, <2>5 DEF Exclusive
<1>3. ASSUME NEW u \in Users, WriteDeck(u)
      PROVE  Exclusive'
  <2>1. lock' = lock /\ raced' = raced
    BY <1>3 DEF WriteDeck, StartUpdate, CheckLock, LockRefusesEdit, StartRollback, PickTarget, StartMerge,
                ReadNumber, Commit, NumberTaken, Leave, lockVars
  <2>2. op'[u].kind # "lock"
    <3>1. (\E s \in Slides : StartUpdate(u, s)) => op'[u].kind = "edit"
      BY <1>0 DEF StartUpdate, Begin, NoRequest
    <3>2. StartRollback(u) => op'[u].kind = "rollback"
      BY <1>0 DEF StartRollback, Begin, NoRequest
    <3>3. (\E v, w \in versions : StartMerge(u, v, w)) => op'[u].kind = "merge"
      BY <1>0 DEF StartMerge, Begin, NoRequest
    <3>4. CheckLock(u) \/ ReadNumber(u) \/ (\E v \in versions : PickTarget(u, v)) =>
             op[u].kind \in Editing /\ op'[u].kind = op[u].kind
      BY <1>0 DEF CheckLock, ReadNumber, PickTarget, Request, Requests, Placed, Editing
    <3>5. LockRefusesEdit(u) \/ NumberTaken(u) \/ Commit(u) => op'[u] = NoRequest
      BY <1>0 DEF LockRefusesEdit, NumberTaken, Commit, Leave, Disturbed
    <3> QED BY <1>3, <3>1, <3>2, <3>3, <3>4, <3>5, NoRequestFields DEF WriteDeck, Editing
  <2> QED BY <1>3, <2>1, <2>2, ExclusiveFrame
<1>4. ASSUME NEW u \in Users, UseLock(u) \/ RequestDies(u)
      PROVE  Exclusive'
  <2>1. CASE InsertLock(u) \/ RefreshLock(u)
    BY <2>1, GrantExclusive
  <2>2. ASSUME NEW s \in Slides, LockFree(u, s) \/ LockMine(u, s)
        PROVE  Exclusive'
    <3>1. op'[u].slide = s /\ lock[s] \subseteq {u} /\ UNCHANGED lockVars
      BY <1>0, <2>2 DEF LockFree, LockMine, Begin, NoRequest
    <3> QED BY <1>4, <3>1, ExclusiveFrame DEF lockVars
  <2>3. ASSUME NEW s \in Slides, NEW w \in Users, FindLock(u, s, w)
        PROVE  Exclusive'
    <3>1. op'[u].kind = "unlock" /\ UNCHANGED lockVars
      BY <1>0, <2>3 DEF FindLock, Begin, NoRequest
    <3> QED BY <1>4, <3>1, ExclusiveFrame DEF lockVars
  <2>4. CASE RefreshNothing(u) \/ DeleteLock(u) \/ RequestDies(u)
    <3>1. op'[u] = NoRequest /\ raced' = raced /\ \A s \in Slides : lock'[s] \subseteq lock[s]
      BY <1>0, <2>4 DEF RefreshNothing, DeleteLock, RequestDies, Leave, lockVars
    <3> QED BY <1>4, <3>1, ExclusiveFrame, NoRequestFields
  <2> QED BY <1>4, <2>1, <2>2, <2>3, <2>4 DEF UseLock
<1> QED BY <1>1, <1>2, <1>3, <1>4 DEF Next

(* Two users have a slide locked only after requests that overlapped.      *)
THEOREM LocksAreExclusive == Spec => []ExclusiveUnlessRaced
<1>1. Init => Requests /\ Exclusive
  <2> SUFFICES ASSUME Init PROVE Requests /\ Exclusive
    OBVIOUS
  <2>1. \A u \in Users : op[u].kind = "none"
    BY NoRequestFields DEF Init
  <2>2. ExclusiveUnlessRaced
    BY DEF Init, ExclusiveUnlessRaced
  <2> QED BY <2>1, <2>2, InitRequests DEF Exclusive
<1>2. Requests /\ Exclusive /\ [Next]_vars => Requests' /\ Exclusive'
  BY StepRequests, StepExclusive
<1>3. Exclusive => ExclusiveUnlessRaced
  BY DEF Exclusive
<1> QED BY <1>1, <1>2, <1>3, PTL DEF Spec

-----------------------------------------------------------------------------
(* Atomic edits.  What a request saves is a deck the presentation has had, *)
(* and what a rollback or a merge writes is still in a version when it     *)
(* commits.                                                                *)
Copying(u) ==
    /\ op[u].kind \in {"edit", "rollback"} => op[u].saved \in decks
    /\ op[u].kind = "merge" => op[u].saved = op[u].applied
    /\ op[u].kind = "merge" \/ (op[u].kind = "rollback" /\ pc[u] \in {"number", "commit"}) =>
          \E v \in versions : v.deck = op[u].applied

Copies ==
    /\ deck \in decks
    /\ \A v \in versions : v.deck \in decks
    /\ \A u \in Users : Copying(u)

LEMMA CopiesFrame ==
    ASSUME Requests, Copies, NEW u \in Users, WriteDeck(u) \/ UseLock(u) \/ RequestDies(u),
           versions \subseteq versions', decks \subseteq decks',
           deck' \in decks', \A v \in versions' : v.deck \in decks',
           Copying(u)'
    PROVE  Copies'
<1>1. ASSUME NEW v \in Users \ {u}
      PROVE  Copying(v)'
  <2>1. Keeps(op'[v], op[v]) /\ pc'[v] = pc[v]
    BY OthersKeep
  <2> QED BY <2>1 DEF Copies, Copying, Keeps
<1> QED BY <1>1 DEF Copies

LEMMA WriteDeckCopies ==
    ASSUME Requests, Copies, NEW u \in Users, WriteDeck(u)
    PROVE  Copies'
<1>0. op[u] \in Request /\ op \in [Users -> Request] /\ pc \in [Users -> Places]
  BY DEF Requests, TypeOK
<1>1. ASSUME UNCHANGED deckVars, Copying(u)'
      PROVE  Copies'
  BY <1>1, CopiesFrame DEF deckVars, Copies
<1>2. ASSUME (\E s \in Slides : StartUpdate(u, s)) \/ StartRollback(u)
      PROVE  Copies'
  <2>1. /\ op'[u].saved = deck /\ op'[u].kind \in {"edit", "rollback"}
        /\ pc'[u] \in {"check", "pick"}
        /\ UNCHANGED deckVars
    BY <1>0, <1>2 DEF StartUpdate, StartRollback, Begin, NoRequest
  <2> QED BY <1>1, <2>1 DEF Copies, Copying, deckVars
<1>3. ASSUME NEW source \in versions, NEW target \in versions, StartMerge(u, source, target)
      PROVE  Copies'
  <2> DEFINE r(merged) == [NoRequest EXCEPT !.kind = "merge", !.saved = merged, !.applied = merged]
  <2>1. PICK merged \in {source.deck, target.deck} : Begin(u, "number", r(merged))
    BY <1>3 DEF StartMerge
  <2>2. op'[u] = r(merged)
    BY <1>0, <2>1 DEF Begin
  <2>3. r(merged).kind = "merge" /\ r(merged).saved = merged /\ r(merged).applied = merged
    BY DEF NoRequest
  <2> HIDE DEF r
  <2>4. UNCHANGED deckVars
    BY <1>3 DEF StartMerge
  <2>5. \E v \in versions : v.deck = merged
    BY <2>1
  <2> QED BY <1>1, <2>2, <2>3, <2>4, <2>5 DEF Copying, deckVars
<1>4. ASSUME CheckLock(u) \/ ReadNumber(u)
      PROVE  Copies'
  <2>1. /\ op'[u].kind = op[u].kind /\ op'[u].saved = op[u].saved /\ op'[u].applied = op[u].applied
        /\ UNCHANGED deckVars
    BY <1>0, <1>4 DEF CheckLock, ReadNumber, Request
  <2>2. pc[u] = "number" \/ op[u].kind = "edit"
    BY <1>4 DEF CheckLock, ReadNumber, Requests, Placed
  <2>3. Copying(u)
    BY DEF Copies
  <2> QED BY <1>1, <2>1, <2>2, <2>3 DEF Copying, deckVars
<1>5. ASSUME NEW target \in versions, PickTarget(u, target)
      PROVE  Copies'
  <2>1. /\ op'[u].kind = op[u].kind /\ op'[u].saved = op[u].saved /\ op'[u].applied = target.deck
        /\ UNCHANGED deckVars
    BY <1>0, <1>5 DEF PickTarget, Request
  <2>2. op[u].kind = "rollback"
    BY <1>5 DEF PickTarget, Requests, Placed
  <2>3. Copying(u)
    BY DEF Copies
  <2> QED BY <1>1, <2>1, <2>2, <2>3 DEF Copying, deckVars
<1>6. ASSUME LockRefusesEdit(u) \/ NumberTaken(u)
      PROVE  Copies'
  <2>1. op'[u] = NoRequest /\ UNCHANGED deckVars
    BY <1>0, <1>6 DEF LockRefusesEdit, NumberTaken, Leave
  <2> QED BY <1>1, <2>1, NoRequestFields DEF Copying
<1>7. ASSUME Commit(u)
      PROVE  Copies'
  <2> DEFINE new == [number |-> op[u].number, deck |-> op[u].saved]
  <2>1. /\ versions' = versions \cup {new}
        /\ deck' = Result(op[u])
        /\ decks' = decks \cup {Result(op[u])}
    BY <1>7 DEF Commit
  <2>2. op'[u] = NoRequest
    BY <1>7 DEF Commit, Disturbed
  <2>3. new.deck = op[u].saved
    OBVIOUS
  <2> HIDE DEF new
  <2>4. op[u].saved \in decks
    <3>1. op[u].kind \in Editing
      BY <1>7 DEF Commit, Requests, Placed
    <3>2. Copying(u) /\ \A v \in versions : v.deck \in decks
      BY DEF Copies
    <3> QED BY <3>1, <3>2 DEF Copying, Editing
  <2>5. \A v \in versions' : v.deck \in decks'
    BY <2>1, <2>3, <2>4 DEF Copies
  <2>6. Copying(u)'
    BY <2>2, NoRequestFields DEF Copying
  <2> QED BY <2>1, <2>5, <2>6, CopiesFrame
<1> QED BY <1>2, <1>3, <1>4, <1>5, <1>6, <1>7 DEF WriteDeck

LEMMA UseLockCopies ==
    ASSUME Requests, Copies, NEW u \in Users, UseLock(u) \/ RequestDies(u)
    PROVE  Copies'
<1>1. UNCHANGED deckVars
  BY DEF UseLock, RequestDies, LockFree, LockMine, FindLock, InsertLock, RefreshLock, RefreshNothing,
         DeleteLock, Leave
<1>2. op'[u].kind \notin Editing
  BY LockRequestKind
<1>3. Copying(u)'
  BY <1>2 DEF Copying, Editing
<1> QED BY <1>1, <1>3, CopiesFrame DEF deckVars, Copies

LEMMA StepCopies ==
    ASSUME Requests, Copies, [Next]_vars
    PROVE  Copies'
<1>1. ASSUME UNCHANGED vars
      PROVE  Copies'
  BY <1>1 DEF vars, Copies, Copying
<1>2. ASSUME NEW s \in Slides, NEW u \in Users, LockExpires(s, u)
      PROVE  Copies'
  <2>1. op' = Released(s, u) /\ pc' = pc /\ UNCHANGED deckVars
    BY <1>2 DEF LockExpires
  <2>2. \A v \in Users : Keeps(op'[v], op[v])
    BY <2>1, ReleasedKeeps
  <2>3. \A v \in Users : Copying(v)'
    BY <2>1, <2>2 DEF Copies, Copying, Keeps, deckVars
  <2> QED BY <2>1, <2>3 DEF Copies, deckVars
<1> QED BY <1>1, <1>2, WriteDeckCopies, UseLockCopies DEF Next

(* The version of a number.                                                *)
LEMMA ChosenVersion ==
    ASSUME NEW S, \A v, w \in S : v.number = w.number => v = w, NEW v \in S
    PROVE  (CHOOSE w \in S : w.number = v.number) = v
OBVIOUS

LEMMA KeptGrows ==
    ASSUME VersionsNumbered, VersionsNumbered', NEW new,
           versions' = versions \cup {new}, \A v \in versions : v.number # new.number
    PROVE  Kept' = [m \in DOMAIN Kept \cup {new.number} |-> IF m = new.number THEN new.deck ELSE Kept[m]]
<1>1. /\ DOMAIN Kept = {v.number : v \in versions}
      /\ DOMAIN Kept' = {v.number : v \in versions'}
  BY DEF Kept
<1>2. \A v \in versions : Kept[v.number] = v.deck
  <2>1. \A v \in versions : (CHOOSE w \in versions : w.number = v.number) = v
    BY ChosenVersion DEF VersionsNumbered
  <2> QED BY <2>1 DEF Kept
<1>3. \A v \in versions' : Kept'[v.number] = v.deck
  <2>1. \A v \in versions' : (CHOOSE w \in versions' : w.number = v.number) = v
    BY ChosenVersion DEF VersionsNumbered
  <2> QED BY <2>1 DEF Kept
<1>4. DOMAIN Kept' = DOMAIN Kept \cup {new.number}
  BY <1>1
<1>5. ASSUME NEW m \in DOMAIN Kept'
      PROVE  Kept'[m] = IF m = new.number THEN new.deck ELSE Kept[m]
  BY <1>1, <1>2, <1>3, <1>5
<1>6. Kept' = [m \in DOMAIN Kept' |-> Kept'[m]]
  BY DEF Kept
<1> QED BY <1>4, <1>5, <1>6

(* A commit is one step of the editor ...                                  *)
LEMMA CommitRefines ==
    ASSUME Requests, Numbered, VersionsNumbered', Current, Copies, NEW u \in Users, Commit(u)
    PROVE  Editor!Next
<1> DEFINE n == op[u].number
           new == [number |-> n, deck |-> op[u].saved]
<1>0. op[u] \in Request /\ n \in 1..MaxVersions /\ op[u].kind \in Editing /\ Copying(u)
  BY DEF Requests, TypeOK, Commit, Placed, Copies
<1>1. /\ pc[u] = "commit"
      /\ versions' = versions \cup {new}
      /\ \A v \in versions : v.number # n
      /\ deck' = Result(op[u])
      /\ decks' = decks \cup {Result(op[u])}
      /\ overwrote' = (overwrote \/ op[u].kind = "merge" \/ ~ op[u].alone)
  BY DEF Commit, NumberIsTaken
<1>2. new.number = n /\ new.deck = op[u].saved
  OBVIOUS
<1>3. n = 1 \/ \E v \in versions : v.number = n - 1
  BY <1>1 DEF Numbered
<1> HIDE DEF new, n
<1>4. /\ DOMAIN Kept = {v.number : v \in versions}
      /\ \A v \in versions : Kept[v.number] = v.deck
  <2>1. \A v \in versions : (CHOOSE w \in versions : w.number = v.number) = v
    BY ChosenVersion DEF Numbered, VersionsNumbered
  <2> QED BY <2>1 DEF Kept
<1>5. Kept' = [m \in DOMAIN Kept \cup {n} |-> IF m = n THEN op[u].saved ELSE Kept[m]]
  BY <1>1, <1>2, KeptGrows DEF Numbered
<1>6. overwrote' \in BOOLEAN /\ (overwrote \/ op[u].saved # deck => overwrote')
  BY <1>0, <1>1 DEF Requests, TypeOK, Current, Saves, Editing, Request
<1>7. Editor!Save(n, op[u].saved, Result(op[u]))
  BY <1>1, <1>3, <1>4, <1>5, <1>6 DEF Editor!Save
<1>8. CASE op[u].kind = "edit"
  <2>1. op[u].saved \in decks /\ op[u].slide \in Slides
    BY <1>0, <1>8 DEF Copying, Request
  <2>2. Result(op[u]) = [op[u].saved EXCEPT ![op[u].slide] = n]
    BY <1>8 DEF Result, n
  <2> QED BY <1>0, <1>7, <2>1, <2>2 DEF Editor!Next, Editor!Edit
<1>9. ASSUME op[u].kind # "edit"
      PROVE  \E m \in DOMAIN Kept : Result(op[u]) = Kept[m]
  <2>1. Result(op[u]) = op[u].applied
    BY <1>9 DEF Result
  <2>2. PICK v \in versions : v.deck = op[u].applied
    BY <1>0, <1>1, <1>9 DEF Copying, Editing
  <2> QED BY <1>4, <2>1, <2>2
<1>10. CASE op[u].kind = "rollback"
  <2>1. op[u].saved \in decks
    BY <1>0, <1>10 DEF Copying
  <2> QED BY <1>0, <1>7, <1>9, <1>10, <2>1 DEF Editor!Next, Editor!Rollback
<1>11. CASE op[u].kind = "merge"
  <2>1. op[u].saved = Result(op[u]) /\ overwrote'
    BY <1>0, <1>1, <1>11 DEF Copying, Result
  <2> QED BY <1>0, <1>7, <1>9, <1>11, <2>1 DEF Editor!Next, Editor!Merge
<1> QED BY <1>0, <1>8, <1>10, <1>11 DEF Editing

(* ... and nothing else shows.                                             *)
LEMMA StepRefines ==
    ASSUME Requests, Numbered, VersionsNumbered', Current, Copies, [Next]_vars
    PROVE  [Editor!Next]_Editor!vars
<1>1. CASE \E u \in Users : Commit(u)
  BY <1>1, CommitRefines
<1>2. CASE ~ \E u \in Users : Commit(u)
  <2>1. UNCHANGED deckVars
    BY <1>2 DEF Next, vars, deckVars, WriteDeck, StartUpdate, CheckLock, LockRefusesEdit, StartRollback,
                PickTarget, StartMerge, ReadNumber, NumberTaken, Leave, UseLock, RequestDies, LockFree,
                LockMine, FindLock, InsertLock, RefreshLock, RefreshNothing, DeleteLock, LockExpires
  <2> QED BY <2>1 DEF deckVars, Kept, Editor!vars
<1> QED BY <1>1, <1>2

(* Sessions, locks, refused and failed requests do not show: the deck and  *)
(* its versions are those of an editor that serves one request after the   *)
(* other, each in one step that keeps a copy of a deck the presentation    *)
(* has had, of the present one unless the write overtook another.          *)
THEOREM EditsAreAtomic == Spec => ImplementsEditor
<1> DEFINE Inv == Requests /\ Numbered /\ Current /\ Copies
<1>1. Init => Inv /\ Editor!Init
  <2> SUFFICES ASSUME Init PROVE Inv /\ Editor!Init
    OBVIOUS
  <2>1. \A u \in Users : op[u] = NoRequest
    BY DEF Init
  <2>2. Copies
    BY <2>1, NoRequestFields DEF Init, Copies, Copying
  <2>3. Current
    BY <2>1, NoRequestFields DEF Init, Current, DecksAreRecoverable
  <2>4. Numbered
    BY DEF Init, Numbered, VersionsNumbered
  <2>5. Editor!Init
    BY DEF Init, Editor!Init, Editor!Generated, Generated, Kept
  <2> QED BY <2>2, <2>3, <2>4, <2>5, InitRequests
<1>2. Inv /\ [Next]_vars => Inv'
  BY StepRequests, StepNumbered, StepCurrent, StepCopies
<1>3. Inv /\ [Next]_vars => [Editor!Next]_Editor!vars
  BY <1>2, StepRefines DEF Numbered
<1> HIDE DEF Inv
<1> QED BY <1>1, <1>2, <1>3, PTL DEF Spec, ImplementsEditor, Editor!Spec

=============================================================================
