---------------------------- MODULE SlideEditing ----------------------------
(***************************************************************************)
(* Edits, rollbacks, merges and slide locks of one presentation            *)
(* (api/v1/slide_editing.py).  A request is a coroutine over its own       *)
(* database session: it stops at every query, and what it writes shows to  *)
(* the others when it commits (READ COMMITTED, the default of session.py). *)
(*                                                                         *)
(* The presentation has been generated and is not generated again, so the  *)
(* status test of update_slide passes.  The contents of a slide are        *)
(* identified by the version number of the edit that wrote them, 0 being   *)
(* the generated ones.                                                     *)
(***************************************************************************)
EXTENDS Integers

CONSTANTS
    Users,        \* each has at most one request under way
    Admins,       \* users who may release the lock of another
    Slides,       \* slide ids of the presentation
    Nobody,       \* no user
    MaxVersions   \* bound on the versions made

ASSUME EditingAssumption ==
    /\ Admins \subseteq Users
    /\ Nobody \notin Users
    /\ Slides # {}
    /\ MaxVersions \in Nat \ {0}

Decks == [Slides -> 0..MaxVersions]
Version == [number: 1..MaxVersions, deck: Decks]

VARIABLES
    deck,      \* presentation.slides
    versions,  \* rows of presentation_versions
    lock,      \* users with an active row of slide_locks for a slide
    pc,        \* where the request of a user is
    op,        \* what it has read so far
    decks,     \* history: all decks the presentation has had
    overwrote, \* history: a deck was replaced by a merge, or by a write that had read an earlier one
    raced      \* history: slides whose lock was granted while another request for it was deciding

deckVars == <<deck, versions, decks, overwrote>>
lockVars == <<lock, raced>>
vars == <<deck, versions, lock, pc, op, decks, overwrote, raced>>

Editing == {"edit", "rollback", "merge"}
Kinds   == Editing \cup {"lock", "unlock", "none"}
Places  == {"idle", "check", "pick", "number", "commit", "insert", "refresh", "delete"}

(* A request: saved is the deck of the version it makes, applied the deck  *)
(* it writes (an edit builds it from saved), number the version number it  *)
(* has read, owner the user whose lock row it found, as long as that row   *)
(* exists (expired or not).  alone says that no other request has written  *)
(* what it depends on since it began, and held is the set of other users   *)
(* who have had the slide locked all that time.                            *)
Request == [kind: Kinds, slide: Slides, saved: Decks, applied: Decks, number: 0..MaxVersions,
            owner: Users \cup {Nobody}, alone: BOOLEAN, held: SUBSET Users]

TypeOK ==
    /\ deck \in Decks
    /\ versions \in SUBSET Version
    /\ lock \in [Slides -> SUBSET Users]
    /\ pc \in [Users -> Places]
    /\ op \in [Users -> Request]
    /\ decks \in SUBSET Decks
    /\ overwrote \in BOOLEAN
    /\ raced \in SUBSET Slides

Generated == [s \in Slides |-> 0]
NoRequest == [kind |-> "none", slide |-> CHOOSE s \in Slides : TRUE, saved |-> Generated,
              applied |-> Generated, number |-> 0, owner |-> Nobody, alone |-> TRUE, held |-> {}]

Init ==
    /\ deck = Generated
    /\ versions = {}
    /\ lock = [s \in Slides |-> {}]
    /\ pc = [u \in Users |-> "idle"]
    /\ op = [u \in Users |-> NoRequest]
    /\ decks = {Generated}
    /\ overwrote = FALSE
    /\ raced = {}

-----------------------------------------------------------------------------
(* Requests *)

Begin(u, place, request) ==
    /\ pc[u] = "idle"
    /\ pc' = [pc EXCEPT ![u] = place]
    /\ op' = [op EXCEPT ![u] = request]

(* User u is done, and has written what the requests of others depend on.  *)
Disturbed(u, others) ==
    [v \in Users |-> CASE v = u -> NoRequest
                       [] v # u /\ v \in others -> [op[v] EXCEPT !.alone = FALSE]
                       [] OTHER -> op[v]]

(* The answer of a request that changed nothing.                           *)
Leave(u) ==
    /\ pc' = [pc EXCEPT ![u] = "idle"]
    /\ op' = [op EXCEPT ![u] = NoRequest]
    /\ UNCHANGED <<deckVars, lockVars>>

(* An error, a lost connection or a restart of the API process: the        *)
(* session is rolled back.                                                 *)
RequestDies(u) == pc[u] # "idle" /\ Leave(u)

-----------------------------------------------------------------------------
(* Writing the deck *)

(* update_slide reads the presentation.                                    *)
StartUpdate(u, s) ==
    /\ Begin(u, "check", [NoRequest EXCEPT !.kind = "edit", !.slide = s, !.saved = deck,
                                           !.held = lock[s] \ {u}])
    /\ UNCHANGED <<deckVars, lockVars>>

\* Variant: the first of several rows decides.
CheckFirstLock(u) ==
    /\ pc[u] = "check"
    /\ lock[op[u].slide] = {} \/ u \in lock[op[u].slide]
    /\ pc' = [pc EXCEPT ![u] = "number"]
    /\ UNCHANGED <<deckVars, lockVars, op>>

(* _check_slide_locked finds no row, or one of its own.                    *)
CheckLock(u) ==
    /\ pc[u] = "check"
    /\ lock[op[u].slide] \subseteq {u}
    /\ pc' = [pc EXCEPT ![u] = "number"]
    /\ UNCHANGED <<deckVars, lockVars, op>>

(* It finds the row of another user (423), or several rows where it        *)
(* expects one (500).                                                      *)
LockRefusesEdit(u) ==
    /\ pc[u] = "check"
    /\ ~ (lock[op[u].slide] \subseteq {u})
    /\ Leave(u)

StartRollback(u) ==
    /\ Begin(u, "pick", [NoRequest EXCEPT !.kind = "rollback", !.saved = deck])
    /\ UNCHANGED <<deckVars, lockVars>>

PickTarget(u, target) ==
    /\ pc[u] = "pick"
    /\ pc' = [pc EXCEPT ![u] = "number"]
    /\ op' = [op EXCEPT ![u].applied = target.deck]
    /\ UNCHANGED <<deckVars, lockVars>>

(* Both versions have a slide for every id, so a merge is the target       *)
(* (ours, manual) or the source (theirs) renumbered.                       *)
StartMerge(u, source, target) ==
    /\ source.number # target.number
    /\ \E merged \in {source.deck, target.deck} :
          Begin(u, "number", [NoRequest EXCEPT !.kind = "merge", !.saved = merged, !.applied = merged])
    /\ UNCHANGED <<deckVars, lockVars>>

(* One more than the largest number.                                       *)
NextNumbers ==
    {n \in 1..MaxVersions : /\ \A v \in versions : v.number < n
                            /\ n = 1 \/ \E v \in versions : v.number = n - 1}

ReadNumber(u) ==
    /\ pc[u] = "number"
    /\ \E n \in NextNumbers : op' = [op EXCEPT ![u].number = n]
    /\ pc' = [pc EXCEPT ![u] = "commit"]
    /\ UNCHANGED <<deckVars, lockVars>>

(* The deck a request writes.                                              *)
Result(request) ==
    IF request.kind = "edit" THEN [request.saved EXCEPT ![request.slide] = request.number]
                             ELSE request.applied

\* Variant: no unique constraint.
NeverTaken(u) == FALSE

NumberIsTaken(u) == \E v \in versions : v.number = op[u].number

\* Variant: the copy is made after the slides have been changed in place.
CommitCopyingLate(u) ==
    /\ pc[u] = "commit"
    /\ ~ NumberIsTaken(u)
    /\ versions' = versions \cup {[number |-> op[u].number, deck |-> Result(op[u])]}
    /\ deck' = Result(op[u])
    /\ decks' = decks \cup {Result(op[u])}
    /\ overwrote' = (overwrote \/ op[u].kind = "merge" \/ ~ op[u].alone)
    /\ pc' = [pc EXCEPT ![u] = "idle"]
    /\ op' = Disturbed(u, {v \in Users : op[v].kind \in Editing})
    /\ UNCHANGED lockVars

\* Variant: the version row is committed before the deck is written, and the request ends between.
CommitVersionAlone(u) ==
    /\ pc[u] = "commit"
    /\ ~ NumberIsTaken(u)
    /\ versions' = versions \cup {[number |-> op[u].number, deck |-> op[u].saved]}
    /\ pc' = [pc EXCEPT ![u] = "idle"]
    /\ op' = Disturbed(u, {v \in Users : op[v].kind \in Editing})
    /\ UNCHANGED <<deck, decks, overwrote, lockVars>>

(* The version row and the presentation row, in one transaction.           *)
Commit(u) ==
    /\ pc[u] = "commit"
    /\ ~ NumberIsTaken(u)
    /\ versions' = versions \cup {[number |-> op[u].number, deck |-> op[u].saved]}
    /\ deck' = Result(op[u])
    /\ decks' = decks \cup {Result(op[u])}
    /\ overwrote' = (overwrote \/ op[u].kind = "merge" \/ ~ op[u].alone)
    /\ pc' = [pc EXCEPT ![u] = "idle"]
    /\ op' = Disturbed(u, {v \in Users : op[v].kind \in Editing})
    /\ UNCHANGED lockVars

(* uq_pv_presentation_version refuses the row.                             *)
NumberTaken(u) ==
    /\ pc[u] = "commit"
    /\ NumberIsTaken(u)
    /\ Leave(u)

-----------------------------------------------------------------------------
(* Locks.  A request that is refused (409, 403, 404, or 500 when several   *)
(* rows are active) reads and answers: it is no step.                      *)

\* Variant: only rows of the user are looked for.
LockNotMine(u, s) ==
    /\ u \notin lock[s]
    /\ Begin(u, "insert", [NoRequest EXCEPT !.kind = "lock", !.slide = s])
    /\ UNCHANGED <<deckVars, lockVars>>

LockFree(u, s) ==
    /\ lock[s] = {}
    /\ Begin(u, "insert", [NoRequest EXCEPT !.kind = "lock", !.slide = s])
    /\ UNCHANGED <<deckVars, lockVars>>

\* Variant: the first of several rows decides.
LockFirstMine(u, s) ==
    /\ u \in lock[s]
    /\ Begin(u, "refresh", [NoRequest EXCEPT !.kind = "lock", !.slide = s, !.owner = u])
    /\ UNCHANGED <<deckVars, lockVars>>

LockMine(u, s) ==
    /\ lock[s] = {u}
    /\ Begin(u, "refresh", [NoRequest EXCEPT !.kind = "lock", !.slide = s, !.owner = u])
    /\ UNCHANGED <<deckVars, lockVars>>

FindLock(u, s, owner) ==
    /\ lock[s] = {owner}
    /\ u = owner \/ u \in Admins
    /\ Begin(u, "delete", [NoRequest EXCEPT !.kind = "unlock", !.slide = s, !.owner = owner])
    /\ UNCHANGED <<deckVars, lockVars>>

(* Other requests for the lock that user u is asking for.                  *)
Rivals(u) == {v \in Users : op[v].kind = "lock" /\ op[v].slide = op[u].slide}

Grant(u) ==
    /\ lock' = [lock EXCEPT ![op[u].slide] = @ \cup {u}]
    /\ raced' = IF op[u].alone THEN raced ELSE raced \cup {op[u].slide}
    /\ pc' = [pc EXCEPT ![u] = "idle"]

(* A new row: a request that is about to delete an older row of the user   *)
(* will not find this one.                                                 *)
InsertLock(u) ==
    /\ pc[u] = "insert"
    /\ Grant(u)
    /\ op' = [v \in Users |->
                 IF op[v].kind = "unlock" /\ op[v].slide = op[u].slide /\ op[v].owner = u
                 THEN [op[v] EXCEPT !.owner = Nobody]
                 ELSE Disturbed(u, Rivals(u))[v]]
    /\ UNCHANGED deckVars

(* The row is updated by its id, whether it has expired meanwhile or not.  *)
RefreshLock(u) ==
    /\ pc[u] = "refresh"
    /\ op[u].owner # Nobody
    /\ Grant(u)
    /\ op' = Disturbed(u, Rivals(u))
    /\ UNCHANGED deckVars

(* It has been deleted: nothing is updated, and the answer is the same.    *)
RefreshNothing(u) ==
    /\ pc[u] = "refresh"
    /\ op[u].owner = Nobody
    /\ Leave(u)

(* The requests after user w has lost the lock of slide s.                 *)
Released(s, w) ==
    [v \in Users |-> IF op[v].slide = s THEN [op[v] EXCEPT !.held = @ \ {w}] ELSE op[v]]

DeleteLock(u) ==
    LET s == op[u].slide
        w == op[u].owner
        o == Released(s, w)
    IN  /\ pc[u] = "delete"
        /\ lock' = [lock EXCEPT ![s] = @ \ {w}]
        /\ op' = [v \in Users |->
                     CASE v = u -> NoRequest
                       [] v # u /\ o[v].slide = s /\ o[v].owner = w -> [o[v] EXCEPT !.owner = Nobody]
                       [] OTHER -> o[v]]
        /\ pc' = [pc EXCEPT ![u] = "idle"]
        /\ UNCHANGED <<deckVars, raced>>

(* expires_at passes.                                                      *)
LockExpires(s, u) ==
    /\ u \in lock[s]
    /\ lock' = [lock EXCEPT ![s] = @ \ {u}]
    /\ op' = Released(s, u)
    /\ UNCHANGED <<deckVars, raced, pc>>

-----------------------------------------------------------------------------
WriteDeck(u) ==
    \/ \E s \in Slides : StartUpdate(u, s)
    \/ CheckLock(u)
    \/ LockRefusesEdit(u)
    \/ StartRollback(u)
    \/ \E v \in versions : PickTarget(u, v)
    \/ \E v, w \in versions : StartMerge(u, v, w)
    \/ ReadNumber(u)
    \/ Commit(u)
    \/ NumberTaken(u)

UseLock(u) ==
    \/ \E s \in Slides : LockFree(u, s) \/ LockMine(u, s)
    \/ \E s \in Slides, w \in Users : FindLock(u, s, w)
    \/ InsertLock(u)
    \/ RefreshLock(u)
    \/ RefreshNothing(u)
    \/ DeleteLock(u)

Next ==
    \/ \E u \in Users : WriteDeck(u) \/ UseLock(u) \/ RequestDies(u)
    \/ \E s \in Slides, u \in Users : LockExpires(s, u)

Spec == Init /\ [][Next]_vars

(* Time passes: a lock expires unless it is refreshed again and again.     *)
(* Nothing is assumed of the requests.                                     *)
RefreshedFor(u, s) == RefreshLock(u) /\ op[u].slide = s

FairSpec ==
    /\ Spec
    /\ \A s \in Slides, u \in Users :
          WF_vars(LockExpires(s, u)) \/ []<><<RefreshedFor(u, s)>>_vars

-----------------------------------------------------------------------------
(* Version numbers identify versions and have no gap, although every       *)
(* request reads the largest one long before it inserts the next.          *)
VersionsNumbered ==
    /\ \A v, w \in versions : v.number = w.number => v = w
    /\ \A v \in versions : v.number > 1 => \E w \in versions : w.number = v.number - 1

(* "So the rollback itself is reversible": as long as no write was applied *)
(* to a deck that another had replaced meanwhile and nothing was merged,   *)
(* each deck the presentation ever had is its present one or in a version. *)
DecksAreRecoverable ==
    ~ overwrote => decks \subseteq {deck} \cup {v.deck : v \in versions}

(* "Snapshots current state as a new version before applying changes":     *)
(* the version an edit makes is a copy of the deck its write replaces.     *)
(* (Which it is not when another request wrote the deck after the edit     *)
(* read it.)                                                               *)
EditsKeepWhatTheyReplace ==
    [][\A u \in Users : op[u].kind = "edit" /\ Commit(u) =>
          \E v \in versions' \ versions : v.deck = deck]_vars

(* An edit that has passed the lock check and is still under way is of a   *)
(* slide that no other user has had locked since the edit began.           *)
LockedSlideRefusesEdits ==
    \A u \in Users : op[u].kind = "edit" /\ pc[u] \in {"number", "commit"} => op[u].held = {}

(* Two users have a slide locked only after requests for its lock that     *)
(* overlapped, expiry in the middle of a refresh included.                 *)
ExclusiveUnlessRaced ==
    \A s \in Slides \ raced : \A u, w \in lock[s] : u = w

(* While two rows are active every request that looks for the lock fails   *)
(* (scalar_one_or_none), releasing it included; that state does not last.  *)
Jammed(s) == \E u, w \in lock[s] : u # w
JamClears == \A s \in Slides : Jammed(s) ~> ~ Jammed(s)

(* Seen from the presentation, its versions and its decks there is one     *)
(* request at a time: each writes the next version and the deck in one     *)
(* step, the version is a copy of a deck the presentation has had, of the  *)
(* present one unless the write overtook another, and the new deck is that *)
(* copy with one slide rewritten, or a deck kept earlier.                  *)
Kept == [n \in {v.number : v \in versions} |-> (CHOOSE v \in versions : v.number = n).deck]
Editor == INSTANCE AtomicEditor WITH kept <- Kept, seen <- decks, lossy <- overwrote
ImplementsEditor == Editor!Spec

-----------------------------------------------------------------------------
=============================================================================
