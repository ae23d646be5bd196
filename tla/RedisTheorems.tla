---------------------------- MODULE RedisTheorems ----------------------------
(***************************************************************************)
(* What Redis holds for a time.  First what ContentCache states of the     *)
(* caches of a topic, for any number of runs, releases and prompt versions *)
(* and any time to live; then what RateLimits states of a counter, for any *)
(* finite set of callers, any limit and any window.                        *)
(***************************************************************************)
EXTENDS ContentCache, RateLimits, FiniteSetTheorems, TLAPS

LEMMA Constants ==
  /\ TTL \in Nat /\ TTL >= 1
  /\ LastRelease \in Nat /\ 1 \in Releases
  /\ Releases \subseteq Nat
  /\ \A k \in Releases : PromptOf[k] \in Prompts
BY CacheAssumption DEF Releases

LEMMA EmptyOK == NoRun \in Context /\ NoBump \in Bump
BY Constants DEF NoRun, NoBump, Context, Bump, Places, Saved, Phases

LEMMA OlderOK == ASSUME NEW i \in Releases, NEW k \in Releases PROVE Older(i, k) \in Releases
BY DEF Older

LEMMA InitTypeOK == Init => TypeOK
<1> SUFFICES ASSUME Init PROVE TypeOK
  OBVIOUS
<1>1. run \in [Runs -> Context] /\ bump \in Bump
  BY EmptyOK DEF Init
<1> QED
  BY <1>1, Constants DEF Init, TypeOK

-----------------------------------------------------------------------------
(* Type correctness.                                                       *)

LEMMA PipelineTypeOK ==
  ASSUME TypeOK, NEW r \in Runs, Pipeline(r)
  PROVE  TypeOK'
<1> USE DEF cacheVars
<1>0. /\ run \in [Runs -> Context] /\ run[r] \in Context
      /\ decks \in [Prompts -> Deck \cup {NoEntry}] /\ release \in Releases /\ cleaned \in Releases
      /\ research \in Intermediate \cup {NoEntry} /\ enrichment \in Intermediate \cup {NoEntry}
      /\ bump \in Bump
  BY DEF TypeOK
<1>1. CASE Start(r)
  <2>1. [NoRun EXCEPT !.at = "classified", !.worker = release] \in Context
    BY <1>0, EmptyOK DEF Context, Places, Saved
  <2>2. [bump EXCEPT !.ok = FALSE] \in Bump
    BY <1>0 DEF Bump
  <2> QED
    BY <1>0, <1>1, <2>1, <2>2 DEF Start, TypeOK
<1>2. CASE Stop(r)
  BY <1>0, <1>2, EmptyOK DEF Stop, TypeOK
<1>3. ASSUME NEW place \in Places, NEW found \in Deck \cup {NoEntry}, Resumed(r, place, found)
      PROVE  TypeOK'
  <2>1. [run[r] EXCEPT !.at = place, !.worker = release, !.served = found,
                       !.crossed = @ \/ (run[r].saved \in Prompted /\ run[r].worker # release)] \in Context
    BY <1>0 DEF Context
  <2>2. run' = [run EXCEPT ![r] =
                 [run[r] EXCEPT !.at = place, !.worker = release, !.served = found,
                                !.crossed = @ \/ (run[r].saved \in Prompted /\ run[r].worker # release)]]
    BY <1>3 DEF Resumed
  <2>3. run' \in [Runs -> Context]
    BY <1>0, <2>1, <2>2
  <2> QED
    BY <1>0, <1>3, <2>3 DEF Resumed, TypeOK
<1>4. CASE ServeDeck(r)
  <2>1. PromptOf[release] \in Prompts
    BY <1>0, Constants
  <2> QED
    BY <1>0, <1>3, <1>4, <2>1 DEF ServeDeck, Places
<1>5. CASE MissDeck(r)
  BY <1>0, <1>3, <1>5 DEF MissDeck, Places, Context
<1>6. CASE StoreServed(r)
  <2>1. run[r].served \in Deck \cup {NoEntry}
    BY <1>0 DEF Context
  <2> QED
    BY <1>0, <1>6, <2>1, EmptyOK DEF StoreServed, TypeOK
<1>7. ASSUME NEW agent \in Saved, NEW from \in Releases, Completes(r, agent, from)
      PROVE  run' \in [Runs -> Context]
  <2>1. [run[r] EXCEPT !.at = agent, !.saved = agent, !.inputs = from] \in Context
    BY <1>0 DEF Context, Places
  <2>2. run' = [run EXCEPT ![r] = [run[r] EXCEPT !.at = agent, !.saved = agent, !.inputs = from]]
    BY <1>7 DEF Completes
  <2> QED
    BY <1>0, <2>1, <2>2
<1>8. ASSUME NEW from \in Releases PROVE Made(from) \in Intermediate
  BY Constants DEF Made, Intermediate
<1>9. run[r].worker \in Releases /\ run[r].inputs \in Releases
  BY <1>0 DEF Context
<1>10. CASE ServeResearch(r)
  <2>1. research.release \in Releases
    BY <1>0, <1>10 DEF ServeResearch, Intermediate
  <2>2. Older(run[r].worker, research.release) \in Releases
    BY <1>9, <2>1, OlderOK
  <2>3. run' \in [Runs -> Context]
    BY <1>7, <1>10, <2>2 DEF ServeResearch, Saved
  <2> QED
    BY <1>0, <1>10, <2>3 DEF ServeResearch, TypeOK
<1>11. ASSUME NEW place \in Places, Goes(r, place) PROVE run' \in [Runs -> Context]
  <2>1. [run[r] EXCEPT !.at = place] \in Context
    BY <1>0 DEF Context
  <2>2. run' = [run EXCEPT ![r] = [run[r] EXCEPT !.at = place]]
    BY <1>11 DEF Goes
  <2> QED
    BY <1>0, <2>1, <2>2
<1>12. CASE MissResearch(r)
  <2>1. run' \in [Runs -> Context]
    BY <1>11, <1>12 DEF MissResearch, Places
  <2> QED
    BY <1>0, <1>12, <2>1 DEF MissResearch, TypeOK
<1>13. CASE StoreResearch(r)
  <2>1. run' \in [Runs -> Context]
    BY <1>7, <1>9, <1>13 DEF StoreResearch, Saved
  <2> QED
    BY <1>0, <1>8, <1>9, <1>13, <2>1 DEF StoreResearch, TypeOK
<1>14. CASE ServeEnrichment(r)
  <2>1. enrichment.release \in Releases
    BY <1>0, <1>14 DEF ServeEnrichment, Intermediate
  <2>2. Older(run[r].inputs, enrichment.release) \in Releases
    BY <1>9, <2>1, OlderOK
  <2>3. run' \in [Runs -> Context]
    BY <1>7, <1>14, <2>2 DEF ServeEnrichment, Saved
  <2> QED
    BY <1>0, <1>14, <2>3 DEF ServeEnrichment, TypeOK
<1>15. CASE MissEnrichment(r)
  <2>1. run' \in [Runs -> Context]
    BY <1>11, <1>15 DEF MissEnrichment, Places
  <2> QED
    BY <1>0, <1>15, <2>1 DEF MissEnrichment, TypeOK
<1>16. CASE StoreEnrichment(r)
  <2> DEFINE from == Older(run[r].worker, run[r].inputs)
  <2>1. from \in Releases
    BY <1>9, OlderOK
  <2>2. Completes(r, "enriched", from) /\ (enrichment' = Made(from) \/ enrichment' = enrichment)
        /\ UNCHANGED <<research, decks, release, bump, cleaned>>
    BY <1>16 DEF StoreEnrichment
  <2> HIDE DEF from
  <2>3. run' \in [Runs -> Context]
    BY <1>7, <2>1, <2>2 DEF Saved
  <2> QED
    BY <1>0, <1>8, <2>1, <2>2, <2>3 DEF TypeOK
<1>17. CASE WritePrompt(r)
  <2>1. Older(run[r].inputs, run[r].worker) \in Releases /\ PromptOf[run[r].worker] \in Prompts
    BY <1>9, OlderOK, Constants
  <2>2. [run[r] EXCEPT !.at = "prompted", !.saved = "prompted", !.inputs = Older(run[r].inputs, run[r].worker),
                       !.prompt = PromptOf[run[r].worker]] \in Context
    BY <1>0, <2>1 DEF Context, Places, Saved
  <2>3. run' = [run EXCEPT ![r] =
           [run[r] EXCEPT !.at = "prompted", !.saved = "prompted",
                          !.inputs = Older(run[r].inputs, run[r].worker),
                          !.prompt = PromptOf[run[r].worker]]]
    BY <1>17 DEF WritePrompt
  <2>4. run' \in [Runs -> Context]
    BY <1>0, <2>2, <2>3
  <2> QED
    BY <1>0, <1>17, <2>4 DEF WritePrompt, TypeOK
<1>19. CASE MakeDeck(r) \/ LoopBack(r)
  <2>1. Older(run[r].inputs, run[r].worker) \in Releases
    BY <1>9, OlderOK
  <2>2. run' \in [Runs -> Context]
    BY <1>7, <1>9, <1>19, <2>1 DEF MakeDeck, LoopBack, Saved
  <2> QED
    BY <1>0, <1>19, <2>2 DEF MakeDeck, LoopBack, TypeOK
<1>18. CASE StoreDeck(r)
  <2>1. DeckOf(run[r]) \in Deck
    BY <1>0 DEF DeckOf, Deck, Context
  <2> QED
    BY <1>0, <1>18, <2>1, EmptyOK DEF StoreDeck, TypeOK
<1> QED
  BY <1>1, <1>2, <1>4, <1>5, <1>6, <1>10, <1>12, <1>13, <1>14, <1>15, <1>16, <1>17, <1>18, <1>19
     DEF Pipeline

LEMMA NextPrefixOK ==
  ASSUME TypeOK, NEW ok \in BOOLEAN, NextPrefix(ok)
  PROVE  bump' \in Bump /\ cleaned' \in Releases
<1>1. NextPhase \in Phases
  BY DEF NextPhase, Phases
<1>2. [bump EXCEPT !.at = NextPhase, !.scanned = FALSE, !.found = {}, !.ok = ok] \in Bump
  BY <1>1 DEF TypeOK, Bump
<1> QED
  BY <1>2, EmptyOK DEF NextPrefix, TypeOK

LEMMA NextTypeOK == TypeOK /\ [Next]_vars => TypeOK'
<1> SUFFICES ASSUME TypeOK, [Next]_vars PROVE TypeOK'
  OBVIOUS
<1> USE DEF cacheVars
<1>1. CASE \E r \in Runs : Pipeline(r)
  BY <1>1, PipelineTypeOK
<1>2. ASSUME NEW all \in BOOLEAN, Invalidate(all) PROVE TypeOK'
  <2>1. bump' \in Bump
    BY <1>2 DEF Invalidate, NoBump, Bump, Phases
  <2> QED
    BY <1>2, <2>1 DEF Invalidate, TypeOK
<1>3. CASE Scan
  <2>1. bump' \in Bump
    BY <1>3 DEF Scan, TypeOK, Bump
  <2> QED
    BY <1>3, <2>1 DEF Scan, TypeOK
<1>4. CASE Delete
  <2>1. bump.ok \in BOOLEAN
    BY DEF TypeOK, Bump
  <2>2. bump' \in Bump /\ cleaned' \in Releases
    BY <1>4, <2>1, NextPrefixOK DEF Delete
  <2>3. decks' \in [Prompts -> Deck \cup {NoEntry}]
    BY <1>4 DEF Delete, TypeOK
  <2> QED
    BY <1>4, <2>2, <2>3 DEF Delete, TypeOK
<1>5. CASE DeleteFails
  <2>1. bump' \in Bump /\ cleaned' \in Releases
    BY <1>5, NextPrefixOK DEF DeleteFails
  <2> QED
    BY <1>5, <2>1 DEF DeleteFails, TypeOK
<1>6. CASE Deploy
  BY <1>6, CacheAssumption DEF Deploy, TypeOK, Releases
<1>7. CASE Tick
  <2>1. ASSUME NEW e \in Intermediate \cup {NoEntry}
        PROVE  (IF e = NoEntry \/ e.left = 1 THEN NoEntry
                ELSE [e EXCEPT !.left = @ - 1, !.age = IF @ > TTL THEN @ ELSE @ + 1])
               \in Intermediate \cup {NoEntry}
    <3>1. CASE e = NoEntry \/ e.left = 1
      BY <3>1
    <3>2. CASE e # NoEntry /\ e.left # 1
      <4>1. e \in Intermediate
        BY <3>2
      <4>2. e.left - 1 \in 1 .. TTL /\ (IF e.age > TTL THEN e.age ELSE e.age + 1) \in 0 .. TTL + 1
        BY <3>2, <4>1, Constants DEF Intermediate
      <4> QED
        BY <3>2, <4>1, <4>2 DEF Intermediate
    <3> QED
      BY <3>1, <3>2
  <2>2. research' \in Intermediate \cup {NoEntry} /\ enrichment' \in Intermediate \cup {NoEntry}
    BY <1>7, <2>1 DEF Tick, TypeOK
  <2> QED
    BY <1>7, <2>2 DEF Tick, TypeOK
<1>8. CASE \E p \in Prompts : DeckExpires(p)
  BY <1>8 DEF DeckExpires, TypeOK
<1>9. CASE UNCHANGED vars
  BY <1>9 DEF vars, TypeOK
<1> QED
  BY <1>1, <1>2, <1>3, <1>4, <1>5, <1>6, <1>7, <1>8, <1>9 DEF Next

(* The entries, the runs and the invalidation keep their types.            *)
THEOREM CacheTypeCorrect == Spec => []TypeOK
BY InitTypeOK, NextTypeOK, PTL DEF Spec

-----------------------------------------------------------------------------
(* Expiry.                                                                 *)

(* What an entry has lived and what it has left make up its time to live:  *)
(* only a new value begins a new one.                                      *)
AgesAndLeftAgree == \A e \in {research, enrichment} : e # NoEntry => e.age + e.left = TTL

LEMMA NextAges == TypeOK /\ AgesAndLeftAgree /\ [Next]_vars => AgesAndLeftAgree'
<1> SUFFICES ASSUME TypeOK, AgesAndLeftAgree, [Next]_vars PROVE AgesAndLeftAgree'
  OBVIOUS
<1> USE DEF cacheVars
<1>1. ASSUME NEW from \in Releases PROVE Made(from).age + Made(from).left = TTL
  BY Constants DEF Made
<1>2. CASE Tick
  <2>1. ASSUME NEW e \in Intermediate \cup {NoEntry}, e # NoEntry => e.age + e.left = TTL,
               e # NoEntry, e.left # 1
        PROVE  LET f == [e EXCEPT !.left = @ - 1, !.age = IF @ > TTL THEN @ ELSE @ + 1]
               IN f.age + f.left = TTL
    <3>1. /\ e.age \in Nat /\ e.left \in Nat /\ e.left >= 1 /\ e.age + e.left = TTL
          /\ e = [release |-> e.release, age |-> e.age, left |-> e.left]
      BY <2>1, Constants DEF Intermediate
    <3>2. ~(e.age > TTL) /\ (e.age + 1) + (e.left - 1) = TTL
      BY <3>1, Constants
    <3> QED
      BY <3>1, <3>2
  <2>2. research \in Intermediate \cup {NoEntry} /\ enrichment \in Intermediate \cup {NoEntry}
    BY DEF TypeOK
  <2> QED
    BY <1>2, <2>1, <2>2 DEF Tick, AgesAndLeftAgree
<1>3. CASE \E r \in Runs : Pipeline(r)
  <2> PICK r \in Runs : Pipeline(r)
    BY <1>3
  <2>1. run[r].worker \in Releases /\ run[r].inputs \in Releases
    BY DEF TypeOK, Context
  <2>2. Older(run[r].worker, run[r].inputs) \in Releases
    BY <2>1, OlderOK
  <2>3. CASE StoreResearch(r)
    BY <1>1, <2>1, <2>3 DEF StoreResearch, AgesAndLeftAgree
  <2>4. CASE StoreEnrichment(r)
    BY <1>1, <2>2, <2>4 DEF StoreEnrichment, AgesAndLeftAgree
  <2>5. CASE UNCHANGED <<research, enrichment>>
    BY <2>5 DEF AgesAndLeftAgree
  <2> QED
    BY <2>3, <2>4, <2>5
       DEF Pipeline, Start, Stop, ServeDeck, MissDeck, Resumed, StoreServed, ServeResearch,
           MissResearch, ServeEnrichment, MissEnrichment, WritePrompt, MakeDeck, LoopBack, StoreDeck
<1>4. CASE Delete
  BY <1>4 DEF Delete, AgesAndLeftAgree
<1>5. CASE UNCHANGED <<research, enrichment>>
  BY <1>5 DEF AgesAndLeftAgree
<1> QED
  BY <1>2, <1>3, <1>4, <1>5
     DEF Next, Invalidate, Scan, DeleteFails, Deploy, DeckExpires, vars

(* However often research and enrichment are served, and whoever stores    *)
(* them again, they are used for their time to live and no longer.         *)
THEOREM IntermediatesAreDropped == Spec => []IntermediatesExpire
<1>1. Init => AgesAndLeftAgree
  BY DEF Init, AgesAndLeftAgree
<1>2. TypeOK /\ AgesAndLeftAgree => IntermediatesExpire
  <2> SUFFICES ASSUME TypeOK, AgesAndLeftAgree, NEW e \in {research, enrichment}, e # NoEntry
               PROVE  e.age < TTL
    BY DEF IntermediatesExpire
  <2>1. e \in Intermediate /\ e.age + e.left = TTL
    BY DEF TypeOK, AgesAndLeftAgree
  <2> QED
    BY <2>1, Constants DEF Intermediate
<1> QED
  BY <1>1, <1>2, NextAges, CacheTypeCorrect, PTL DEF Spec

-----------------------------------------------------------------------------
(* Decks and the prompts they were made with.                              *)

(* A run whose prompt, or deck, was made in the release it is in, or that  *)
(* is served a deck, has the prompt version of that release.               *)
RunHasPrompt(r) ==
  /\ run[r].at \in Prompted => run[r].saved = run[r].at
  /\ run[r].saved \in Prompted /\ ~run[r].crossed => run[r].prompt = PromptOf[run[r].worker]
  /\ run[r].at = "served" =>
       /\ run[r].served # NoEntry
       /\ ~run[r].served.crossed => run[r].served.prompt = PromptOf[run[r].worker]

PromptInv == DeckMatchesPrompt /\ \A r \in Runs : RunHasPrompt(r)

LEMMA NextPromptInv == TypeOK /\ PromptInv /\ [Next]_vars => PromptInv'
<1> SUFFICES ASSUME TypeOK, PromptInv, [Next]_vars PROVE PromptInv'
  OBVIOUS
<1> USE DEF cacheVars
<1>0. /\ run \in [Runs -> Context] /\ release \in Releases
      /\ decks \in [Prompts -> Deck \cup {NoEntry}]
      /\ \A k \in Releases : PromptOf[k] \in Prompts
  BY Constants DEF TypeOK
<1>1. ASSUME NEW r \in Runs, Pipeline(r), RunHasPrompt(r)', \A q \in Runs \ {r} : run'[q] = run[q]
      PROVE  \A q \in Runs : RunHasPrompt(q)'
  BY <1>1 DEF PromptInv, RunHasPrompt
<1>2. ASSUME NEW r \in Runs, run' = [run EXCEPT ![r] = NoRun]
      PROVE  \A q \in Runs : RunHasPrompt(q)'
  <2>1. NoRun.at = "idle" /\ NoRun.saved = "classified"
    BY DEF NoRun
  <2> QED
    BY <1>0, <1>2, <2>1 DEF PromptInv, RunHasPrompt, Prompted
<1>3. ASSUME NEW r \in Runs, Start(r) PROVE PromptInv'
  <2>1. run'[r].at = "classified" /\ run'[r].saved = "classified"
    BY <1>0, <1>3 DEF Start, NoRun
  <2>2. RunHasPrompt(r)' /\ \A q \in Runs \ {r} : run'[q] = run[q]
    BY <1>0, <1>3, <2>1 DEF Start, RunHasPrompt, Prompted
  <2>3. \A q \in Runs : RunHasPrompt(q)'
    BY <1>1, <1>3, <2>2 DEF Pipeline
  <2> QED
    BY <1>3, <2>3 DEF Start, PromptInv, DeckMatchesPrompt
<1>4. ASSUME NEW r \in Runs, Stop(r) PROVE PromptInv'
  BY <1>2, <1>4 DEF Stop, PromptInv, DeckMatchesPrompt
<1>5. ASSUME NEW r \in Runs, NEW place \in Places, NEW found \in Deck \cup {NoEntry},
             Resumed(r, place, found), Pipeline(r),
             place \in Prompted => run[r].saved = place,
             place = "served" => found = decks[PromptOf[release]] /\ found # NoEntry
      PROVE  PromptInv'
  <2>1. run[r] \in Context /\ RunHasPrompt(r)
    BY <1>0 DEF PromptInv
  <2>2. /\ run'[r].at = place /\ run'[r].worker = release /\ run'[r].served = found
        /\ run'[r].saved = run[r].saved /\ run'[r].prompt = run[r].prompt
        /\ run'[r].crossed = (run[r].crossed \/ (run[r].saved \in Prompted /\ run[r].worker # release))
        /\ \A q \in Runs \ {r} : run'[q] = run[q]
    BY <1>0, <1>5, <2>1 DEF Resumed, Context
  <2>3. place = "served" /\ ~found.crossed => found.prompt = PromptOf[release]
    BY <1>0, <1>5 DEF PromptInv, DeckMatchesPrompt
  <2>4. RunHasPrompt(r)'
    BY <1>5, <2>1, <2>2, <2>3 DEF RunHasPrompt, Prompted
  <2>5. \A q \in Runs : RunHasPrompt(q)'
    BY <1>1, <1>5, <2>2, <2>4
  <2> QED
    BY <1>5, <2>5 DEF Resumed, PromptInv, DeckMatchesPrompt
<1>6. ASSUME NEW r \in Runs, ServeDeck(r) PROVE PromptInv'
  BY <1>0, <1>5, <1>6 DEF ServeDeck, Places, Pipeline, Prompted
<1>7. ASSUME NEW r \in Runs, MissDeck(r) PROVE PromptInv'
  <2>1. run[r].saved \in Saved
    BY <1>0 DEF Context
  <2> QED
    BY <1>5, <1>7, <2>1 DEF MissDeck, Places, Saved, Pipeline
<1>8. ASSUME NEW r \in Runs, StoreServed(r) PROVE PromptInv'
  <2>1. RunHasPrompt(r) /\ run[r].worker \in Releases
    BY <1>0 DEF PromptInv, Context
  <2>2. DeckMatchesPrompt'
    BY <1>0, <1>8, <2>1 DEF StoreServed, RunHasPrompt, PromptInv, DeckMatchesPrompt
  <2> QED
    BY <1>2, <1>8, <2>2 DEF StoreServed, PromptInv
<1>9. ASSUME NEW r \in Runs, NEW agent \in Saved \ Prompted, NEW from, Completes(r, agent, from)
      PROVE  RunHasPrompt(r)' /\ \A q \in Runs \ {r} : run'[q] = run[q]
  <2>1. run'[r].at = agent /\ run'[r].saved = agent /\ \A q \in Runs \ {r} : run'[q] = run[q]
    BY <1>0, <1>9 DEF Completes, Context
  <2> QED
    BY <2>1 DEF RunHasPrompt, Saved, Prompted
<1>10. ASSUME NEW r \in Runs, Pipeline(r), NEW agent \in Saved \ Prompted, NEW from,
              Completes(r, agent, from), UNCHANGED decks
       PROVE  PromptInv'
  <2>1. \A q \in Runs : RunHasPrompt(q)'
    BY <1>1, <1>9, <1>10
  <2> QED
    BY <1>10, <2>1 DEF PromptInv, DeckMatchesPrompt
<1>11. ASSUME NEW r \in Runs, ServeResearch(r) \/ StoreResearch(r) \/ ServeEnrichment(r)
                               \/ StoreEnrichment(r)
       PROVE  PromptInv'
  <2>1. UNCHANGED decks /\ \E agent \in Saved \ Prompted : \E from : Completes(r, agent, from)
    BY <1>11 DEF ServeResearch, StoreResearch, ServeEnrichment, StoreEnrichment, Saved, Prompted
  <2> QED
    BY <1>10, <1>11, <2>1 DEF Pipeline
<1>12. ASSUME NEW r \in Runs, MissResearch(r) \/ MissEnrichment(r) PROVE PromptInv'
  <2>1. PICK place \in {"researching", "enriching"} : Goes(r, place) /\ UNCHANGED decks
    BY <1>12 DEF MissResearch, MissEnrichment
  <2>2. /\ run'[r].at = place /\ run'[r].saved = run[r].saved /\ run'[r].crossed = run[r].crossed
        /\ run'[r].prompt = run[r].prompt /\ run'[r].worker = run[r].worker
        /\ \A q \in Runs \ {r} : run'[q] = run[q]
    BY <1>0, <2>1 DEF Goes, Context
  <2>3. RunHasPrompt(r)'
    BY <2>2 DEF RunHasPrompt, PromptInv, Prompted
  <2>4. \A q \in Runs : RunHasPrompt(q)'
    BY <1>1, <1>12, <2>2, <2>3 DEF Pipeline
  <2> QED
    BY <2>1, <2>4 DEF PromptInv, DeckMatchesPrompt
<1>13. ASSUME NEW r \in Runs, WritePrompt(r) PROVE PromptInv'
  <2>1. /\ run'[r].at = "prompted" /\ run'[r].saved = "prompted"
        /\ run'[r].prompt = PromptOf[run[r].worker] /\ run'[r].worker = run[r].worker
        /\ \A q \in Runs \ {r} : run'[q] = run[q]
    BY <1>0, <1>13 DEF WritePrompt, Context
  <2>2. RunHasPrompt(r)'
    BY <2>1 DEF RunHasPrompt, Prompted
  <2>3. \A q \in Runs : RunHasPrompt(q)'
    BY <1>1, <1>13, <2>1, <2>2 DEF Pipeline
  <2> QED
    BY <1>13, <2>3 DEF WritePrompt, PromptInv, DeckMatchesPrompt
\* The LLM gets, and gets again, the prompt of the context.
<1>19. ASSUME NEW r \in Runs, MakeDeck(r) \/ LoopBack(r) PROVE PromptInv'
  <2>1. PICK agent \in Prompted : run'[r].at = agent /\ run'[r].saved = agent
    BY <1>0, <1>19 DEF MakeDeck, LoopBack, Completes, Context, Prompted
  <2>2. /\ run'[r].prompt = run[r].prompt /\ run'[r].worker = run[r].worker
        /\ run'[r].crossed = run[r].crossed /\ UNCHANGED decks
        /\ \A q \in Runs \ {r} : run'[q] = run[q]
    BY <1>0, <1>19 DEF MakeDeck, LoopBack, Completes, Context
  <2>3. run[r].saved \in Prompted
    BY <1>19 DEF MakeDeck, LoopBack, PromptInv, RunHasPrompt, Prompted
  <2>4. RunHasPrompt(r)'
    BY <2>1, <2>2, <2>3 DEF PromptInv, RunHasPrompt, Prompted
  <2>5. \A q \in Runs : RunHasPrompt(q)'
    BY <1>1, <1>19, <2>2, <2>4 DEF Pipeline
  <2> QED
    BY <2>2, <2>5 DEF PromptInv, DeckMatchesPrompt
<1>14. ASSUME NEW r \in Runs, StoreDeck(r) PROVE PromptInv'
  <2>1. RunHasPrompt(r) /\ run[r].worker \in Releases
    BY <1>0 DEF PromptInv, Context
  <2>2. /\ DeckOf(run[r]).prompt = run[r].prompt /\ DeckOf(run[r]).crossed = run[r].crossed
    BY DEF DeckOf
  <2>3. DeckMatchesPrompt'
    BY <1>0, <1>14, <2>1, <2>2 DEF StoreDeck, RunHasPrompt, PromptInv, DeckMatchesPrompt, Prompted
  <2> QED
    BY <1>2, <1>14, <2>3 DEF StoreDeck, PromptInv
<1>15. CASE \E r \in Runs : Pipeline(r)
  BY <1>3, <1>4, <1>6, <1>7, <1>8, <1>11, <1>12, <1>13, <1>14, <1>15, <1>19 DEF Pipeline
<1>16. CASE Delete
  BY <1>0, <1>16 DEF Delete, PromptInv, DeckMatchesPrompt, RunHasPrompt
<1>17. CASE \E p \in Prompts : DeckExpires(p)
  BY <1>0, <1>17 DEF DeckExpires, PromptInv, DeckMatchesPrompt, RunHasPrompt
<1>18. CASE UNCHANGED <<run, decks>>
  BY <1>18 DEF PromptInv, DeckMatchesPrompt, RunHasPrompt
<1> QED
  BY <1>15, <1>16, <1>17, <1>18 DEF Next, Invalidate, Scan, DeleteFails, Deploy, Tick, vars

(* A deck is found under the version of the prompt it was made with, in    *)
(* whatever order releases, runs, hits, feedback loops and invalidations   *)
(* come, unless its run went on in another release with its prompt.        *)
THEOREM DecksMatchPrompts == Spec => []DeckMatchesPrompt
<1>1. Init => PromptInv
  <2>1. NoRun.at = "idle" /\ NoRun.saved = "classified"
    BY DEF NoRun
  <2> QED
    BY <2>1 DEF Init, PromptInv, DeckMatchesPrompt, RunHasPrompt, Prompted
<1>2. PromptInv => DeckMatchesPrompt
  BY DEF PromptInv
<1> QED
  BY <1>1, <1>2, NextPromptInv, CacheTypeCorrect, PTL DEF Spec

-----------------------------------------------------------------------------
(* Invalidation.                                                           *)

EntriesAreNewer ==
  \A e \in {research, enrichment} \cup {decks[p] : p \in Prompts} :
     e # NoEntry => e.release >= cleaned

(* What a run has got hold of is no older than the last clean invalidation.*)
RunIsNewer(r) ==
  /\ run[r].at \in Saved => run[r].saved = run[r].at
  /\ run[r].at = "enriching" => run[r].saved = "researched"
  /\ run[r].at # "idle" => run[r].worker >= cleaned
                           /\ (run[r].saved # "classified" => run[r].inputs >= cleaned)
  /\ run[r].at = "served" => run[r].served # NoEntry /\ run[r].served.release >= cleaned

(* An invalidation that may still be clean has found no run, and what it   *)
(* has gone through is empty: nothing but a run would fill it again.       *)
BumpIsClean ==
  bump.ok =>
    /\ \A r \in Runs : run[r].at = "idle"
    /\ bump.at # "idle" /\ bump.all
    /\ bump.at = "decks" /\ bump.scanned => \A p \in Prompts : decks[p] # NoEntry => p \in bump.found
    /\ bump.at # "decks" => \A p \in Prompts : decks[p] = NoEntry
    /\ bump.at = "research" /\ bump.scanned /\ research # NoEntry => bump.found # {}
    /\ bump.at = "enrichment" => research = NoEntry
    /\ bump.at = "enrichment" /\ bump.scanned /\ enrichment # NoEntry => bump.found # {}

CleanInv ==
  /\ cleaned <= release
  /\ EntriesAreNewer
  /\ \A r \in Runs : RunIsNewer(r)
  /\ BumpIsClean

LEMMA PipelineClean ==
  ASSUME TypeOK, CleanInv, NEW r \in Runs, Pipeline(r)
  PROVE  CleanInv'
<1> USE DEF cacheVars
<1>0. /\ run \in [Runs -> Context] /\ run[r] \in Context /\ release \in Nat /\ cleaned \in Nat
      /\ decks \in [Prompts -> Deck \cup {NoEntry}]
      /\ research \in Intermediate \cup {NoEntry} /\ enrichment \in Intermediate \cup {NoEntry}
      /\ \A k \in Releases : PromptOf[k] \in Prompts /\ k \in Nat
      /\ cleaned <= release /\ RunIsNewer(r) /\ release \in Releases
  BY Constants DEF TypeOK, CleanInv
<1>1. UNCHANGED <<release, cleaned>>
  BY DEF Pipeline, Start, Stop, ServeDeck, MissDeck, Resumed, StoreServed, ServeResearch, MissResearch,
         StoreResearch, ServeEnrichment, MissEnrichment, StoreEnrichment, WritePrompt, MakeDeck, LoopBack, StoreDeck
\* A run that goes on was not idle, so that no invalidation was clean.
<1>2. BumpIsClean'
  <2>1. CASE Start(r)
    BY <1>0, <2>1 DEF Start, BumpIsClean, TypeOK, Bump
  <2>2. CASE ~Start(r)
    <3>1. run[r].at # "idle" /\ UNCHANGED bump
      BY <2>2 DEF Pipeline, Stop, ServeDeck, MissDeck, Resumed, StoreServed, ServeResearch, MissResearch,
             StoreResearch, ServeEnrichment, MissEnrichment, StoreEnrichment, WritePrompt, MakeDeck, LoopBack, StoreDeck
    <3>2. ~bump.ok
      BY <3>1 DEF CleanInv, BumpIsClean
    <3> QED
      BY <3>1, <3>2 DEF BumpIsClean
  <2> QED
    BY <2>1, <2>2
<1>3. ASSUME EntriesAreNewer', RunIsNewer(r)', \A q \in Runs \ {r} : run'[q] = run[q]
      PROVE  CleanInv'
  BY <1>0, <1>1, <1>2, <1>3 DEF CleanInv, RunIsNewer
<1>4. UNCHANGED cacheVars => EntriesAreNewer'
  BY <1>1 DEF CleanInv, EntriesAreNewer
<1>5. run' = [run EXCEPT ![r] = NoRun] => RunIsNewer(r)' /\ \A q \in Runs \ {r} : run'[q] = run[q]
  BY <1>0 DEF RunIsNewer, NoRun, Saved
<1>6. CASE Start(r)
  <2>1. /\ run'[r].at = "classified" /\ run'[r].saved = "classified" /\ run'[r].worker = release
        /\ \A q \in Runs \ {r} : run'[q] = run[q]
    BY <1>0, <1>6 DEF Start, NoRun
  <2>2. RunIsNewer(r)'
    BY <1>0, <1>1, <2>1 DEF RunIsNewer
  <2> QED
    BY <1>3, <1>4, <1>6, <2>1, <2>2 DEF Start
<1>7. CASE Stop(r)
  BY <1>3, <1>4, <1>5, <1>7 DEF Stop
<1>8. ASSUME NEW place, NEW found, Resumed(r, place, found),
             place = "served" \/ place = run[r].saved,
             place = "served" => found # NoEntry /\ found.release >= cleaned
      PROVE  CleanInv'
  <2>1. /\ run'[r].at = place /\ run'[r].worker = release /\ run'[r].served = found
        /\ run'[r].saved = run[r].saved /\ run'[r].inputs = run[r].inputs
        /\ \A q \in Runs \ {r} : run'[q] = run[q]
    BY <1>0, <1>8 DEF Resumed, Context
  <2>2. run[r].saved \in Saved /\ run[r].at # "idle"
    BY <1>0, <1>8 DEF Context, Resumed
  <2>3. RunIsNewer(r)'
    BY <1>0, <1>1, <1>8, <2>1, <2>2 DEF RunIsNewer, Saved
  <2> QED
    BY <1>3, <1>4, <1>8, <2>1, <2>3 DEF Resumed
<1>9. CASE ServeDeck(r)
  <2>1. decks[PromptOf[release]] # NoEntry => decks[PromptOf[release]].release >= cleaned
    BY <1>0 DEF CleanInv, EntriesAreNewer
  <2> QED
    BY <1>8, <1>9, <2>1 DEF ServeDeck
<1>10. CASE MissDeck(r)
  BY <1>0, <1>8, <1>10 DEF MissDeck, Context, Saved
<1>11. CASE StoreServed(r)
  <2>1. EntriesAreNewer'
    BY <1>0, <1>1, <1>11 DEF StoreServed, CleanInv, EntriesAreNewer, RunIsNewer
  <2> QED
    BY <1>3, <1>5, <1>11, <2>1 DEF StoreServed
<1>12. ASSUME NEW agent \in Saved, NEW from \in Nat, Completes(r, agent, from),
              run[r].at # "idle", from >= cleaned, EntriesAreNewer'
       PROVE  CleanInv'
  <2>1. /\ run'[r].at = agent /\ run'[r].saved = agent /\ run'[r].inputs = from
        /\ run'[r].worker = run[r].worker /\ \A q \in Runs \ {r} : run'[q] = run[q]
    BY <1>0, <1>12 DEF Completes, Context
  <2>2. RunIsNewer(r)'
    BY <1>0, <1>1, <1>12, <2>1 DEF RunIsNewer, Saved
  <2> QED
    BY <1>3, <1>12, <2>1, <2>2
<1>13. run[r].worker \in Nat /\ run[r].inputs \in Nat
  BY <1>0 DEF Context
<1>14. CASE ServeResearch(r)
  <2>1. research.release \in Nat /\ research.release >= cleaned
    BY <1>0, <1>14 DEF ServeResearch, Intermediate, CleanInv, EntriesAreNewer
  <2>2. Older(run[r].worker, research.release) \in Nat /\ Older(run[r].worker, research.release) >= cleaned
    BY <1>0, <1>13, <1>14, <2>1 DEF Older, ServeResearch, RunIsNewer
  <2> QED
    BY <1>4, <1>12, <1>14, <2>2 DEF ServeResearch, Saved
<1>15. ASSUME NEW place \in {"researching", "enriching"}, Goes(r, place),
              place = "enriching" => run[r].saved = "researched", run[r].at # "idle", UNCHANGED cacheVars
       PROVE  CleanInv'
  <2>1. /\ run'[r].at = place /\ run'[r].saved = run[r].saved /\ run'[r].inputs = run[r].inputs
        /\ run'[r].worker = run[r].worker /\ \A q \in Runs \ {r} : run'[q] = run[q]
    BY <1>0, <1>15 DEF Goes, Context
  <2>2. RunIsNewer(r)'
    BY <1>0, <1>1, <1>15, <2>1 DEF RunIsNewer, Saved
  <2> QED
    BY <1>3, <1>4, <1>15, <2>1, <2>2
<1>16. CASE MissResearch(r)
  BY <1>15, <1>16 DEF MissResearch
<1>17. CASE StoreResearch(r)
  <2>1. run[r].worker >= cleaned
    BY <1>0, <1>17 DEF StoreResearch, RunIsNewer
  <2>2. EntriesAreNewer'
    BY <1>0, <1>1, <1>17, <2>1 DEF StoreResearch, Made, CleanInv, EntriesAreNewer
  <2> QED
    BY <1>12, <1>13, <1>17, <2>1, <2>2 DEF StoreResearch, Saved
<1>18. CASE ServeEnrichment(r)
  <2>1. enrichment.release \in Nat /\ enrichment.release >= cleaned
    BY <1>0, <1>18 DEF ServeEnrichment, Intermediate, CleanInv, EntriesAreNewer
  <2>2. run[r].inputs >= cleaned
    BY <1>0, <1>18 DEF ServeEnrichment, RunIsNewer, Saved
  <2>3. Older(run[r].inputs, enrichment.release) \in Nat /\ Older(run[r].inputs, enrichment.release) >= cleaned
    BY <1>13, <2>1, <2>2 DEF Older
  <2> QED
    BY <1>4, <1>12, <1>18, <2>3 DEF ServeEnrichment, Saved
<1>19. CASE MissEnrichment(r)
  <2>1. run[r].saved = "researched"
    BY <1>0, <1>19 DEF MissEnrichment, RunIsNewer, Saved
  <2> QED
    BY <1>15, <1>19, <2>1 DEF MissEnrichment
<1>20. CASE StoreEnrichment(r)
  <2>1. run[r].worker >= cleaned /\ run[r].inputs >= cleaned
    BY <1>0, <1>20 DEF StoreEnrichment, RunIsNewer
  <2>2. Older(run[r].worker, run[r].inputs) \in Nat /\ Older(run[r].worker, run[r].inputs) >= cleaned
    BY <1>13, <2>1 DEF Older
  <2>3. EntriesAreNewer'
    BY <1>0, <1>1, <1>20, <2>2 DEF StoreEnrichment, Made, CleanInv, EntriesAreNewer
  <2> QED
    BY <1>12, <1>20, <2>2, <2>3 DEF StoreEnrichment, Saved
<1>21. CASE WritePrompt(r) \/ MakeDeck(r) \/ LoopBack(r)
  <2>1. run[r].worker >= cleaned /\ run[r].inputs >= cleaned
    BY <1>0, <1>21 DEF WritePrompt, MakeDeck, LoopBack, RunIsNewer, Saved
  <2>2. Older(run[r].inputs, run[r].worker) >= cleaned
    BY <1>13, <2>1 DEF Older
  <2>3. /\ run'[r].at \in {"prompted", "made"} /\ run'[r].saved = run'[r].at
        /\ run'[r].worker = run[r].worker
        /\ run'[r].inputs \in {run[r].inputs, Older(run[r].inputs, run[r].worker)}
        /\ \A q \in Runs \ {r} : run'[q] = run[q]
    BY <1>0, <1>21 DEF WritePrompt, MakeDeck, LoopBack, Completes, Context
  <2>4. RunIsNewer(r)'
    BY <1>1, <2>1, <2>2, <2>3 DEF RunIsNewer
  <2> QED
    BY <1>3, <1>4, <1>21, <2>3, <2>4 DEF WritePrompt, MakeDeck, LoopBack
<1>22. CASE StoreDeck(r)
  <2>1. DeckOf(run[r]).release = run[r].inputs /\ run[r].inputs >= cleaned
    BY <1>0, <1>22 DEF StoreDeck, DeckOf, RunIsNewer, Saved
  <2>2. EntriesAreNewer'
    BY <1>0, <1>1, <1>22, <2>1 DEF StoreDeck, CleanInv, EntriesAreNewer
  <2> QED
    BY <1>3, <1>5, <1>22, <2>2 DEF StoreDeck
<1> QED
  BY <1>6, <1>7, <1>9, <1>10, <1>11, <1>14, <1>16, <1>17, <1>18, <1>19, <1>20, <1>21, <1>22 DEF Pipeline

LEMMA DeleteClean ==
  ASSUME TypeOK, CleanInv, Delete
  PROVE  CleanInv'
<1>0. /\ decks \in [Prompts -> Deck \cup {NoEntry}] /\ bump \in Bump /\ UNCHANGED <<run, release>>
      /\ cleaned \in Nat /\ release \in Nat
  BY Constants DEF TypeOK, Delete
<1>1. \A e \in {research', enrichment'} \cup {decks'[p] : p \in Prompts} :
         e # NoEntry => e \in {research, enrichment} \cup {decks[p] : p \in Prompts}
  BY <1>0 DEF Delete
<1>2. CASE NextPhase = "idle" /\ bump.ok
  <2>1. bump.at = "enrichment"
    BY <1>0, <1>2 DEF NextPhase, CleanInv, BumpIsClean, Bump, Phases
  <2>2. /\ research' = NoEntry /\ enrichment' = NoEntry /\ \A p \in Prompts : decks'[p] = NoEntry
        /\ \A r \in Runs : run[r].at = "idle"
    BY <1>2, <2>1 DEF CleanInv, BumpIsClean, Delete
  <2>3. bump' = NoBump /\ cleaned' = release
    BY <1>2 DEF Delete, NextPrefix
  <2> QED
    BY <1>0, <2>2, <2>3 DEF CleanInv, EntriesAreNewer, RunIsNewer, BumpIsClean, NoBump, Saved
<1>3. CASE NextPhase = "idle" /\ ~bump.ok
  <2>1. bump' = NoBump /\ cleaned' = cleaned
    BY <1>3 DEF Delete, NextPrefix
  <2>2. EntriesAreNewer'
    BY <1>1, <2>1 DEF CleanInv, EntriesAreNewer
  <2> QED
    BY <1>0, <2>1, <2>2 DEF CleanInv, RunIsNewer, BumpIsClean, NoBump
<1>4. CASE NextPhase # "idle"
  <2>1. /\ bump'.at = NextPhase /\ ~bump'.scanned /\ bump'.ok = bump.ok /\ bump'.all = bump.all
        /\ cleaned' = cleaned
    BY <1>0, <1>4 DEF Delete, NextPrefix, Bump
  <2>2. EntriesAreNewer'
    BY <1>1, <2>1 DEF CleanInv, EntriesAreNewer
  <2>3. CASE bump.ok /\ bump.at = "decks"
    <3>1. bump'.at = "research" /\ \A p \in Prompts : decks'[p] = NoEntry
      BY <2>1, <2>3, <1>0, <1>4 DEF CleanInv, BumpIsClean, Delete, NextPhase
    <3> QED
      BY <1>0, <2>1, <2>2, <2>3, <3>1 DEF CleanInv, RunIsNewer, BumpIsClean
  <2>4. CASE bump.ok /\ bump.at = "research"
    <3>1. bump'.at = "enrichment" /\ (\A p \in Prompts : decks'[p] = NoEntry) /\ research' = NoEntry
      BY <2>1, <2>4, <1>0 DEF CleanInv, BumpIsClean, Delete, NextPhase
    <3> QED
      BY <1>0, <2>1, <2>2, <2>4, <3>1 DEF CleanInv, RunIsNewer, BumpIsClean
  <2>5. CASE ~bump.ok
    BY <1>0, <2>1, <2>2, <2>5 DEF CleanInv, RunIsNewer, BumpIsClean
  <2> QED
    BY <1>4, <2>3, <2>4, <2>5 DEF NextPhase
<1> QED
  BY <1>2, <1>3, <1>4

LEMMA NextClean == TypeOK /\ CleanInv /\ [Next]_vars => CleanInv'
<1> SUFFICES ASSUME TypeOK, CleanInv, [Next]_vars PROVE CleanInv'
  OBVIOUS
<1> USE DEF cacheVars
<1>0. /\ bump \in Bump /\ cleaned \in Nat /\ release \in Nat /\ \E p : p \in Prompts
      /\ decks \in [Prompts -> Deck \cup {NoEntry}]
  BY Constants DEF TypeOK
<1>1. CASE \E r \in Runs : Pipeline(r)
  BY <1>1, PipelineClean
<1>2. ASSUME NEW all \in BOOLEAN, Invalidate(all) PROVE CleanInv'
  <2>1. /\ bump'.at = "decks" /\ bump'.all = all /\ ~bump'.scanned
        /\ bump'.ok = (all /\ \A r \in Runs : run[r].at = "idle")
    BY <1>2 DEF Invalidate, NoBump
  <2> QED
    BY <1>2, <2>1 DEF Invalidate, CleanInv, EntriesAreNewer, RunIsNewer, BumpIsClean
<1>3. CASE Scan
  <2>1. /\ bump'.at = bump.at /\ bump'.all = bump.all /\ bump'.scanned /\ bump'.ok = bump.ok
        /\ bump.at = "decks" => bump'.found = {p \in Prompts : decks[p] # NoEntry}
        /\ bump.at = "research" /\ research # NoEntry => bump'.found = Prompts
        /\ bump.at = "enrichment" /\ enrichment # NoEntry => bump'.found = Prompts
    BY <1>0, <1>3 DEF Scan, Bump
  <2> QED
    BY <1>0, <1>3, <2>1 DEF Scan, CleanInv, EntriesAreNewer, RunIsNewer, BumpIsClean
<1>4. CASE Delete
  BY <1>4, DeleteClean
<1>5. CASE DeleteFails
  <2>1. bump'.ok = FALSE /\ cleaned' = cleaned
    <3>1. CASE NextPhase = "idle"
      BY <1>5, <3>1 DEF DeleteFails, NextPrefix, NoBump
    <3>2. CASE NextPhase # "idle"
      <4>1. /\ bump' = [bump EXCEPT !.at = NextPhase, !.scanned = FALSE, !.found = {}, !.ok = FALSE]
            /\ cleaned' = cleaned
        BY <1>5, <3>2 DEF DeleteFails, NextPrefix
      <4> QED
        BY <1>0, <4>1 DEF Bump
    <3> QED
      BY <3>1, <3>2
  <2> QED
    BY <1>5, <2>1 DEF DeleteFails, CleanInv, EntriesAreNewer, RunIsNewer, BumpIsClean
<1>6. CASE Deploy
  BY <1>0, <1>6 DEF Deploy, CleanInv, EntriesAreNewer, RunIsNewer, BumpIsClean
<1>7. CASE Tick
  <2>1. ASSUME NEW e \in Intermediate \cup {NoEntry}
        PROVE  LET f == IF e = NoEntry \/ e.left = 1 THEN NoEntry
                        ELSE [e EXCEPT !.left = @ - 1, !.age = IF @ > TTL THEN @ ELSE @ + 1]
               IN f # NoEntry => e # NoEntry /\ f.release = e.release
    BY DEF Intermediate
  <2>2. /\ research' # NoEntry => research # NoEntry /\ research'.release = research.release
        /\ enrichment' # NoEntry => enrichment # NoEntry /\ enrichment'.release = enrichment.release
    BY <1>7, <2>1 DEF Tick, TypeOK
  <2> QED
    BY <1>7, <2>2 DEF Tick, CleanInv, EntriesAreNewer, RunIsNewer, BumpIsClean
<1>8. CASE \E p \in Prompts : DeckExpires(p)
  <2>1. PICK p \in Prompts : DeckExpires(p)
    BY <1>8
  <2>2. \A q \in Prompts : decks'[q] # NoEntry => decks'[q] = decks[q]
    BY <1>0, <2>1 DEF DeckExpires
  <2>3. UNCHANGED <<research, enrichment, run, release, bump, cleaned>>
    BY <2>1 DEF DeckExpires
  <2>4. EntriesAreNewer'
    BY <2>2, <2>3 DEF CleanInv, EntriesAreNewer
  <2>5. BumpIsClean'
    BY <2>2, <2>3 DEF CleanInv, BumpIsClean
  <2> QED
    BY <2>3, <2>4, <2>5 DEF CleanInv, RunIsNewer
<1>9. CASE UNCHANGED vars
  BY <1>9 DEF vars, CleanInv, EntriesAreNewer, RunIsNewer, BumpIsClean
<1> QED
  BY <1>1, <1>2, <1>3, <1>4, <1>5, <1>6, <1>7, <1>8, <1>9 DEF Next

(* Once everything was invalidated with no run under way, nothing of an    *)
(* older release is in the cache or in a run, then or later.               *)
THEOREM DrainedBumpsAreClean == Spec => []DrainedBumpIsClean
<1>1. Init => CleanInv
  BY DEF Init, CleanInv, EntriesAreNewer, RunIsNewer, BumpIsClean, NoRun, NoBump, Saved
<1>2. CleanInv => DrainedBumpIsClean
  BY DEF CleanInv, EntriesAreNewer, RunIsNewer, DrainedBumpIsClean
<1> QED
  BY <1>1, <1>2, NextClean, CacheTypeCorrect, PTL DEF Spec

-----------------------------------------------------------------------------
(* The counters of RateLimits.                                            *)

USE RateAssumption

Bookings == {"ttl", "expire", "decide", "held"}
Owing    == {"committed", "queued"}
Creating == {"working"} \cup Owing

(* The steps of a request to create before it is counted, or without.      *)
CreateStep(c) ==
    \/ CheckUnanswered(c) \/ Create(c) \/ Enqueue(c) \/ CountUnanswered(c) \/ LoseRequest(c)

(* Which places a caller can be at depends on what it counts.              *)
PlacesOfKind ==
    \A c \in Callers :
        /\ kind = "create" => pc[c] \in {"idle", "expire", "decide"} \cup Creating
        /\ kind \notin {"create", "slots"} => pc[c] \in {"idle", "ttl", "expire", "decide"}
        /\ kind = "slots" => pc[c] \notin Creating

(* A counter of calls never falls below 0; one of slots does, when it went *)
(* while slots were held, but not by more than the callers who hold none.  *)
NotFarBelowZero ==
    /\ kind # "slots" => n >= 0
    /\ kind = "slots" => n >= Cardinality(At(Bookings)) - Cardinality(Callers)

TypeInv == LimitsTypeOK /\ PlacesOfKind /\ NotFarBelowZero

-----------------------------------------------------------------------------
(* How many callers are at some places. *)

LEMMA CallersAreCounted == Cardinality(Callers) \in Nat
BY FS_CardinalityType

LEMMA CountOfAt ==
    ASSUME NEW S
    PROVE  /\ IsFiniteSet(At(S)) /\ Cardinality(At(S)) \in Nat
           /\ Cardinality(At(S)) <= Cardinality(Callers)
<1>1. At(S) \subseteq Callers
  BY DEF At
<1> QED
  BY <1>1, FS_Subset, FS_CardinalityType

(* One caller moves: the count changes by whether it arrives and leaves.   *)
LEMMA CountOfMove ==
    ASSUME NEW S, NEW c \in Callers, NEW place,
           pc \in [Callers -> CallerPlaces], Moves(c, place)
    PROVE  /\ place \in S /\ pc[c] \in S => Cardinality(At(S))' = Cardinality(At(S))
           /\ place \notin S /\ pc[c] \notin S => Cardinality(At(S))' = Cardinality(At(S))
           /\ place \in S /\ pc[c] \notin S => Cardinality(At(S))' = Cardinality(At(S)) + 1
           /\ place \notin S /\ pc[c] \in S => Cardinality(At(S))' = Cardinality(At(S)) - 1
<1>1. \A d \in Callers : pc'[d] = IF d = c THEN place ELSE pc[d]
  BY DEF Moves
<1>2. IsFiniteSet(At(S))
  BY CountOfAt
<1>3. ASSUME place \in S <=> pc[c] \in S PROVE At(S)' = At(S)
  BY <1>1, <1>3 DEF At
<1>4. ASSUME place \in S, pc[c] \notin S PROVE Cardinality(At(S))' = Cardinality(At(S)) + 1
  <2>1. At(S)' = At(S) \cup {c} /\ c \notin At(S)
    BY <1>1, <1>4 DEF At
  <2> QED
    BY <2>1, <1>2, FS_AddElement
<1>5. ASSUME place \notin S, pc[c] \in S PROVE Cardinality(At(S))' = Cardinality(At(S)) - 1
  <2>1. At(S)' = At(S) \ {c} /\ c \in At(S)
    BY <1>1, <1>5 DEF At
  <2> QED
    BY <2>1, <1>2, FS_RemoveElement
<1> QED
  BY <1>3, <1>4, <1>5

-----------------------------------------------------------------------------

LEMMA InitTypeInv == LimitsInit => TypeInv
<1> SUFFICES ASSUME LimitsInit PROVE TypeInv
  OBVIOUS
<1>1. At(Bookings) = {}
  BY DEF LimitsInit, At, Bookings
<1>2. LimitsTypeOK
  <2>1. 0 \in -Cardinality(Callers)..MaxCount /\ NoKey \in NoKey..Period /\ "idle" \in CallerPlaces
    BY CallersAreCounted DEF NoKey, CallerPlaces
  <2> QED
    BY <2>1 DEF LimitsInit, LimitsTypeOK
<1>3. NotFarBelowZero
  BY <1>1, FS_EmptySet, CallersAreCounted DEF LimitsInit, NotFarBelowZero
<1> QED
  BY <1>2, <1>3 DEF TypeInv, PlacesOfKind, LimitsInit, Creating, Owing

(* What is common to all steps of a caller.                                *)
LEMMA CallerMoves ==
    ASSUME TypeInv, NEW c \in Callers, CallerStep(c)
    PROVE  kind' = kind /\ \E place \in CallerPlaces : Moves(c, place)
<1> USE DEF CallerPlaces
<1>1. CASE Count(c)
  BY <1>1 DEF Count, FirstCall
<1>2. CASE ReadTtl(c) \/ SetExpiry(c) \/ Answer(c) \/ Check(c)
  BY <1>2 DEF ReadTtl, SetExpiry, Answer, Check
<1>3. CASE CountCreated(c) \/ CreateStep(c)
  BY <1>3 DEF CountCreated, FirstCall, CreateStep, CheckUnanswered, Create, Enqueue, CountUnanswered,
              LoseRequest
<1>4. CASE Acquire(c) \/ Grant(c) \/ Refuse(c)
  BY <1>4 DEF Acquire, Grant, Refuse
<1>5. CASE Release(c) \/ SetZero(c) \/ Lose(c)
  BY <1>5 DEF Release, SetZero, Lose
<1> QED
  BY <1>1, <1>2, <1>3, <1>4, <1>5 DEF CallerStep, CreateStep

(* What a request that is not counted leaves alone.                        *)
LEMMA CreateStepLeaves ==
    ASSUME TypeInv, NEW c \in Callers, CreateStep(c)
    PROVE  /\ UNCHANGED <<kind, n, ttl, seen, lost, wiped>>
           /\ kind = "create"
           /\ pc[c] \in {"idle"} \cup Creating
           /\ \E place \in {"idle"} \cup Creating : Moves(c, place)
<1>1. pc[c] \in Creating => kind = "create"
  <2>1. kind \in Kinds /\ pc[c] \in CallerPlaces /\ PlacesOfKind
    BY DEF TypeInv, LimitsTypeOK
  <2> QED
    BY <2>1 DEF PlacesOfKind, Creating, Owing
<1> QED
  BY <1>1 DEF CreateStep, CheckUnanswered, Create, Enqueue, CountUnanswered, LoseRequest, Creating, Owing

LEMMA CallerKeepsPlaces ==
    ASSUME TypeInv, NEW c \in Callers, CallerStep(c)
    PROVE  PlacesOfKind'
<1>1. PICK place \in CallerPlaces : Moves(c, place)
  BY CallerMoves
<1>2. /\ kind' = kind /\ kind \in Kinds
      /\ \A d \in Callers : pc'[d] = IF d = c THEN place ELSE pc[d]
      /\ PlacesOfKind
  BY <1>1, CallerMoves DEF Moves, TypeInv, LimitsTypeOK
<1>3. /\ kind = "create" => pc'[c] \in {"idle", "expire", "decide"} \cup Creating
      /\ kind \notin {"create", "slots"} => pc'[c] \in {"idle", "ttl", "expire", "decide"}
      /\ kind = "slots" => pc'[c] \notin Creating
  <2> USE <1>2 DEF TypeInv, LimitsTypeOK, PlacesOfKind, Moves, Counting, Kinds, Creating, Owing
  <2>1. CASE Count(c)
    BY <2>1 DEF Count, FirstCall
  <2>2. CASE ReadTtl(c) \/ SetExpiry(c) \/ Answer(c) \/ Check(c)
    BY <2>2 DEF ReadTtl, SetExpiry, Answer, Check
  <2>3. CASE CountCreated(c)
    BY <2>3 DEF CountCreated, FirstCall
  <2>6. CASE CreateStep(c)
    BY <2>6, CreateStepLeaves
  <2>4. CASE Acquire(c) \/ Grant(c) \/ Refuse(c)
    BY <2>4 DEF Acquire, Grant, Refuse
  <2>5. CASE Release(c) \/ SetZero(c) \/ Lose(c)
    BY <2>5 DEF Release, SetZero, Lose
  <2> QED
    BY <2>1, <2>2, <2>3, <2>4, <2>5, <2>6 DEF CallerStep, CreateStep
<1> QED
  BY <1>2, <1>3 DEF PlacesOfKind

LEMMA CallerKeepsNumbers ==
    ASSUME TypeInv, NEW c \in Callers, CallerStep(c)
    PROVE  n' \in -Cardinality(Callers)..MaxCount /\ NotFarBelowZero'
<1>1. PICK N \in Nat, held \in Nat, later \in Nat :
           /\ N = Cardinality(Callers)
           /\ held = Cardinality(At(Bookings)) /\ later = Cardinality(At(Bookings)')
           /\ held <= N /\ later <= N
           /\ n \in Int /\ -N <= n /\ n <= MaxCount
  <2>1. At(Bookings)' \subseteq Callers
    BY DEF At
  <2>2. Cardinality(At(Bookings)') \in Nat /\ Cardinality(At(Bookings)') <= Cardinality(Callers)
    BY <2>1, FS_Subset, FS_CardinalityType
  <2> QED
    BY <2>2, CallersAreCounted, CountOfAt DEF TypeInv, LimitsTypeOK
<1>2. kind' = kind /\ kind \in Kinds /\ pc \in [Callers -> CallerPlaces]
  BY CallerMoves DEF TypeInv, LimitsTypeOK
<1>3. kind # "slots" => n >= 0
  BY DEF TypeInv, NotFarBelowZero
<1>4. kind = "slots" => n >= held - N
  BY <1>1 DEF TypeInv, NotFarBelowZero
<1>5. SUFFICES /\ n' \in Int /\ -N <= n' /\ n' <= MaxCount
               /\ kind # "slots" => n' >= 0
               /\ kind = "slots" => n' >= later - N
  BY <1>1, <1>2 DEF NotFarBelowZero
<1>6. CASE Count(c)
  BY <1>6, <1>1, <1>3 DEF Count, Add, Counting
<1>13. CASE CountCreated(c)
  <2>1. kind = "create"
    BY <1>2, <1>13 DEF CountCreated, TypeInv, PlacesOfKind, Creating, Owing
  <2> QED
    BY <2>1, <1>13, <1>1, <1>3 DEF CountCreated, Add
<1>14. CASE CreateStep(c)
  BY <1>14, <1>1, <1>3, CreateStepLeaves
<1>7. CASE Answer(c) \/ Check(c)
  BY <1>7, <1>1, <1>3 DEF Answer, Check
<1>8. CASE ReadTtl(c) \/ SetExpiry(c) \/ Grant(c)
  <2>1. n' = n /\ later = held
    BY <1>8, <1>2, CountOfMove, <1>1 DEF ReadTtl, SetExpiry, Grant, Bookings
  <2> QED
    BY <2>1, <1>1, <1>3, <1>4
<1>9. CASE Acquire(c)
  <2>1. n' = n + 1 /\ later = held + 1 /\ n < MaxCount /\ kind = "slots"
    BY <1>9, <1>2, CountOfMove, <1>1 DEF Acquire, Add, Bookings
  <2> QED
    BY <2>1, <1>1, <1>4
<1>10. CASE Refuse(c) \/ Release(c)
  <2>1. n' = n - 1 /\ n' = n + (-1) /\ kind = "slots"
    <3>1. Add(-1) /\ kind = "slots"
      BY <1>10, <1>1, <1>2 DEF Refuse, Release, TypeInv, PlacesOfKind, Creating, Owing
    <3> QED
      BY <3>1, <1>1, <1>2 DEF Add, TypeInv
  <2>2. \E place \in CallerPlaces \ Bookings : Moves(c, place) /\ pc[c] \in Bookings
    BY <1>10 DEF Refuse, Release, Bookings, CallerPlaces
  <2>3. later = held - 1
    BY <2>2, <1>2, CountOfMove, <1>1 DEF Bookings
  <2> QED
    BY <2>1, <2>3, <1>1, <1>4
<1>11. CASE SetZero(c)
  <2>1. n' = 0
    BY <1>11 DEF SetZero
  <2> QED
    BY <2>1, <1>1
<1>12. CASE Lose(c)
  <2>1. n' = n /\ Moves(c, "idle") /\ "idle" \notin Bookings
    BY <1>12 DEF Lose, Bookings
  <2>2. later = held \/ later = held - 1
    BY <2>1, <1>2, CountOfMove, <1>1
  <2>3. later <= held
    BY <2>2, <1>1
  <2>4. kind = "slots" => n >= later - N
    BY <2>3, <1>1, <1>4
  <2> QED
    BY <2>1, <2>4, <1>1, <1>3
<1> QED
  BY <1>6, <1>7, <1>8, <1>9, <1>10, <1>11, <1>12, <1>13, <1>14 DEF CallerStep, CreateStep

LEMMA CallerKeepsTypes ==
    ASSUME TypeInv, NEW c \in Callers, CallerStep(c)
    PROVE  LimitsTypeOK'
<1> DEFINE Answers == -Cardinality(Callers)..MaxCount
<1>1. /\ kind' \in Kinds /\ n' \in Answers /\ pc' \in [Callers -> CallerPlaces]
  BY CallerMoves, CallerKeepsNumbers DEF TypeInv, LimitsTypeOK, Moves
<1>2. 0 \in Answers
  BY CallersAreCounted
<1>3. /\ kind \in Kinds /\ n \in Answers /\ ttl \in NoKey..Period /\ made \in Nat /\ amiss \in Nat /\ lost \in Nat
      /\ seen \in [Callers -> Answers] /\ wiped \in BOOLEAN
  BY DEF TypeInv, LimitsTypeOK
<1>4. ttl' \in NoKey..Period
  <2>1. NoKey \in NoKey..Period /\ NoExpiry \in NoKey..Period /\ Period \in NoKey..Period
    BY DEF NoKey, NoExpiry
  <2> HIDE DEF Answers
  <2>4. CASE CreateStep(c)
    BY <1>3, <2>4, CreateStepLeaves
  <2>2. CASE Count(c) \/ CountCreated(c) \/ Acquire(c) \/ Refuse(c) \/ Release(c) \/ SetExpiry(c)
    BY <2>1, <2>2, <1>3 DEF Count, CountCreated, Acquire, Refuse, Release, SetExpiry, Add, ExpireKey
  <2>3. CASE ReadTtl(c) \/ Answer(c) \/ Check(c) \/ Grant(c) \/ SetZero(c) \/ Lose(c)
    BY <2>1, <2>3, <1>3 DEF ReadTtl, Answer, Check, Grant, SetZero, Lose
  <2> QED
    BY <2>2, <2>3, <2>4 DEF CallerStep, CreateStep
<1>5. made' \in Nat /\ amiss' \in Nat /\ lost' \in Nat /\ wiped' \in BOOLEAN
  <2> HIDE DEF Answers
  <2>1. CASE Lose(c) \/ CountCreated(c)
    BY <2>1, <1>3 DEF Lose, CountCreated
  <2>5. CASE CreateStep(c)
    <3>1. made' \in {made, made + 1} /\ amiss' \in {amiss, amiss + 1}
      BY <2>5 DEF CreateStep, CheckUnanswered, Create, Enqueue, CountUnanswered, LoseRequest
    <3> QED
      BY <3>1, <1>3, <2>5, CreateStepLeaves
  <2>4. CASE SetZero(c)
    BY <2>4, <1>3, Zenon DEF SetZero
  <2>2. CASE Count(c) \/ ReadTtl(c) \/ SetExpiry(c) \/ Answer(c) \/ Check(c)
    BY <2>2, <1>3 DEF Count, ReadTtl, SetExpiry, Answer, Check
  <2>3. CASE Acquire(c) \/ Grant(c) \/ Refuse(c) \/ Release(c)
    BY <2>3, <1>3 DEF Acquire, Grant, Refuse, Release
  <2> QED
    BY <2>1, <2>2, <2>3, <2>4, <2>5 DEF CallerStep, CreateStep
<1>6. seen' \in [Callers -> Answers]
  <2>1. CASE Acquire(c)
    <3>1. n' = n + 1
      BY <2>1 DEF Acquire, Add
    <3>2. seen' = [seen EXCEPT ![c] = n']
      BY <2>1, <3>1 DEF Acquire
    <3> HIDE DEF Answers
    <3> QED
      BY <3>2, <1>1, <1>3
  <2> HIDE DEF Answers
  <2>2. CASE Grant(c) \/ Refuse(c) \/ Lose(c)
    BY <2>2, <1>2, <1>3 DEF Grant, Refuse, Lose
  <2>3. CASE Count(c) \/ ReadTtl(c) \/ SetExpiry(c) \/ Answer(c) \/ Check(c)
    BY <2>3, <1>3 DEF Count, ReadTtl, SetExpiry, Answer, Check
  <2>4. CASE CountCreated(c) \/ Release(c) \/ SetZero(c)
    BY <2>4, <1>3 DEF CountCreated, Release, SetZero
  <2>5. CASE CreateStep(c)
    BY <1>3, <2>5, CreateStepLeaves
  <2> QED
    BY <2>1, <2>2, <2>3, <2>4, <2>5 DEF CallerStep, CreateStep
<1> QED
  BY <1>1, <1>4, <1>5, <1>6 DEF LimitsTypeOK

LEMMA TickKeepsTypes ==
    ASSUME TypeInv, SecondsPass
    PROVE  TypeInv'
<1>1. At(Bookings)' = At(Bookings)
  BY DEF SecondsPass, At
<1>2. /\ kind' = kind /\ pc' = pc /\ seen' = seen
      /\ n' = n \/ n' = 0
  BY DEF SecondsPass
<1>3. 0 \in -Cardinality(Callers)..MaxCount
  BY CallersAreCounted
<1>4. ttl' \in NoKey..Period /\ made' \in Nat /\ amiss' \in Nat /\ lost' \in Nat
  BY DEF SecondsPass, TypeInv, LimitsTypeOK, NoKey
<1>8. wiped' \in BOOLEAN
  BY Zenon DEF SecondsPass, TypeInv, LimitsTypeOK
<1>5. LimitsTypeOK'
  BY <1>2, <1>3, <1>4, <1>8 DEF TypeInv, LimitsTypeOK
<1>6. Cardinality(At(Bookings)) <= Cardinality(Callers)
  BY CountOfAt
<1>7. NotFarBelowZero'
  BY <1>1, <1>2, <1>6, CountOfAt, CallersAreCounted DEF NotFarBelowZero, TypeInv
<1> QED
  BY <1>2, <1>5, <1>7 DEF TypeInv, PlacesOfKind

LEMMA NextTypeInv == TypeInv /\ [LimitsNext]_limitsVars => TypeInv'
<1> SUFFICES ASSUME TypeInv, [LimitsNext]_limitsVars PROVE TypeInv'
  OBVIOUS
<1>1. ASSUME NEW c \in Callers, CallerStep(c) PROVE TypeInv'
  BY <1>1, CallerKeepsPlaces, CallerKeepsNumbers, CallerKeepsTypes DEF TypeInv
<1>2. CASE SecondsPass
  BY <1>2, TickKeepsTypes
<1>3. CASE UNCHANGED limitsVars
  <2>1. At(Bookings)' = At(Bookings)
    BY <1>3 DEF limitsVars, At
  <2> QED
    BY <2>1, <1>3 DEF limitsVars, TypeInv, LimitsTypeOK, PlacesOfKind, NotFarBelowZero
<1> QED
  BY <1>1, <1>2, <1>3 DEF LimitsNext

(* Every counter stays within the bound and no further below zero than     *)
(* there are callers, and a caller is only where its kind of call goes     *)
(* (rate_limiter.py 63-335, presentations.py 56-97, 339-395).                      *)
THEOREM LimitsTypeCorrect == LimitsSpec => []TypeInv
BY InitTypeInv, NextTypeInv, PTL DEF LimitsSpec

-----------------------------------------------------------------------------
(* Creating presentations: a request that has passed the check was below   *)
(* the limit then, and everyone else may have passed with it.              *)

(* What was created is counted, or will be, or has gone amiss.             *)
MadeAreCounted ==
    /\ kind # "create" => made = 0
    /\ kind = "create" => made <= n + amiss + Cardinality(At(Owing))

RoomForWorking ==
    kind = "create" =>
        made + Cardinality(At({"working"})) <= Limit + Cardinality(Callers) - 1 + amiss

CreateInv == MadeAreCounted /\ RoomForWorking

(* Callers of two kinds are no more than there are callers.                *)
LEMMA DisjointCallers ==
    ASSUME NEW S, NEW T, S \subseteq Callers, T \subseteq Callers, S \cap T = {}
    PROVE  /\ Cardinality(S) \in Nat /\ Cardinality(T) \in Nat
           /\ Cardinality(S) + Cardinality(T) <= Cardinality(Callers)
<1>1. /\ IsFiniteSet(S) /\ IsFiniteSet(T)
      /\ Cardinality(S) \in Nat /\ Cardinality(T) \in Nat
  BY FS_Subset, FS_CardinalityType
<1>2. Cardinality(S \cup T) = Cardinality(S) + Cardinality(T)
  <2>1. Cardinality(S \cup T) = Cardinality(S) + Cardinality(T) - Cardinality(S \cap T)
    BY <1>1, FS_Union
  <2>2. Cardinality(S \cap T) = 0
    BY FS_EmptySet
  <2> QED
    BY <1>1, <2>1, <2>2
<1>3. S \cup T \subseteq Callers
  OBVIOUS
<1>4. Cardinality(S \cup T) <= Cardinality(Callers)
  BY <1>3, FS_Subset
<1> QED
  BY <1>1, <1>2, <1>4

One(b) == IF b THEN 1 ELSE 0

LEMMA CreatingMoves ==
    ASSUME NEW c \in Callers, NEW place, pc \in [Callers -> CallerPlaces], Moves(c, place)
    PROVE  /\ Cardinality(At({"working"}))' =
                 Cardinality(At({"working"})) + One(place = "working") - One(pc[c] = "working")
           /\ Cardinality(At(Owing))' =
                 Cardinality(At(Owing)) + One(place \in Owing) - One(pc[c] \in Owing)
<1>1. Cardinality(At({"working"})) \in Nat /\ Cardinality(At(Owing)) \in Nat
  BY CountOfAt
<1>2. Cardinality(At({"working"}))' =
        Cardinality(At({"working"})) + One(place = "working") - One(pc[c] = "working")
  <2> DEFINE W == Cardinality(At({"working"}))
  <2>1. /\ place = "working" /\ pc[c] = "working" => W' = W
        /\ place # "working" /\ pc[c] # "working" => W' = W
        /\ place = "working" /\ pc[c] # "working" => W' = W + 1
        /\ place # "working" /\ pc[c] = "working" => W' = W - 1
    <3>1. \A x : x \in {"working"} <=> x = "working"
      OBVIOUS
    <3> QED
      BY <3>1, CountOfMove
  <2>2. W \in Nat
    BY <1>1
  <2> QED
    BY <2>1, <2>2 DEF One
<1>3. Cardinality(At(Owing))' =
        Cardinality(At(Owing)) + One(place \in Owing) - One(pc[c] \in Owing)
  BY <1>1, CountOfMove DEF One
<1> QED
  BY <1>2, <1>3

LEMMA NextCreate ==
    ASSUME TypeInv, CreateInv, [LimitsNext]_limitsVars
    PROVE  CreateInv'
<1>1. kind' = kind /\ pc \in [Callers -> CallerPlaces]
  BY CallerMoves DEF LimitsNext, SecondsPass, limitsVars, TypeInv, LimitsTypeOK
<1>2. PICK N \in Nat, w \in Nat, o \in Nat, w1 \in Nat, o1 \in Nat :
           /\ N = Cardinality(Callers)
           /\ w = Cardinality(At({"working"})) /\ o = Cardinality(At(Owing))
           /\ w1 = Cardinality(At({"working"}))' /\ o1 = Cardinality(At(Owing))'
           /\ w + o <= N /\ w1 + o1 <= N
  <2>1. /\ At({"working"}) \subseteq Callers /\ At(Owing) \subseteq Callers
        /\ At({"working"})' \subseteq Callers /\ At(Owing)' \subseteq Callers
        /\ At({"working"}) \cap At(Owing) = {} /\ At({"working"})' \cap At(Owing)' = {}
    BY DEF At, Owing
  <2>2. /\ Cardinality(At({"working"})) \in Nat /\ Cardinality(At(Owing)) \in Nat
        /\ Cardinality(At({"working"})) + Cardinality(At(Owing)) <= Cardinality(Callers)
    BY <2>1, DisjointCallers
  <2>3. /\ Cardinality(At({"working"})') \in Nat /\ Cardinality(At(Owing)') \in Nat
        /\ Cardinality(At({"working"})') + Cardinality(At(Owing)') <= Cardinality(Callers)
    BY <2>1, DisjointCallers
  <2> QED
    BY <2>2, <2>3, CallersAreCounted
<1>3. n \in Int /\ amiss \in Nat /\ made \in Nat
  BY DEF TypeInv, LimitsTypeOK
<1>4. CASE kind # "create"
  <2>1. made' = made \/ made' = 0
    <3>1. ASSUME NEW c \in Callers, CallerStep(c) PROVE made' = made
      <4>1. pc[c] \notin Creating /\ ~CreateStep(c) /\ ~CountCreated(c)
        BY <1>1, <1>4, CreateStepLeaves DEF CountCreated, TypeInv, LimitsTypeOK, PlacesOfKind, Creating,
                                            Owing, Kinds
      <4>2. CASE Count(c) \/ ReadTtl(c) \/ SetExpiry(c) \/ Answer(c) \/ Check(c) \/ Acquire(c)
        BY <4>2 DEF Count, ReadTtl, SetExpiry, Answer, Check, Acquire
      <4>3. CASE Grant(c) \/ Refuse(c) \/ Release(c) \/ SetZero(c) \/ Lose(c)
        BY <4>3 DEF Grant, Refuse, Release, SetZero, Lose
      <4> QED
        BY <3>1, <4>1, <4>2, <4>3 DEF CallerStep, CreateStep
    <3> QED
      BY <3>1 DEF LimitsNext, SecondsPass, limitsVars
  <2> QED
    BY <1>1, <1>4, <2>1 DEF CreateInv, MadeAreCounted, RoomForWorking
<1>5. CASE kind = "create"
  <2>1. made <= n + amiss + o /\ made + w <= Limit + N - 1 + amiss
    BY <1>2, <1>5 DEF CreateInv, MadeAreCounted, RoomForWorking
  <2>2. SUFFICES made' <= n' + amiss' + o1 /\ made' + w1 <= Limit + N - 1 + amiss'
    BY <1>1, <1>2, <1>5 DEF CreateInv, MadeAreCounted, RoomForWorking
  <2> DEFINE Goal == made' <= n' + amiss' + o1 /\ made' + w1 <= Limit + N - 1 + amiss'
  <2>3. ASSUME NEW c \in Callers, CallerStep(c) PROVE Goal
    <3>1. pc[c] \in {"idle", "expire", "decide"} \cup Creating
      BY <1>5 DEF TypeInv, PlacesOfKind
    <3>2. CASE Check(c)
      <4>1. n < Limit /\ UNCHANGED <<n, made, amiss>> /\ Moves(c, "working") /\ pc[c] = "idle"
        BY <3>2 DEF Check
      <4>2. o1 = o
        BY <4>1, <1>1, <1>2, CreatingMoves DEF One, Owing
      <4> QED
        BY <4>1, <4>2, <1>2, <1>3, <2>1
    <3>3. CASE CheckUnanswered(c)
      <4>1. UNCHANGED <<n, made>> /\ amiss' = amiss + 1 /\ Moves(c, "working") /\ pc[c] = "idle"
        BY <3>3 DEF CheckUnanswered
      <4>2. o1 = o /\ w1 = w + 1
        BY <4>1, <1>1, <1>2, CreatingMoves DEF One, Owing
      <4> QED
        BY <4>1, <4>2, <1>2, <1>3, <2>1
    <3>4. CASE Create(c)
      <4>1. UNCHANGED <<n, amiss>> /\ made' = made + 1 /\ Moves(c, "committed") /\ pc[c] = "working"
        BY <3>4 DEF Create
      <4>2. o1 = o + 1 /\ w1 = w - 1
        BY <4>1, <1>1, <1>2, CreatingMoves DEF One, Owing
      <4> QED
        BY <4>1, <4>2, <1>2, <1>3, <2>1
    <3>5. CASE Enqueue(c)
      <4>1. UNCHANGED <<n, made, amiss>> /\ Moves(c, "queued") /\ pc[c] = "committed"
        BY <3>5 DEF Enqueue
      <4>2. o1 = o /\ w1 = w
        BY <4>1, <1>1, <1>2, CreatingMoves DEF One, Owing
      <4> QED
        BY <4>1, <4>2, <2>1
    <3>6. CASE CountCreated(c)
      <4>1. /\ UNCHANGED <<made, amiss>> /\ n' = n + 1 /\ pc[c] = "queued"
            /\ \E place \in {"expire", "decide"} : Moves(c, place)
        BY <3>6 DEF CountCreated, Add, FirstCall
      <4>2. o1 = o - 1 /\ w1 = w
        BY <4>1, <1>1, <1>2, CreatingMoves DEF One, Owing
      <4> QED
        BY <4>1, <4>2, <1>2, <1>3, <2>1
    <3>7. CASE CountUnanswered(c) \/ (LoseRequest(c) /\ pc[c] # "working")
      <4>1. /\ UNCHANGED <<n, made>> /\ amiss' = amiss + 1
            /\ pc[c] \in Owing /\ pc[c] # "working" /\ Moves(c, "idle")
        BY <3>7 DEF CountUnanswered, LoseRequest, Owing
      <4>2. o1 = o - 1 /\ w1 = w
        BY <4>1, <1>1, <1>2, CreatingMoves DEF One, Owing
      <4> QED
        BY <4>1, <4>2, <1>2, <1>3, <2>1
    <3>8. CASE LoseRequest(c) /\ pc[c] = "working"
      <4>1. UNCHANGED <<n, made, amiss>> /\ Moves(c, "idle")
        BY <3>8 DEF LoseRequest
      <4>2. o1 = o /\ w1 = w - 1
        BY <4>1, <3>8, <1>1, <1>2, CreatingMoves DEF One, Owing
      <4> QED
        BY <4>1, <4>2, <1>2, <1>3, <2>1
    <3>9. CASE SetExpiry(c) \/ Answer(c) \/ Lose(c)
      <4>1. PICK place \in {"idle", "decide"} : Moves(c, place)
        BY <3>9 DEF SetExpiry, Answer, Lose
      <4>2. UNCHANGED <<n, made, amiss>> /\ pc[c] \notin Creating
        BY <3>9 DEF SetExpiry, Answer, Lose, Creating, Owing
      <4>3. o1 = o /\ w1 = w
        BY <4>1, <4>2, <1>1, <1>2, CreatingMoves DEF One, Creating, Owing
      <4> QED
        BY <4>2, <4>3, <2>1
    <3>10. ~Count(c) /\ ~ReadTtl(c) /\ ~Acquire(c) /\ ~Grant(c) /\ ~Refuse(c) /\ ~Release(c) /\ ~SetZero(c)
      BY <1>5, <3>1 DEF Count, Counting, ReadTtl, Acquire, Grant, Refuse, Release, SetZero, Creating, Owing
    <3> QED
      BY <2>3, <3>2, <3>3, <3>4, <3>5, <3>6, <3>7, <3>8, <3>9, <3>10 DEF CallerStep
  <2>4. CASE SecondsPass \/ UNCHANGED limitsVars
    <3>1. pc' = pc /\ (UNCHANGED <<n, made, amiss>> \/ (n' = 0 /\ made' = 0 /\ amiss' = 0))
      BY <2>4 DEF SecondsPass, limitsVars
    <3>2. o1 = o /\ w1 = w
      BY <3>1, <1>2 DEF At
    <3> QED
      BY <3>1, <3>2, <1>2, <1>3, <2>1
  <2> QED
    BY <2>3, <2>4 DEF LimitsNext
<1> QED
  BY <1>4, <1>5

(* However the requests of a user interleave, and however often the        *)
(* counter expires under them, the hour gets no more presentations than    *)
(* the limit, one less than the requests that were under way together, and *)
(* those a fault let through unchecked or left uncounted                   *)
(* (create_presentation, presentations.py 339-395).                        *)
THEOREM OvershootBounded == LimitsSpec => []OvershootIsConcurrent
<1>1. LimitsInit => CreateInv
  <2> SUFFICES ASSUME LimitsInit PROVE CreateInv
    OBVIOUS
  <2>1. At({"working"}) = {} /\ At(Owing) = {} /\ n = 0 /\ made = 0 /\ amiss = 0
    BY DEF LimitsInit, At, Owing
  <2>2. Cardinality(At({"working"})) = 0 /\ Cardinality(At(Owing)) = 0
    BY <2>1, FS_EmptySet
  <2> QED
    BY <2>1, <2>2, CallersAreCounted DEF CreateInv, MadeAreCounted, RoomForWorking
<1>2. TypeInv /\ CreateInv => OvershootIsConcurrent
  BY CountOfAt, CallersAreCounted
     DEF CreateInv, MadeAreCounted, RoomForWorking, TypeInv, LimitsTypeOK, OvershootIsConcurrent
<1> QED
  BY <1>1, <1>2, NextCreate, LimitsTypeCorrect, PTL DEF LimitsSpec

-----------------------------------------------------------------------------
(* Slots.  A caller is entitled to one once INCR has answered at most the  *)
(* limit; who will be refused is counted, but not entitled.                *)

Entitled == {c \in At(Bookings) : pc[c] = "held" \/ seen[c] <= Limit}

SlotInv ==
    kind = "slots" /\ ~wiped =>
        /\ At({"zero"}) = {}
        /\ n <= Cardinality(At(Bookings)) + lost
        /\ n >= Cardinality(At(Bookings))
        /\ Cardinality(Entitled) <= Limit

LEMMA EntitledAreFew ==
    /\ IsFiniteSet(Entitled) /\ Cardinality(Entitled) \in Nat
    /\ Cardinality(Entitled) <= Cardinality(At(Bookings))
BY CountOfAt, FS_Subset, FS_CardinalityType DEF Entitled

(* Only a caller that moves can become entitled.                           *)
LEMMA EntitledGrows ==
    ASSUME NEW c \in Callers, NEW place, pc \in [Callers -> CallerPlaces], Moves(c, place),
           \A d \in Callers : d # c => seen'[d] = seen[d]
    PROVE  /\ Cardinality(Entitled)' \in Nat
           /\ Cardinality(Entitled)' <= Cardinality(Entitled) + 1
           /\ (c \in Entitled' => c \in Entitled) => Cardinality(Entitled)' <= Cardinality(Entitled)
<1>1. \A d \in Callers \ {c} : d \in Entitled' <=> d \in Entitled
  BY DEF Entitled, At, Moves
<1>2. Entitled' \subseteq Entitled \cup {c}
  <2>1. Entitled' \subseteq Callers
    BY DEF Entitled, At
  <2> QED
    BY <2>1, <1>1
<1>3. /\ IsFiniteSet(Entitled \cup {c})
      /\ Cardinality(Entitled \cup {c}) \in Nat
      /\ Cardinality(Entitled \cup {c}) <= Cardinality(Entitled) + 1
  <2>1. /\ IsFiniteSet(Entitled \cup {c})
        /\ Cardinality(Entitled \cup {c}) =
             IF c \in Entitled THEN Cardinality(Entitled) ELSE Cardinality(Entitled) + 1
    BY EntitledAreFew, FS_AddElement
  <2> QED
    BY <2>1, EntitledAreFew
<1>4. /\ Cardinality(Entitled') \in Nat
      /\ Cardinality(Entitled') <= Cardinality(Entitled \cup {c})
  BY <1>2, <1>3, FS_Subset, FS_CardinalityType
<1>5. ASSUME c \in Entitled' => c \in Entitled
      PROVE  Cardinality(Entitled') <= Cardinality(Entitled)
  <2>1. Entitled' \subseteq Entitled
    BY <1>2, <1>5
  <2> QED
    BY <2>1, EntitledAreFew, FS_Subset
<1> QED
  BY <1>3, <1>4, <1>5, EntitledAreFew

(* A counter that has expired stays so.                                    *)
LEMMA WipedStays == TypeInv /\ [LimitsNext]_limitsVars /\ wiped => wiped'
<1> SUFFICES ASSUME TypeInv, [LimitsNext]_limitsVars, wiped PROVE wiped'
  OBVIOUS
<1>1. ASSUME NEW c \in Callers, CallerStep(c) PROVE wiped'
  <2>1. CASE SetZero(c)
    BY <2>1, Zenon DEF SetZero
  <2>4. CASE CreateStep(c)
    BY <2>4, CreateStepLeaves
  <2>2. CASE Count(c) \/ ReadTtl(c) \/ SetExpiry(c) \/ Answer(c) \/ Check(c) \/ CountCreated(c)
    BY <2>2 DEF Count, ReadTtl, SetExpiry, Answer, Check, CountCreated
  <2>3. CASE Acquire(c) \/ Grant(c) \/ Refuse(c) \/ Release(c) \/ Lose(c)
    BY <2>3 DEF Acquire, Grant, Refuse, Release, Lose
  <2> QED
    BY <1>1, <2>1, <2>2, <2>3, <2>4 DEF CallerStep, CreateStep
<1>2. CASE SecondsPass
  BY <1>2, Zenon DEF SecondsPass
<1> QED
  BY <1>1, <1>2 DEF LimitsNext, limitsVars

LEMMA CallerKeepsSlots ==
    ASSUME TypeInv, SlotInv, kind = "slots", ~wiped, NEW c \in Callers, CallerStep(c)
    PROVE  /\ n' <= Cardinality(At(Bookings))' + lost'
           /\ n' >= Cardinality(At(Bookings))'
           /\ Cardinality(Entitled)' <= Limit
           /\ At({"zero"})' = {}
<1>1. PICK b \in Nat, later \in Nat, e \in Nat :
           /\ b = Cardinality(At(Bookings)) /\ later = Cardinality(At(Bookings)')
           /\ e = Cardinality(Entitled)
           /\ n \in Int /\ lost \in Nat /\ n <= MaxCount
           /\ n <= b + lost /\ n >= b /\ e <= b /\ e <= Limit
  <2>1. At(Bookings)' \subseteq Callers
    BY DEF At
  <2>2. Cardinality(At(Bookings)') \in Nat
    BY <2>1, FS_Subset, FS_CardinalityType
  <2> QED
    BY <2>2, EntitledAreFew, CountOfAt, CallersAreCounted DEF TypeInv, LimitsTypeOK, SlotInv
<1>2. /\ pc \in [Callers -> CallerPlaces] /\ pc[c] \in CallerPlaces /\ pc[c] \notin {"zero"} \cup Creating
      /\ seen \in [Callers -> Int]
      /\ \A d \in Callers : pc[d] # "zero"
  BY CallersAreCounted DEF TypeInv, LimitsTypeOK, PlacesOfKind, SlotInv, At
<1>3. ASSUME NEW place, Moves(c, place), place # "zero" PROVE At({"zero"})' = {}
  BY <1>2, <1>3 DEF Moves, At
<1> DEFINE Others == \A d \in Callers : d # c => seen'[d] = seen[d]
           Kept == c \in Entitled' => c \in Entitled
<1>4. CASE ReadTtl(c) \/ SetExpiry(c)
  <2>1. PICK place \in Bookings : Moves(c, place) /\ place \notin {"zero", "held"}
    BY <1>4 DEF ReadTtl, SetExpiry, Bookings
  <2>2. pc[c] \in Bookings /\ n' = n /\ lost' = lost /\ seen' = seen
    BY <1>4 DEF ReadTtl, SetExpiry, Bookings
  <2>3. later = b
    BY <1>1, <1>2, <2>1, <2>2, CountOfMove
  <2>4. Others /\ Kept
    BY <1>2, <2>1, <2>2 DEF Entitled, At, Moves
  <2>5. Cardinality(Entitled)' <= e /\ Cardinality(Entitled)' \in Nat
    BY <1>1, <1>2, <2>1, <2>4, EntitledGrows
  <2> QED
    BY <1>1, <1>3, <2>1, <2>2, <2>3, <2>5
<1>5. CASE Acquire(c)
  <2>1. /\ Moves(c, "ttl") /\ "ttl" \in Bookings /\ pc[c] \notin Bookings
        /\ n' = n + 1 /\ lost' = lost /\ seen' = [seen EXCEPT ![c] = n + 1]
    BY <1>5 DEF Acquire, Add, Bookings
  <2>2. later = b + 1
    BY <1>1, <1>2, <2>1, CountOfMove
  <2>3. Others /\ seen'[c] = n + 1 /\ pc'[c] = "ttl"
    BY <1>2, <2>1 DEF Moves
  <2>4. /\ Cardinality(Entitled)' \in Nat /\ Cardinality(Entitled)' <= e + 1
        /\ Kept => Cardinality(Entitled)' <= e
    BY <1>1, <1>2, <2>1, <2>3, EntitledGrows
  <2>5. ~Kept => n + 1 <= Limit
    BY <2>3 DEF Entitled
  <2>6. Cardinality(Entitled)' <= Limit
    BY <1>1, <2>4, <2>5
  <2> QED
    BY <1>1, <1>3, <2>1, <2>2, <2>6
<1>6. CASE Grant(c)
  <2>1. /\ Moves(c, "held") /\ "held" \in Bookings /\ pc[c] \in Bookings
        /\ n' = n /\ lost' = lost /\ seen' = [seen EXCEPT ![c] = 0] /\ seen[c] <= Limit
    BY <1>6 DEF Grant, Grants, Bookings
  <2>2. later = b
    BY <1>1, <1>2, <2>1, CountOfMove
  <2>3. Others /\ Kept
    BY <1>2, <2>1 DEF Entitled, At
  <2>4. Cardinality(Entitled)' <= e /\ Cardinality(Entitled)' \in Nat
    BY <1>1, <1>2, <2>1, <2>3, EntitledGrows
  <2> QED
    BY <1>1, <1>3, <2>1, <2>2, <2>4
<1>7. CASE Refuse(c) \/ Release(c)
  <2>1. /\ pc[c] \in Bookings /\ n' = n + (-1) /\ lost' = lost
        /\ Moves(c, "idle") \/ n - 1 < 0
    BY <1>7 DEF Refuse, Release, Add, Bookings
  <2>8. Others /\ n' = n - 1
    BY <1>1, <1>2, <1>7, <2>1 DEF Refuse, Release
  <2>2. c \in At(Bookings)
    BY <2>1 DEF At
  <2>3. b # 0
    BY <1>1, <2>2, CountOfAt, FS_EmptySet
  <2>4. Moves(c, "idle") /\ "idle" \notin Bookings
    BY <1>1, <2>1, <2>3 DEF Bookings
  <2>5. later = b - 1
    BY <1>1, <1>2, <2>1, <2>4, CountOfMove
  <2>6. Kept
    BY <1>2, <2>4 DEF Entitled, At, Moves, Bookings
  <2>7. Cardinality(Entitled)' <= e /\ Cardinality(Entitled)' \in Nat
    BY <1>1, <1>2, <2>4, <2>6, <2>8, EntitledGrows
  <2> QED
    BY <1>1, <1>3, <2>1, <2>4, <2>5, <2>7, <2>8
<1>8. CASE Lose(c)
  <2>1. /\ pc[c] \in Bookings /\ Moves(c, "idle") /\ "idle" \notin Bookings
        /\ n' = n /\ Others
        /\ lost' = IF lost < MaxCount THEN lost + 1 ELSE lost
    BY <1>2, <1>8 DEF Lose, Bookings, CallerPlaces
  <2>2. later = b - 1
    BY <1>1, <1>2, <2>1, CountOfMove
  <2>3. Kept
    BY <1>2, <2>1 DEF Entitled, At, Moves, Bookings
  <2>4. Cardinality(Entitled)' <= e /\ Cardinality(Entitled)' \in Nat
    BY <1>1, <1>2, <2>1, <2>3, EntitledGrows
  <2> QED
    BY <1>1, <1>3, <2>1, <2>2, <2>4
<1>9. ~Count(c) /\ ~Answer(c) /\ ~Check(c) /\ ~CreateStep(c) /\ ~CountCreated(c) /\ ~SetZero(c)
  BY <1>2, CreateStepLeaves DEF Count, Counting, Answer, Check, CountCreated, SetZero, Creating, Owing
<1> QED
  BY <1>4, <1>5, <1>6, <1>7, <1>8, <1>9 DEF CallerStep, CreateStep

LEMMA NextSlots ==
    ASSUME TypeInv, SlotInv, [LimitsNext]_limitsVars
    PROVE  SlotInv'
<1>1. kind' = kind
  BY CallerMoves DEF LimitsNext, SecondsPass, limitsVars
<1>2. SUFFICES ASSUME kind = "slots", ~wiped, ~wiped' PROVE SlotInv'
  BY <1>1, WipedStays DEF SlotInv
<1>3. ASSUME NEW c \in Callers, CallerStep(c) PROVE SlotInv'
  BY <1>2, <1>3, CallerKeepsSlots DEF SlotInv
<1>4. CASE UNCHANGED limitsVars \/ (SecondsPass /\ ttl > 1)
  <2>1. UNCHANGED <<n, lost, pc, seen>>
    BY <1>4 DEF SecondsPass, limitsVars
  <2>2. /\ At(Bookings)' = At(Bookings) /\ At({"zero"})' = At({"zero"})
        /\ Entitled' = Entitled
    BY <2>1 DEF At, Entitled
  <2> QED
    BY <2>1, <2>2, <1>2 DEF SlotInv
<1>5. CASE SecondsPass /\ ~(ttl > 1)
  <2>1. At({"ttl", "expire", "decide", "held", "zero"}) = {}
    BY <1>2, <1>5, Zenon DEF SecondsPass
  <2>2. n' = 0 /\ lost' = 0 /\ pc' = pc
    BY <1>5 DEF SecondsPass
  <2>3. At(Bookings)' = {} /\ At({"zero"})' = {} /\ Entitled' = {}
    BY <2>1, <2>2 DEF At, Entitled, Bookings
  <2> QED
    BY <2>2, <2>3, FS_EmptySet DEF SlotInv
<1> QED
  BY <1>3, <1>4, <1>5 DEF LimitsNext

(* As long as it has not expired under them, the counter is the number of  *)
(* slots held, asked for or lost with their process, and no more than the  *)
(* limit are held, for any number of callers that ask, give back and die   *)
(* (acquire_concurrent_slot and release_concurrent_slot, rate_limiter.py). *)
THEOREM SlotsAreAccounted == LimitsSpec => []SlotsAccounted
<1>1. LimitsInit => SlotInv
  <2> SUFFICES ASSUME LimitsInit PROVE SlotInv
    OBVIOUS
  <2>1. n = 0 /\ lost = 0 /\ At(Bookings) = {} /\ At({"zero"}) = {} /\ Entitled = {}
    BY DEF LimitsInit, At, Entitled, Bookings
  <2> QED
    BY <2>1, FS_EmptySet DEF SlotInv
<1>2. TypeInv /\ SlotInv => SlotsAccounted
  <2> SUFFICES ASSUME TypeInv, SlotInv, kind = "slots", ~wiped
               PROVE  /\ n <= Cardinality(At(Bookings)) + lost
                      /\ n >= Cardinality(At(Bookings))
                      /\ Cardinality(At({"held"})) <= Limit
    BY DEF SlotsAccounted, Bookings
  <2>1. At({"held"}) \subseteq Entitled
    BY DEF At, Entitled, Bookings
  <2>2. Cardinality(At({"held"})) <= Cardinality(Entitled)
    BY <2>1, EntitledAreFew, FS_Subset
  <2> QED
    BY <2>2, CountOfAt, EntitledAreFew DEF SlotInv
<1> QED
  BY <1>1, <1>2, NextSlots, LimitsTypeCorrect, PTL DEF LimitsSpec

=============================================================================
